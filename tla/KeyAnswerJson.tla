--------------------------- MODULE KeyAnswerJson ----------------------------
(***************************************************************************)
(* PublicKeyAnswer of src/src/key_answer.rs: the JSON body of the public   *)
(* key end point, how it is written, read and checked.                     *)
(*                                                                         *)
(* A text is a sequence of numbered atoms.  The characters the code gives  *)
(* a meaning are atoms of their own, below zero; every run of characters   *)
(* without one is a single atom, the moments in RFC 3339 among them.       *)
(***************************************************************************)
EXTENDS Integers, Sequences, SequencesExt

CONSTANTS
  None,      \* Option::None
  Readable,  \* the texts that are public keys in SPKI PEM form
  Second     \* ticks to the second

Quote == -1
Backslash == -2
Open == -3
Close == -4
Colon == -5
Comma == -6
Space == -7
LineFeed == -8
Return == -9
Tab == -10
Backspace == -11   \* for every other control character

LetterN == 1
LetterR == 2
LetterT == 3
LetterU == 4
LetterB == 5
HexDigits == 6     \* the four digits of Backspace
Slash == 7
Null == 8
Format == 9
PublicKey == 10
ValidFrom == 11
ValidTo == 12
Spki == 13

\* The text of a moment, a few before the base date among them.
EarliestMoment == 80
BaseMoment == 100
MomentText(tick) == <<BaseMoment + tick>>

\* The moments a text can hold.
Moments == {tick \in Int : BaseMoment + tick >= EarliestMoment}

\* The texts are of atoms, and the first moment a text can hold is a whole second.
ASSUME TextsAssumption == None \notin Int /\ None \notin Seq(Int) /\ Readable \subseteq Seq(Int)
ASSUME SecondAssumption ==
  Second \in Nat \ {0} /\ (BaseMoment - EarliestMoment) % Second = 0

Whitespace == {Space, LineFeed, Return, Tab}

-----------------------------------------------------------------------------
(***************************************************************************)
(* Writing.                                                                *)
(***************************************************************************)

\* A mutant: a backslash is written as it is.
EscapeNotBackslash(atom) ==
  CASE atom = Quote -> <<Backslash, Quote>>
    [] atom = LineFeed -> <<Backslash, LetterN>>
    [] atom = Return -> <<Backslash, LetterR>>
    [] atom = Tab -> <<Backslash, LetterT>>
    [] atom = Backspace -> <<Backslash, LetterU, HexDigits>>
    [] OTHER -> <<atom>>

Escape(atom) ==
  CASE atom = Quote -> <<Backslash, Quote>>
    [] atom = Backslash -> <<Backslash, Backslash>>
    [] atom = LineFeed -> <<Backslash, LetterN>>
    [] atom = Return -> <<Backslash, LetterR>>
    [] atom = Tab -> <<Backslash, LetterT>>
    [] atom = Backspace -> <<Backslash, LetterU, HexDigits>>
    [] OTHER -> <<atom>>

\* write_string.
WriteString(text) ==
  LET from[i \in 1 .. Len(text) + 1] ==
        IF i > Len(text) THEN <<Quote>> ELSE Escape(text[i]) \o from[i + 1]
  IN <<Quote>> \o from[1]

\* A moment as it is written, to the second it is in.
ToSeconds(moment) == IF moment = None THEN None ELSE (moment \div Second) * Second

\* write_moment.
WriteMoment(moment) ==
  IF moment = None THEN <<Null>> ELSE WriteString(MomentText(ToSeconds(moment)))

\* A mutant: the end of the period is not written.
ToJsonWithoutEnd(answer) ==
  <<Open>> \o WriteString(<<Format>>) \o <<Colon>> \o WriteString(answer.format)
    \o <<Comma>> \o WriteString(<<PublicKey>>) \o <<Colon>> \o WriteString(answer.public_key)
    \o <<Comma>> \o WriteString(<<ValidFrom>>) \o <<Colon>> \o WriteMoment(answer.valid_from)
    \o <<Comma>> \o WriteString(<<ValidTo>>) \o <<Colon>> \o WriteMoment(None)
    \o <<Close>>

\* to_json.
ToJson(answer) ==
  <<Open>> \o WriteString(<<Format>>) \o <<Colon>> \o WriteString(answer.format)
    \o <<Comma>> \o WriteString(<<PublicKey>>) \o <<Colon>> \o WriteString(answer.public_key)
    \o <<Comma>> \o WriteString(<<ValidFrom>>) \o <<Colon>> \o WriteMoment(answer.valid_from)
    \o <<Comma>> \o WriteString(<<ValidTo>>) \o <<Colon>> \o WriteMoment(answer.valid_to)
    \o <<Close>>

-----------------------------------------------------------------------------
(***************************************************************************)
(* Reading.  Every result says whether the text could be read.             *)
(***************************************************************************)
NotJson == [json |-> FALSE]

\* The atom at a place, and none (0) past the end.
AtomAt(text, at) == IF at <= Len(text) THEN text[at] ELSE 0

\* skip_space.
SkipSpace(text, at) ==
  Min({i \in at .. Len(text) + 1 : i > Len(text) \/ text[i] \notin Whitespace})

\* What an atom after a backslash stands for.
Escapes == {Quote, Backslash, Slash, LetterB, LetterN, LetterR, LetterT}

Unescape(atom) ==
  CASE atom = LetterB -> Backspace
    [] atom = LetterN -> LineFeed
    [] atom = LetterR -> Return
    [] atom = LetterT -> Tab
    [] OTHER -> atom

Prefixed(atom, read) == IF read.json THEN [read EXCEPT !.value = <<atom>> \o @] ELSE read

\* read_string: the value of the string that begins at a place, and what follows.
ReadString(text, at) ==
  LET from[i \in 1 .. Len(text) + 1] ==
        IF i > Len(text) THEN NotJson
        ELSE IF text[i] = Quote THEN [json |-> TRUE, value |-> << >>, next |-> i + 1]
        ELSE IF text[i] # Backslash THEN Prefixed(text[i], from[i + 1])
        ELSE IF AtomAt(text, i + 1) \in Escapes
             THEN Prefixed(Unescape(text[i + 1]), from[i + 2])
        ELSE IF AtomAt(text, i + 1) = LetterU /\ AtomAt(text, i + 2) = HexDigits
             THEN Prefixed(Backspace, from[i + 3])
        ELSE NotJson
  IN IF AtomAt(text, at) = Quote THEN from[at + 1] ELSE NotJson

\* A field of read_flat_object: a name, a colon and a string or null.
ReadValue(text, at) ==
  IF AtomAt(text, at) = Null THEN [json |-> TRUE, value |-> None, next |-> at + 1]
  ELSE ReadString(text, at)

WithName(name, read) ==
  IF read.json THEN [json |-> TRUE, name |-> name, value |-> read.value, next |-> read.next]
  ELSE NotJson

FieldNamed(text, name, colon) ==
  IF ~name.json THEN NotJson
  ELSE IF AtomAt(text, colon) # Colon THEN NotJson
  ELSE WithName(name.value, ReadValue(text, SkipSpace(text, colon + 1)))

ReadField(text, at) ==
  LET name == ReadString(text, at)
  IN FieldNamed(text, name, SkipSpace(text, name.next))

NoFields == [json |-> TRUE, fields |-> << >>]

\* What may follow the last field: the end of the text.
Ends(text, at) == SkipSpace(text, at) > Len(text)

\* A mutant: a text that stops after a field is read as one that is closed.
AfterFieldOrEnd(text, at) ==
  CASE AtomAt(text, at) = Close /\ Ends(text, at + 1) -> "end"
    [] AtomAt(text, at) = Comma -> "field"
    [] at > Len(text) -> "end"
    [] OTHER -> "fault"

\* What follows a field.
AfterField(text, at) ==
  CASE AtomAt(text, at) = Close /\ Ends(text, at + 1) -> "end"
    [] AtomAt(text, at) = Comma -> "field"
    [] OTHER -> "fault"

\* The object of a field and of those after it.
Joined(field, rest) ==
  IF rest.json THEN [json |-> TRUE, fields |-> <<field>> \o rest.fields] ELSE NotJson

\* Where the object begins, and where its first field or its end is.
OpenAt(text) == SkipSpace(text, 1)
FirstAt(text) == SkipSpace(text, OpenAt(text) + 1)

\* The fields from the one at a place on, by those from every place after it.
FieldsFrom(text, field, from) ==
  LET next == SkipSpace(text, field.next)
      after == AfterField(text, next)
  IN IF ~field.json THEN NotJson
     ELSE CASE after = "end" -> Joined(field, NoFields)
            [] after = "field" -> Joined(field, from[next + 1])
            [] after = "fault" -> NotJson

\* read_flat_object.
ReadFlatObject(text) ==
  LET from[at \in 1 .. Len(text) + 1] ==
        FieldsFrom(text, ReadField(text, SkipSpace(text, at)), from)
  IN IF AtomAt(text, OpenAt(text)) # Open THEN NotJson
     ELSE IF AtomAt(text, FirstAt(text)) = Close
          THEN IF Ends(text, FirstAt(text) + 1) THEN NoFields ELSE NotJson
     ELSE from[FirstAt(text)]

\* The first field of a name, None where there is none or it is null.
Field(fields, name) ==
  LET named == {i \in DOMAIN fields : fields[i].name = <<name>>}
  IN IF named = {} THEN None ELSE fields[Min(named)].value

IsMoment(text) == Len(text) = 1 /\ text[1] >= EarliestMoment

\* moment.
MomentOf(text) == IF text = None THEN None ELSE text[1] - BaseMoment

\* The answer an object holds, whose moments must be moments.
AnswerIn(object) ==
  LET from == Field(object.fields, ValidFrom)
      to == Field(object.fields, ValidTo)
      format == Field(object.fields, Format)
      public_key == Field(object.fields, PublicKey)
  IN IF ~object.json THEN NotJson
     ELSE IF (from # None /\ ~IsMoment(from)) \/ (to # None /\ ~IsMoment(to)) THEN NotJson
     ELSE [json |-> TRUE,
           answer |-> [format |-> IF format = None THEN <<Spki>> ELSE format,
                       public_key |-> IF public_key = None THEN << >> ELSE public_key,
                       valid_from |-> MomentOf(from), valid_to |-> MomentOf(to)]]

\* PublicKeyAnswer::parse.
Parse(text) == AnswerIn(ReadFlatObject(text))

-----------------------------------------------------------------------------
(***************************************************************************)
(* PublicKeyAnswer::new and validate.                                      *)
(***************************************************************************)
NewAnswer(pem, from, to) ==
  [format |-> <<Spki>>, public_key |-> pem, valid_from |-> from, valid_to |-> to]

\* validate, for the moment asked about or None.
Validates(answer, asked) ==
  /\ answer.format = <<Spki>>
  /\ answer.public_key \in Readable
  /\ answer.valid_to # None => answer.valid_from # None /\ answer.valid_from < answer.valid_to
  /\ asked # None =>
       /\ answer.valid_from # None => answer.valid_from <= asked
       /\ answer.valid_to # None => asked < answer.valid_to
=============================================================================
