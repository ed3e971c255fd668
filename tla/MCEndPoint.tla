----------------------------- MODULE MCEndPoint -----------------------------
(***************************************************************************)
(* Model checking of EndPoint: three keys, one of which cannot be read, in *)
(* every order over starts of a second or two and of a minute's length,    *)
(* and bodies that come close to an answer.                                *)
(***************************************************************************)
EXTENDS EndPoint, TLC

\* Texts of lines that end as a PEM's do, and one that is no key.
FirstPem == <<20, LineFeed, 21>>
SecondPem == <<22, Return, LineFeed, 23>>
NoPem == <<Quote, Backslash, Tab, Backspace, 24>>

ThreeTexts == <<FirstPem, SecondPem, NoPem>>
ReadableTexts == {FirstPem, SecondPem}

StartsConsidered == {0, 3, 4, 5, 8}
DatesConsidered == {EmptyDate, JunkDate, 0, 1, 9}
FormatsConsidered == {<<Spki>>, <<25>>}

Named(name) == WriteString(<<name>>) \o <<Colon>>

Sent(public_key, from, to) ==
  ToJson([format |-> <<Spki>>, public_key |-> public_key, valid_from |-> from, valid_to |-> to])

Key(text) == Named(PublicKey) \o WriteString(text)

BodiesConsidered ==
  {Sent(FirstPem, 4, 8), Sent(FirstPem, 8, 4), Sent(FirstPem, 4, 4), Sent(FirstPem, None, 8),
   Sent(SecondPem, -1, 2), Sent(SecondPem, -6, None), Sent(SecondPem, 0, 44),
   Sent(NoPem, None, None), Sent(<< >>, 4, None),
   \* the PEM alone, nothing at all, an object without fields
   FirstPem, << >>, <<Open, Close>>, <<Open, Close, Comma>>,
   \* a field alone, spaces, a field twice, a field of no meaning
   <<Open>> \o Key(FirstPem) \o <<Close>>,
   <<Space, Open, LineFeed>> \o Key(FirstPem) \o <<Tab, Close, Space, LineFeed>>,
   <<Open>> \o Key(FirstPem) \o <<Comma>> \o Key(NoPem) \o <<Close>>,
   <<Open>> \o Named(26) \o <<Null, Space, Comma, Space>> \o Key(NoPem) \o <<Close>>,
   <<Open>> \o Named(Format) \o WriteString(<<25>>) \o <<Comma>> \o Key(FirstPem) \o <<Close>>,
   \* moments that are none, or have a part of a second
   <<Open>> \o Named(ValidFrom) \o WriteString(<<27>>) \o <<Comma>> \o Key(FirstPem) \o <<Close>>,
   <<Open>> \o Named(ValidFrom) \o <<Quote>> \o MomentText(5) \o <<Quote, Comma>> \o Key(FirstPem)
     \o <<Close>>,
   \* a text after a comma, after the end, escapes of every kind, one that is none
   <<Open>> \o Key(FirstPem) \o <<Comma, Close>>,
   <<Open>> \o Key(FirstPem) \o <<Close, Comma>>,
   <<Open>> \o Named(PublicKey) \o <<Quote, Backslash, Slash, Backslash, LetterB, Quote, Close>>,
   <<Open>> \o Named(PublicKey) \o <<Quote, Backslash, LetterU, LetterN, Quote, Close>>,
   <<Open>> \o Named(PublicKey) \o <<Quote, Backslash, Spki, Quote, Close>>}

AnswersConsidered ==
  {[status |-> 200, body |-> body] : body \in BodiesConsidered}
    \cup {[status |-> status, body |-> Sent(FirstPem, 4, 8)] : status \in {204, 302, 404, 500}}
    \cup {[status |-> 0, body |-> << >>]}
=============================================================================
