------------------------------ MODULE HeldKeys ------------------------------
(***************************************************************************)
(* The values the key cache of src/src/fetch.rs is made of, and the pure   *)
(* functions over them: a held key and its span, the answer a caller gets, *)
(* the span of minutes an answer is held for, and how a span is widened.   *)
(*                                                                         *)
(* A key URL is the pair of the end point it names and the minute in its   *)
(* date parameter (None where it names none); a PEM text is a model value, *)
(* because the code only compares them.                                    *)
(***************************************************************************)
EXTENDS Integers

CONSTANTS
  EndPoints,   \* the key end points: a scheme, a creator's domain, a version
  Pems,        \* the keys creators answer with
  Allowance,   \* CLOCK_DRIFT_ALLOWANCE_MINUTES
  MaxMinute,   \* u32::MAX, the last minute there is
  None         \* Option::None

ASSUME MinutesAssumption == Allowance \in Nat /\ MaxMinute \in Nat
ASSUME NoneAssumption == None \notin Int

Minutes == 0 .. MaxMinute
OptionMinutes == Minutes \cup {None}

Urls == [end_point : EndPoints, minute : OptionMinutes]

(***************************************************************************)
(* struct HeldKey, with the end point its entry of the map is filed under. *)
(***************************************************************************)
HeldKey == [end_point : EndPoints, pem : Pems, first : Minutes, last : Minutes,
            explicit : BOOLEAN, open_ended : BOOLEAN]

Covers(key, minute) == key.first <= minute /\ minute <= key.last

(***************************************************************************)
(* struct KeyAnswer: a key with the span the creator stated for it.        *)
(***************************************************************************)
KeyAnswer == [pem : Pems, first : Minutes, last : Minutes, known : BOOLEAN]

Known(pem, first, last) ==
  [pem |-> pem, first |-> first, last |-> last, known |-> TRUE]

Unknown(pem) == [pem |-> pem, first |-> 0, last |-> 0, known |-> FALSE]

\* The creator gave both edges of the span and at least one minute between.
WholeSpan(start, end) == start # None /\ end # None /\ end > start

\* A mutant: an end in the start's own minute is taken for a whole span.
StatedByAnyEnd(pem, start, end) ==
  CASE start = None -> Unknown(pem)
    [] start # None /\ end # None -> Known(pem, start, end - 1)
    [] OTHER -> Known(pem, start, MaxMinute)

\* KeyAnswer::stated: what the creator's own answer says of the span.
StatedBy(pem, start, end) ==
  CASE start = None -> Unknown(pem)
    [] WholeSpan(start, end) -> Known(pem, start, end - 1)
    [] OTHER -> Known(pem, start, MaxMinute)

\* Whether an answer's stated span covers the minute.
StatesMinute(answer, minute) ==
  answer.known /\ answer.first <= minute /\ minute <= answer.last

\* A mutant: a held key remembers nothing of the span stated for it.
StatedForgotten(key) == Unknown(key.pem)

\* HeldKey::stated: what a held key remembers of it.
Stated(key) ==
  CASE key.explicit -> Known(key.pem, key.first, key.last)
    [] ~key.explicit /\ key.open_ended -> Known(key.pem, key.first, MaxMinute)
    [] OTHER -> Unknown(key.pem)

\* A mutant: no allowance for the drift of the clocks.
BehindNow(now) == now

(***************************************************************************)
(* Time.  Behind is the saturating subtraction of the drift allowance from *)
(* now; a minute after it is one the creator may have read as its present. *)
(***************************************************************************)
Behind(now) == IF now > Allowance THEN now - Allowance ELSE 0

Recent(minute, now) == minute # None /\ minute > Behind(now)

(***************************************************************************)
(* Which answers are held at all, and for which span.                      *)
(***************************************************************************)
Holdable(minute, isRecent, start) ==
  start # None \/ (minute # None /\ ~isRecent)

\* Mutants: no max with the start, and a span that takes in its end.
SpanToHoldNoMax(minute, start, end, now) ==
  CASE WholeSpan(start, end) ->
         [first |-> start, last |-> end - 1, explicit |-> TRUE, open_ended |-> FALSE]
    [] start # None /\ ~WholeSpan(start, end) ->
         [first |-> start, last |-> Behind(now), explicit |-> FALSE, open_ended |-> TRUE]
    [] OTHER ->
         [first |-> minute, last |-> minute, explicit |-> FALSE, open_ended |-> FALSE]

SpanToHoldWithEnd(minute, start, end, now) ==
  CASE WholeSpan(start, end) ->
         [first |-> start, last |-> end, explicit |-> TRUE, open_ended |-> FALSE]
    [] start # None /\ ~WholeSpan(start, end) ->
         [first |-> start, last |-> IF start > Behind(now) THEN start ELSE Behind(now),
          explicit |-> FALSE, open_ended |-> TRUE]
    [] OTHER ->
         [first |-> minute, last |-> minute, explicit |-> FALSE, open_ended |-> FALSE]

SpanToHold(minute, start, end, now) ==
  CASE WholeSpan(start, end) ->
         [first |-> start, last |-> end - 1, explicit |-> TRUE, open_ended |-> FALSE]
    [] start # None /\ ~WholeSpan(start, end) ->
         [first |-> start,
          last |-> IF start > Behind(now) THEN start ELSE Behind(now),
          explicit |-> FALSE, open_ended |-> TRUE]
    [] OTHER ->
         [first |-> minute, last |-> minute, explicit |-> FALSE, open_ended |-> FALSE]

Overlap(a, b) == a.last >= b.first /\ a.first <= b.last

\* A mutant: the latest answer's edge replaces the edge held.
WidenedToLatest(key, span) ==
  [key EXCEPT !.last = span.last, !.explicit = key.explicit \/ span.explicit,
              !.open_ended = span.open_ended]

\* The key with its span widened to take in the new one, and its flags joined.
Widened(key, span) ==
  LET explicit == key.explicit \/ span.explicit
  IN [key EXCEPT !.first = IF span.first < key.first THEN span.first ELSE key.first,
                 !.last = IF span.last > key.last THEN span.last ELSE key.last,
                 !.explicit = explicit,
                 !.open_ended = ~explicit /\ (key.open_ended \/ span.open_ended)]

NewKey(end_point, pem, span) ==
  [end_point |-> end_point, pem |-> pem, first |-> span.first, last |-> span.last,
   explicit |-> span.explicit, open_ended |-> span.open_ended]

(***************************************************************************)
(* What PublicKeyAnswer::validate lets through, once the moments are cut   *)
(* to minutes: an end needs a start and comes after it at the creator's    *)
(* resolution, so the two may fall in the same minute, and either moment   *)
(* may lie outside the minutes a u32 counts and so be dropped.             *)
(***************************************************************************)
Statements ==
  {statement \in OptionMinutes \X OptionMinutes :
     statement[1] # None /\ statement[2] # None => statement[2] >= statement[1]}
=============================================================================
