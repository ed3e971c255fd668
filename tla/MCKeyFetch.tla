----------------------------- MODULE MCKeyFetch -----------------------------
(***************************************************************************)
(* Model checking of KeyFetch: instances small enough to exhaust, each     *)
(* with the URLs and answers one question needs.                           *)
(***************************************************************************)
EXTENDS KeyFetch, TLC

CONSTANTS e, p, q   \* one end point and two keys

At1 == [end_point |-> e, minute |-> 1]
At2 == [end_point |-> e, minute |-> 2]
AtNone == [end_point |-> e, minute |-> None]

TwoUrls == {At1, At2}
Undated == {AtNone}

\* A creator that states its span for one URL and none for the other.
MixedAnswers ==
  [u \in TwoUrls |-> IF u = At1 THEN {<<p, <<1, 3>>>>} ELSE {<<p, <<None, None>>>>}]

\* A creator with one key for both minutes.
SingleAnswer == [u \in TwoUrls |-> {<<p, <<1, 3>>>>}]

\* A key whose span starts and ends in one minute.
SameMinuteAnswer == [u \in Undated |-> {<<p, <<0, 0>>>>}]

CallSymmetry == Permutations(Calls) \cup Permutations(Tasks)
=============================================================================
