-------------------------- MODULE MCKeyFetchClears --------------------------
(***************************************************************************)
(* Model checking of KeyFetchClears: one URL, one creator with one key.    *)
(***************************************************************************)
EXTENDS KeyFetchClears, TLC

CONSTANTS e, p   \* the end point and the key

OneUrl == {[end_point |-> e, minute |-> 1]}

OneAnswer == [u \in OneUrl |-> {<<p, <<1, 3>>>>}]

CallSymmetry == Permutations(Calls) \cup Permutations(Tasks)
=============================================================================
