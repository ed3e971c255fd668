------------------------------ MODULE MCVerify ------------------------------
(***************************************************************************)
(* Model checking of Verify: every schedule of at most three keys whose    *)
(* starts are no closer than the drift allowance, or as close as they like.*)
(***************************************************************************)
EXTENDS Verify, TLC

CONSTANT StartTicks   \* the moments a key may start at

\* Whole minutes, and one before the base date.
WholeMinutes == {minute * Resolution : minute \in -1 .. 4}

Spaced ==
  {f \in [Pems -> StartTicks \cup {None}] :
     \A p, q \in Pems : p # q /\ f[p] # None /\ f[q] # None =>
       f[p] - f[q] >= Allowance * Resolution \/ f[q] - f[p] >= Allowance * Resolution}

\* Keys that start within a minute of each other too.
Crowded == [Pems -> StartTicks \cup {None}]

VerifySymmetry == Permutations(Pems) \cup Permutations(Verifiers)
=============================================================================
