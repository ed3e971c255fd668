----------------------------- MODULE MCRotation -----------------------------
(***************************************************************************)
(* Model checking of Rotation: three keys, two requests on their way.      *)
(***************************************************************************)
EXTENDS Rotation, TLC

RotationSymmetry == Permutations(Pems) \cup Permutations(Requests)
=============================================================================
