----------------------------- MODULE MCKeyCache -----------------------------
(***************************************************************************)
(* Model checking of KeyCache: two end points, three keys and a cache that *)
(* is full at three, so that emptying, widening and overlapping all occur. *)
(***************************************************************************)
EXTENDS KeyCache, TLC

CacheSymmetry == Permutations(EndPoints) \cup Permutations(Pems)
=============================================================================
