--------------------------- MODULE MCResourceCalls ---------------------------
(***************************************************************************)
(* ResourceCalls for TLC: the calls are interchangeable.                   *)
(***************************************************************************)
EXTENDS ResourceCalls, TLC

Symmetry == Permutations(Calls)
=============================================================================
