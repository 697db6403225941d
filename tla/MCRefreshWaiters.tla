-------------------------- MODULE MCRefreshWaiters --------------------------
(***************************************************************************)
(* Instance of RefreshWaiters for TLC: the goroutines that share an        *)
(* authentication object are interchangeable.                              *)
(***************************************************************************)
EXTENDS RefreshWaiters, TLC

Symmetry == Permutations(Callers)
=============================================================================
