---------------------------- MODULE MCStopState ----------------------------
(***************************************************************************)
(* StopState on a small instance, with threads and callbacks symmetric.    *)
(***************************************************************************)
EXTENDS StopState, TLC

Symmetry == Permutations(Thread) \union Permutations(Callback)
=============================================================================
