--------------------------- MODULE MCActorContext ---------------------------
(***************************************************************************)
(* ActorContext on small instances: two contexts on one scheduler with two *)
(* threads, or on two schedulers with one thread each.                     *)
(***************************************************************************)
EXTENDS ActorContext, TLC

CONSTANTS c1, c2, s1, s2, t1, t2

SharedScheduler == c1 :> s1 @@ c2 :> s1
SharedPool == t1 :> s1 @@ t2 :> s1

SplitSchedulers == c1 :> s1 @@ c2 :> s2
SplitPools == t1 :> s1 @@ t2 :> s2

OneNests == t1 :> 2 @@ t2 :> 1
NoneNests == t1 :> 1 @@ t2 :> 1

(* Contexts may be exchanged too where they share a scheduler. *)
SharedSymmetry == Permutations(Runnable) \union Permutations(Context)
=============================================================================
