----------------------------- MODULE Semaphore -----------------------------
(***************************************************************************)
(* sync_semaphore (detail/atomic_semaphore.h): one atomic integer whose    *)
(* low bits count the threads that sleep in wait(), up to a limit where    *)
(* the count saturates, and whose high bits count the permits.             *)
(*                                                                         *)
(* Every compare-and-swap, load, wait and notify of the integer is a step; *)
(* a failed compare-and-swap loads.  The timed spinning may stop whenever  *)
(* it looks at too small a value.  A thread in wait() sleeps while the     *)
(* integer is what it expects, until somebody notifies it.                 *)
(***************************************************************************)
EXTENDS Integers, FiniteSets

CONSTANTS Thread,
          Counts,       \* the arguments of acquire() and release()
          WaitersMask,  \* 3 in the code: the largest number of waiters counted
          MaxPermits    \* bound on the permits, instead of overflow

ASSUME ConstantTypes ==
  /\ Counts \subseteq Nat \ {0}
  /\ WaitersMask \in Nat \ {0} /\ MaxPermits \in Nat

VARIABLES
  value,    \* value_
  pc,       \* [Thread -> where it is]
  need,     \* [Thread -> the argument of its call]
  current,  \* [Thread -> its copy of value_]
  permits   \* history: permits released and not acquired

vars == <<value, pc, need, current, permits>>

ValueIncrement == WaitersMask + 1

Init ==
  /\ value = 0 /\ permits = 0
  /\ pc = [t \in Thread |-> "idle"]
  /\ need = [t \in Thread |-> 1]
  /\ current = [t \in Thread |-> 0]

Goto(t, l) == pc' = [pc EXCEPT ![t] = l]

Increment(t) == need[t] * ValueIncrement

Enough(t) == current[t] >= Increment(t)

Waiters(v) == v % ValueIncrement

Asleep == {t \in Thread : pc[t] = "asleep"}

(***************************************************************************)
(* release()                                                               *)
(***************************************************************************)

(* Mutation of Release: the counters share their bits. *)
ReleaseUnscaled(t, n) ==
  /\ pc[t] = "idle" /\ permits + n <= MaxPermits
  /\ value' = value + n
  /\ permits' = permits + n
  /\ need' = [need EXCEPT ![t] = n]
  /\ Goto(t, IF Waiters(value) > 0 THEN "notify" ELSE "idle")
  /\ UNCHANGED current

Release(t, n) ==
  /\ pc[t] = "idle" /\ permits + n <= MaxPermits
  /\ value' = value + n * ValueIncrement
  /\ permits' = permits + n
  /\ need' = [need EXCEPT ![t] = n]
  /\ Goto(t, IF Waiters(value) > 0 THEN "notify" ELSE "idle")
  /\ UNCHANGED current

(* notify_all() for several permits, notify_one() for one. *)
Notify(t) ==
  /\ pc[t] = "notify"
  /\ \/ need[t] > 1 /\ pc' = [u \in Thread |-> IF u \in Asleep THEN "wait"
                                              ELSE IF u = t THEN "idle" ELSE pc[u]]
     \/ need[t] = 1 /\ Asleep = {} /\ Goto(t, "idle")
     \/ need[t] = 1 /\ \E u \in Asleep : pc' = [pc EXCEPT ![t] = "idle", ![u] = "wait"]
  /\ UNCHANGED <<value, need, current, permits>>

(***************************************************************************)
(* acquire()                                                               *)
(***************************************************************************)

(* A compare-and-swap of value_ from current to v: done, or look again. *)
Take(t, v, onFailure) ==
  IF value = current[t]
  THEN /\ value' = v
       /\ permits' = permits - need[t]
       /\ current' = [current EXCEPT ![t] = 0]
       /\ need' = [need EXCEPT ![t] = 1]
       /\ Goto(t, "idle")
  ELSE /\ current' = [current EXCEPT ![t] = value]
       /\ Goto(t, onFailure)
       /\ UNCHANGED <<value, need, permits>>

(* The first compare-and-swap, from exactly the permits wanted to zero. *)
Acquire(t, n) ==
  /\ pc[t] = "idle"
  /\ IF value = n * ValueIncrement
     THEN value' = 0 /\ permits' = permits - n /\ UNCHANGED <<pc, need, current>>
     ELSE /\ need' = [need EXCEPT ![t] = n]
          /\ current' = [current EXCEPT ![t] = value]
          /\ Goto(t, "spin")
          /\ UNCHANGED <<value, permits>>

Spin(t) ==
  /\ pc[t] = "spin"
  /\ \/ Enough(t) /\ Take(t, current[t] - Increment(t), "spin")
     \/ /\ ~Enough(t)
        /\ \/ current' = [current EXCEPT ![t] = value] /\ UNCHANGED pc
           \/ Goto(t, "join") /\ UNCHANGED current
        /\ UNCHANGED <<value, need, permits>>

(* Mutation of Join: the waiter is not counted. *)
JoinUncounted(t) ==
  /\ pc[t] = "join"
  /\ Goto(t, "slow")
  /\ UNCHANGED <<value, need, current, permits>>

(* increment_waiters(), and taking permits when it finds enough of them. *)
Join(t) ==
  /\ pc[t] = "join"
  /\ IF Enough(t) THEN Take(t, current[t] - Increment(t), "join")
     ELSE IF Waiters(current[t]) = WaitersMask
     THEN Goto(t, "slow") /\ UNCHANGED <<value, need, current, permits>>
     ELSE /\ IF value = current[t]
             THEN /\ value' = value + 1
                  /\ current' = [current EXCEPT ![t] = @ + 1]
                  /\ Goto(t, "slow")
             ELSE /\ current' = [current EXCEPT ![t] = value]
                  /\ UNCHANGED <<value, pc>>
          /\ UNCHANGED <<need, permits>>

DecrementedWaiters(v) == IF Waiters(v) = WaitersMask THEN 0 ELSE 1

(* The slow path: take permits and leave the waiters, or wait. *)
Slow(t) ==
  /\ pc[t] = "slow"
  /\ IF Enough(t)
     THEN Take(t, current[t] - Increment(t) - DecrementedWaiters(current[t]), "slow")
     ELSE Goto(t, "wait") /\ UNCHANGED <<value, need, current, permits>>

(* Mutation of Wait: the value to wait on is loaded again. *)
WaitReloads(t) ==
  /\ pc[t] = "wait"
  /\ Goto(t, "asleep")
  /\ current' = [current EXCEPT ![t] = value]
  /\ UNCHANGED <<value, need, permits>>

(* value_.wait(current), and the load after it. *)
Wait(t) ==
  /\ pc[t] = "wait"
  /\ IF value = current[t]
     THEN Goto(t, "asleep") /\ UNCHANGED current
     ELSE Goto(t, "slow") /\ current' = [current EXCEPT ![t] = value]
  /\ UNCHANGED <<value, need, permits>>

Step(t) == Notify(t) \/ Spin(t) \/ Join(t) \/ Slow(t) \/ Wait(t)

Next ==
  \E t \in Thread : Step(t) \/ \E n \in Counts : Release(t, n) \/ Acquire(t, n)

Spec == Init /\ [][Next]_vars

(***************************************************************************)
(* Safety.                                                                 *)
(***************************************************************************)

InSlowPath == {t \in Thread : pc[t] \in {"slow", "wait", "asleep"}}

(* The two counters do not disturb each other: the high bits of value_ are *)
(* the permits released and not acquired, however waiters come and go.     *)
PermitsAreExact == permits >= 0 /\ value \div ValueIncrement = permits

(* release() sees a waiter whenever there is one, so that it notifies: the *)
(* low bits of value_ count the threads in the slow path of acquire(), or  *)
(* are saturated.                                                          *)
WaitersAreCounted == Waiters(value) \in {WaitersMask, Cardinality(InSlowPath)}

(***************************************************************************)
(* Liveness.                                                               *)
(***************************************************************************)

(* Every thread runs; nobody has to call release() or acquire(). *)
FairSpec == Spec /\ \A t \in Thread : WF_vars(Step(t))

(* acquire() "waits until it is large enough" (atomic_semaphore.h:49): a   *)
(* thread does not sleep on while there are permits enough for it.         *)
SleeperIsServed ==
  \A t \in Thread :
    pc[t] = "asleep" /\ permits >= need[t] ~> pc[t] # "asleep" \/ permits < need[t]
=============================================================================
