---------------------------- MODULE WakeupProofs ----------------------------
(***************************************************************************)
(* Proofs about the two primitives with which a thread wakes up somebody   *)
(* else: the semaphore that threads block on, and the continuation that a  *)
(* suspended coroutine left behind.  They share no state and no names.     *)
(*                                                                         *)
(* The semaphore is proved for any number of threads, any counts and any   *)
(* limit of the waiters, the continuation for any set of values.           *)
(***************************************************************************)
EXTENDS Semaphore, Continuation, FiniteSetTheorems, TLAPS

Types ==
  /\ value \in Nat /\ permits \in Nat
  /\ pc \in [Thread -> {"idle", "notify", "spin", "join", "slow", "wait", "asleep"}]
  /\ need \in [Thread -> Nat \ {0}]
  /\ current \in [Thread -> Nat]

(* A saturated counter of waiters stays saturated, so a copy of the word   *)
(* that shows one may be trusted after it has become stale.                *)
SaturatedForGood ==
  \A t \in Thread : Waiters(current[t]) = WaitersMask => Waiters(value) = WaitersMask

Inv ==
  /\ Types /\ IsFiniteSet(InSlowPath)
  /\ PermitsAreExact /\ WaitersAreCounted /\ SaturatedForGood

-----------------------------------------------------------------------------
(* What the two counters of a word are. *)
LEMMA WordParts ==
  ASSUME NEW p \in Nat, NEW w \in 0..WaitersMask
  PROVE  /\ (p * ValueIncrement + w) \div ValueIncrement = p
         /\ Waiters(p * ValueIncrement + w) = w
  BY SMTT(30), ConstantTypes DEF ValueIncrement, Waiters

(* Every word has two counters. *)
LEMMA WordSplit ==
  ASSUME NEW v \in Nat
  PROVE  /\ v \div ValueIncrement \in Nat
         /\ Waiters(v) \in 0..WaitersMask
         /\ v = (v \div ValueIncrement) * ValueIncrement + Waiters(v)
  BY SMTT(30), ConstantTypes DEF ValueIncrement, Waiters

(* A step keeps the invariant when it changes the permits and the waiters, *)
(* and leaves a word that is made of them.                                 *)
LEMMA StepInv ==
  ASSUME Types', IsFiniteSet(InSlowPath'), NEW w \in 0..WaitersMask,
         value' = permits' * ValueIncrement + w,
         w \in {WaitersMask, Cardinality(InSlowPath')},
         \A t \in Thread : Waiters(current'[t]) = WaitersMask => w = WaitersMask
  PROVE  Inv'
  BY SMTT(30), WordParts DEF Inv, PermitsAreExact, WaitersAreCounted, SaturatedForGood, Types

(* The word, and the waiters in it when somebody is in the slow path. *)
LEMMA InvWord ==
  ASSUME Inv
  PROVE  /\ Waiters(value) \in 0..WaitersMask
         /\ value = permits * ValueIncrement + Waiters(value)
         /\ \A t \in InSlowPath : Waiters(value) > 0
  <1>1. value \in Nat /\ permits = value \div ValueIncrement
    BY Zenon DEF Inv, Types, PermitsAreExact
  <1>2. ASSUME NEW t \in InSlowPath PROVE Waiters(value) > 0
    <2>1. Cardinality(InSlowPath) \in Nat /\ Cardinality(InSlowPath) # 0
      BY Zenon, <1>2, FS_CardinalityType, FS_EmptySet DEF Inv
    <2>2. QED
      BY SMTT(30), <2>1, <1>1, WordSplit, ConstantTypes DEF Inv, WaitersAreCounted
  <1>3. QED
    BY Zenon, <1>1, <1>2, WordSplit

(* The word of enough permits for n, less those. *)
LEMMA Subtract ==
  ASSUME NEW v \in Nat, NEW p \in Nat, NEW w \in 0..WaitersMask, NEW n \in Nat \ {0},
         v = p * ValueIncrement + w, v >= n * ValueIncrement
  PROVE  /\ p - n \in Nat
         /\ v - n * ValueIncrement = (p - n) * ValueIncrement + w
  BY SMTT(30), ConstantTypes DEF ValueIncrement

(* A stale copy of a saturated word is right about the word of today. *)
LEMMA StaleCopy ==
  ASSUME Inv, NEW w, w = Waiters(value), NEW t \in Thread, NEW v \in Nat,
         v = value \/ Waiters(v) # WaitersMask \/ w = WaitersMask,
         current' = [current EXCEPT ![t] = v]
  PROVE  \A u \in Thread : Waiters(current'[u]) = WaitersMask => w = WaitersMask
  BY Zenon DEF Inv, Types, SaturatedForGood

(* Taking permits outside of the slow path leaves the waiters alone. *)
LEMMA TakeInv ==
  ASSUME Inv, NEW t \in Thread, pc[t] \in {"spin", "join"}, Enough(t),
         NEW l \in {"spin", "join"}, Take(t, current[t] - Increment(t), l)
  PROVE  Inv'
  <1> DEFINE w == Waiters(value)
  <1>0. /\ w \in 0..WaitersMask /\ value = permits * ValueIncrement + w
        /\ value \in Nat /\ permits \in Nat /\ need[t] \in Nat \ {0}
    BY Zenon, InvWord DEF Inv, Types
  <1>1. InSlowPath' = InSlowPath
    BY Zenon DEF InSlowPath, Take, Goto, Inv, Types
  <1>2. w \in {WaitersMask, Cardinality(InSlowPath')} /\ IsFiniteSet(InSlowPath')
    BY Zenon, <1>1 DEF Inv, WaitersAreCounted
  <1>3. CASE value = current[t]
    <2>1. /\ permits - need[t] \in Nat
          /\ value - need[t] * ValueIncrement = (permits - need[t]) * ValueIncrement + w
      <3>1. value >= need[t] * ValueIncrement
        BY Zenon, <1>3, <1>0 DEF Enough, Increment
      <3>2. QED
        BY <1>0, <3>1, Subtract, ZenonT(40)
    <2>2. value' = permits' * ValueIncrement + w /\ permits' \in Nat
      BY Zenon, <1>3, <2>1 DEF Take, Increment
    <2>3. value' \in Nat
      BY SMTT(30), <2>2, <1>0, ConstantTypes DEF ValueIncrement
    <2>4. Types'
      BY SMTT(30), <1>3, <2>2, <2>3 DEF Take, Goto, Inv, Types
    <2>5. Waiters(0) # WaitersMask
      BY SMTT(30), ConstantTypes DEF Waiters, ValueIncrement
    <2>6. \A u \in Thread : Waiters(current'[u]) = WaitersMask => w = WaitersMask
      BY Zenon, <1>3, <2>5, StaleCopy DEF Take
    <2>7. QED
      BY Zenon, <1>0, <1>2, <2>2, <2>4, <2>6, StepInv
  <1>4. CASE value # current[t]
    <2>1. value' = permits' * ValueIncrement + w
      BY Zenon, <1>4, <1>0 DEF Take
    <2>2. Types'
      BY Zenon, <1>4, <1>0 DEF Take, Goto, Inv, Types
    <2>3. \A u \in Thread : Waiters(current'[u]) = WaitersMask => w = WaitersMask
      BY Zenon, <1>4, <1>0, StaleCopy DEF Take
    <2>4. QED
      BY Zenon, <1>0, <1>2, <2>1, <2>2, <2>3, StepInv
  <1>5. QED
    BY Zenon, <1>3, <1>4

(* In the slow path the thread leaves the waiters as it takes permits. *)
LEMMA SlowInv ==
  ASSUME Inv, NEW t \in Thread, Slow(t)
  PROVE  Inv'
  <1> DEFINE w == Waiters(value)
             d == DecrementedWaiters(value)
  <1>0. /\ w \in 0..WaitersMask /\ value = permits * ValueIncrement + w
        /\ value \in Nat /\ permits \in Nat /\ need[t] \in Nat \ {0}
    BY Zenon, InvWord DEF Inv, Types
  <1>1. t \in InSlowPath /\ w > 0
    BY Zenon, InvWord DEF InSlowPath, Slow
  <1>2. CASE Enough(t) /\ value = current[t]
    <2>1. /\ permits - need[t] \in Nat
          /\ value - need[t] * ValueIncrement = (permits - need[t]) * ValueIncrement + w
      <3>1. value >= need[t] * ValueIncrement
        BY Zenon, <1>2, <1>0 DEF Enough, Increment
      <3>2. QED
        BY <1>0, <3>1, Subtract, ZenonT(40)
    <2>2. w - d \in 0..WaitersMask
      BY SMTT(30), <1>0, <1>1, ConstantTypes DEF DecrementedWaiters
    <2>3. value' = permits' * ValueIncrement + (w - d) /\ permits' \in Nat
      BY SMTT(30), <1>2, <1>0, <2>1, ConstantTypes
      DEF Slow, Take, Increment, DecrementedWaiters, ValueIncrement
    <2>4. value' \in Nat
      BY SMTT(30), <2>2, <2>3, ConstantTypes DEF ValueIncrement
    <2>5. Types'
      BY SMTT(30), <1>2, <2>3, <2>4 DEF Slow, Take, Goto, Inv, Types
    <2>6. InSlowPath' = InSlowPath \ {t}
      BY Zenon, <1>2 DEF InSlowPath, Slow, Take, Goto, Inv, Types
    <2>7. /\ IsFiniteSet(InSlowPath')
          /\ Cardinality(InSlowPath') = Cardinality(InSlowPath) - 1
      BY Zenon, <1>1, <2>6, FS_RemoveElement DEF Inv
    <2>8. w - d \in {WaitersMask, Cardinality(InSlowPath')}
      BY SMTT(30), <2>7, <1>0 DEF Inv, WaitersAreCounted, DecrementedWaiters
    <2>9. \A u \in Thread : Waiters(current'[u]) = WaitersMask => w - d = WaitersMask
      <3>1. Waiters(0) # WaitersMask
        BY SMTT(30), ConstantTypes DEF Waiters, ValueIncrement
      <3>2. \A u \in Thread : Waiters(current'[u]) = WaitersMask => w = WaitersMask
        BY Zenon, <1>2, <3>1, StaleCopy DEF Slow, Take
      <3>3. QED
        BY SMTT(30), <3>2, <1>0 DEF DecrementedWaiters
    <2>10. QED
      BY Zenon, <2>2, <2>3, <2>5, <2>7, <2>8, <2>9, StepInv
  <1>3. CASE ~(Enough(t) /\ value = current[t])
    <2>1. InSlowPath' = InSlowPath
      BY Zenon, <1>3 DEF InSlowPath, Slow, Take, Goto, Inv, Types
    <2>2. w \in {WaitersMask, Cardinality(InSlowPath')} /\ IsFiniteSet(InSlowPath')
      BY Zenon, <2>1 DEF Inv, WaitersAreCounted
    <2>3. value' = permits' * ValueIncrement + w
      BY Zenon, <1>3, <1>0 DEF Slow, Take
    <2>4. Types'
      BY SMTT(30), <1>3, <1>0 DEF Slow, Take, Goto, Inv, Types
    <2>5. \A u \in Thread : Waiters(current'[u]) = WaitersMask => w = WaitersMask
      <3>1. CASE Enough(t)
        BY Zenon, <1>3, <1>0, <3>1, StaleCopy DEF Slow, Take
      <3>2. CASE ~Enough(t)
        BY SMTT(30), <3>2 DEF Slow, Inv, SaturatedForGood
      <3>3. QED
        BY Zenon, <3>1, <3>2
    <2>6. QED
      BY Zenon, <1>0, <2>2, <2>3, <2>4, <2>5, StepInv
  <1>4. QED
    BY Zenon, <1>2, <1>3

(* increment_waiters() keeps the invariant: it counts the thread, or finds *)
(* a saturated counter, which still is when the thread relies on it.       *)
LEMMA JoinInv ==
  ASSUME Inv, NEW t \in Thread, Join(t)
  PROVE  Inv'
  <1> DEFINE w == Waiters(value)
  <1>0. /\ w \in 0..WaitersMask /\ value = permits * ValueIncrement + w
        /\ value \in Nat /\ permits \in Nat /\ t \notin InSlowPath
    BY Zenon, InvWord DEF Inv, Types, InSlowPath, Join
  <1>a. ASSUME pc' = [pc EXCEPT ![t] = "slow"]
        PROVE  /\ IsFiniteSet(InSlowPath')
               /\ Cardinality(InSlowPath') = Cardinality(InSlowPath) + 1
    <2>1. InSlowPath' = InSlowPath \union {t}
      BY Zenon, <1>a DEF InSlowPath, Inv, Types
    <2>2. QED
      BY Zenon, <1>0, <2>1, FS_AddElement DEF Inv
  <1>1. CASE Enough(t)
    BY Zenon, <1>1, TakeInv DEF Join
  <1>2. CASE ~Enough(t) /\ Waiters(current[t]) = WaitersMask
    <2>1. w = WaitersMask
      BY Zenon, <1>2 DEF Inv, SaturatedForGood
    <2>2. UNCHANGED <<value, permits, current>> /\ pc' = [pc EXCEPT ![t] = "slow"]
      BY Zenon, <1>2 DEF Join, Goto
    <2>3. Types'
      BY Zenon, <1>2 DEF Join, Goto, Inv, Types
    <2>4. QED
      BY Zenon, <1>0, <1>a, <2>1, <2>2, <2>3, StepInv
  <1>3. CASE ~Enough(t) /\ Waiters(current[t]) # WaitersMask /\ value = current[t]
    <2>1. value' = value + 1 /\ permits' = permits /\ pc' = [pc EXCEPT ![t] = "slow"]
      BY Zenon, <1>3 DEF Join, Goto
    <2>2. current' = [current EXCEPT ![t] = value + 1]
      BY Zenon, <1>3 DEF Join, Inv, Types
    <2>3. w + 1 \in 0..WaitersMask /\ value' = permits' * ValueIncrement + (w + 1)
      <3>1. w + 1 \in 0..WaitersMask
        BY SMTT(30), <1>0, <1>3, ConstantTypes
      <3>2. QED
        BY SMTT(30), <1>0, <2>1, <3>1, ConstantTypes DEF ValueIncrement
    <2>4. Types'
      BY SMTT(30), <1>0, <1>3, <2>1, <2>2 DEF Join, Goto, Inv, Types
    <2>5. w + 1 \in {WaitersMask, Cardinality(InSlowPath')}
      BY Zenon, <1>3, <1>a, <2>1 DEF Inv, WaitersAreCounted
    <2>6. \A u \in Thread : Waiters(current'[u]) = WaitersMask => w + 1 = WaitersMask
      <3>1. Waiters(value + 1) = w + 1
        BY SMTT(30), <2>1, <2>3, <1>0, WordParts
      <3>2. \A u \in Thread : Waiters(current[u]) # WaitersMask
        BY Zenon, <1>3 DEF Inv, SaturatedForGood
      <3>3. QED
        BY Zenon, <2>2, <3>1, <3>2 DEF Inv, Types
    <2>7. QED
      BY Zenon, <1>a, <2>1, <2>3, <2>4, <2>5, <2>6, StepInv
  <1>4. CASE ~Enough(t) /\ Waiters(current[t]) # WaitersMask /\ value # current[t]
    <2>1. UNCHANGED <<value, permits, pc, need>> /\ current' = [current EXCEPT ![t] = value]
      BY Zenon, <1>4 DEF Join
    <2>2. Types'
      BY Zenon, <1>0, <2>1 DEF Inv, Types
    <2>3. InSlowPath' = InSlowPath
      BY Zenon, <2>1 DEF InSlowPath
    <2>4. \A u \in Thread : Waiters(current'[u]) = WaitersMask => w = WaitersMask
      BY Zenon, <1>0, <2>1, StaleCopy
    <2>5. w \in {WaitersMask, Cardinality(InSlowPath')} /\ IsFiniteSet(InSlowPath')
      BY Zenon, <2>3 DEF Inv, WaitersAreCounted
    <2>6. QED
      BY Zenon, <1>0, <2>1, <2>2, <2>4, <2>5, StepInv
  <1>5. QED
    BY Zenon, <1>1, <1>2, <1>3, <1>4

(* A step that changes neither the word nor who is in the slow path. *)
LEMMA LoadInv ==
  ASSUME Inv, NEW t \in Thread, UNCHANGED <<value, permits>>, InSlowPath' = InSlowPath, Types',
         current' = current \/ current' = [current EXCEPT ![t] = value]
  PROVE  Inv'
  BY SMTT(30) DEF Inv, Types, PermitsAreExact, WaitersAreCounted, SaturatedForGood

(* Every step keeps the invariant. *)
LEMMA NextInv == Inv /\ [Next]_vars => Inv'
  <1> SUFFICES ASSUME Inv, [Next]_vars PROVE Inv'
    OBVIOUS
  <1> DEFINE w == Waiters(value)
  <1>0. /\ w \in 0..WaitersMask /\ value = permits * ValueIncrement + w
        /\ value \in Nat /\ permits \in Nat
    BY Zenon, InvWord DEF Inv, Types
  <1>1. ASSUME NEW t \in Thread, NEW n \in Counts, Release(t, n) PROVE Inv'
    <2>1. n \in Nat \ {0}
      BY Zenon, ConstantTypes
    <2>2. value' = permits' * ValueIncrement + w /\ permits' \in Nat
      BY SMTT(30), <1>0, <1>1, <2>1, ConstantTypes DEF Release, ValueIncrement
    <2>3. value' \in Nat
      BY SMTT(30), <1>0, <2>2, ConstantTypes DEF ValueIncrement
    <2>4. Types' /\ InSlowPath' = InSlowPath
      BY Zenon, <1>1, <2>1, <2>2, <2>3 DEF Release, Goto, Inv, Types, InSlowPath
    <2>5. w \in {WaitersMask, Cardinality(InSlowPath')} /\ IsFiniteSet(InSlowPath')
      BY Zenon, <2>4 DEF Inv, WaitersAreCounted
    <2>6. \A u \in Thread : Waiters(current'[u]) = WaitersMask => w = WaitersMask
      BY Zenon, <1>1 DEF Release, Inv, SaturatedForGood
    <2>7. QED
      BY Zenon, <1>0, <2>2, <2>4, <2>5, <2>6, StepInv
  <1>2. ASSUME NEW t \in Thread, NEW n \in Counts, Acquire(t, n) PROVE Inv'
    <2>1. n \in Nat \ {0}
      BY Zenon, ConstantTypes
    <2>2. CASE value = n * ValueIncrement
      <3>1. w = 0 /\ permits = n
        <4>1. value = n * ValueIncrement + 0 /\ 0 \in 0..WaitersMask
          BY SMTT(30), <2>1, <2>2, ConstantTypes DEF ValueIncrement
        <4>2. value \div ValueIncrement = n /\ Waiters(value) = 0
          BY Zenon, <4>1, <2>1, WordParts
        <4>3. QED
          BY Zenon, <4>2 DEF Inv, PermitsAreExact
      <3>2. value' = 0 /\ permits' = 0 /\ UNCHANGED <<pc, need, current>>
        BY SMTT(30), <1>2, <2>1, <2>2, <3>1 DEF Acquire
      <3>3. value' = permits' * ValueIncrement + w
        BY SMTT(30), <3>1, <3>2, ConstantTypes DEF ValueIncrement
      <3>4. Types' /\ InSlowPath' = InSlowPath
        BY Zenon, <3>2 DEF Inv, Types, InSlowPath
      <3>5. w \in {WaitersMask, Cardinality(InSlowPath')} /\ IsFiniteSet(InSlowPath')
        BY Zenon, <3>4 DEF Inv, WaitersAreCounted
      <3>6. \A u \in Thread : Waiters(current'[u]) = WaitersMask => w = WaitersMask
        BY Zenon, <3>2 DEF Inv, SaturatedForGood
      <3>7. QED
        BY Zenon, <1>0, <3>3, <3>4, <3>5, <3>6, StepInv
    <2>3. CASE value # n * ValueIncrement
      BY SMTT(30), <1>0, <1>2, <2>1, <2>3, LoadInv DEF Acquire, Goto, Inv, Types, InSlowPath
    <2>4. QED
      BY Zenon, <2>2, <2>3
  <1>3. ASSUME NEW t \in Thread, Spin(t) PROVE Inv'
    <2>1. CASE Enough(t)
      BY Zenon, <1>3, <2>1, TakeInv DEF Spin
    <2>2. CASE ~Enough(t)
      BY SMTT(30), <1>0, <1>3, <2>2, LoadInv DEF Spin, Goto, Inv, Types, InSlowPath
    <2>3. QED
      BY Zenon, <2>1, <2>2
  <1>4. ASSUME NEW t \in Thread, Notify(t) PROVE Inv'
    BY SMTT(30), <1>4, LoadInv DEF Notify, Asleep, Goto, Inv, Types, InSlowPath
  <1>5. ASSUME NEW t \in Thread, Wait(t) PROVE Inv'
    BY SMTT(30), <1>0, <1>5, LoadInv DEF Wait, Goto, Inv, Types, InSlowPath
  <1>6. CASE UNCHANGED vars
    BY Zenon, <1>6 DEF vars, Inv, Types, PermitsAreExact, WaitersAreCounted, SaturatedForGood, InSlowPath
  <1>7. QED
    BY Zenon, <1>1, <1>2, <1>3, <1>4, <1>5, <1>6, JoinInv, SlowInv DEF Next, Step

(* A new semaphore satisfies the invariant. *)
LEMMA InitInv == Init => Inv
  <1> SUFFICES ASSUME Init PROVE Inv
    OBVIOUS
  <1>1. InSlowPath = {} /\ IsFiniteSet(InSlowPath) /\ Cardinality(InSlowPath) = 0
    BY Zenon, FS_EmptySet DEF Init, InSlowPath
  <1>2. Waiters(0) = 0 /\ 0 \div ValueIncrement = 0 /\ WaitersMask # 0
    BY SMTT(30), ConstantTypes DEF Waiters, ValueIncrement
  <1>3. QED
    BY SMTT(30), <1>1, <1>2 DEF Init, Inv, Types, PermitsAreExact, WaitersAreCounted, SaturatedForGood

(* Inv holds in every state. *)
THEOREM InvHolds == Spec => []Inv
  BY InitInv, NextInv, PTL DEF Spec

(* The high bits of value_ are exactly the permits that were released and  *)
(* not acquired: waiters that come and go never borrow from them.          *)
THEOREM PermitsAreNeverLost == Spec => []PermitsAreExact
  <1>1. Inv => PermitsAreExact
    BY Zenon DEF Inv
  <1>2. QED
    BY <1>1, InvHolds, PTL

(* release() sees a waiter whenever a thread is in the slow path, however  *)
(* many there are: the counter is exact, or saturated for good.            *)
THEOREM WaitersAreNeverOverlooked == Spec => []WaitersAreCounted
  <1>1. Inv => WaitersAreCounted
    BY Zenon DEF Inv
  <1>2. QED
    BY <1>1, InvHolds, PTL

-----------------------------------------------------------------------------
(***************************************************************************)
(* The continuation.                                                       *)
(*                                                                         *)
(* ResumedOnce is almost inductive: with the types it says who may       *)
(* resume the coroutine.  What it gets needs GivenInv, which relates the   *)
(* result to what the holder gave and to the word through which it was     *)
(* given.                                                                  *)
(***************************************************************************)

(* The word is finished once the holder has given the result, and not      *)
(* before; a coroutine on its way back finds that result or the exception. *)
GivenInv ==
  /\ given # "none" => result = given /\ (awaiter = "done" \/ word = "finished")
  /\ word = "finished" /\ Alive => given # "none"
  /\ awaiter = "resumed" /\ given = "none" => result = "not_resumed"
  /\ awaiter = "throwing" => given = "none" /\ (word = "destroyed" \/ ~Alive)
  /\ holder = "finishing" => result \in Value
  /\ holder \in {"waking", "waking_last"} => word = "destroyed"
  /\ got # "none" => awaiter = "done"

ContinuationInv == WCTypeOK /\ ResumedOnce /\ SuspendedIsReachable /\ GivenInv

-----------------------------------------------------------------------------
(* A new continuation satisfies the invariant. *)
LEMMA ContinuationInit == WCInit => ContinuationInv
  BY ZenonT(40), ResultsAreDistinct
  DEF WCInit, ContinuationInv, WCTypeOK, ResumedOnce, SuspendedIsReachable, GivenInv, Alive

(* Every step of the holder and of the coroutine keeps the invariant. *)
LEMMA ContinuationNext == ContinuationInv /\ [WCNext]_wcVars => ContinuationInv'
  <1> SUFFICES ASSUME ContinuationInv, [WCNext]_wcVars PROVE ContinuationInv'
    OBVIOUS
  <1> USE ResultsAreDistinct DEF ContinuationInv, WCTypeOK, ResumedOnce, SuspendedIsReachable, GivenInv, Alive
  <1>1. CASE \E v \in Value : SetResult(v)
    BY <1>1 DEF SetResult
  <1>2. CASE \E last \in BOOLEAN : Destroy(last)
    BY <1>2 DEF Destroy
  <1>3. CASE Finish
    BY <1>3 DEF Finish
  <1>4. CASE WakeDestroyed
    BY <1>4 DEF WakeDestroyed
  <1>5. CASE Begin
    BY <1>5 DEF Begin
  <1>6. CASE SetContinuation
    BY <1>6 DEF SetContinuation
  <1>7. CASE TakeValue
    BY <1>7 DEF TakeValue
  <1>8. CASE Cancel
    BY <1>8 DEF Cancel
  <1>9. CASE UNCHANGED wcVars
    BY <1>9 DEF wcVars
  <1>10. QED
    BY ZenonT(40), <1>1, <1>2, <1>3, <1>4, <1>5, <1>6, <1>7, <1>8, <1>9 DEF WCNext, AwaiterStep

(* ContinuationInv holds in every state of the specification. *)
THEOREM ContinuationInvHolds == WCSpec => []ContinuationInv
  BY ContinuationInit, ContinuationNext, PTL DEF WCSpec

(* The coroutine is resumed once: whoever removes its handle from the word *)
(* finds it suspended, and nobody else can resume it (finish, destroy).    *)
THEOREM CoroutineIsResumedOnce == WCSpec => []ResumedOnce
  <1>1. ContinuationInv => ResumedOnce
    BY DEF ContinuationInv
  <1>2. QED
    BY <1>1, ContinuationInvHolds, PTL

(* A suspended coroutine is never forgotten: its handle is in the word, or *)
(* a destroy() is on its way to resume it.                                 *)
THEOREM NobodyIsForgotten == WCSpec => []SuspendedIsReachable
  <1>1. ContinuationInv => SuspendedIsReachable
    BY DEF ContinuationInv
  <1>2. QED
    BY <1>1, ContinuationInvHolds, PTL

(* await_resume returns what resume() was given, and throws "not resumed"  *)
(* only when the continuation was destroyed without.                       *)
THEOREM ResultIsDelivered == WCSpec => GetsWhatWasGiven
  <1>1. ContinuationInv /\ [WCNext]_wcVars =>
          [awaiter # "done" /\ awaiter' = "done" /\ got' # "none" =>
             IF given' = "none" THEN got' = "not_resumed" ELSE got' = given']_wcVars
    <2> SUFFICES ASSUME ContinuationInv, WCNext, awaiter # "done", awaiter' = "done", got' # "none"
                 PROVE  IF given' = "none" THEN got' = "not_resumed" ELSE got' = given'
      BY DEF wcVars
    <2>1. CASE TakeValue
      BY <2>1, ResultsAreDistinct DEF TakeValue, ContinuationInv, GivenInv
    <2>2. CASE Cancel
      BY <2>2, ResultsAreDistinct DEF Cancel, ContinuationInv, GivenInv
    <2>3. QED
      BY <2>1, <2>2 DEF WCNext, AwaiterStep, SetResult, Destroy, Finish, WakeDestroyed, Begin,
                        SetContinuation, ContinuationInv, WCTypeOK, ResumedOnce
  <1>2. QED
    BY <1>1, ContinuationInvHolds, PTL DEF WCSpec, GetsWhatWasGiven
=============================================================================
