-------------------------- MODULE TaskGroupProofs --------------------------
(***************************************************************************)
(* Proofs of the safety properties of TaskGroup, for any set of tasks.     *)
(*                                                                         *)
(* Access is an inductive invariant: it ties the marker in last_ready to   *)
(* where the consumer and the stop callback are, and says who may have put *)
(* the marker there.  The order of the results is proved on top of it.     *)
(***************************************************************************)
EXTENDS TaskGroup, SequenceTheorems, FiniteSetTheorems, TLAPS

(* Who may have left the marker that is in last_ready, and when the stop   *)
(* callback exists.                                                        *)
MarkIsOwned ==
  /\ lastReady.mark = "awaiting" =>
       pc = "suspended" /\ Delivering = {} /\ callback # "resuming"
  /\ lastReady.mark = "cancelled" => stop = "requested"
  /\ lastReady.mark = "detached" <=> pc = "detached"
  /\ callback # "none" =>
       /\ op = "when_ready" /\ stop # "impossible"
       /\ pc \in {"suspending", "suspended", "resuming"}
  /\ callback \notin {"none", "armed"} => stop = "requested"
  /\ pc = "arming" => op = "when_ready" /\ stop # "impossible"

(* The consumer is awake because there is a result or a stop. *)
WokenForReason ==
  pc = "resuming" /\ readyQueue = <<>> /\ lastReady.list = <<>> => stop = "requested"

(* The tasks that have not left a result yet. *)
Pending == {k \in Task : task[k] \in {"running", "delivering"}}

(* count_ is the number of results that are there or still to come. *)
Counted ==
  /\ IsFiniteSet(Pending)
  /\ pc # "detached" => count = Cardinality(Pending) + Len(readyQueue) + Len(lastReady.list)

Access ==
  TypeOK /\ ExclusiveAccess /\ NoLostWakeup /\ MarkIsOwned /\ WokenForReason

(* The parts of a word of last_ready. *)
LEMMA WordType ==
  ASSUME NEW m \in {"none", "awaiting", "detached", "cancelled"}, NEW s \in Seq(Task),
         NEW word, word = [mark |-> m, list |-> s]
  PROVE  /\ word \in [mark : {"none", "awaiting", "detached", "cancelled"}, list : Seq(Task)]
         /\ word.mark = m /\ word.list = s
  OBVIOUS

(* A new group satisfies the invariant. *)
LEMMA InitAccess == Init => Access
  <1> SUFFICES ASSUME Init PROVE Access
    OBVIOUS
  <1> USE DEF Init, Null, Mark
  <1>1. lastReady.mark = "none" /\ lastReady.list = <<>> /\ Delivering = {}
    BY Zenon DEF Delivering
  <1>2. TypeOK
    <2>1. <<>> \in Seq(Task)
      OBVIOUS
    <2>2. lastReady \in [mark : {"none", "awaiting", "detached", "cancelled"}, list : Seq(Task)]
      BY Zenon, <2>1
    <2>3. continuation \in BOOLEAN
      BY Zenon
    <2>4. task \in [Task -> {"new", "running", "delivering", "finished"}]
      OBVIOUS
    <2>5. QED
      BY ZenonT(40), <1>1, <2>1, <2>2, <2>3, <2>4 DEF TypeOK
  <1>3. ExclusiveAccess
    BY Zenon, <1>1 DEF ExclusiveAccess
  <1>4. NoLostWakeup
    BY Zenon, <1>1 DEF NoLostWakeup
  <1>5. MarkIsOwned
    BY Zenon, <1>1 DEF MarkIsOwned
  <1>6. WokenForReason
    BY Zenon, <1>1 DEF WokenForReason
  <1>7. QED
    BY ZenonT(40), <1>2, <1>3, <1>4, <1>5, <1>6 DEF Access

(* Every step of a task keeps it. *)
LEMMA TaskAccess ==
  ASSUME Access, NEW k \in Task, Add(k) \/ TaskStep(k)
  PROVE  Access'
  <1>1. CASE Add(k)
    <2>1. Delivering' = Delivering
      BY Zenon, <1>1 DEF Add, Delivering, Access, TypeOK
    <2>2. QED
      BY SMTT(30), <1>1, <2>1 DEF Add, sink, Access, TypeOK, ExclusiveAccess, NoLostWakeup, MarkIsOwned,
        WokenForReason
  <1>2. CASE PushList(k)
    <2>1. Delivering' = Delivering
      BY Zenon, <1>2 DEF PushList, Delivering, Access, TypeOK
    <2>2. <<k>> \o lastReady.list \in Seq(Task) /\ <<k>> \o lastReady.list # <<>>
      BY SMTT(30) DEF Access, TypeOK
    <2>3. CASE lastReady.mark = "detached"
      BY ZenonT(40), <1>2, <2>1, <2>3 DEF PushList, Access, TypeOK, ExclusiveAccess, NoLostWakeup,
        MarkIsOwned, WokenForReason
    <2>4. CASE lastReady.mark # "detached"
      <3>1. /\ lastReady' \in [mark : {"none", "awaiting", "detached", "cancelled"},
                                list : Seq(Task)]
            /\ lastReady'.mark = "none" /\ lastReady'.list # <<>>
        <4>1. lastReady' = [mark |-> "none", list |-> <<k>> \o lastReady.list]
          BY Zenon, <1>2, <2>4 DEF PushList
        <4>2. QED
          BY ZenonT(40), <2>2, <4>1, WordType
      <3>2. finished' \in Seq(Task)
        <4>1. finished' = Append(finished, k) /\ finished \in Seq(Task)
          BY ZenonT(40), <1>2, <2>4 DEF PushList, Access, TypeOK
        <4>2. QED
          BY SMTT(30), <4>1
      <3>3. QED
        BY SMTT(30), <1>2, <2>1, <2>4, <3>1, <3>2 DEF PushList, Access, TypeOK, ExclusiveAccess,
          NoLostWakeup, MarkIsOwned, WokenForReason
    <2>5. QED
      BY Zenon, <2>3, <2>4
  <1>3. CASE PushClaim(k)
    <2>1. Delivering = {} /\ Delivering' = {k}
      BY ZenonT(40), <1>3 DEF PushClaim, Delivering, Access, TypeOK, MarkIsOwned
    <2>2. QED
      BY SMTT(30), <1>3, <2>1 DEF PushClaim, Null, Mark, Access, TypeOK, ExclusiveAccess, NoLostWakeup,
        MarkIsOwned, WokenForReason
  <1>4. CASE PushDeliver(k)
    <2>1. Delivering = {k} /\ Delivering' = {}
      BY SMTT(30), <1>4 DEF PushDeliver, Delivering, Access, TypeOK, ExclusiveAccess
    <2>2. <<k>> \o readyQueue \in Seq(Task) /\ <<k>> \o readyQueue # <<>>
      BY SMTT(30) DEF Access, TypeOK
    <2>3. QED
      BY ZenonT(60), <1>4, <2>1, <2>2 DEF PushDeliver, Access, TypeOK, ExclusiveAccess, NoLostWakeup,
        MarkIsOwned, WokenForReason
  <1>5. QED
    BY ZenonT(40), <1>1, <1>2, <1>3, <1>4 DEF TaskStep

(* Reversing a list gives a list of the same length. *)
LEMMA ReverseType ==
  ASSUME NEW S, NEW s \in Seq(S)
  PROVE  Reverse(s) \in Seq(S) /\ Len(Reverse(s)) = Len(s)
  BY SMTT(30) DEF Reverse

(* Every other step keeps it. *)
LEMMA OtherAccess ==
  ASSUME Access, Counted,
         \/ \E o \in {"next", "when_ready"} : Await(o)
         \/ ConsumerStep \/ CancelStep \/ DestroyAwaiter \/ Close \/ Detach \/ RequestStop
  PROVE  Access'
  <1> USE DEF Null, Mark, sink, Access, TypeOK, ExclusiveAccess, NoLostWakeup, MarkIsOwned,
              WokenForReason
  <1>0. ASSUME UNCHANGED task PROVE Delivering' = Delivering
    BY Zenon, <1>0 DEF Delivering
  <1>1. ASSUME NEW o \in {"next", "when_ready"}, Await(o) PROVE Access'
    BY ZenonT(40), <1>0, <1>1 DEF Await, IsReady
  <1>2. CASE Arm
    BY SMTT(30), <1>0, <1>2 DEF Arm
  <1>3. CASE Suspend
    <2>1. continuation' \in BOOLEAN /\ (pc' = "suspended" => continuation')
      BY <1>3, Zenon DEF Suspend
    <2>2. UNCHANGED <<readyQueue, count, task, op, stop, callback, scope, finished, consumed>>
      BY Zenon, <1>3 DEF Suspend
    <2>3. \/ lastReady = Null /\ lastReady' = Mark("awaiting") /\ pc' = "suspended"
          \/ lastReady # Null /\ pc' = "resuming"
             /\ lastReady' = IF lastReady.mark = "cancelled" THEN Null ELSE lastReady
      BY Zenon, <1>3 DEF Suspend
    <2>4. pc = "suspending" /\ Delivering' = {} /\ callback' # "resuming"
      BY Zenon, <1>0, <1>3, <2>2 DEF Suspend
    <2>5. CASE lastReady = Null
      <3>1. /\ lastReady' \in [mark : {"none", "awaiting", "detached", "cancelled"},
                                list : Seq(Task)]
            /\ lastReady'.mark = "awaiting" /\ lastReady'.list = <<>> /\ pc' = "suspended"
        <4>1. lastReady' = [mark |-> "awaiting", list |-> <<>>] /\ <<>> \in Seq(Task)
          BY ZenonT(40), <2>3, <2>5
        <4>2. QED
          BY Zenon, <2>3, <2>5, <4>1, WordType
      <3>2. QED
        BY Zenon, <2>1, <2>2, <2>4, <3>1
    <2>6. CASE lastReady.mark = "cancelled"
      BY SMTT(30), <2>1, <2>2, <2>3, <2>4, <2>6
    <2>7. CASE lastReady # Null /\ lastReady.mark # "cancelled"
      <3>1. lastReady.mark = "none" /\ lastReady.list # <<>> /\ lastReady' = lastReady
        BY ZenonT(40), <2>3, <2>4, <2>7
      <3>2. QED
        BY ZenonT(40), <2>1, <2>2, <2>3, <2>4, <2>7, <3>1
    <2>8. QED
      BY Zenon, <2>5, <2>6, <2>7
  <1>4. CASE TakeResult
    <2>1. /\ Reverse(lastReady.list) \in Seq(Task)
          /\ \A q \in Seq(Task) : q # <<>> => Head(q) \in Task /\ Tail(q) \in Seq(Task)
      BY SMTT(30), ReverseType
    <2> DEFINE queue == IF readyQueue # <<>> THEN readyQueue ELSE Reverse(lastReady.list)
    <2>2. CASE queue = <<>>
      BY ZenonT(40), <1>0, <1>4, <2>2 DEF TakeResult
    <2>3. CASE queue # <<>>
      <3>1. Len(readyQueue) + Len(lastReady.list) > 0
        BY SMTT(30), <2>3, ReverseType
      <3>2. count - 1 \in Nat
        BY SMTT(30), <1>4, <3>1, FS_CardinalityType DEF Counted, TakeResult
      <3>3. queue \in Seq(Task)
        BY Zenon, <2>1
      <3> HIDE DEF queue
      <3>4. Head(queue) \in Task /\ Tail(queue) \in Seq(Task)
        BY ZenonT(40), <2>1, <2>3, <3>3
      <3>5. /\ readyQueue' = Tail(queue)
            /\ lastReady' = IF readyQueue # <<>> THEN lastReady ELSE Null
            /\ consumed' = Append(consumed, Head(queue))
            /\ count' = count - 1 /\ pc = "resuming" /\ pc' = "idle" /\ op = "next"
            /\ UNCHANGED <<continuation, task, op, stop, callback, scope, finished>>
        BY ZenonT(40), <1>4, <2>3 DEF TakeResult, queue
      <3>6. Append(consumed, Head(queue)) \in Seq(Task)
        BY SMTT(30), <3>4
      <3>7. QED
        BY ZenonT(40), <1>0, <3>2, <3>4, <3>5, <3>6
    <2>4. QED
      BY Zenon, <2>2, <2>3
  <1>5. CASE ReturnReady
    BY ZenonT(40), <1>0, <1>5 DEF ReturnReady
  <1>6. CASE CancelClaim
    BY SMTT(30), <1>0, <1>6 DEF CancelClaim
  <1>7. CASE CancelResume
    BY Zenon, <1>0, <1>7 DEF CancelResume
  <1>8. CASE DestroyAwaiter
    BY ZenonT(40), <1>0, <1>8 DEF DestroyAwaiter
  <1>9. CASE Close
    BY ZenonT(40), <1>0, <1>9 DEF Close
  <1>10. CASE Detach
    BY SMTT(30), <1>0, <1>10 DEF Detach
  <1>11. CASE RequestStop
    BY SMTT(30), <1>0, <1>11 DEF RequestStop
  <1>12. QED
    BY Zenon, <1>1, <1>2, <1>3, <1>4, <1>5, <1>6, <1>7, <1>8, <1>9, <1>10, <1>11
    DEF ConsumerStep, CancelStep

(* Every step keeps the number of results that are there or to come equal  *)
(* to count_: add() and await_resume change both, push moves one over.     *)
LEMMA StepCounted == Access /\ Counted /\ [Next]_vars => Counted'
  <1> SUFFICES ASSUME Access, Counted, [Next]_vars PROVE Counted'
    OBVIOUS
  <1>0. /\ readyQueue \in Seq(Task) /\ lastReady.list \in Seq(Task) /\ count \in Nat
        /\ Len(readyQueue) \in Nat /\ Len(lastReady.list) \in Nat /\ Cardinality(Pending) \in Nat
    BY SMTT(30), FS_CardinalityType DEF Access, TypeOK, Counted
  <1>a. ASSUME NEW k \in Pending, Pending' = Pending \ {k}
        PROVE  IsFiniteSet(Pending') /\ Cardinality(Pending') = Cardinality(Pending) - 1
    BY ZenonT(40), <1>a, FS_RemoveElement DEF Counted
  <1>1. ASSUME NEW k \in Task, Add(k) PROVE Counted'
    <2>1. Pending' = Pending \union {k} /\ k \notin Pending
      BY Zenon, <1>1 DEF Add, Pending, Access, TypeOK
    <2>2. IsFiniteSet(Pending') /\ Cardinality(Pending') = Cardinality(Pending) + 1
      BY Zenon, <2>1, FS_AddElement DEF Counted
    <2>3. QED
      BY SMTT(30), <1>0, <1>1, <2>2 DEF Add, sink, Counted
  <1>2. ASSUME NEW k \in Task, PushList(k) PROVE Counted'
    <2>1. Pending' = Pending \ {k} /\ k \in Pending
      BY Zenon, <1>2 DEF PushList, Pending, Access, TypeOK
    <2>2. IsFiniteSet(Pending') /\ Cardinality(Pending') = Cardinality(Pending) - 1
      BY Zenon, <1>a, <2>1
    <2>3. CASE lastReady.mark = "detached"
      BY ZenonT(40), <1>2, <2>2, <2>3 DEF PushList, Counted, Access, MarkIsOwned
    <2>4. CASE lastReady.mark # "detached"
      <3>1. lastReady' = [mark |-> "none", list |-> <<k>> \o lastReady.list]
        BY Zenon, <1>2, <2>4 DEF PushList
      <3>2. lastReady'.list = <<k>> \o lastReady.list
        BY Zenon, <3>1
      <3>3. Len(<<k>> \o lastReady.list) = Len(lastReady.list) + 1
        BY SMTT(30), <1>0
      <3>4. UNCHANGED <<readyQueue, count, pc>> /\ pc # "detached"
        BY ZenonT(40), <1>2, <2>4 DEF PushList, Access, MarkIsOwned
      <3>5. QED
        BY SMTT(30), <1>0, <2>2, <3>2, <3>3, <3>4 DEF Counted
    <2>5. QED
      BY Zenon, <2>3, <2>4
  <1>3. ASSUME NEW k \in Task, PushClaim(k) PROVE Counted'
    <2>1. Pending' = Pending
      BY Zenon, <1>3 DEF PushClaim, Pending, Access, TypeOK
    <2>2. lastReady'.list = lastReady.list /\ UNCHANGED <<readyQueue, count, pc>>
      BY Zenon, <1>3 DEF PushClaim, Null, Mark, Access, TypeOK
    <2>3. QED
      BY Zenon, <2>1, <2>2 DEF Counted
  <1>4. ASSUME NEW k \in Task, PushDeliver(k) PROVE Counted'
    <2>1. Pending' = Pending \ {k} /\ k \in Pending
      BY Zenon, <1>4 DEF PushDeliver, Pending, Access, TypeOK
    <2>2. IsFiniteSet(Pending') /\ Cardinality(Pending') = Cardinality(Pending) - 1
      BY Zenon, <1>a, <2>1
    <2>3. Len(<<k>> \o readyQueue) = Len(readyQueue) + 1
      BY SMTT(30), <1>0
    <2>4. readyQueue' = <<k>> \o readyQueue /\ UNCHANGED <<lastReady, count>>
      BY Zenon, <1>4 DEF PushDeliver
    <2>5. pc # "detached"
      BY Zenon, <1>4 DEF PushDeliver, Access, ExclusiveAccess, Delivering
    <2>6. QED
      BY SMTT(30), <1>0, <2>2, <2>3, <2>4, <2>5 DEF Counted
  <1>5. ASSUME UNCHANGED <<task, count, readyQueue>>, lastReady'.list = lastReady.list,
               pc' = "detached" <=> pc = "detached"
        PROVE  Counted'
    BY Zenon, <1>5 DEF Counted, Pending
  <1>6. ASSUME NEW o \in {"next", "when_ready"}, Await(o) PROVE Counted'
    BY ZenonT(40), <1>5, <1>6 DEF Await, sink
  <1>7. CASE Arm
    BY SMTT(30), <1>5, <1>7 DEF Arm, Null, Mark
  <1>8. CASE Suspend
    BY SMTT(30), <1>5, <1>8 DEF Suspend, Null, Mark, Access, TypeOK
  <1>9. CASE TakeResult
    <2> DEFINE queue == IF readyQueue # <<>> THEN readyQueue ELSE Reverse(lastReady.list)
    <2>1. CASE queue = <<>>
      BY ZenonT(40), <1>5, <1>9, <2>1 DEF TakeResult
    <2>2. CASE queue # <<>>
      <3>1. queue \in Seq(Task) /\ Pending' = Pending
        BY ZenonT(40), <1>0, <1>9, ReverseType DEF TakeResult, Pending
      <3>2. Len(queue) = IF readyQueue # <<>> THEN Len(readyQueue) ELSE Len(lastReady.list)
        BY ZenonT(40), <1>0, ReverseType
      <3>3. /\ readyQueue' = Tail(queue) /\ count' = count - 1 /\ pc = "resuming"
            /\ lastReady' = IF readyQueue # <<>> THEN lastReady ELSE Null
        BY Zenon, <1>9, <2>2 DEF TakeResult
      <3>4. lastReady'.list = IF readyQueue # <<>> THEN lastReady.list ELSE <<>>
        BY Zenon, <3>3 DEF Null, Mark
      <3> HIDE DEF queue
      <3>5. Len(Tail(queue)) = Len(queue) - 1
        BY SMTT(30), <2>2, <3>1
      <3>6. Len(readyQueue') + Len(lastReady'.list) = Len(readyQueue) + Len(lastReady.list) - 1
        <4>1. Len(<<>>) = 0 /\ Len(queue) \in Nat
          BY SMTT(30), <3>1
        <4>2. CASE readyQueue # <<>>
          <5>1. Len(readyQueue') = Len(readyQueue) - 1 /\ Len(lastReady'.list) = Len(lastReady.list)
            BY ZenonT(40), <3>2, <3>3, <3>4, <3>5, <4>2
          <5>2. QED
            BY SMTT(30), <1>0, <5>1
        <4>3. CASE readyQueue = <<>>
          <5>1. /\ Len(readyQueue') = Len(lastReady.list) - 1 /\ Len(lastReady'.list) = 0
                /\ Len(readyQueue) = 0
            BY SMTT(30), <3>2, <3>3, <3>4, <3>5, <4>1, <4>3
          <5>2. QED
            BY SMTT(30), <1>0, <5>1
        <4>4. QED
          BY Zenon, <4>2, <4>3
      <3>7. Tail(queue) \in Seq(Task) /\ lastReady'.list \in Seq(Task)
        BY SMTT(30), <1>0, <2>2, <3>1, <3>4
      <3>8. Len(readyQueue') \in Nat /\ Len(lastReady'.list) \in Nat
        BY SMTT(30), <3>3, <3>7
      <3>9. count = Cardinality(Pending) + Len(readyQueue) + Len(lastReady.list)
        BY Zenon, <3>3 DEF Counted
      <3>10. count' = Cardinality(Pending) + Len(readyQueue') + Len(lastReady'.list)
        <4>1. count' = count - 1
          BY Zenon, <3>3
        <4>2. QED
          <5> DEFINE p == Cardinality(Pending)
                     a == Len(readyQueue)   b == Len(lastReady.list)
                     c == Len(readyQueue')  d == Len(lastReady'.list)
          <5>1. p \in Nat /\ a \in Nat /\ b \in Nat /\ c \in Nat /\ d \in Nat /\ count \in Nat
            BY Zenon, <1>0, <3>8
          <5>2. count = p + a + b /\ c + d = a + b - 1
            BY Zenon, <3>6, <3>9
          <5> HIDE DEF p, a, b, c, d
          <5>3. count' = p + c + d
            BY SMTT(30), <4>1, <5>1, <5>2
          <5>4. QED
            BY Zenon, <5>3 DEF p, c, d
      <3>11. QED
        BY Zenon, <3>1, <3>10 DEF Counted
    <2>3. QED
      BY Zenon, <2>1, <2>2
  <1>10. CASE ReturnReady
    BY ZenonT(40), <1>5, <1>10 DEF ReturnReady, sink
  <1>11. CASE CancelClaim
    BY SMTT(30), <1>5, <1>11 DEF CancelClaim, Null, Mark, Access, TypeOK
  <1>12. CASE CancelResume
    BY Zenon, <1>5, <1>12 DEF CancelResume, Access, ExclusiveAccess
  <1>13. CASE DestroyAwaiter
    BY Zenon, <1>5, <1>13 DEF DestroyAwaiter, Null, Mark, Access, TypeOK
  <1>14. CASE Close
    BY Zenon, <1>5, <1>14 DEF Close, sink
  <1>15. CASE Detach
    BY Zenon, <1>15 DEF Detach, Counted, Pending
  <1>16. CASE RequestStop
    BY Zenon, <1>5, <1>16 DEF RequestStop, sink
  <1>17. CASE UNCHANGED vars
    BY Zenon, <1>5, <1>17 DEF vars
  <1>18. QED
    BY SMTT(30), <1>1, <1>2, <1>3, <1>4, <1>6, <1>7, <1>8, <1>9, <1>10, <1>11, <1>12, <1>13, <1>14,
       <1>15, <1>16, <1>17 DEF Next, TaskStep, ConsumerStep, CancelStep

(***************************************************************************)
(* The order of results.                                                   *)
(***************************************************************************)

(* What a push to the front of a list does to its reversal. *)
LEMMA ReverseCons ==
  ASSUME NEW S, NEW s \in Seq(S), NEW e \in S
  PROVE  Reverse(<<e>> \o s) = Reverse(s) \o <<e>>
  <1>1. /\ <<e>> \o s \in Seq(S) /\ Len(<<e>> \o s) = Len(s) + 1
        /\ \A i \in 1..(Len(s) + 1) : (<<e>> \o s)[i] = IF i <= 1 THEN e ELSE s[i - 1]
    OBVIOUS
  <1>2. /\ Reverse(<<e>> \o s) \in Seq(S) /\ Len(Reverse(<<e>> \o s)) = Len(s) + 1
        /\ Reverse(s) \in Seq(S) /\ Len(Reverse(s)) = Len(s)
    BY Zenon, <1>1, ReverseType
  <1>3. /\ Reverse(s) \o <<e>> \in Seq(S) /\ Len(Reverse(s) \o <<e>>) = Len(s) + 1
        /\ \A i \in 1..(Len(s) + 1) :
             (Reverse(s) \o <<e>>)[i] = IF i <= Len(s) THEN Reverse(s)[i] ELSE e
    BY SMTT(30), <1>2
  <1>4. ASSUME NEW i \in 1..(Len(s) + 1)
        PROVE  Reverse(<<e>> \o s)[i] = (Reverse(s) \o <<e>>)[i]
    <2>1. Reverse(<<e>> \o s)[i] = (<<e>> \o s)[Len(s) + 1 - i + 1]
      BY SMTT(30), <1>1 DEF Reverse
    <2>2. CASE i <= Len(s)
      <3>1. Reverse(s)[i] = s[Len(s) - i + 1]
        BY SMTT(30), <2>2 DEF Reverse
      <3>2. (<<e>> \o s)[Len(s) + 1 - i + 1] = s[Len(s) + 1 - i]
        BY SMTT(30), <1>1, <2>2
      <3>3. QED
        BY SMTT(30), <1>3, <2>1, <2>2, <3>1, <3>2
    <2>3. CASE i = Len(s) + 1
      BY SMTT(30), <1>1, <1>3, <2>1, <2>3
    <2>4. Len(s) \in Nat /\ (i <= Len(s) \/ i = Len(s) + 1)
      <3>1. Len(s) \in Nat
        OBVIOUS
      <3>2. QED
        BY SMTT(30), <3>1
    <2>5. QED
      BY Zenon, <2>2, <2>3, <2>4
  <1>5. QED
    BY ZenonT(40), <1>2, <1>3, <1>4, SeqEqual

(* The sequences of no task and of one task. *)
LEMMA SetToSeqOne ==
  /\ SetToSeq({}) = <<>>
  /\ \A k \in Task : SetToSeq({k}) = <<k>>
  <1>1. SetToSeq({}) = <<>>
    <2>1. Cardinality({}) = 0
      BY Zenon, FS_EmptySet
    <2>2. <<>> \in [1..0 -> {}] /\ \A f \in [1..0 -> {}] : f = <<>>
      OBVIOUS
    <2>3. IsInjective(<<>>)
      BY SMTT(30) DEF IsInjective
    <2>4. QED
      BY Zenon, <2>1, <2>2, <2>3 DEF SetToSeq
  <1>2. ASSUME NEW k \in Task PROVE SetToSeq({k}) = <<k>>
    <2>1. Cardinality({k}) = 1
      BY Zenon, FS_Singleton
    <2>2. <<k>> \in [1..1 -> {k}] /\ \A f \in [1..1 -> {k}] : f = <<k>>
      OBVIOUS
    <2>3. IsInjective(<<k>>)
      BY SMTT(30) DEF IsInjective
    <2>4. QED
      BY Zenon, <2>1, <2>2, <2>3 DEF SetToSeq
  <1>3. QED
    BY Zenon, <1>1, <1>2

(* A consumer that is about to suspend, or is suspended, has found an      *)
(* empty ready queue, so a result that is handed to it is the oldest.      *)
OnlyOneDelivered ==
  pc \in {"arming", "suspending", "suspended"} => readyQueue = <<>>

Ordered == Access /\ OnlyOneDelivered /\ ResultsInOrder

(* Concatenation of lists of tasks is associative. *)
LEMMA Assoc ==
  ASSUME NEW a \in Seq(Task), NEW b \in Seq(Task), NEW c \in Seq(Task)
  PROVE  (a \o b) \o c = a \o (b \o c)
  <1>1. /\ (a \o b) \o c \in Seq(Task) /\ a \o (b \o c) \in Seq(Task)
        /\ Len((a \o b) \o c) = Len(a \o (b \o c))
        /\ \A i \in 1..Len((a \o b) \o c) : ((a \o b) \o c)[i] = (a \o (b \o c))[i]
    OBVIOUS
  <1>2. QED
    BY Zenon, <1>1, SeqEqual

(* The order of results is kept by the steps that move a result. *)
LEMMA PushOrdered ==
  ASSUME Ordered, Access', NEW k \in Task, TaskStep(k)
  PROVE  ResultsInOrder'
  <1> DEFINE list == lastReady.list
  <1>0. /\ list \in Seq(Task) /\ readyQueue \in Seq(Task) /\ consumed \in Seq(Task)
        /\ finished \in Seq(Task) /\ Reverse(list) \in Seq(Task) /\ <<>> \in Seq(Task)
        /\ <<k>> \in Seq(Task)
    BY SMTT(30), ReverseType DEF Ordered, Access, TypeOK
  <1>1. CASE PushList(k)
    <2>1. CASE pc = "detached"
      BY Zenon, <1>1, <2>1 DEF PushList, ResultsInOrder
    <2>2. CASE pc # "detached"
      <3>1. lastReady.mark # "detached"
        BY Zenon, <2>2 DEF Ordered, Access, MarkIsOwned
      <3>2. /\ lastReady' = [mark |-> "none", list |-> <<k>> \o list]
            /\ finished' = Append(finished, k) /\ UNCHANGED <<readyQueue, consumed, pc>>
        BY Zenon, <1>1, <3>1 DEF PushList
      <3>3. Reverse(lastReady'.list) = Reverse(list) \o <<k>>
        BY ZenonT(40), <1>0, <3>2, ReverseCons
      <3>4. Delivering' = Delivering
        BY Zenon, <1>1 DEF PushList, Delivering, Ordered, Access, TypeOK
      <3>5. SetToSeq(Delivering) \in Seq(Task)
        <4>1. Delivering = {} \/ \E j \in Task : Delivering = {j}
          BY SMTT(30) DEF Ordered, Access, ExclusiveAccess, Delivering
        <4>2. QED
          <5>1. \A j \in Task : <<j>> \in Seq(Task)
            OBVIOUS
          <5>2. QED
            BY <1>0, <4>1, <5>1, SetToSeqOne, ZenonT(40)
      <3> DEFINE front == consumed \o SetToSeq(Delivering) \o readyQueue
      <3>6. front \in Seq(Task)
        BY ZenonT(40), <1>0, <3>5, ConcatProperties
      <3>7. finished = front \o Reverse(list)
        BY Zenon, <2>2 DEF Ordered, ResultsInOrder
      <3> HIDE DEF front
      <3>8. finished' = (front \o Reverse(list)) \o <<k>>
        BY ZenonT(40), <1>0, <3>2, <3>7, AppendIsConcat
      <3>9. finished' = front \o (Reverse(list) \o <<k>>)
        <4>1. front \in Seq(Task) /\ <<k>> \in Seq(Task) /\ Reverse(list) \in Seq(Task)
          BY Zenon, <1>0, <3>6
        <4>2. QED
          BY ZenonT(40), <3>8, <4>1, Assoc
      <3>10. QED
        BY ZenonT(40), <3>2, <3>3, <3>4, <3>9 DEF ResultsInOrder, front
    <2>3. QED
      BY Zenon, <2>1, <2>2
  <1>2. CASE PushClaim(k)
    <2>1. /\ Delivering = {} /\ Delivering' = {k} /\ pc = "suspended"
          /\ finished' = Append(finished, k) /\ UNCHANGED <<consumed, readyQueue, pc>>
          /\ readyQueue = <<>> /\ list = <<>> /\ lastReady' = Null
      BY SMTT(30), <1>2 DEF PushClaim, Delivering, Ordered, Access, TypeOK, MarkIsOwned, OnlyOneDelivered
    <2>2. Reverse(<<>>) = <<>> /\ lastReady'.list = <<>>
      BY SMTT(30), <2>1 DEF Reverse, Null, Mark
    <2>3. finished = consumed
      <3>1. finished = consumed \o <<>> \o <<>> \o <<>>
        BY ZenonT(40), <2>1, <2>2, SetToSeqOne DEF Ordered, ResultsInOrder
      <3>2. QED
        BY Zenon, <1>0, <3>1, ConcatEmptySeq
    <2>4. finished' = consumed \o <<k>>
      BY ZenonT(40), <1>0, <2>1, <2>3, AppendIsConcat
    <2>5. consumed \o <<k>> \o <<>> \o <<>> = consumed \o <<k>>
      BY SMTT(30), <1>0, ConcatEmptySeq, ConcatProperties
    <2>6. QED
      BY ZenonT(40), <2>1, <2>2, <2>4, <2>5, SetToSeqOne DEF ResultsInOrder
  <1>3. CASE PushDeliver(k)
    <2>1. /\ Delivering = {k} /\ Delivering' = {} /\ pc = "suspended"
          /\ readyQueue' = <<k>> \o readyQueue /\ UNCHANGED <<consumed, finished, lastReady>>
      BY SMTT(30), <1>3 DEF PushDeliver, Delivering, Ordered, Access, TypeOK, ExclusiveAccess
    <2>2. finished = consumed \o <<k>> \o readyQueue \o Reverse(list)
      BY Zenon, <2>1, SetToSeqOne DEF Ordered, ResultsInOrder
    <2>3. consumed \o <<>> \o (<<k>> \o readyQueue) = consumed \o <<k>> \o readyQueue
      <3>1. consumed \o <<>> = consumed
        BY Zenon, <1>0, ConcatEmptySeq
      <3>2. QED
        <4>1. consumed \in Seq(Task) /\ <<k>> \in Seq(Task) /\ readyQueue \in Seq(Task)
          BY Zenon, <1>0
        <4>2. (consumed \o <<k>>) \o readyQueue = consumed \o (<<k>> \o readyQueue)
          BY ZenonT(40), <4>1, Assoc
        <4>3. QED
          BY Zenon, <3>1, <4>2
    <2>4. QED
      BY ZenonT(40), <2>1, <2>2, <2>3, SetToSeqOne DEF ResultsInOrder
  <1>4. QED
    BY ZenonT(40), <1>1, <1>2, <1>3 DEF TaskStep

(* await_resume takes the oldest result, from the ready queue or from the  *)
(* end of the list.                                                        *)
LEMMA TakeOrdered ==
  ASSUME Ordered, TakeResult
  PROVE  ResultsInOrder'
  <1> DEFINE queue == IF readyQueue # <<>> THEN readyQueue ELSE Reverse(lastReady.list)
             rest == IF readyQueue # <<>> THEN Reverse(lastReady.list) ELSE <<>>
  <1>0. /\ lastReady.list \in Seq(Task) /\ readyQueue \in Seq(Task) /\ consumed \in Seq(Task)
        /\ Reverse(lastReady.list) \in Seq(Task) /\ <<>> \in Seq(Task)
    BY SMTT(30), ReverseType DEF Ordered, Access, TypeOK
  <1>1. Delivering = {} /\ Delivering' = {} /\ pc = "resuming" /\ finished' = finished
    BY Zenon DEF TakeResult, Ordered, Access, ExclusiveAccess, Delivering
  <1>2. consumed \o <<>> = consumed
    BY Zenon, <1>0, ConcatEmptySeq
  <1>3. finished = consumed \o readyQueue \o Reverse(lastReady.list)
    <2>1. finished = consumed \o <<>> \o readyQueue \o Reverse(lastReady.list)
      BY Zenon, <1>1, SetToSeqOne DEF Ordered, ResultsInOrder
    <2>2. QED
      BY Zenon, <1>2, <2>1
  <1>4. finished = consumed \o queue \o rest
    <2>1. CASE readyQueue # <<>>
      BY Zenon, <1>3, <2>1
    <2>2. CASE readyQueue = <<>>
      <3>1. consumed \o Reverse(lastReady.list) \in Seq(Task)
        BY Zenon, <1>0, ConcatProperties
      <3>2. (consumed \o Reverse(lastReady.list)) \o <<>> = consumed \o Reverse(lastReady.list)
        BY Zenon, <3>1, ConcatEmptySeq
      <3>3. QED
        BY ZenonT(40), <1>2, <1>3, <2>2, <3>2
    <2>3. QED
      BY Zenon, <2>1, <2>2
  <1>5. queue \in Seq(Task) /\ rest \in Seq(Task)
    BY Zenon, <1>0
  <1>6. CASE queue = <<>>
    BY Zenon, <1>1, <1>6 DEF TakeResult, Ordered, ResultsInOrder
  <1>7. CASE queue # <<>>
    <2>1. /\ readyQueue' = Tail(queue) /\ consumed' = Append(consumed, Head(queue))
          /\ lastReady' = IF readyQueue # <<>> THEN lastReady ELSE Null
      BY Zenon, <1>7 DEF TakeResult
    <2>2. Reverse(lastReady'.list) = rest
      <3>1. Reverse(<<>>) = <<>>
        BY SMTT(30) DEF Reverse
      <3>2. QED
        BY Zenon, <2>1, <3>1 DEF Null, Mark
    <2> HIDE DEF queue, rest
    <2>3. Head(queue) \in Task /\ Tail(queue) \in Seq(Task) /\ <<Head(queue)>> \in Seq(Task)
      BY SMTT(30), <1>5, <1>7
    <2>4. queue = <<Head(queue)>> \o Tail(queue)
      BY SMTT(30), <1>5, <1>7
    <2>5. consumed' = consumed \o <<Head(queue)>> /\ consumed' \in Seq(Task)
      BY ZenonT(40), <1>0, <2>1, <2>3, AppendIsConcat, AppendProperties
    <2>6. consumed \o queue = (consumed \o <<Head(queue)>>) \o Tail(queue)
      <3>1. (consumed \o <<Head(queue)>>) \o Tail(queue) = consumed \o (<<Head(queue)>> \o Tail(queue))
        BY SMTT(30), <1>0, <2>3, Assoc
      <3>2. QED
        BY ZenonT(40), <2>4, <3>1
    <2>7. consumed' \o <<>> = consumed'
      BY Zenon, <2>5, ConcatEmptySeq
    <2>8. finished' = consumed' \o <<>> \o readyQueue' \o Reverse(lastReady'.list)
      BY Zenon, <1>1, <1>4, <2>1, <2>2, <2>5, <2>6, <2>7
    <2>9. QED
      BY Zenon, <1>1, <2>8, SetToSeqOne DEF ResultsInOrder
  <1>8. QED
    BY Zenon, <1>6, <1>7

(* Every step keeps the order. *)
LEMMA StepOrdered == Ordered /\ Access' /\ [Next]_vars => Ordered'
  <1> SUFFICES ASSUME Ordered, Access', [Next]_vars PROVE OnlyOneDelivered' /\ ResultsInOrder'
    BY Zenon DEF Ordered
  <1>0. ASSUME UNCHANGED <<task, finished, consumed, readyQueue>>, lastReady'.list = lastReady.list,
               pc' # "detached" => pc # "detached"
        PROVE  ResultsInOrder'
    BY Zenon, <1>0 DEF Ordered, ResultsInOrder, Delivering
  <1>1. ASSUME NEW k \in Task, TaskStep(k) PROVE OnlyOneDelivered' /\ ResultsInOrder'
    BY Zenon, <1>1, PushOrdered DEF TaskStep, PushList, PushClaim, PushDeliver, Ordered, OnlyOneDelivered
  <1>2. ASSUME NEW k \in Task, Add(k) PROVE OnlyOneDelivered' /\ ResultsInOrder'
    <2>1. Delivering' = Delivering
      BY Zenon, <1>2 DEF Add, Delivering, Ordered, Access, TypeOK
    <2>2. QED
      BY Zenon, <1>2, <2>1 DEF Add, sink, Ordered, OnlyOneDelivered, ResultsInOrder
  <1>3. ASSUME NEW o \in {"next", "when_ready"}, Await(o) PROVE OnlyOneDelivered' /\ ResultsInOrder'
    BY Zenon, <1>0, <1>3 DEF Await, IsReady, sink, OnlyOneDelivered
  <1>4. CASE Arm
    BY SMTT(30), <1>0, <1>4 DEF Arm, Null, Mark, Ordered, OnlyOneDelivered
  <1>5. CASE Suspend
    BY SMTT(30), <1>0, <1>5 DEF Suspend, Null, Mark, Ordered, OnlyOneDelivered, Access, TypeOK
  <1>6. CASE TakeResult
    BY Zenon, <1>6, TakeOrdered DEF TakeResult, OnlyOneDelivered
  <1>7. CASE ReturnReady
    BY ZenonT(40), <1>0, <1>7 DEF ReturnReady, sink, OnlyOneDelivered
  <1>8. CASE CancelClaim
    BY SMTT(30), <1>0, <1>8 DEF CancelClaim, Null, Mark, Ordered, OnlyOneDelivered, Access, TypeOK
  <1>9. CASE CancelResume
    BY Zenon, <1>0, <1>9 DEF CancelResume, OnlyOneDelivered, Ordered, Access, ExclusiveAccess
  <1>10. CASE DestroyAwaiter
    BY Zenon, <1>0, <1>10 DEF DestroyAwaiter, Null, Mark, OnlyOneDelivered, Ordered, Access, TypeOK
  <1>11. CASE Close
    BY Zenon, <1>0, <1>11 DEF Close, sink, OnlyOneDelivered
  <1>12. CASE Detach
    BY Zenon, <1>12 DEF Detach, OnlyOneDelivered, ResultsInOrder
  <1>13. CASE RequestStop
    BY Zenon, <1>0, <1>13 DEF RequestStop, sink, Ordered, OnlyOneDelivered
  <1>14. CASE UNCHANGED vars
    BY Zenon, <1>0, <1>14 DEF vars, Ordered, OnlyOneDelivered
  <1>15. QED
    BY ZenonT(40), <1>1, <1>2, <1>3, <1>4, <1>5, <1>6, <1>7, <1>8, <1>9, <1>10, <1>11, <1>12, <1>13, <1>14
    DEF Next, ConsumerStep, CancelStep

(***************************************************************************)
(* The count of a scope.                                                   *)
(***************************************************************************)

Started == {k \in Task : task[k] # "new"}

Scoped == IsFiniteSet(Started) /\ CountIsExact

(* Every step keeps the count, and with_task_group leaves its loop only    *)
(* when no task is pending.                                                *)
LEMMA StepScoped == Access /\ Counted /\ Scoped /\ [Next]_vars => Scoped'
  <1> SUFFICES ASSUME Access, Counted, Scoped, [Next]_vars PROVE Scoped'
    OBVIOUS
  <1> DEFINE Left == \A k \in Task : task[k] \in {"new", "finished"}
  <1>0. /\ count \in Nat /\ Len(consumed) \in Nat /\ consumed \in Seq(Task)
        /\ count + Len(consumed) = Cardinality(Started)
        /\ (scope = "closing" /\ pc = "detached") => Left
    BY SMTT(30) DEF Access, TypeOK, Scoped, CountIsExact, Started
  <1>1. ASSUME Started' = Started, count' + Len(consumed') = count + Len(consumed),
               (scope' = "closing" /\ pc' = "detached") => Left'
        PROVE  Scoped'
    BY Zenon, <1>0, <1>1 DEF Scoped, CountIsExact, Started
  <1>2. ASSUME NEW k \in Task, TaskStep(k) PROVE Scoped'
    <2>1. Started' = Started
      BY Zenon, <1>2 DEF TaskStep, PushList, PushClaim, PushDeliver, Started, Access, TypeOK
    <2>2. UNCHANGED <<count, consumed, scope>> /\ pc' \in {pc, "resuming"}
      BY Zenon, <1>2 DEF TaskStep, PushList, PushClaim, PushDeliver
    <2>3. Left => Left'
      BY Zenon, <1>2 DEF TaskStep, PushList, PushClaim, PushDeliver, Access, TypeOK
    <2>4. QED
      BY ZenonT(40), <1>0, <1>1, <2>1, <2>2, <2>3
  <1>3. ASSUME NEW k \in Task, Add(k) PROVE Scoped'
    <2>1. Started' = Started \union {k} /\ k \notin Started
      BY Zenon, <1>3 DEF Add, Started, Access, TypeOK
    <2>2. IsFiniteSet(Started') /\ Cardinality(Started') = Cardinality(Started) + 1
      BY Zenon, <2>1, FS_AddElement DEF Scoped
    <2>3. count' = count + 1 /\ consumed' = consumed /\ pc' = "idle"
      BY Zenon, <1>3 DEF Add
    <2>4. count' + Len(consumed') = Cardinality(Started')
      BY SMTT(30), <1>0, <2>2, <2>3
    <2>5. QED
      BY ZenonT(40), <2>2, <2>3, <2>4 DEF Scoped, CountIsExact, Started
  <1>4. ASSUME UNCHANGED <<task, count, consumed, scope>>, pc' = "detached" => pc = "detached"
        PROVE  Scoped'
    BY SMTT(30), <1>0, <1>1, <1>4 DEF Started
  <1>5. ASSUME NEW o \in {"next", "when_ready"}, Await(o) PROVE Scoped'
    BY Zenon, <1>4, <1>5 DEF Await
  <1>6. CASE Arm \/ Suspend \/ ReturnReady
    BY Zenon, <1>4, <1>6 DEF Arm, Suspend, ReturnReady
  <1>7. CASE TakeResult
    <2> DEFINE queue == IF readyQueue # <<>> THEN readyQueue ELSE Reverse(lastReady.list)
    <2>1. CASE queue = <<>>
      BY ZenonT(40), <1>4, <1>7, <2>1 DEF TakeResult
    <2>2. CASE queue # <<>>
      <3>1. /\ consumed' = Append(consumed, Head(queue)) /\ count' = count - 1 /\ pc' = "idle"
            /\ Started' = Started
        BY ZenonT(40), <1>7, <2>2 DEF TakeResult, Started
      <3>2. Head(queue) \in Task
        BY SMTT(30), <2>2, ReverseType DEF Access, TypeOK
      <3> HIDE DEF queue
      <3>3. Len(consumed') = Len(consumed) + 1
        BY SMTT(30), <1>0, <3>1, <3>2, AppendProperties
      <3>4. count' + Len(consumed') = count + Len(consumed)
        BY SMTT(30), <1>0, <3>1, <3>3
      <3>5. QED
        BY ZenonT(40), <1>1, <3>1, <3>4
    <2>3. QED
      BY Zenon, <2>1, <2>2
  <1>8. CASE CancelStep
    BY Zenon, <1>4, <1>8 DEF CancelStep, CancelClaim, CancelResume
  <1>9. CASE DestroyAwaiter \/ RequestStop
    BY Zenon, <1>4, <1>9 DEF DestroyAwaiter, RequestStop
  <1>10. CASE Close
    BY Zenon, <1>1, <1>10 DEF Close, Started
  <1>11. CASE Detach
    <2>1. UNCHANGED <<task, count, consumed, scope>> /\ pc = "idle"
      BY Zenon, <1>11 DEF Detach
    <2>2. ASSUME scope = "closing" PROVE Left
      <3> DEFINE p == Cardinality(Pending)  a == Len(readyQueue)  b == Len(lastReady.list)
      <3>1. count = 0 /\ count = p + a + b
        BY Zenon, <1>11, <2>1, <2>2 DEF Detach, Counted
      <3>2. p \in Nat /\ a \in Nat /\ b \in Nat
        BY SMTT(30), FS_CardinalityType DEF Counted, Access, TypeOK
      <3> HIDE DEF p, a, b
      <3>3. p = 0
        BY SMTT(30), <3>1, <3>2
      <3>4. Pending = {}
        BY Zenon, <3>3, FS_EmptySet DEF p, Counted
      <3>5. QED
        BY Zenon, <3>4 DEF Pending, Access, TypeOK
    <2>3. QED
      BY ZenonT(40), <1>0, <1>1, <2>1, <2>2 DEF Started
  <1>12. CASE UNCHANGED vars
    BY Zenon, <1>4, <1>12 DEF vars
  <1>13. QED
    BY SMTT(30), <1>2, <1>3, <1>5, <1>6, <1>7, <1>8, <1>9, <1>10, <1>11, <1>12 DEF Next, ConsumerStep

(***************************************************************************)
(* The theorems.                                                           *)
(***************************************************************************)

(* Inv is inductive: the access protocol, the count and the order. *)
Inv == Ordered /\ Counted /\ Scoped

(* A new group satisfies all of it. *)
LEMMA InitInv == Init => Inv
  <1> SUFFICES ASSUME Init PROVE Inv
    OBVIOUS
  <1>1. Access
    BY Zenon, InitAccess
  <1>2. /\ lastReady.list = <<>> /\ readyQueue = <<>> /\ count = 0 /\ consumed = <<>>
        /\ finished = <<>> /\ Delivering = {} /\ Pending = {} /\ Started = {} /\ pc = "idle"
    BY Zenon DEF Init, Null, Mark, Delivering, Pending, Started
  <1>3. IsFiniteSet({}) /\ Cardinality({}) = 0 /\ Len(<<>>) = 0
    BY Zenon, FS_EmptySet
  <1>4. Counted
    BY SMTT(30), <1>2, <1>3 DEF Counted
  <1>5. Scoped
    <2>1. {k \in Task : task[k] # "new"} = {}
      BY Zenon, <1>2 DEF Started
    <2>2. count + Len(consumed) = Cardinality({k \in Task : task[k] # "new"})
      <3>1. Cardinality({k \in Task : task[k] # "new"}) = 0
        BY <1>3, <2>1, Zenon
      <3>2. count + Len(consumed) = 0
        BY SMTT(30), <1>2, <1>3
      <3>3. QED
        BY <3>1, <3>2, Zenon
    <2>3. IsFiniteSet(Started) /\ pc # "detached"
      BY Zenon, <1>2, <1>3
    <2>4. QED
      BY ZenonT(40), <2>2, <2>3 DEF Scoped, CountIsExact
  <1>6. <<>> \o <<>> = <<>> /\ Reverse(<<>>) = <<>>
    BY SMTT(30) DEF Reverse
  <1>7. ResultsInOrder
    BY ZenonT(40), <1>2, <1>6, SetToSeqOne DEF ResultsInOrder
  <1>8. OnlyOneDelivered
    BY Zenon, <1>2 DEF OnlyOneDelivered
  <1>9. QED
    BY ZenonT(40), <1>1, <1>4, <1>5, <1>7, <1>8 DEF Inv, Ordered

(* Every step keeps all of it. *)
LEMMA NextInv == Inv /\ [Next]_vars => Inv'
  <1> SUFFICES ASSUME Inv, [Next]_vars PROVE Inv'
    OBVIOUS
  <1>1. Access /\ Counted /\ Scoped /\ Ordered
    BY Zenon DEF Inv, Ordered
  <1>2. Access'
    <2>1. CASE UNCHANGED vars
      BY SMTT(30), <1>1, <2>1 DEF vars, Access, TypeOK, ExclusiveAccess, NoLostWakeup, MarkIsOwned,
        WokenForReason, Delivering
    <2>2. CASE Next
      BY ZenonT(40), <1>1, <2>2, TaskAccess, OtherAccess DEF Next
    <2>3. QED
      BY ZenonT(40), <2>1, <2>2
  <1>3. QED
    BY SMTT(30), <1>1, <1>2, StepCounted, StepScoped, StepOrdered DEF Inv

(* Inv holds in every state. *)
THEOREM InvHolds == Spec => []Inv
  BY InitInv, NextInv, PTL DEF Spec

(* The marker in last_ready is a mutex for ready_queue and continuation:   *)
(* of the pushes, the cancellation and the consumer one has access.        *)
THEOREM PlainFieldsAreSafe == Spec => []ExclusiveAccess
  <1>1. Inv => ExclusiveAccess
    BY Zenon DEF Inv, Ordered, Access
  <1>2. QED
    BY <1>1, InvHolds, PTL

(* A suspended consumer has left its marker or was claimed by somebody who *)
(* is going to resume it.                                                  *)
THEOREM SomebodyWakesConsumer == Spec => []NoLostWakeup
  <1>1. Inv => NoLostWakeup
    BY Zenon DEF Inv, Ordered, Access
  <1>2. QED
    BY <1>1, InvHolds, PTL

(* Results are awaited in the order in which they were pushed, none twice  *)
(* and none lost, whichever of the three ways they take to the consumer.   *)
THEOREM OrderIsKept == Spec => []ResultsInOrder
  <1>1. Inv => ResultsInOrder
    BY Zenon DEF Inv, Ordered
  <1>2. QED
    BY <1>1, InvHolds, PTL

(* await_resume of next() has a result to take, unless there was a stop. *)
THEOREM NextFindsResult == Spec => []NextHasResult
  <1>1. Inv => NextHasResult
    BY Zenon DEF Inv, Ordered, Access, WokenForReason, NextHasResult
  <1>2. QED
    BY <1>1, InvHolds, PTL

(* What a stop finds of a when_ready() that is not awake yet: no callback  *)
(* only if there can be no stop, and after a callback that ended a flag, a *)
(* result or a push that delivers one.                                     *)
StopIsSeen ==
  /\ callback = "armed" => stop = "possible"
  /\ op = "when_ready" /\ pc \in {"suspending", "suspended"} /\ callback = "none" =>
       stop = "impossible"
  /\ pc = "suspending" /\ callback = "done" => lastReady # Null
  /\ pc = "suspended" /\ callback = "done" => Delivering # {}

(* Every step keeps it. *)
LEMMA StepStopIsSeen == Access /\ Access' /\ StopIsSeen /\ [Next]_vars => StopIsSeen'
  <1> SUFFICES ASSUME Access, Access', StopIsSeen, [Next]_vars PROVE StopIsSeen'
    OBVIOUS
  <1>0. ASSUME UNCHANGED task PROVE Delivering' = Delivering
    BY Zenon, <1>0 DEF Delivering
  <1>1. ASSUME NEW k \in Task, Add(k) PROVE StopIsSeen'
    <2>1. Delivering' = Delivering
      BY Zenon, <1>1 DEF Add, Delivering, Access, TypeOK
    <2>2. QED
      BY Zenon, <1>1, <2>1 DEF Add, sink, Null, Mark, StopIsSeen
  <1>2. ASSUME NEW k \in Task, PushList(k) PROVE StopIsSeen'
    <2>1. Delivering' = Delivering
      BY Zenon, <1>2 DEF PushList, Delivering, Access, TypeOK
    <2>2. lastReady # Null => lastReady' # Null
      <3>1. CASE lastReady.mark = "detached"
        BY Zenon, <1>2, <3>1 DEF PushList, Null, Mark
      <3>2. CASE lastReady.mark # "detached"
        <4>1. /\ lastReady' = [mark |-> "none", list |-> <<k>> \o lastReady.list]
              /\ Null = [mark |-> "none", list |-> <<>>]
          BY Zenon, <1>2, <3>2 DEF PushList, Null, Mark
        <4>2. <<k>> \o lastReady.list # <<>>
          BY SMTT(30) DEF Access, TypeOK
        <4>3. lastReady'.list = <<k>> \o lastReady.list /\ Null.list = <<>>
          BY ONLY Zenon, <4>1
        <4>4. QED
          BY ONLY Zenon, <4>2, <4>3
      <3>3. QED
        BY Zenon, <3>1, <3>2
    <2>3. UNCHANGED <<pc, op, stop, callback>>
      BY Zenon, <1>2 DEF PushList
    <2>4. Null' = Null
      BY Zenon DEF Null, Mark
    <2>5. QED
      BY Zenon, <2>1, <2>2, <2>3, <2>4 DEF StopIsSeen
  <1>3. ASSUME NEW k \in Task, PushClaim(k) PROVE StopIsSeen'
    <2>1. Delivering' # {} /\ pc = "suspended"
      BY Zenon, <1>3 DEF PushClaim, Delivering, Access, TypeOK, MarkIsOwned
    <2>2. QED
      BY Zenon, <1>3, <2>1 DEF PushClaim, StopIsSeen
  <1>4. ASSUME NEW k \in Task, PushDeliver(k) PROVE StopIsSeen'
    BY Zenon, <1>4 DEF PushDeliver, StopIsSeen
  <1>5. ASSUME NEW o \in {"next", "when_ready"}, Await(o) PROVE StopIsSeen'
    <2>1. callback = "none" /\ callback' = "none" /\ stop' = stop /\ op' = o /\ pc' # "suspended"
      BY Zenon, <1>5 DEF Await, Access, MarkIsOwned
    <2>2. pc' = "suspending" /\ o = "when_ready" => stop = "impossible"
      BY Zenon, <1>5 DEF Await, Access, TypeOK
    <2>3. QED
      BY Zenon, <2>1, <2>2 DEF StopIsSeen
  <1>6. CASE Arm
    <2>1. /\ pc' = "suspending" /\ stop' = stop /\ stop # "impossible"
          /\ callback' = IF stop = "requested" THEN "done" ELSE "armed"
      BY Zenon, <1>6 DEF Arm, Access, MarkIsOwned
    <2>2. stop = "requested" => lastReady' # Null
      BY Zenon, <1>6 DEF Arm, Null, Mark
    <2>3. Null' = Null
      BY Zenon DEF Null, Mark
    <2>4. QED
      BY Zenon, <2>1, <2>2, <2>3 DEF StopIsSeen, Access, TypeOK
  <1>7. CASE Suspend
    <2>1. /\ pc = "suspending" /\ UNCHANGED <<op, stop, callback>>
          /\ pc' = IF lastReady = Null THEN "suspended" ELSE "resuming"
      BY Zenon, <1>7 DEF Suspend
    <2>2. QED
      BY Zenon, <2>1 DEF StopIsSeen
  <1>8. CASE TakeResult
    <2>1. pc' \notin {"suspending", "suspended"} /\ UNCHANGED <<stop, callback>>
      BY Zenon, <1>8 DEF TakeResult
    <2>2. QED
      BY Zenon, <2>1 DEF StopIsSeen
  <1>9. CASE ReturnReady \/ DestroyAwaiter
    BY Zenon, <1>9 DEF ReturnReady, DestroyAwaiter, StopIsSeen
  <1>10. CASE CancelClaim
    <2>1. /\ callback' = IF lastReady.mark = "awaiting" THEN "resuming" ELSE "done"
          /\ UNCHANGED <<task, pc, op, stop>> /\ callback = "running"
      BY Zenon, <1>10 DEF CancelClaim
    <2>2. lastReady.mark # "awaiting" => lastReady' # Null
      BY Zenon, <1>10 DEF CancelClaim, Null, Mark
    <2>3. pc = "suspended" /\ lastReady.mark # "awaiting" => Delivering # {}
      BY Zenon, <2>1 DEF Access, NoLostWakeup
    <2>4. Null' = Null /\ Delivering' = Delivering
      BY Zenon, <1>0, <2>1 DEF Null, Mark
    <2>5. QED
      BY Zenon, <2>1, <2>2, <2>3, <2>4 DEF StopIsSeen
  <1>11. CASE CancelResume
    BY Zenon, <1>11 DEF CancelResume, StopIsSeen
  <1>12. CASE Close
    BY Zenon, <1>0, <1>12 DEF Close, sink, Null, Mark, StopIsSeen
  <1>13. CASE Detach
    <2>1. pc' = "detached" /\ UNCHANGED <<stop, callback>>
      BY Zenon, <1>13 DEF Detach
    <2>2. QED
      BY Zenon, <2>1 DEF StopIsSeen
  <1>14. CASE RequestStop
    <2>1. /\ stop = "possible" /\ stop' = "requested" /\ UNCHANGED <<lastReady, task, pc, op>>
          /\ callback' = IF callback = "armed" THEN "running" ELSE callback
      BY Zenon, <1>14 DEF RequestStop, sink
    <2>2. callback' # "armed" /\ (callback' = "none" => callback = "none")
          /\ (callback' = "done" => callback = "done")
      BY Zenon, <2>1
    <2>3. Null' = Null /\ Delivering' = Delivering
      BY Zenon, <1>0, <2>1 DEF Null, Mark
    <2>4. QED
      BY Zenon, <2>1, <2>2, <2>3 DEF StopIsSeen
  <1>15. CASE UNCHANGED vars
    BY Zenon, <1>0, <1>15 DEF vars, Null, Mark, StopIsSeen
  <1>16. QED
    BY Zenon, <1>1, <1>2, <1>3, <1>4, <1>5, <1>6, <1>7, <1>8, <1>9, <1>10, <1>11, <1>12, <1>13,
       <1>14, <1>15 DEF Next, TaskStep, ConsumerStep, CancelStep

(* A stop and when_ready() meet in any order: a consumer that sleeps in it *)
(* after a stop is being woken, and it answers false only after a stop.    *)
THEOREM WhenReadyIsHonest == Spec => []WhenReadyHeedsStop
  <1>1. Inv => Access
    BY Zenon DEF Inv, Ordered
  <1>2. Init => StopIsSeen
    BY Zenon DEF Init, StopIsSeen
  <1>3. Spec => []StopIsSeen
    BY <1>1, <1>2, InvHolds, StepStopIsSeen, PTL DEF Spec
  <1>4. Access /\ StopIsSeen => WhenReadyHeedsStop
    BY ZenonT(40) DEF Access, TypeOK, WokenForReason, StopIsSeen, WhenReadyHeedsStop
  <1>5. QED
    BY <1>1, <1>3, <1>4, InvHolds, PTL

(* count() is exact, and with_task_group returns with no task running. *)
THEOREM ScopeLeavesNoTask == Spec => []CountIsExact
  <1>1. Inv => CountIsExact
    BY Zenon DEF Inv, Scoped
  <1>2. QED
    BY <1>1, InvHolds, PTL
=============================================================================
