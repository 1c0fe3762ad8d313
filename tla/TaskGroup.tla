----------------------------- MODULE TaskGroup -----------------------------
(***************************************************************************)
(* The sink where the tasks of a task_group leave their results, its       *)
(* awaiters next(), next_result() and when_ready() (detail/task_group.h,   *)
(* task_group.h), and the scope of with_task_group.h around them.          *)
(*                                                                         *)
(* One coroutine, the consumer, adds tasks and awaits results; each task   *)
(* ends, on any thread, by pushing its result; if the consumer has a stop  *)
(* token, some thread may request a stop at any time.                      *)
(*                                                                         *)
(* last_ready is one atomic word, null, a marker or a list of results with *)
(* the last one first: lastReady.list is the list and lastReady.mark the   *)
(* marker.  A compare-and-swap loop is one step, its last iteration, since *)
(* what each iteration does depends only on the word it compares.          *)
(* ready_queue, continuation and count_ are not atomic.                    *)
(***************************************************************************)
EXTENDS Integers, SequencesExt, FiniteSets

CONSTANT Task

VARIABLES
  lastReady,     \* last_ready: [mark, list]
  readyQueue,    \* ready_queue, oldest result first
  continuation,  \* TRUE when continuation is set
  count,         \* count_
  task,          \* [Task -> "new", "running", "delivering" or "finished"]
  pc,            \* where the consumer is
  op,            \* the awaiter it is in: "next" or "when_ready"
  stop,          \* the consumer's stop token: "impossible", "possible", "requested"
  callback,      \* the stop callback of when_ready()
  scope,         \* with_task_group: "none", its callback runs ("open") or has
                 \* returned ("closing")
  finished,      \* history: results in the order in which they were pushed
  consumed       \* history: results in the order in which they were awaited

vars == <<lastReady, readyQueue, continuation, count, task, pc, op, stop, callback,
          scope, finished, consumed>>

sink == <<lastReady, readyQueue, continuation>>

Mark(m) == [mark |-> m, list |-> <<>>]

Null == Mark("none")

Init ==
  /\ lastReady = Null /\ readyQueue = <<>> /\ continuation = FALSE /\ count = 0
  /\ task = [k \in Task |-> "new"]
  /\ pc = "idle" /\ op = "next"
  /\ stop \in {"impossible", "possible"} /\ callback = "none" /\ scope \in {"none", "open"}
  /\ finished = <<>> /\ consumed = <<>>

(***************************************************************************)
(* Tasks.                                                                  *)
(***************************************************************************)

(* task_group::add: takes an index and starts the task. *)
Add(k) ==
  /\ pc = "idle" /\ scope # "closing" /\ task[k] = "new"
  /\ count' = count + 1
  /\ task' = [task EXCEPT ![k] = "running"]
  /\ UNCHANGED <<sink, pc, op, stop, callback, scope, finished, consumed>>

(* Mutation of PushList: an awaiter is overlooked. *)
PushListOverwrites(k) ==
  /\ task[k] = "running" /\ lastReady.mark # "detached"
  /\ task' = [task EXCEPT ![k] = "finished"]
  /\ lastReady' = [mark |-> "none", list |-> <<k>> \o lastReady.list]
  /\ finished' = Append(finished, k)
  /\ UNCHANGED <<readyQueue, continuation, count, pc, op, stop, callback, scope, consumed>>

(* push, to a sink where nobody waits: add to the list, or drop the result *)
(* of a detached group.  A cancellation marker is overwritten.             *)
PushList(k) ==
  /\ task[k] = "running" /\ lastReady.mark # "awaiting"
  /\ task' = [task EXCEPT ![k] = "finished"]
  /\ IF lastReady.mark = "detached"
     THEN UNCHANGED <<lastReady, finished>>
     ELSE /\ lastReady' = [mark |-> "none", list |-> <<k>> \o lastReady.list]
          /\ finished' = Append(finished, k)
  /\ UNCHANGED <<readyQueue, continuation, count, pc, op, stop, callback, scope, consumed>>

(* push, to a sink where the consumer waits: claim the awaiter... *)
PushClaim(k) ==
  /\ task[k] = "running" /\ lastReady.mark = "awaiting"
  /\ lastReady' = Null
  /\ task' = [task EXCEPT ![k] = "delivering"]
  /\ finished' = Append(finished, k)
  /\ UNCHANGED <<readyQueue, continuation, count, pc, op, stop, callback, scope, consumed>>

(* Mutation of PushDeliver: the continuation is not resumed. *)
PushDeliverOnly(k) ==
  /\ task[k] = "delivering"
  /\ readyQueue' = <<k>> \o readyQueue
  /\ continuation' = FALSE
  /\ task' = [task EXCEPT ![k] = "finished"]
  /\ UNCHANGED <<lastReady, count, pc, op, stop, callback, scope, finished, consumed>>

(* ...then hand it the result and resume it. *)
PushDeliver(k) ==
  /\ task[k] = "delivering"
  /\ readyQueue' = <<k>> \o readyQueue
  /\ continuation' = FALSE
  /\ task' = [task EXCEPT ![k] = "finished"]
  /\ pc' = "resuming"
  /\ UNCHANGED <<lastReady, count, op, stop, callback, scope, finished, consumed>>

(***************************************************************************)
(* The consumer.                                                           *)
(***************************************************************************)

(* task_group_sink::await_ready(), whose asserts a release build skips. *)
IsReady == readyQueue # <<>> \/ lastReady # Null

(* The first half of a co_await: await_ready of the awaiter. *)
Await(o) ==
  /\ pc = "idle" /\ count > 0 /\ (scope = "closing" => o = "next")
  /\ op' = o
  /\ pc' = IF IsReady \/ (o = "when_ready" /\ stop = "requested") THEN "resuming"
           ELSE IF o = "when_ready" /\ stop = "possible" THEN "arming" ELSE "suspending"
  /\ UNCHANGED <<sink, count, task, stop, callback, scope, finished, consumed>>

(* The stop callback is registered, or called at once when the stop was    *)
(* requested after await_ready looked.                                     *)
Arm ==
  /\ pc = "arming"
  /\ pc' = "suspending"
  /\ callback' = IF stop = "requested" THEN "done" ELSE "armed"
  /\ lastReady' = IF stop = "requested" /\ lastReady = Null THEN Mark("cancelled") ELSE lastReady
  /\ UNCHANGED <<readyQueue, continuation, count, task, op, stop, scope, finished, consumed>>

(* task_group_sink::await_suspend. *)
Suspend ==
  /\ pc = "suspending"
  /\ IF lastReady = Null
     THEN /\ lastReady' = Mark("awaiting") /\ continuation' = TRUE
          /\ pc' = "suspended"
     ELSE /\ lastReady' = IF lastReady.mark = "cancelled" THEN Null ELSE lastReady
          /\ continuation' = FALSE
          /\ pc' = "resuming"
  /\ UNCHANGED <<readyQueue, count, task, op, stop, callback, scope, finished, consumed>>

(* Mutation of DestroyAwaiter: await_cancel() is not called. *)
DestroyAwaiterLeavesMark ==
  /\ pc = "suspended" /\ lastReady.mark = "awaiting" /\ callback # "running"
  /\ callback' = "none"
  /\ continuation' = FALSE
  /\ pc' = "idle"
  /\ UNCHANGED <<lastReady, readyQueue, count, task, op, stop, scope, finished, consumed>>

(* The awaiter is destroyed before it is resumed; the caller ensures that  *)
(* nobody is resuming it.  The callback goes first, then await_cancel().   *)
DestroyAwaiter ==
  /\ pc = "suspended" /\ lastReady.mark = "awaiting" /\ callback # "running"
  /\ callback' = "none"
  /\ lastReady' = Null /\ continuation' = FALSE
  /\ pc' = "idle"
  /\ UNCHANGED <<readyQueue, count, task, op, stop, scope, finished, consumed>>

(* Mutations of TakeResult: the list is not inverted, or count_ is kept. *)
TakeFrom(list, less) ==
  LET queue == IF readyQueue # <<>> THEN readyQueue ELSE list IN
  /\ pc = "resuming" /\ op = "next" /\ queue # <<>>
  /\ readyQueue' = Tail(queue)
  /\ lastReady' = IF readyQueue # <<>> THEN lastReady ELSE Null
  /\ consumed' = Append(consumed, Head(queue))
  /\ count' = count - less
  /\ pc' = "idle"
  /\ UNCHANGED <<continuation, task, op, stop, callback, scope, finished>>

TakeResultLastFirst == TakeFrom(lastReady.list, 1)

TakeResultUncounted == TakeFrom(Reverse(lastReady.list), 0)

(* await_resume of next() and next_result(): take over the list if the     *)
(* ready queue is empty, inverting it, and remove the oldest result.       *)
TakeResult ==
  LET queue == IF readyQueue # <<>> THEN readyQueue ELSE Reverse(lastReady.list) IN
  /\ pc = "resuming" /\ op = "next"
  /\ IF queue = <<>>
     THEN pc' = "broken" /\ UNCHANGED <<lastReady, readyQueue, count, consumed>>
     ELSE /\ readyQueue' = Tail(queue)
          /\ lastReady' = IF readyQueue # <<>> THEN lastReady ELSE Null
          /\ consumed' = Append(consumed, Head(queue))
          /\ count' = count - 1
          /\ pc' = "idle"
  /\ UNCHANGED <<continuation, task, op, stop, callback, scope, finished>>

(* await_resume of when_ready(): the callback is removed, which waits for  *)
(* one that runs on another thread; the answer is await_ready().           *)
ReturnReady ==
  /\ pc = "resuming" /\ op = "when_ready" /\ callback # "running"
  /\ callback' = "none"
  /\ pc' = "idle"
  /\ UNCHANGED <<sink, count, task, op, stop, scope, finished, consumed>>

(* The callback of with_task_group returned: ask the tasks to stop, then   *)
(* await each of them.                                                     *)
Close ==
  /\ scope = "open" /\ pc = "idle"
  /\ scope' = "closing"
  /\ UNCHANGED <<sink, count, task, pc, op, stop, callback, finished, consumed>>

(* The group is destroyed, by with_task_group only when it has no tasks;   *)
(* results that come later are dropped.                                    *)
Detach ==
  /\ pc = "idle" /\ scope # "open" /\ (scope = "closing" => count = 0)
  /\ lastReady' = Mark("detached") /\ readyQueue' = <<>>
  /\ pc' = "detached"
  /\ UNCHANGED <<continuation, count, task, op, stop, callback, scope, finished, consumed>>

(***************************************************************************)
(* Cancellation of the consumer.                                           *)
(***************************************************************************)

RequestStop ==
  /\ stop = "possible"
  /\ stop' = "requested"
  /\ callback' = IF callback = "armed" THEN "running" ELSE callback
  /\ UNCHANGED <<sink, count, task, pc, op, scope, finished, consumed>>

(* Mutation of CancelClaim: the marker stays for a push to claim. *)
CancelClaimLeavesMark ==
  /\ callback = "running"
  /\ callback' = IF lastReady.mark = "awaiting" THEN "resuming" ELSE "done"
  /\ UNCHANGED <<sink, count, task, pc, op, stop, scope, finished, consumed>>

(* Mutation of CancelClaim: await_cancel() without concurrent. *)
CancelClaimSetsNoFlag ==
  /\ callback = "running"
  /\ callback' = IF lastReady.mark = "awaiting" THEN "resuming" ELSE "done"
  /\ lastReady' = IF lastReady.mark \in {"awaiting", "cancelled"} THEN Null ELSE lastReady
  /\ UNCHANGED <<readyQueue, continuation, count, task, pc, op, stop, scope, finished, consumed>>

(* await_cancel(true): claim the awaiter, or leave a marker for it. *)
CancelClaim ==
  /\ callback = "running"
  /\ callback' = IF lastReady.mark = "awaiting" THEN "resuming" ELSE "done"
  /\ lastReady' = IF lastReady.mark = "awaiting" THEN Null
                  ELSE IF lastReady = Null THEN Mark("cancelled") ELSE lastReady
  /\ UNCHANGED <<readyQueue, continuation, count, task, pc, op, stop, scope, finished, consumed>>

(* The callback resumes the consumer it claimed, on its own thread, which  *)
(* therefore does not wait for the callback to end.                        *)
CancelResume ==
  /\ callback = "resuming"
  /\ callback' = "done"
  /\ continuation' = FALSE
  /\ pc' = "resuming"
  /\ UNCHANGED <<lastReady, readyQueue, count, task, op, stop, scope, finished, consumed>>

TaskStep(k) == PushList(k) \/ PushClaim(k) \/ PushDeliver(k)

ConsumerStep == Arm \/ Suspend \/ TakeResult \/ ReturnReady

CancelStep == CancelClaim \/ CancelResume

Next ==
  \/ \E k \in Task : Add(k) \/ TaskStep(k)
  \/ \E o \in {"next", "when_ready"} : Await(o)
  \/ ConsumerStep \/ CancelStep
  \/ DestroyAwaiter \/ Close \/ Detach \/ RequestStop

Spec == Init /\ [][Next]_vars

(***************************************************************************)
(* Safety.                                                                 *)
(***************************************************************************)

(* Every variable has its type. *)
TypeOK ==
  /\ lastReady \in [mark : {"none", "awaiting", "detached", "cancelled"}, list : Seq(Task)]
  /\ lastReady.mark # "none" => lastReady.list = <<>>
  /\ readyQueue \in Seq(Task) /\ continuation \in BOOLEAN /\ count \in Nat
  /\ task \in [Task -> {"new", "running", "delivering", "finished"}]
  /\ pc \in {"idle", "arming", "suspending", "suspended", "resuming", "detached", "broken"}
  /\ op \in {"next", "when_ready"} /\ stop \in {"impossible", "possible", "requested"}
  /\ scope \in {"none", "open", "closing"}
  /\ callback \in {"none", "armed", "running", "resuming", "done"}
  /\ finished \in Seq(Task) /\ consumed \in Seq(Task)

Delivering == {k \in Task : task[k] = "delivering"}

(* The marker works as a mutex for the plain fields: at any time one actor *)
(* has access to ready_queue and continuation, a push that claimed the     *)
(* awaiter, a cancellation that did, or the consumer when it is awake.     *)
ExclusiveAccess ==
  /\ \A j, k \in Delivering : j = k
  /\ Delivering # {} => pc = "suspended" /\ callback # "resuming"
  /\ callback = "resuming" => pc = "suspended"

(* A suspended consumer is going to be woken: the marker is there for the  *)
(* next push, or somebody has claimed it and holds its continuation.       *)
NoLostWakeup ==
  pc = "suspended" =>
    /\ continuation
    /\ lastReady.mark = "awaiting" \/ Delivering # {} \/ callback = "resuming"

(* Results are awaited in the order in which they were pushed, none is     *)
(* lost and none is seen twice: what was pushed is what was consumed, then *)
(* what is being delivered, then the ready queue, then the inverted list.  *)
ResultsInOrder ==
  pc # "detached" =>
    finished = consumed \o SetToSeq(Delivering) \o readyQueue \o Reverse(lastReady.list)

(* count() is the number of tasks whose result was not awaited, and a      *)
(* scope that ended left no task behind that could outlive its locals.     *)
CountIsExact ==
  /\ count + Len(consumed) = Cardinality({k \in Task : task[k] # "new"})
  /\ scope = "closing" /\ pc = "detached" => \A k \in Task : task[k] \in {"new", "finished"}

(* next() never resumes without a result: the asserts of await_resume.     *)
(* (With a stop token a flag that when_ready() left behind may end it,     *)
(* whatever detail/task_group.h:421 says.)                                 *)
NextHasResult ==
  stop = "impossible" /\ pc = "resuming" /\ op = "next" => readyQueue # <<>> \/ lastReady.list # <<>>

(* when_ready() and a stop meet whatever they do first.  The stop is not   *)
(* lost: a consumer that sleeps in when_ready() after it is being woken,   *)
(* by the callback or by a push that was faster ("we are resumed one way   *)
(* or another", detail/task_group.h:413).  And it is not made up: "We      *)
(* resume with an empty head only when cancellation happend" (line 419).   *)
WhenReadyHeedsStop ==
  op = "when_ready" =>
    /\ pc = "suspended" /\ stop = "requested" =>
         callback \in {"running", "resuming"} \/ Delivering # {}
    /\ pc = "resuming" /\ readyQueue = <<>> /\ lastReady.list = <<>> => stop = "requested"

(***************************************************************************)
(* Liveness.                                                               *)
(***************************************************************************)

(* Tasks finish, the consumer's coroutine runs when it is not suspended,   *)
(* and the scope's loop keeps awaiting.                                    *)
Fairness ==
  /\ \A k \in Task : WF_vars(TaskStep(k))
  /\ WF_vars(ConsumerStep) /\ WF_vars(CancelStep)
  /\ WF_vars(scope = "closing" /\ (Await("next") \/ Detach))

FairSpec == Spec /\ Fairness

(* A consumer that awaits wakes up. *)
AwaitReturns == pc = "suspended" ~> pc # "suspended"

(* with_task_group returns after its callback did, every task awaited, if  *)
(* no flag of a cancelled when_ready() is in the way.                      *)
ScopeEnds == scope = "closing" /\ stop = "impossible" ~> pc = "detached"
=============================================================================
