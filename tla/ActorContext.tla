---------------------------- MODULE ActorContext ----------------------------
(***************************************************************************)
(* The manager that moves tasks between actor contexts                     *)
(* (detail/async_context.h), the task stack of each thread                 *)
(* (detail/async_task.h), and the suspension points of async<T> coroutines *)
(* that call it (detail/async.h).                                          *)
(*                                                                         *)
(* A context is a mailbox and a scheduler.  Its mailbox is abstracted to   *)
(* MailboxOps, which IntrusiveMailbox implements.  A runnable stands for a *)
(* task together with the runnable of its current await: a task has one at *)
(* a time.  Every step below touches at most one mailbox or scheduler; the *)
(* code between two such steps is local to the thread.                     *)
(*                                                                         *)
(* A thread's stack holds, bottom to top, the coroutines nested on it:     *)
(*   task   r runs, and is on the async_task stack of the thread;          *)
(*   leave  r's awaiter runs its await_suspend; c will be left after it;   *)
(*   hold   the same, but the awaiter is going to decide not to suspend.   *)
(* The task of a leave or hold entry has left the async_task stack, so the *)
(* code of await_suspend may run other tasks above it.                     *)
(***************************************************************************)
EXTENDS MailboxOps, Integers

CONSTANTS Context, Scheduler, Thread, Runnable,
          None,          \* no_actor_context
          Null,          \* nullptr, where a runnable is expected
          SchedulerOf,   \* the scheduler of each context
          ThreadOf,      \* the scheduler whose pool the thread is in
          PreemptsForeign,  \* the schedulers whose preempt() is true on every
                         \* thread that is not in their pool
          MaxDepth       \* bound on the coroutines nested on each thread

ASSUME ConstantTypes ==
  /\ SchedulerOf \in [Context -> Scheduler]
  /\ ThreadOf \in [Thread -> Scheduler]
  /\ PreemptsForeign \subseteq Scheduler
  /\ None \notin Context
  /\ Null \notin Runnable
  /\ MaxDepth \in [Thread -> Nat]

VARIABLES
  mailbox,    \* [Context -> mailbox], see MailboxOps
  ready,      \* [Scheduler -> set of runnables posted or deferred]
  stack,      \* [Thread -> sequence of entries]
  call,       \* [Thread -> the enter() or transfer() in progress]
  context,    \* [Runnable -> Context or None], async_task::context
  scheduled,  \* [Runnable -> BOOLEAN], async_task::scheduled
  fresh,      \* tasks not started, or finished and freed for reuse
  waiting     \* tasks suspended in an awaiter that may resume them

vars == <<mailbox, ready, stack, call, context, scheduled, fresh, waiting>>

MaybeContext == Context \union {None}

MaybeRunnable == Runnable \union {Null}

Entry == [kind : {"task", "leave", "hold"}, r : Runnable, c : MaybeContext]

(* inline is decided by Pop: r continues on this thread after the call. *)
Frame == [step : {"none", "prepare", "publish", "pop", "more"}, r : MaybeRunnable,
          from : MaybeContext, to : MaybeContext, returning : BOOLEAN,
          initial : BOOLEAN, more : MaybeRunnable, inline : BOOLEAN]

NoCall == [step |-> "none", r |-> Null, from |-> None, to |-> None, returning |-> FALSE,
           initial |-> FALSE, more |-> Null, inline |-> FALSE]

Task(r) == [kind |-> "task", r |-> r, c |-> None]

Top(t) == stack[t][Len(stack[t])]

Below(t) == SubSeq(stack[t], 1, Len(stack[t]) - 1)

(* Thread t executes the code of task r. *)
Runs(t, r) == call[t] = NoCall /\ stack[t] # <<>> /\ Top(t) = Task(r)

(* Thread t may call into user code that resumes or starts another task. *)
CanNest(t) == call[t] = NoCall /\ Len(stack[t]) < MaxDepth[t]

(* async_task::current() != nullptr on a thread with this stack. *)
HasCurrent(st) == \E i \in DOMAIN st : st[i].kind = "task"

Init ==
  /\ mailbox = [c \in Context |-> EmptyMailbox(FALSE)]
  /\ ready = [s \in Scheduler |-> {}]
  /\ stack = [t \in Thread |-> <<>>]
  /\ call = [t \in Thread |-> NoCall]
  /\ context = [r \in Runnable |-> None]
  /\ scheduled = [r \in Runnable |-> FALSE]
  /\ fresh = Runnable
  /\ waiting = {}

(***************************************************************************)
(* The parts of async_context_manager.                                     *)
(***************************************************************************)

(* scheduler.post(r) and scheduler.defer(r) of context c: they differ only *)
(* in which thread is likely to run r.                                     *)
Schedule(c, r) == [ready EXCEPT ![SchedulerOf[c]] = @ \union {r}]

(* The outcomes of next_runnable(): the next runnable, or an unlock. *)
PopOutcomes(mb) ==
  {[mb |-> Removed(m), next |-> Head(m.queue)] : m \in {x \in {mb} : CanRemove(x)}}
    \union {[mb |-> Released(m), next |-> Null] : m \in {x \in {mb} : CanUnlock(x)}}

(* The answers of scheduler s to preempt() on thread t.  Nothing makes a   *)
(* scheduler preempt where it is not expected: that of asio compares a     *)
(* deadline of the thread, which all asio schedulers share, with the       *)
(* clock.  It is in PreemptsForeign when no other asio scheduler runs      *)
(* actors, for a thread without a deadline preempts.                       *)
PreemptOutcomes(t, s) ==
  IF s \in PreemptsForeign /\ ThreadOf[t] # s THEN {TRUE} ELSE BOOLEAN

(* Mutation of MaybePreempt: async_task::current() is not looked at. *)
MaybePreemptAnywhere(t, c, st) ==
  IF c = None THEN {FALSE} ELSE PreemptOutcomes(t, SchedulerOf[c])

(* The outcomes of maybe_preempt() on thread t, whose other coroutines are *)
(* st.                                                                     *)
MaybePreempt(t, c, st) ==
  IF c = None THEN {FALSE}
  ELSE IF HasCurrent(st) THEN {TRUE}
  ELSE PreemptOutcomes(t, SchedulerOf[c])

(* Mutation of DoLeave: unlocks without looking for the next runnable. *)
DoLeaveUnlocks(c) ==
  /\ mailbox' = IF c = None THEN mailbox ELSE [mailbox EXCEPT ![c] = Released(@)]
  /\ UNCHANGED ready

DoLeave(c) ==
  IF c = None THEN UNCHANGED <<mailbox, ready>>
  ELSE \E o \in PopOutcomes(mailbox[c]) :
         /\ mailbox' = [mailbox EXCEPT ![c] = o.mb]
         /\ ready' = IF o.next = Null THEN ready ELSE Schedule(c, o.next)

(* Thread t, with st below r, enters context c with r. *)
DoEnter(t, r, c, initial, st) ==
  /\ UNCHANGED ready
  /\ IF c = None
     THEN /\ stack' = [stack EXCEPT ![t] = Append(st, Task(r))]
          /\ UNCHANGED <<mailbox, call>>
     ELSE /\ mailbox' = [mailbox EXCEPT ![c] = Prepared(@, r)]
          /\ call' = [call EXCEPT ![t] = [NoCall EXCEPT
                        !.step = "publish", !.r = r, !.to = c, !.initial = initial]]
          /\ stack' = [stack EXCEPT ![t] = st]

(* Thread t, with st below r, moves r from one context to another. *)
DoTransfer(t, r, from, to, returning, st) ==
  \/ /\ from = to
     /\ \E preempt \in MaybePreempt(t, to, st) :
          IF returning /\ preempt
          THEN /\ ready' = Schedule(to, r)
               /\ stack' = [stack EXCEPT ![t] = st]
          ELSE /\ stack' = [stack EXCEPT ![t] = Append(st, Task(r))]
               /\ UNCHANGED ready
     /\ UNCHANGED <<mailbox, call>>
  \/ /\ from # to /\ to = None
     /\ DoLeave(from)
     /\ stack' = [stack EXCEPT ![t] = Append(st, Task(r))]
     /\ UNCHANGED call
  \/ /\ from = None /\ to # None
     /\ DoEnter(t, r, to, FALSE, st)
  \/ /\ from # to /\ from # None /\ to # None
     /\ \E o \in PopOutcomes(mailbox[from]) :
          /\ mailbox' = [mailbox EXCEPT ![from] = o.mb]
          /\ call' = [call EXCEPT ![t] = [NoCall EXCEPT
                        !.step = "prepare", !.r = r, !.from = from, !.to = to,
                        !.returning = returning, !.more = o.next]]
     /\ stack' = [stack EXCEPT ![t] = st]
     /\ UNCHANGED ready

(***************************************************************************)
(* The steps inside enter() and transfer().                                *)
(***************************************************************************)

(* The call of thread t returns, after posting what it took from `from`. *)
Complete(t, inline) ==
  IF call[t].more = Null
  THEN /\ call' = [call EXCEPT ![t] = NoCall]
       /\ stack' = IF inline THEN [stack EXCEPT ![t] = Append(@, Task(call[t].r))]
                             ELSE stack
  ELSE /\ call' = [call EXCEPT ![t].step = "more", ![t].inline = inline]
       /\ UNCHANGED stack

(* push_prepare of transfer(), after it popped the old context. *)
Prepare(t) ==
  /\ call[t].step = "prepare"
  /\ mailbox' = [mailbox EXCEPT ![call[t].to] = Prepared(@, call[t].r)]
  /\ call' = [call EXCEPT ![t].step = "publish"]
  /\ UNCHANGED <<ready, stack, context, scheduled, fresh, waiting>>

(* push_publish: true, and the call goes on to pop, when it took the lock. *)
Publish(t) ==
  /\ call[t].step = "publish"
  /\ LET c == call[t].to IN
     \E mb \in Published(mailbox[c], call[t].r) :
       /\ mailbox' = [mailbox EXCEPT ![c] = mb]
       /\ IF mb.locked /\ ~mailbox[c].locked
          THEN call' = [call EXCEPT ![t].step = "pop"] /\ UNCHANGED stack
          ELSE Complete(t, FALSE)
  /\ UNCHANGED <<ready, context, scheduled, fresh, waiting>>

(* Mutation of MustPost: a change of scheduler is not noticed. *)
MustPostInitial(f) == f.initial

(* Whether the frame must hand over what it popped, whoever that is. *)
MustPost(f) ==
  \/ f.initial
  \/ f.from # None /\ SchedulerOf[f.from] # SchedulerOf[f.to]

(* Whether the frame asks the scheduler for preemption. *)
AsksPreempt(f) == f.returning \/ f.from = None

(* Mutation of Pop: goes on with its own runnable, whatever it popped. *)
PopRunsOwn(t) ==
  /\ call[t].step = "pop"
  /\ \E o \in PopOutcomes(mailbox[call[t].to]) :
       /\ mailbox' = [mailbox EXCEPT ![call[t].to] = o.mb]
       /\ Complete(t, o.next # Null)
  /\ UNCHANGED <<ready, context, scheduled, fresh, waiting>>

(* next_runnable() of the new context, and what to do with its answer. *)
Pop(t) ==
  /\ call[t].step = "pop"
  /\ LET f == call[t] IN
     \E o \in PopOutcomes(mailbox[f.to]) :
       /\ mailbox' = [mailbox EXCEPT ![f.to] = o.mb]
       /\ \E preempt \in MaybePreempt(t, f.to, stack[t]) :
            IF o.next = Null
            THEN Complete(t, FALSE) /\ UNCHANGED ready
            ELSE IF o.next # f.r \/ MustPost(f) \/ (AsksPreempt(f) /\ preempt)
            THEN Complete(t, FALSE) /\ ready' = Schedule(f.to, o.next)
            ELSE Complete(t, TRUE) /\ UNCHANGED ready
  /\ UNCHANGED <<context, scheduled, fresh, waiting>>

(* Mutation of PostMore: nothing is posted. *)
PostMoreForgets(t) ==
  /\ call[t].step = "more"
  /\ call' = [call EXCEPT ![t] = NoCall]
  /\ stack' = IF call[t].inline THEN [stack EXCEPT ![t] = Append(@, Task(call[t].r))]
                                ELSE stack
  /\ UNCHANGED <<ready, mailbox, context, scheduled, fresh, waiting>>

(* Posting the runnable that transfer() took from the old context. *)
PostMore(t) ==
  /\ call[t].step = "more"
  /\ ready' = Schedule(call[t].from, call[t].more)
  /\ call' = [call EXCEPT ![t] = NoCall]
  /\ stack' = IF call[t].inline THEN [stack EXCEPT ![t] = Append(@, Task(call[t].r))]
                                ELSE stack
  /\ UNCHANGED <<mailbox, context, scheduled, fresh, waiting>>

(***************************************************************************)
(* What the coroutine running on thread t may do.                          *)
(***************************************************************************)

(* Code running on t starts a detached or awaited async<T> with a task of  *)
(* its own.                                                                *)
Start(t, r) ==
  /\ CanNest(t) /\ r \in fresh
  /\ fresh' = fresh \ {r}
  /\ stack' = [stack EXCEPT ![t] = Append(@, Task(r))]
  /\ context' = [context EXCEPT ![r] = None]
  /\ scheduled' = [scheduled EXCEPT ![r] = FALSE]
  /\ UNCHANGED <<mailbox, ready, call, waiting>>

(* Mutation of Finish: the context is not left. *)
FinishKeepsContext(t, r) ==
  /\ Runs(t, r)
  /\ stack' = [stack EXCEPT ![t] = Below(t)]
  /\ fresh' = fresh \union {r}
  /\ context' = [context EXCEPT ![r] = None]
  /\ UNCHANGED <<mailbox, ready, call, scheduled, waiting>>

(* The function that owns the task returns: final_suspend, private task. *)
Finish(t, r) ==
  /\ Runs(t, r)
  /\ DoLeave(context[r])
  /\ stack' = [stack EXCEPT ![t] = Below(t)]
  /\ fresh' = fresh \union {r}
  /\ context' = [context EXCEPT ![r] = None]
  /\ UNCHANGED <<call, scheduled, waiting>>

(* co_await context(): switch_context_awaiter. *)
BindContext(t, r, c, returning) ==
  /\ Runs(t, r) /\ c # context[r]
  /\ context' = [context EXCEPT ![r] = c]
  /\ IF context[r] = None
     THEN DoEnter(t, r, c, ~scheduled[r], Below(t))
     ELSE DoTransfer(t, r, context[r], c, returning, Below(t))
  /\ UNCHANGED <<scheduled, fresh, waiting>>

(* A called function returns to the context of its caller (final_suspend,  *)
(* inherited task), or context(awaitable) was ready at once.               *)
ReturnTo(t, r, c) ==
  /\ Runs(t, r)
  /\ context' = [context EXCEPT ![r] = c]
  /\ DoTransfer(t, r, context[r], c, TRUE, Below(t))
  /\ UNCHANGED <<scheduled, fresh, waiting>>

(* co_await actor_context::preempt. *)
PreemptContext(t, r) ==
  /\ Runs(t, r) /\ context[r] # None
  /\ ready' = Schedule(context[r], r)
  /\ stack' = [stack EXCEPT ![t] = Below(t)]
  /\ UNCHANGED <<mailbox, call, context, scheduled, fresh, waiting>>

(* co_await of an awaiter that is not ready: the task leaves the stack and *)
(* its context becomes c before await_suspend is called.  Once inside, the *)
(* awaiter may hand the continuation out and be resumed by any thread.     *)
Suspend(t, r, c, suspended) ==
  /\ Runs(t, r)
  /\ context' = [context EXCEPT ![r] = c]
  /\ stack' = [stack EXCEPT ![t] = Append(Below(t),
                 [kind |-> IF suspended THEN "leave" ELSE "hold",
                  r |-> r, c |-> context[r]])]
  /\ waiting' = IF suspended THEN waiting \union {r} ELSE waiting
  /\ UNCHANGED <<mailbox, ready, call, scheduled, fresh>>

(* await_suspend returned and the coroutine stays suspended. *)
LeaveSuspended(t) ==
  /\ call[t] = NoCall /\ stack[t] # <<>> /\ Top(t).kind = "leave"
  /\ DoLeave(Top(t).c)
  /\ stack' = [stack EXCEPT ![t] = Below(t)]
  /\ UNCHANGED <<call, context, scheduled, fresh, waiting>>

(* await_suspend returned false or threw: the coroutine goes on, in the    *)
(* context it had or, when context(awaitable) did not suspend, after a     *)
(* transfer.                                                               *)
KeepRunning(t) ==
  /\ call[t] = NoCall /\ stack[t] # <<>> /\ Top(t).kind = "hold"
  /\ LET e == Top(t) IN
     \/ /\ stack' = [stack EXCEPT ![t] = Append(Below(t), Task(e.r))]
        /\ context' = [context EXCEPT ![e.r] = e.c]
        /\ UNCHANGED <<mailbox, ready, call>>
     \/ /\ DoTransfer(t, e.r, e.c, context[e.r], TRUE, Below(t))
        /\ UNCHANGED context
  /\ UNCHANGED <<scheduled, fresh, waiting>>

(* Someone resumes the wrapped continuation: async_restore_task_callback.  *)
(* scheduled is cleared when the task goes on at once; when it does not,   *)
(* the scheduler sets it before anyone reads it.                           *)
Resume(t, r) ==
  /\ CanNest(t) /\ r \in waiting
  /\ waiting' = waiting \ {r}
  /\ scheduled' = [scheduled EXCEPT ![r] = FALSE]
  /\ DoEnter(t, r, context[r], FALSE, stack[t])
  /\ UNCHANGED <<context, fresh>>

(* A scheduler's thread runs a posted runnable. *)
Run(t, r) ==
  /\ call[t] = NoCall /\ stack[t] = <<>> /\ r \in ready[ThreadOf[t]]
  /\ ready' = [ready EXCEPT ![ThreadOf[t]] = @ \ {r}]
  /\ stack' = [stack EXCEPT ![t] = <<Task(r)>>]
  /\ scheduled' = [scheduled EXCEPT ![r] = TRUE]
  /\ UNCHANGED <<mailbox, call, context, fresh, waiting>>

InCall(t) == Prepare(t) \/ Publish(t) \/ Pop(t) \/ PostMore(t)

Return(t) == LeaveSuspended(t) \/ KeepRunning(t)

Next ==
  \E t \in Thread :
    \/ InCall(t) \/ Return(t)
    \/ \E r \in Runnable :
         \/ Start(t, r) \/ Finish(t, r) \/ Resume(t, r) \/ Run(t, r)
         \/ PreemptContext(t, r)
         \/ \E c \in MaybeContext :
              \/ ReturnTo(t, r, c)
              \/ \E b \in BOOLEAN : BindContext(t, r, c, b) \/ Suspend(t, r, c, b)

Spec == Init /\ [][Next]_vars

(***************************************************************************)
(* Safety.                                                                 *)
(***************************************************************************)

(* Every variable has its type. *)
TypeOK ==
  /\ mailbox \in [Context -> [queue : Seq(Runnable), inflight : SUBSET Runnable,
                              locked : BOOLEAN]]
  /\ ready \in [Scheduler -> SUBSET Runnable]
  /\ stack \in [Thread -> Seq(Entry)]
  /\ call \in [Thread -> Frame]
  /\ context \in [Runnable -> MaybeContext]
  /\ scheduled \in [Runnable -> BOOLEAN]
  /\ fresh \subseteq Runnable /\ waiting \subseteq Runnable

(* The context whose lock an entry of a stack keeps. *)
EntryContext(e) == IF e.kind = "task" THEN context[e.r] ELSE e.c

(* The contexts whose lock the call of a frame keeps. *)
FrameContexts(f) ==
  {c \in Context : \/ f.more # Null /\ f.from = c
                   \/ f.step = "pop" /\ f.to = c
                   \/ f.inline /\ f.to = c}

(* Everything that stands for the right to run in context c: entries of    *)
(* stacks, scheduled runnables, and threads inside enter() or transfer().  *)
Holders(c) ==
  (UNION {{<<t, i>> : i \in {j \in DOMAIN stack[t] : EntryContext(stack[t][j]) = c}} :
            t \in Thread})
    \union {r \in UNION {ready[s] : s \in Scheduler} : context[r] = c}
    \union {t \in Thread : c \in FrameContexts(call[t])}

(* An actor is never run by two threads at once, and its lock never leaks: *)
(* a locked mailbox has exactly one holder, which runs in it, is scheduled *)
(* to, or is about to pop it; an unlocked one has none.                    *)
OneHolder ==
  \A c \in Context :
    /\ mailbox[c].locked <=> Holders(c) # {}
    /\ \A a, b \in Holders(c) : a = b

(* The entry keeps the coroutine of r on its thread. *)
Carries(e, r) == e.r = r /\ e.kind # "leave"

(* The call has taken r out of every other place. *)
InHand(f, r) ==
  f.more = r \/ (f.r = r /\ (f.step = "prepare" \/ f.inline))

(* Where runnable r is. *)
Places(r) ==
  {<<"fresh", 0>> : x \in {r} \intersect fresh}
    \union {<<"waiting", 0>> : x \in {r} \intersect waiting}
    \union {s \in Scheduler : r \in ready[s]}
    \union (UNION {{<<c, i>> : i \in {j \in DOMAIN mailbox[c].queue : mailbox[c].queue[j] = r}} :
                    c \in Context})
    \union (UNION {{<<t, i>> : i \in {j \in DOMAIN stack[t] : Carries(stack[t][j], r)}} :
                    t \in Thread})
    \union {t \in Thread : InHand(call[t], r)}

(* No runnable is lost and none is run twice: at any moment a task is in   *)
(* one place, a mailbox, a scheduler, a thread or an awaiter.              *)
RunnableOnce ==
  \A r \in Runnable : Places(r) # {} /\ \A a, b \in Places(r) : a = b

(* A runnable in a mailbox is never stranded: somebody has the lock and    *)
(* will pop it, or is about to publish a push and will take the lock.      *)
QueuedIsServed ==
  \A c \in Context :
    mailbox[c].queue # <<>> =>
      \/ Holders(c) # {}
      \/ \E t \in Thread : call[t].step = "publish" /\ call[t].to = c

(* Thread t may run the tasks of context c. *)
AtHome(t, c) == SchedulerOf[c] \in PreemptsForeign => ThreadOf[t] = SchedulerOf[c]

(* Only preempt() can let a task run on a foreign thread: a scheduler that *)
(* never allows it ("We rely on [...] scheduler preempting in unexpected   *)
(* threads", do_enter) has its tasks run by its own threads alone, whoever *)
(* resumed or transferred them, and whatever the other schedulers allow.   *)
(* Transfers do not ask preempt() when they call, and start from threads   *)
(* that may be foreign to the context they leave.                          *)
RunsOnItsScheduler ==
  \A t \in Thread : \A i \in DOMAIN stack[t] :
    LET r == stack[t][i].r IN
    stack[t][i].kind = "task" /\ context[r] # None => AtHome(t, context[r])

(* Resuming a continuation never runs an actor inside the caller: a task   *)
(* that runs in a context has no other running task below it on its        *)
(* thread.                                                                 *)
NeverNested ==
  \A t \in Thread : \A i \in DOMAIN stack[t] :
    stack[t][i].kind = "task" /\ context[stack[t][i].r] # None
      => \A j \in 1..(i - 1) : stack[t][j].kind # "task"

(***************************************************************************)
(* Liveness.                                                               *)
(***************************************************************************)

(* Task r stops running in its context, for a while or for good. *)
GiveUp(r) ==
  \E t \in Thread : Finish(t, r) \/ \E c \in MaybeContext : Suspend(t, r, c, TRUE)

(* Threads run, schedulers run what is posted to them, and the user's code *)
(* returns: await_suspend ends, and a task that keeps being run eventually *)
(* suspends or finishes.                                                   *)
Fairness ==
  /\ \A t \in Thread : WF_vars(InCall(t)) /\ SF_vars(Return(t))
  /\ \A r \in Runnable : SF_vars(\E t \in Thread : Run(t, r)) /\ SF_vars(GiveUp(r))

FairSpec == Spec /\ Fairness

IsQueued(r) ==
  \E c \in Context : \E i \in DOMAIN mailbox[c].queue : mailbox[c].queue[i] = r

(* A task that entered a busy context gets to run in it. *)
EveryTaskRuns ==
  \A r \in Runnable : IsQueued(r) ~> \E t \in Thread : Runs(t, r)
=============================================================================
