# TLA+ models of coroactors

coroactors is a header-only C++20 library of coroutine actors. Its concurrency
lives in a handful of lock-free protocols. This directory models them in TLA+,
checks them with TLC on small instances, and proves the safety of most of them
with TLAPS, for any number of threads, tasks, callbacks or nodes. `PROJECT.json`
lists every run, mutant, hazard and theorem, and the source lines each definition
stands for. Paths below are relative to `coroactors/`.

## The system and its parts

| Part | State | Operations | Modules |
|---|---|---|---|
| Intrusive mailbox, `detail/intrusive_mailbox.h` | a linked list with a stub node; the lock is a marker in the head's `next` | push in two halves, pop, try_pop, peek, try_lock, try_unlock, empty | `IntrusiveMailbox`, promise in `MailboxSpec`, proofs in `IntrusiveMailboxProofs` |
| Actor context, `detail/async_context.h` | a mailbox and a scheduler | start, enter, transfer, leave, preempt, yield | `ActorContext`, `ActorContextYield`, proofs in `ActorContextInvariant` and `ActorContextProofs` |
| Async coroutines and tasks, `detail/async.h`, `detail/async_task.h` | the task's context, the thread's stack of tasks | start, await, change context, suspend in an awaiter, resume, return, finish | `ActorContext` |
| Scheduler interface, `actor_scheduler.h` | runnables posted or deferred | post, defer, preempt, schedule | `ActorContext`, `WithDeadline` |
| Task group, `detail/task_group.h`, `with_task_group.h` | a word with a marker or a list of results, a ready queue, a continuation, a count | add, push, next, when_ready, cancel, detach, join | `TaskGroup`, proofs in `TaskGroupProofs` |
| Continuations, `detail/with_continuation.h` | a word with a handle or a marker, a result | resume, destroy, suspend, cancel | `Continuation`, proofs in `WakeupProofs` |
| Stop tokens, `detail/stop_token_polyfill.h` | a word of flags that is a mutex, a list of callbacks | add and remove callback, request_stop, drop a source | `StopState`, promise in `StopSpec`, proofs in `StopStateProofs` |
| Semaphore, `detail/atomic_semaphore.h` | permits and waiters in one word | acquire, release | `Semaphore`, proofs in `WakeupProofs` |
| Blocking queue, `detail/blocking_queue.h` | a linked list with a dummy node; `head_` is the lock; lists of waiters | push, pop, try_pop | `BlockingQueue`, proofs in `BlockingQueueProofs` and `BlockingQueueWaiters` |
| Sleeping and deadlines, `detail/actor_sleep_until.h`, `detail/actor_with_deadline.h` | a word with a handle or an outcome, a scoped stop source, timers | sleep, deadline, cancel, destroy | `AsioTimer`, `WithDeadline` |
| asio adapter, `detail/asio_awaitable.h`, `asio_actor_scheduler.h` | a word with a handle and two markers, timers | await an operation, its handler, cancel, destroy | `AsioTimer`, `AsioAwaitable`, `WithDeadline` |
| Node-allocating mailbox, wait group | | | not modelled |
| detached and packaged awaitables, plain coroutines, task locals, results, pointers, helpers | no state shared between threads | | not modelled |

How they interact. An actor context is a mailbox plus a scheduler: whoever holds
the mailbox's lock may run in the context. The context manager moves a task by
pushing its runnable to a mailbox, popping the next runnable if the push took the
lock, and running, posting or deferring what it popped. A coroutine that awaits
something foreign (a continuation, a task group, a timer) leaves its context and
enters it again when it is resumed, on any thread. A task group and a
continuation are the meeting points of a consumer and producers on other
threads. A stop token cancels them through callbacks, and the destructor of a
callback uses the semaphore to wait for one that runs. `with_deadline` puts a
stop source between the task's token and what is awaited, and a timer stops it.

What makes it hard: pushes that are half done while the consumer unlocks; two
mailboxes touched in turn by one transfer; awaiters that resume the task before
`await_suspend` returns; a result, a cancellation and a suspension racing for one
word; callbacks destroyed while they run, or run inside of each other; futex-style
waits that miss a notification; waiters handed from consumer to consumer.

## Modules

- `MailboxOps` has a mailbox as a value (queue, pushes in flight, locked) and the
  effect of each operation on it. `MailboxSpec` is the state machine over it: what
  a mailbox promises its users. `ActorContext` is built on the same operators, so
  the refinement below justifies its abstract mailboxes.
- `IntrusiveMailbox` has one action per atomic access. It instantiates `MailboxSpec`
  with a refinement mapping; `ImplementsMailbox` says that the code implements the
  promise. `ahead`, `linked` and `queue` are history, used to state the order and the
  lifetime of nodes and to map the list to the queue it stands for.
- `ActorContext` has the manager's calls as `call[t]`, a frame whose `step` is the
  next access to a mailbox or scheduler. `DoEnter`, `DoTransfer` and `DoLeave` are
  the functions of the same name; `Prepare`, `Publish`, `Pop`, `PostMore` their
  later steps. `Start`, `Finish`, `BindContext`, `ReturnTo`, `PreemptContext`,
  `Suspend`, `Resume` and `Run` are the suspension points of `async.h`. The stack
  of a thread holds the running tasks and the awaiters inside `await_suspend`.
  `MCActorContext` has the layouts of schedulers and pools.
- `ActorContextYield` adds `do_yield`, kept apart because it breaks the others.
- `TaskGroup` and `Continuation` take a compare-and-swap loop as one step, its
  last iteration. What follows a claim of the awaiter is a step of its own.
- `StopOps` has a stop state as a value, `StopSpec` the state machine over it: what
  a stop state promises. `StopState` has one step per load, compare-and-swap, wait
  and notify, and the mapping to `StopSpec` (`ImplementsStop`). A plain counter
  stands for the semaphore of a callback. `MCStopState` adds symmetry.
- `Semaphore` has one step per load, compare-and-swap, wait and notify. A thread
  that waits sleeps while the word is what it expects, until it is notified.
- `BlockingQueue` has one step per access to `head_`, `tail_`, a `next` pointer or a
  semaphore. Waiters are linked lists as in the code (`behind`); a consumer's local
  list is `pending` to `last`. `order` is history: the items in the queue, by the
  order in which `push` exchanged `tail_`. A freed node is reset, since the model
  allocates it again; a local of a call that has returned points to nobody.
- `StopThreads` has threads as stacks of calls, so that a stop callback runs inside
  of `request_stop`, and may itself stop another source. It uses `StopOps`, which
  the refinement justifies. `AsioTimer` adds timers and `sleep_until`,
  `AsioAwaitable` the continuation of an asio operation, and `WithDeadline` the
  coroutine: `with_deadline` around a sleep or an operation, every destructor a
  step. These four build on each other and are checked together.

An operator whose comment starts with "Mutation of" is a plausible bug in the
definition after it. Substituted for that definition, it makes TLC report the
property that `PROJECT.json` names, which shows that the property depends on the
code.

## Abstractions

- Atomics are sequentially consistent. Weak memory orders are out of scope; the
  repository has relacy tests for them (`src/tools/checks-relacy`). Spurious
  failures of `compare_exchange_weak` are left out too: in most loops they only
  retry; in `stop_state` they lead to `wait()`, as the real failures do that the
  model has.
- A runnable stands for a task: a task has one runnable at a time.
- `post` and `defer` both add to a set of runnables: an order between runnables of
  different contexts is not promised.
- `preempt()` may answer either way. Only for the schedulers in the constant
  `PreemptsForeign`, a set that is any set in the proofs, is it known to say yes on a
  thread of another pool. `do_enter` relies on that (`detail/async_context.h:93-95`),
  but nothing enforces it: `asio_actor_scheduler` keeps its deadline per thread and
  for all asio schedulers at once (lines 30-37, 64-75, 134), so it is in the set
  only if no other asio scheduler runs actors in the process.
- A frame tree inside a task is not modelled: awaiting and returning to an async
  function in the same context, or in another one, is a transfer between any two
  contexts.
- asio is external: a timer expires or is aborted, an operation completes or is
  aborted, and then its handler runs once, in any thread. The executor of the
  handlers is not modelled.
- Reference counts are left out, except where they decide what is freed
  (`NothingFreedIsTouched`); so are allocation and the values of results.

## Runs

| Run | Instance | Shows |
|---|---|---|
| `intrusive_mailbox` | 3 threads, 3 items | one holder, nothing lost, order, asserts, `peek`; refinement of `MailboxSpec`; every item pushed is popped |
| `actor_contended` | 2 contexts, 1 pool of 2 threads, 3 tasks, one thread nests | contexts are exclusive, no runnable lost, duplicated or stranded, no actor runs on top of another |
| `actor_split` | 2 contexts with a scheduler and a thread each, one scheduler in `PreemptsForeign`, 2 tasks | only `preempt()` lets a task run in another pool; a queued task runs |
| `task_group` | 4 tasks, with and without a scope and a stop token | exclusive access to the sink, no lost wakeup, order, a stop ends `when_ready`; awaits return and `with_task_group` ends after its tasks |
| `continuation` | 5 values | resumed once, with the value given; resumed in the end |
| `stop_state` | 3 threads, 2 callbacks | no callback is touched after its end, a stop reaches all, refinement of `StopSpec` |
| `semaphore` | 4 threads, at most 1 permit, waiters saturate at 2 | permits and waiters are exact; no thread sleeps beside a permit |
| `blocking_queue` | 1 producer, 3 consumers, 3 nodes, one consumer also calls `try_pop` | one consumer has the queue, no waiter is lost or in two lists, order; items are popped while somebody wants them |
| `with_deadline` | a sleep or an operation; no scheduler, one without timers, or asio; a token that is stopped or not | resumed once, nothing freed is touched, outcomes have a reason, no timer is left, no resume during a cancellation; it ends |

The bounds. Three threads let a push, another push behind it and a consumer
overlap; items are pushed again after they were popped, so three of them keep the
stub going round. Two contexts are what a transfer involves; a third task is the one
that competes with it, so that a transfer has a task left behind in the old context
and finds another one in the new. One thread that nests to depth 2 has one task
inside the `await_suspend` of another. Four results fill the ready queue and the list
at once. Five values make a second resume differ from the first; the protocol itself
is small. Two callbacks are one that runs and one in the list, and three threads are
the stopper, a remover and one that adds. The semaphore's limit is 3 in the code (a
bit mask) and 2 here: two waiters then saturate it, a third is not counted, and the
fourth thread releases. Three consumers are one that has the queue, one that waits
and one that comes between them; three nodes are the dummy and two items.
`WithDeadline` is not bounded: it has one task, every thread that can take part in
it, and all its configurations. `MaxDepth` and `MaxPermits` are the only bounds in
guards.

Runs with `CHECK_DEADLOCK FALSE` end properly: all tasks or callbacks are used up,
the coroutine is done, or all threads of the semaphore acquire and nobody is left to
release.

Symmetry is used in `actor_contended` and `stop_state` only, which check no liveness.
In `actor_contended` tasks may be exchanged, and so may the two contexts, which share
a scheduler there; threads may not, since one of them nests. `stop_state` exchanges
threads and callbacks.

### Disagreements with the code's own words

Three runs are expected to fail. Each shows the code at odds with a comment or an
assert of the repository.

- `actor_yield`: `do_yield` (`detail/async_context.h:227`) schedules `r` instead of
  the runnable it popped. The popped one is lost and `r` is in two places.
- `stop_state_wake`: a failed compare-and-swap on an unlocked word falls through to
  `wait()` without the waiting flag, and nobody wakes the thread
  (`detail/stop_token_polyfill.h:248`).
- `asio_suspend`: a cancellation that ends between the two compare-and-swaps of
  `set_continuation` (`detail/asio_awaitable.h:41-56`) makes the second one fail with
  a null pointer; the coroutine goes on without a result.

Others were met and have no run:

- `detail/blocking_queue.h:433-444`: `try_unlock_no_item` uses a `nextValue` that may
  be stale after new waiters were taken, so its assert may fail; a release build only
  tries again, which is what the model does.
- `detail/task_group.h:421` says that the cancellation flag is never set when
  `when_ready` resumes. A stop callback that runs after a result was delivered sets it
  (line 267); the model has the flag, and `NextHasResult`, `WhenReadyHeedsStop` and
  `ScopeEnds` say what remains true.
- `detail/async_context.h:93-95` relies on "scheduler preempting in unexpected threads".
  With two asio pools a task that is resumed by an actor of the other pool, in the
  middle of its await, may go on there: the deadline of the thread is set, and
  `preempt()` compares it with the clock. `RunsOnItsScheduler` says what remains true:
  the tasks of a scheduler that does preempt are not affected, and a transfer
  never takes a task to the wrong pool by itself.
- `detail/with_continuation.h:63,123`: after a `destroy()` before the coroutine
  suspended, `resume()` fails an assert.
- `asio_actor_scheduler.h:57`: the stop callback in a timer holds a reference to the
  timer itself, so a timer whose token can be stopped is not freed.
- With acquirers of one and of two permits `sync_semaphore::release(1)` may wake one
  that needs two, and one that needs one sleeps on (`SleeperIsServed` fails with
  `Counts = {1, 2}`). The repository uses a count of one everywhere.

## Fairness

Weak fairness for the steps inside a call: a running thread goes on.

- `IntrusiveMailbox`: strong fairness for `pop`. A holder interrupts it with other
  calls (`peek`, `try_unlock`), but the context manager always ends by popping.
- `ActorContext`: strong fairness for running each scheduled runnable, which any
  pool gives, and for a task that keeps running to suspend or finish at last, which
  is the user's duty: an actor that never does keeps its context for ever. With
  nesting the user's `await_suspend` has to return at every depth; liveness is
  checked without nesting.
- `TaskGroup`: the tasks of the group end and the consumer runs. Nothing forces a
  stop, nor a new task.
- `Continuation`: the object is destroyed at last, as C++ objects are.
- `Semaphore` and `StopState`: threads run; nobody has to call anything.
- `BlockingQueue`: threads run, and spinning ends; nobody has to push or pop.
- `WithDeadline`: threads run, timers expire and asio calls its handlers. An
  operation need not complete and nobody has to stop the task.

## Proofs

Every theorem holds for all values of the constants. Each module has an inductive
invariant `Inv`, one lemma per action (or per group of actions that do the same)
that says it is preserved, the theorem that it always holds, and the theorems about
the properties that the runs check. What is assumed is what the `ASSUME` of the
model says: that names differ from each other (`Null`, `Stub`, the markers) and that
numbers are numbers.

### `IntrusiveMailboxProofs`

`TypeOK`, `MutualExclusion`, `NoDanglingPush`, `NoLostItem`, `AssertionsHold`,
`EmptyIsExact`, `Fifo`, `PromiseKept` and the refinement `ImplementsMailbox`, for all
threads and items.

None of these is inductive. Mutual exclusion depends on the marker being in the
head's `next` exactly when nobody holds the lock, and that depends on pushes
writing to nodes nobody else writes to, which depends on the shape of the list.
`Inv` states all of it:

- `LockInv`: the marker is in `next[head]` iff the lock is free.
- `PointerInv`, `PushInv`: whatever a published pointer, or a push about to publish,
  leads to has exactly that node and its predecessors ahead of it. This replaces
  reachability along `next`, which would need induction, by a local condition.
- `PushersInv`, `LinkInv`: one push per node, and only the tail has no successor.
- `EndsInv`: nothing is ahead of the head, everything is ahead of the tail.
- `StubInv`, `PromiseInv`, `Calls`: where the stub may be, what `peek` promised,
  and what each thread's program counter implies.
- `QueueInv`: `queue` has the linked items once each, by what is ahead of them.

`TailIsLast`, `HeadIsFirst` and `SingletonList` draw the consequences that the
steps need.

For the refinement the queue of `MailboxSpec` is `queue`, the pushes in flight are the
items of the threads before `push_publish`, and the mailbox is locked when it has an
owner. `PushRefines`, `PublishRefines` and `PopRefines` say what each action does to
these three: a push appends, a publish leaves the set of pushes in flight and may take
the lock, and a pop removes the head, which `HeadIsNext` shows to be the oldest item,
or gives the lock up, which it only does when the queue is empty or a push
that will take it is still running (`QueueIsWakeable`).

### `ActorContextInvariant` and `ActorContextProofs`

`OneHolder`, `RunnableOnce`, `QueuedIsServed`, `RunsOnItsScheduler` and
`NeverNested`, for all contexts, schedulers, pools, tasks and depths of nesting.
`RunsOnItsScheduler` holds for any `PreemptsForeign`, so for a scheduler in it
whatever the others answer. It says nothing of a scheduler that is not in it.

The properties count: `OneHolder` says that the set of holders of a context has one
element or none, `RunnableOnce` the same of the places of a task. The invariant says
it without sets. `Placed(r, k, x, i)` is every way a runnable can be somewhere (fresh,
waiting, ready, in a queue, on a stack, in a call) and `Keeps(c, k, x, i)` every way
a context can be held; `Once` and `Held` say that there is exactly one. A step moves
one runnable and at most two locks: `Departs` is the thread letting go of a task, and
`GoesOn`, `Left`, `Prepped`, `Popped`, `Shown` are where the task or the lock arrives.
`OnceStep` and `HeldStep` turn "it left here and is only there" into the invariant, so
that each action only has to say where its runnable went. The rest of `Inv`:

- `Frames`: what a call in progress relies on, `inline` above all: a transfer that
  does not ask the scheduler runs on a thread where its old context was at home
  (`AtHome`), alone.
- `Pushes`, `Queues`, `Readies`: pushes in flight belong to one thread; a runnable
  waits in the mailbox, or with the scheduler, of its own context.
- `Stacks`: whoever runs in a context is on a thread where the context is at home, and
  on top of no other task.

`ActorContextInvariant` has the invariant and the steps with which a task starts,
changes its context, suspends, resumes and finishes; `ActorContextProofs` the steps
of the calls these begin (`Prepare`, `Publish`, `Pop`, `PostMore`), and the theorems.

### `TaskGroupProofs`

`ExclusiveAccess`, `NoLostWakeup`, `ResultsInOrder`, `NextHasResult`,
`WhenReadyHeedsStop` and `CountIsExact`, for all sets of tasks. `Access` ties the
marker in `last_ready` to where the consumer and the stop callback are (`MarkIsOwned`)
and says why the consumer is awake (`WokenForReason`). On top of it `Ordered` follows
the results through the list, the ready queue and the direct hand-over, and `Counted`
has `count_` as the number of results that are there or still to come. `StopIsSeen`
says what a stop callback that has ended left for a consumer that is not awake yet: a
flag, a result, or a push that is delivering one.

### `StopStateProofs`

`LockIsExclusive`, `DestroyedIsNotTouched`, `StopReachesAll`, and the refinement
`ImplementsStop`, for all threads, callbacks and sources. `Mutex` says who has the lock
bit and where the only `request_stop()` is; `Lives` what is left of each callback: who
owns it, whether it is in the list, whether the stop still reaches it. With both, the
initial state maps to one of `StopSpec` and each step to a step or a stutter:
`NextRefines` has one case per action that changes the abstract state.

### `WakeupProofs`

Of the semaphore `PermitsAreExact` and `WaitersAreCounted`, for all threads, counts and
limits. The invariant adds that a copy of the word that shows a saturated counter can
be trusted after it has become stale (`SaturatedForGood`).

Of the continuation `ResumedOnce`, `SuspendedIsReachable` and `GetsWhatWasGiven`, for
all values. The first is nearly inductive; the last needs `GivenInv`, which relates the
result, what the holder gave and the word through which it was given. The two models
share nothing: the parts of the specification in `Continuation` have a prefix
(`WCInit`, `WCNext`, `WCSpec`), so that the module can extend both.

### `BlockingQueueProofs` and `BlockingQueueWaiters`

`QueueIsLocked`, `Fifo` and `WaiterIsHeldOnce`, for all producers, consumers and nodes.
The invariant is a picture of the list: `Front(d)` says that `d`, the dummy, is in `head_` or with the
consumer that has the lock; `Chain(d)` that the items of `order` follow it, allocated
and distinct (`Distinct`), each linked to the one in front of it or still being pushed
by one producer (`Linked`), and that nodes about to be freed are not among them
(`Freed`). `Locks` and `Fresh` say what a consumer knows at each place. The lemmas
`ChainAppends`, `ChainLinks`, `ChainTakes`, `ChainWaits` and `ChainFrees` are the five
things that happen to the list. They are steps of one lemma, `InvSteps`.

`WaiterIsHeldOnce` has an invariant of its own, `WaiterInv`. A waiter is pointed to from
`head_`, from a `next`, from the `pending` of a consumer, from the link of another
waiter, or by a push that will notify it: these are the places (`Place`), `Contents`
says what is in each, and `OneHolder` that no waiter is in two. `Waits` ties this to the
thread: its waiter is in a place exactly while the thread waits and has no permit. A
step moves a waiter from one place to another, shifts two, adds one or drops one
(`Moved`, `Shifted`, `Joined`, `Added`, `Dropped`), so that it only has to say which.

Where the step uses `find_last` or `pendingLast`, the place it writes to must be empty,
which means that the list ends there. `AreLists` says that links do not join and that
every list has an end. The end is described without recursion (`IsLast`): it has no
link, and is in every set that holds the first waiter and is closed under links.
`FindLastFinds` shows that the recursive `FindLast` is that end, because a function
with its defining equation exists. `Linking` and `Cutting` are what happens to lists:
two become one, and the first waiter leaves. `Tails` has `pendingLast` as the end of
`pending`, and `Serves` says where `pending` is empty. Of the list of items the waiters
need little (`StepFacts`): a consumer that has the lock may write to its node, and
nobody waits at a node that is freed.

### Model-checked only

- All liveness properties: the prover has no fairness and no `ENABLED`.
- `SleeperIsServed`, `ItemsArePopped` and the others that say that nobody sleeps on:
  they are about fairness.
- `WithDeadline` and the modules it is built on: they have no constants but the choice
  of configurations, so the run is exhaustive.

## Not modelled

- `detail/mailbox.h`: the mailbox that allocates its nodes, used by tests and
  benchmarks only.
- `sync_wait_group`: an atomic counter and a semaphore.
- The tree of frames inside of a task with exceptions and destruction, task-local
  values, detached and packaged awaitables, plain coroutines, results, pointers: they
  are private to one thread at a time.
- The clock behind the preemption deadline of a thread, and the initiation of asio
  operations.
- The destruction of a task group while its consumer is suspended in it
  (`detail/task_group.h:77-85`): the destructor of the awaiter comes first and removes
  its marker (`DestroyAwaiter`), so the branch is left to a group that is destroyed
  by somebody else, which the comment there calls unsafe.
- The destruction of an asio awaiter between the last compare-and-swap of
  `end_cancellation` (`detail/asio_awaitable.h:141`) and the resume that follows it:
  whoever destroys the coroutine must know that nobody is resuming it, so `Claim` is
  one step.
