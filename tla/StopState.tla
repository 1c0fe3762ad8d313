----------------------------- MODULE StopState -----------------------------
(***************************************************************************)
(* The shared state of stop_source, stop_token and stop_callback           *)
(* (detail/stop_token_polyfill.h): a word of flags that is also a mutex,   *)
(* and the list of callbacks it protects.                                  *)
(*                                                                         *)
(* Every load, compare-and-swap, wait and notify of the word is a step.    *)
(* Spinning is a load that sees what was seen before.  A thread in wait()  *)
(* sleeps if the word is what it expects, and sleeps on until somebody     *)
(* notifies it, as with a futex.  The list, its doubly linked pointers and *)
(* all, is a sequence; the semaphore of a callback is a counter.           *)
(*                                                                         *)
(* A stop_callback is constructed by one thread and destroyed by any other *)
(* one, or from inside a callback that request_stop() is running.          *)
(***************************************************************************)
EXTENDS StopOps, Integers, FiniteSets

CONSTANTS Thread, Callback, Null,
          Sources   \* stop_source objects at the start

ASSUME ConstantTypes == Null \notin Thread \union Callback /\ Sources \in Nat

VARIABLES
  word,       \* state: [sources, locked, waiting, stopped]
  callbacks,  \* the list from head
  runner,     \* running_thread_id
  current,    \* the callback request_stop() took from the list, or Null
  empty,      \* local of request_stop(): nothing was left behind current
  removed,    \* local of request_stop(): current was destroyed by its own thread
  flagged,    \* callbacks whose removed pointer is set
  done,       \* [Callback -> count of its semaphore]
  life,       \* [Callback -> where it is in its life]
  ran,        \* history: [Callback -> number of times it was invoked]
  pc,         \* [Thread -> where it is]
  op,         \* [Thread -> "add", "remove" or "stop", what it is doing]
  cb,         \* [Thread -> the callback it is adding or removing]
  seen        \* [Thread -> its copy of word]

vars == <<word, callbacks, runner, current, empty, removed, flagged, done, life, ran,
          pc, op, cb, seen>>

stopVars == <<runner, current, empty, removed, flagged>>

Word == [sources : 0..Sources, locked : BOOLEAN, waiting : BOOLEAN, stopped : BOOLEAN]

Init ==
  /\ word = [sources |-> Sources, locked |-> FALSE, waiting |-> FALSE, stopped |-> FALSE]
  /\ callbacks = <<>>
  /\ runner = Null /\ current = Null /\ empty = FALSE /\ removed = FALSE /\ flagged = {}
  /\ done = [c \in Callback |-> 0]
  /\ life = [c \in Callback |-> "new"]
  /\ ran = [c \in Callback |-> 0]
  /\ pc = [t \in Thread |-> "idle"]
  /\ op = [t \in Thread |-> "add"]
  /\ cb = [t \in Thread |-> Null]
  /\ seen = [t \in Thread |-> word]

Goto(t, l) == pc' = [pc EXCEPT ![t] = l]

(* Where a thread is between two operations: in a callback, or nowhere. *)
Base(t) == IF runner = t /\ current # Null THEN "invoking" ELSE "idle"

(***************************************************************************)
(* Locking: lock(), lock_stop() and the loop of add_callback().            *)
(***************************************************************************)

Load(t) ==
  /\ pc[t] = "load"
  /\ seen' = [seen EXCEPT ![t] = word]
  /\ Goto(t, "try")
  /\ UNCHANGED <<word, callbacks, stopVars, done, life, ran, op, cb>>

(* add_callback() and lock_stop() give up when they see the stopped flag,  *)
(* and add_callback() when there are no sources; a callback added after    *)
(* the stop is invoked at once.                                            *)
GiveUp(t) ==
  /\ pc[t] = "try"
  /\ \/ op[t] \in {"add", "stop"} /\ seen[t].stopped
     \/ op[t] = "add" /\ seen[t].sources = 0
  /\ IF op[t] = "add"
     THEN /\ life' = [life EXCEPT ![cb[t]] = "inert"]
          /\ ran' = IF seen[t].stopped THEN [ran EXCEPT ![cb[t]] = @ + 1] ELSE ran
     ELSE UNCHANGED <<life, ran>>
  /\ Goto(t, Base(t))
  /\ UNCHANGED <<word, callbacks, stopVars, done, op, cb, seen>>

(* Mutation of MustGoOn: a stop is not noticed while waiting for the lock. *)
MustGoOnBlindly(t) == pc[t] = "try"

MustGoOn(t) ==
  /\ pc[t] = "try"
  /\ op[t] \in {"add", "stop"} => ~seen[t].stopped
  /\ op[t] = "add" => seen[t].sources > 0

(* Mutation of TryLock: stores without comparing. *)
TryLockStore(t) ==
  /\ MustGoOn(t) /\ ~seen[t].locked
  /\ word' = [seen[t] EXCEPT !.locked = TRUE, !.stopped = @ \/ op[t] = "stop"]
  /\ Goto(t, IF op[t] = "stop" /\ seen[t].waiting THEN "notify_all" ELSE "locked")
  /\ UNCHANGED <<callbacks, stopVars, done, life, ran, op, cb, seen>>

(* Unlocked: take the lock; on failure, wait for the word to change. *)
TryLock(t) ==
  /\ MustGoOn(t) /\ ~seen[t].locked
  /\ IF word = seen[t]
     THEN /\ word' = [word EXCEPT !.locked = TRUE, !.stopped = @ \/ op[t] = "stop"]
          /\ Goto(t, IF op[t] = "stop" /\ word.waiting THEN "notify_all" ELSE "locked")
          /\ UNCHANGED seen
     ELSE /\ seen' = [seen EXCEPT ![t] = word]
          /\ Goto(t, "wait")
          /\ UNCHANGED word
  /\ UNCHANGED <<callbacks, stopVars, done, life, ran, op, cb>>

(* Locked: spin, or set the waiting flag after the 64th time.  The copy of *)
(* the word has no waiting flag, so the wait() that follows returns.       *)
SetWaiting(t) ==
  /\ MustGoOn(t) /\ seen[t].locked /\ ~seen[t].waiting
  /\ \/ Goto(t, "load") /\ UNCHANGED <<word, seen>>
     \/ /\ word = seen[t]
        /\ word' = [word EXCEPT !.waiting = TRUE]
        /\ Goto(t, "wait")
        /\ UNCHANGED seen
     \/ /\ word # seen[t]
        /\ seen' = [seen EXCEPT ![t] = word]
        /\ UNCHANGED <<word, pc>>
  /\ UNCHANGED <<callbacks, stopVars, done, life, ran, op, cb>>

(* Locked, and the waiting flag is set. *)
JoinWaiters(t) ==
  /\ MustGoOn(t) /\ seen[t].locked /\ seen[t].waiting
  /\ Goto(t, "wait")
  /\ UNCHANGED <<word, callbacks, stopVars, done, life, ran, op, cb, seen>>

(* state.wait(current). *)
Wait(t) ==
  /\ pc[t] = "wait"
  /\ Goto(t, IF word = seen[t] THEN "asleep" ELSE "load")
  /\ UNCHANGED <<word, callbacks, stopVars, done, life, ran, op, cb, seen>>

Asleep == {t \in Thread : pc[t] = "asleep"}

(* lock_stop() wakes every waiter, to look at the stopped flag. *)
NotifyAll(t) ==
  /\ pc[t] = "notify_all"
  /\ pc' = [u \in Thread |-> IF u = t THEN "locked" ELSE IF u \in Asleep THEN "wait" ELSE pc[u]]
  /\ UNCHANGED <<word, callbacks, stopVars, done, life, ran, op, cb, seen>>

(* unlock(): clear the flag, then wake one waiter if there may be any. *)
Unlock(t) ==
  /\ pc[t] = "unlock"
  /\ word' = [word EXCEPT !.locked = FALSE]
  /\ Goto(t, IF word.waiting THEN "notify_one" ELSE "unlocked")
  /\ UNCHANGED <<callbacks, stopVars, done, life, ran, op, cb, seen>>

NotifyOne(t) ==
  /\ pc[t] = "notify_one"
  /\ \/ Asleep = {} /\ Goto(t, "unlocked")
     \/ \E u \in Asleep : pc' = [pc EXCEPT ![t] = "unlocked", ![u] = "wait"]
  /\ UNCHANGED <<word, callbacks, stopVars, done, life, ran, op, cb, seen>>

LockStep(t) ==
  \/ Load(t) \/ GiveUp(t) \/ TryLock(t) \/ SetWaiting(t) \/ JoinWaiters(t)
  \/ Wait(t) \/ NotifyAll(t) \/ Unlock(t) \/ NotifyOne(t)

(***************************************************************************)
(* stop_callback's constructor and destructor.                             *)
(***************************************************************************)

Begin(t, o, c) ==
  /\ pc[t] = Base(t)
  /\ op' = [op EXCEPT ![t] = o]
  /\ cb' = [cb EXCEPT ![t] = c]
  /\ Goto(t, "load")

AddCallback(t, c) ==
  /\ Begin(t, "add", c)
  /\ life[c] = "new"
  /\ life' = [life EXCEPT ![c] = "adding"]
  /\ UNCHANGED <<word, callbacks, stopVars, done, ran, seen>>

Insert(t) ==
  /\ pc[t] = "locked" /\ op[t] = "add"
  /\ callbacks' = <<cb[t]>> \o callbacks
  /\ Goto(t, "unlock")
  /\ UNCHANGED <<word, stopVars, done, life, ran, op, cb, seen>>

Added(t) ==
  /\ pc[t] = "unlocked" /\ op[t] = "add"
  /\ life' = [life EXCEPT ![cb[t]] = "added"]
  /\ Goto(t, Base(t))
  /\ UNCHANGED <<word, callbacks, stopVars, done, ran, op, cb, seen>>

RemoveCallback(t, c) ==
  /\ Begin(t, "remove", c)
  /\ life[c] = "added"
  /\ life' = [life EXCEPT ![c] = "removing"]
  /\ UNCHANGED <<word, callbacks, stopVars, done, ran, seen>>

IsListed(c) == \E i \in DOMAIN callbacks : callbacks[i] = c

(* remove_callback_locked. *)
RemoveLocked(t) ==
  /\ pc[t] = "locked" /\ op[t] = "remove"
  /\ callbacks' = Unlinked(callbacks, cb[t])
  /\ life' = IF IsListed(cb[t]) THEN [life EXCEPT ![cb[t]] = "unlinked"] ELSE life
  /\ Goto(t, "unlock")
  /\ UNCHANGED <<word, stopVars, done, ran, op, cb, seen>>

(* Mutation of Removed: the thread that runs the callback is not told. *)
RemovedUntold(t) ==
  /\ pc[t] = "unlocked" /\ op[t] = "remove"
  /\ IF life[cb[t]] = "unlinked" \/ runner = t
     THEN UNCHANGED done
     ELSE /\ done[cb[t]] > 0
          /\ done' = [done EXCEPT ![cb[t]] = @ - 1]
  /\ life' = [life EXCEPT ![cb[t]] = "destroyed"]
  /\ Goto(t, Base(t))
  /\ UNCHANGED <<word, callbacks, stopVars, ran, op, cb, seen>>

(* The end of remove_callback(), after which the callback is destroyed: it *)
(* was in the list, or it is running or was run, in which case its own     *)
(* thread tells request_stop() not to touch it, and others wait for it.    *)
Removed(t) ==
  /\ pc[t] = "unlocked" /\ op[t] = "remove"
  /\ IF life[cb[t]] = "unlinked"
     THEN UNCHANGED <<removed, done>>
     ELSE IF runner = t
     THEN /\ removed' = (removed \/ cb[t] \in flagged)
          /\ UNCHANGED done
     ELSE /\ done[cb[t]] > 0
          /\ done' = [done EXCEPT ![cb[t]] = @ - 1]
          /\ UNCHANGED removed
  /\ life' = [life EXCEPT ![cb[t]] = "destroyed"]
  /\ Goto(t, Base(t))
  /\ UNCHANGED <<word, callbacks, runner, current, empty, flagged, ran, op, cb, seen>>

CallbackStep(t) == Insert(t) \/ Added(t) \/ RemoveLocked(t) \/ Removed(t)

(***************************************************************************)
(* stop_source.                                                            *)
(***************************************************************************)

(* Thread t is inside request_stop(), on a source that lives at least as   *)
(* long.                                                                   *)
InRequestStop(t) ==
  pc[t] # "idle" /\ (op[t] \in {"stop", "relock"} \/ (runner = t /\ current # Null))

RemoveSource ==
  /\ word.sources > 0
  /\ word.sources = 1 => \A t \in Thread : ~InRequestStop(t)
  /\ word' = [word EXCEPT !.sources = @ - 1]
  /\ UNCHANGED <<callbacks, stopVars, done, life, ran, pc, op, cb, seen>>

RequestStop(t) ==
  /\ word.sources > 0
  /\ Begin(t, "stop", Null)
  /\ UNCHANGED <<word, callbacks, stopVars, done, life, ran, seen>>

(* The loop of request_stop(), under the lock of lock_stop() or, in later  *)
(* rounds, of lock(): take the first callback.                             *)
TakeFirst(t) ==
  /\ pc[t] = "locked" /\ op[t] \in {"stop", "relock"}
  /\ IF callbacks = <<>>
     THEN UNCHANGED <<callbacks, stopVars>>
     ELSE /\ runner' = t
          /\ current' = Head(callbacks)
          /\ callbacks' = Tail(callbacks)
          /\ empty' = (Tail(callbacks) = <<>>)
          /\ removed' = FALSE
          /\ flagged' = flagged \union {Head(callbacks)}
  /\ op' = [op EXCEPT ![t] = "stop"]
  /\ Goto(t, "unlock")
  /\ UNCHANGED <<word, done, life, ran, cb, seen>>

(* callback->invoke(callback), or the end when there was none. *)
Invoke(t) ==
  /\ pc[t] = "unlocked" /\ op[t] = "stop"
  /\ Goto(t, Base(t))
  /\ ran' = IF current = Null THEN ran ELSE [ran EXCEPT ![current] = @ + 1]
  /\ UNCHANGED <<word, callbacks, stopVars, done, life, op, cb, seen>>

(* The callback returned: let a thread that destroys it go on, unless it   *)
(* is destroyed already.                                                   *)
Invoked(t) ==
  /\ pc[t] = "invoking"
  /\ IF removed THEN UNCHANGED <<flagged, done>>
     ELSE /\ flagged' = flagged \ {current}
          /\ done' = [done EXCEPT ![current] = @ + 1]
  /\ current' = Null
  /\ op' = [op EXCEPT ![t] = "relock"]
  /\ Goto(t, IF empty THEN "idle" ELSE "load")
  /\ UNCHANGED <<word, callbacks, runner, empty, removed, life, ran, cb, seen>>

StopStep(t) == TakeFirst(t) \/ Invoke(t) \/ Invoked(t)

ThreadStep(t) == LockStep(t) \/ CallbackStep(t) \/ StopStep(t)

Next ==
  \/ RemoveSource
  \/ \E t \in Thread :
       \/ ThreadStep(t) \/ RequestStop(t)
       \/ \E c \in Callback : AddCallback(t, c) \/ RemoveCallback(t, c)

Spec == Init /\ [][Next]_vars

(***************************************************************************)
(* Safety.                                                                 *)
(***************************************************************************)

(* Every variable has its type. *)
TypeOK ==
  /\ word \in Word /\ callbacks \in Seq(Callback)
  /\ runner \in Thread \union {Null} /\ current \in Callback \union {Null}
  /\ empty \in BOOLEAN /\ removed \in BOOLEAN /\ flagged \subseteq Callback
  /\ done \in [Callback -> Nat] /\ ran \in [Callback -> Nat]
  /\ life \in [Callback -> {"new", "adding", "added", "inert", "removing", "unlinked",
                            "destroyed"}]
  /\ pc \in [Thread -> {"idle", "load", "try", "wait", "asleep", "notify_all", "locked",
                        "unlock", "notify_one", "unlocked", "invoking"}]
  /\ op \in [Thread -> {"add", "remove", "stop", "relock"}]
  /\ cb \in [Thread -> Callback \union {Null}] /\ seen \in [Thread -> Word]

(* The list is touched by the thread that has the lock and by no other. *)
LockIsExclusive ==
  LET inside == {t \in Thread : pc[t] \in {"notify_all", "locked", "unlock"}} IN
  /\ word.locked <=> inside # {}
  /\ \A t, u \in inside : t = u

(* A destructor returns only when its callback does not run, except in the *)
(* callback itself, and then request_stop() will not touch it again.       *)
DestroyedIsNotTouched ==
  /\ \A i \in DOMAIN callbacks : life[callbacks[i]] # "destroyed"
  /\ current # Null /\ life[current] = "destroyed" => removed

(* A stop reaches everybody: when request_stop() has returned, no callback *)
(* is left in the list, none will be added, and each one that was not      *)
(* destroyed before has run.                                               *)
StopReachesAll ==
  word.stopped /\ (\A t \in Thread : ~InRequestStop(t)) =>
    /\ callbacks = <<>>
    /\ \A c \in Callback : life[c] = "added" => ran[c] = 1

(***************************************************************************)
(* Refinement.                                                             *)
(***************************************************************************)

Abstract == INSTANCE StopSpec WITH
  st <- [stopped |-> word.stopped, listed |-> callbacks, running |-> current,
         by |-> IF current = Null THEN Null ELSE runner]

(* The polyfill keeps the promise of StopSpec, step by step of its mutex:  *)
(* no callback is added after the stop or runs after it was unlinked, and  *)
(* they run newest first and one at a time.                                *)
ImplementsStop == Abstract!Spec

(***************************************************************************)
(* Liveness.                                                               *)
(***************************************************************************)

(* Every thread runs, and so do the callbacks it invokes. *)
FairSpec == Spec /\ \A t \in Thread : WF_vars(ThreadStep(t))

(* unlock() "wakes up a single thread currently waiting for a lock"        *)
(* (stop_token_polyfill.h:292): a thread asleep in wait() is woken once    *)
(* the lock is free.                                                       *)
SleeperIsWoken == \A t \in Thread : pc[t] = "asleep" ~> pc[t] # "asleep"
=============================================================================
