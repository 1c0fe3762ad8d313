---------------------------- MODULE WithDeadline ----------------------------
(***************************************************************************)
(* A task that awaits with_deadline(...) around a sleep or around an asio  *)
(* operation, on a context without scheduler, with a scheduler that has no *)
(* timers, or with asio_actor_scheduler; under a token that cannot be      *)
(* stopped, or that somebody stops at any time.                            *)
(*                                                                         *)
(* The coroutine does one step at a time between two accesses to shared    *)
(* state; destructors are steps, in the order of the language.             *)
(***************************************************************************)
EXTENDS AsioAwaitable

CONSTANTS Awaited,      \* what is awaited: some of "sleep", "operation"
          Scheduler     \* some of "none", "plain", "asio"

ASSUME KnownKinds ==
  Awaited \subseteq {"sleep", "operation"} /\ Scheduler \subseteq {"none", "plain", "asio"}

VARIABLES
  awaited, scheduler,
  possible,   \* stop_possible() of the token of the task
  scope,      \* the scoped_stop_source: "none", "open", "closed"
  outcome     \* what co_await returned: "none", "true", "false", "value",
              \* "aborted", "error" when there was no result, or "destroyed"

config == <<awaited, scheduler, possible>>
asioVars == <<word, op, result>>
vars == <<stack, stop, timer, sleep, co, asioVars, config, scope, outcome>>

Init ==
  /\ awaited \in Awaited /\ scheduler \in Scheduler /\ possible \in BOOLEAN
  /\ stack = [t \in Thread |-> IF t = "task" THEN << <<"co">> >> ELSE <<>>]
  /\ stop = [s \in Source |-> NewStop(Null)]
  /\ timer = [x \in Timer |-> "idle"]
  /\ sleep = "null" /\ co = "enter"
  /\ word = EmptyWord /\ op = "idle" /\ result = "none"
  /\ scope = "none" /\ outcome = "none"

(* The token of the task. *)
Token == IF scope = "open" THEN "scoped" ELSE "parent"

StopPossible(s) == s = "scoped" \/ possible

(* The coroutine runs in thread t, and is at l. *)
At(t, l) == Calls(t, "co") /\ co = l

(***************************************************************************)
(* with_deadline_impl, up to the awaitable.                                *)
(***************************************************************************)

Enter(t) ==
  /\ At(t, "enter")
  /\ IF scheduler = "none" \/ stop["parent"].stopped
     THEN co' = "await" /\ UNCHANGED scope
     ELSE co' = "propagate" /\ scope' = "open"
  /\ UNCHANGED <<stack, stop, timer, sleep, asioVars, config, outcome>>

Propagate(t) ==
  /\ At(t, "propagate")
  /\ co' = "check"
  /\ IF possible THEN AddCallback(t, "parent", "propagate") ELSE UNCHANGED <<stack, stop>>
  /\ UNCHANGED <<timer, sleep, asioVars, config, scope, outcome>>

(* The scope is left again when the stop was faster. *)
Check(t) ==
  /\ At(t, "check")
  /\ co' = IF stop["scoped"].stopped THEN "leave" ELSE "deadline"
  /\ UNCHANGED <<stack, stop, timer, sleep, asioVars, config, scope, outcome>>

(***************************************************************************)
(* schedule(): actor_scheduler's own calls back at once.                   *)
(***************************************************************************)

TokenFor(x) == IF x = "deadline" THEN "scoped" ELSE Token

Installing(x) == IF x = "deadline" THEN "cancel_deadline" ELSE "cancel_sleep"

Scheduled(x) == IF x = "deadline" THEN "await" ELSE "sleep_ready"

Schedule(t, x) ==
  /\ At(t, x)
  /\ IF scheduler # "asio" \/ stop[TokenFor(x)].stopped
     THEN /\ Nest(t, Callback(x, FALSE))
          /\ co' = Scheduled(x)
          /\ UNCHANGED timer
     ELSE /\ timer' = [timer EXCEPT ![x] = "armed"]
          /\ co' = IF StopPossible(TokenFor(x)) THEN Installing(x) ELSE Scheduled(x)
          /\ UNCHANGED stack
  /\ UNCHANGED <<stop, sleep, asioVars, config, scope, outcome>>

(* cancel.emplace(). *)
InstallCancel(t, x) ==
  /\ At(t, Installing(x))
  /\ AddCallback(t, TokenFor(x), x)
  /\ co' = Scheduled(x)
  /\ UNCHANGED <<timer, sleep, asioVars, config, scope, outcome>>

(***************************************************************************)
(* The awaiters.                                                           *)
(***************************************************************************)

(* The await_ready of either: start the timer or the operation. *)
Await(t) ==
  /\ At(t, "await")
  /\ IF awaited = "sleep" THEN co' = "sleep" /\ UNCHANGED op
     ELSE co' = "ready" /\ op' = "pending"
  /\ UNCHANGED <<stack, stop, timer, sleep, word, result, config, scope, outcome>>

Suspended(t) == co' = "suspended" /\ Call(t, <<>>)

SleepReady(t) ==
  /\ At(t, "sleep_ready")
  /\ co' = IF sleep = "null" THEN "sleep_suspend" ELSE "resumed"
  /\ UNCHANGED <<stack, stop, timer, sleep, asioVars, config, scope, outcome>>

(* Mutation of SleepSuspend: the awaiter does not notice that the timer was faster. *)
SleepSuspendStore(t) ==
  /\ At(t, "sleep_suspend")
  /\ sleep' = "handle" /\ Suspended(t)
  /\ UNCHANGED <<stop, timer, asioVars, config, scope, outcome>>

SleepSuspend(t) ==
  /\ At(t, "sleep_suspend")
  /\ IF sleep = "null"
     THEN sleep' = "handle" /\ Suspended(t)
     ELSE co' = "resumed" /\ UNCHANGED <<sleep, stack>>
  /\ UNCHANGED <<stop, timer, asioVars, config, scope, outcome>>

(* ready(), before and after the stop token is looked at. *)
Ready(t) ==
  /\ At(t, "ready") \/ At(t, "ready_again")
  /\ co' = IF word = OnlyResult THEN "resumed"
           ELSE IF co = "ready" /\ StopPossible(Token) THEN "token" ELSE "suspend"
  /\ UNCHANGED <<stack, stop, timer, sleep, asioVars, config, scope, outcome>>

(* A token that is stopped already: emit without begin and end. *)
LookAtToken(t) ==
  /\ At(t, "token")
  /\ IF stop[Token].stopped
     THEN op' = Emitted /\ co' = "ready_again"
     ELSE co' = "install" /\ UNCHANGED op
  /\ UNCHANGED <<stack, stop, timer, sleep, word, result, config, scope, outcome>>

InstallEmit(t) ==
  /\ At(t, "install")
  /\ AddCallback(t, Token, "emit")
  /\ co' = "suspend"
  /\ UNCHANGED <<timer, sleep, asioVars, config, scope, outcome>>

(* set_continuation(), and its second compare-and-swap when the first one  *)
(* met a cancellation.                                                     *)
Suspend(t) ==
  /\ At(t, "suspend")
  /\ \/ /\ word = EmptyWord
        /\ word' = [word EXCEPT !.handle = TRUE]
        /\ Suspended(t)
     \/ /\ word # EmptyWord
        /\ co' = IF word = OnlyCancel THEN "suspend_cancelled" ELSE "resumed"
        /\ UNCHANGED <<word, stack>>
  /\ UNCHANGED <<stop, timer, sleep, op, result, config, scope, outcome>>

SuspendCancelled(t) ==
  /\ At(t, "suspend_cancelled")
  /\ IF word = OnlyCancel
     THEN word' = [word EXCEPT !.handle = TRUE] /\ Suspended(t)
     ELSE co' = "resumed" /\ UNCHANGED <<word, stack>>
  /\ UNCHANGED <<stop, timer, sleep, op, result, config, scope, outcome>>

(* await_resume(). *)
AwaitResume(t) ==
  /\ At(t, "resumed")
  /\ outcome' = IF awaited = "sleep" THEN sleep ELSE IF result = "none" THEN "error" ELSE result
  /\ co' = "release"
  /\ UNCHANGED <<stack, stop, timer, sleep, asioVars, config, scope>>

(***************************************************************************)
(* Destructors: of the awaiter, which may still be suspended, of the       *)
(* callback propagate and of the scoped_stop_source.                       *)
(***************************************************************************)

AfterAwaiter == IF scope = "open" THEN "leave" ELSE "done"

(* sleep_until_context::cancel, or unset_continuation. *)
Unset ==
  IF awaited = "sleep"
  THEN /\ sleep' = IF sleep = "handle" THEN "null" ELSE sleep
       /\ co' = AfterAwaiter
       /\ UNCHANGED word
  ELSE /\ word' = [word EXCEPT !.handle = FALSE]
       /\ co' = "remove_emit"
       /\ UNCHANGED sleep

ReleaseAwaiter(t) ==
  /\ At(t, "release")
  /\ Unset
  /\ UNCHANGED <<stack, stop, timer, op, result, config, scope, outcome>>

(* The frames are destroyed bottom-up, while no handler is running, as the *)
(* code demands.  A cancellation may be.                                   *)
Destroy ==
  /\ co = "suspended" /\ stack[awaited] = <<>>
  /\ Unset
  /\ outcome' = "destroyed"
  /\ stack' = [stack EXCEPT !["task"] = << <<"co">> >>]
  /\ UNCHANGED <<stop, timer, op, result, config, scope>>

(* Mutation of RemoveEmit: does not wait for the callback. *)
RemoveEmitAtOnce(t) ==
  /\ At(t, "remove_emit")
  /\ stop' = [stop EXCEPT ![Token] = Deleted(@, "emit")]
  /\ co' = AfterAwaiter
  /\ UNCHANGED <<stack, timer, sleep, asioVars, config, scope, outcome>>

RemoveEmit(t) ==
  /\ At(t, "remove_emit")
  /\ RemoveCallback(t, Token, "emit")
  /\ co' = AfterAwaiter
  /\ UNCHANGED <<stack, timer, sleep, asioVars, config, scope, outcome>>

Leave(t) ==
  /\ At(t, "leave")
  /\ RemoveCallback(t, "parent", "propagate")
  /\ co' = "close"
  /\ UNCHANGED <<stack, timer, sleep, asioVars, config, scope, outcome>>

(* Mutation of Close: the source is no scoped_stop_source. *)
CloseQuietly(t) ==
  /\ At(t, "close")
  /\ co' = "closed"
  /\ UNCHANGED <<stack, stop, timer, sleep, asioVars, config, scope, outcome>>

Close(t) ==
  /\ At(t, "close")
  /\ Nest(t, << <<"request_stop", "scoped">> >>)
  /\ co' = "closed"
  /\ UNCHANGED <<stop, timer, sleep, asioVars, config, scope, outcome>>

(* The scope that was left before the awaitable was reached is skipped. *)
Closed(t) ==
  /\ At(t, "closed")
  /\ scope' = "closed"
  /\ co' = IF outcome = "none" THEN "await" ELSE "done"
  /\ UNCHANGED <<stack, stop, timer, sleep, asioVars, config, outcome>>

Return(t) ==
  /\ At(t, "done")
  /\ Call(t, <<>>)
  /\ UNCHANGED <<stop, timer, sleep, co, asioVars, config, scope, outcome>>

(***************************************************************************)
(* The system.                                                             *)
(***************************************************************************)

CoroutineStep(t) ==
  \/ Enter(t) \/ Propagate(t) \/ Check(t) \/ Await(t)
  \/ \E x \in Timer : Schedule(t, x) \/ InstallCancel(t, x)
  \/ SleepReady(t) \/ SleepSuspend(t)
  \/ Ready(t) \/ LookAtToken(t) \/ InstallEmit(t) \/ Suspend(t) \/ SuspendCancelled(t)
  \/ AwaitResume(t) \/ ReleaseAwaiter(t) \/ RemoveEmit(t)
  \/ Leave(t) \/ Close(t) \/ Closed(t) \/ Return(t)

CallbackStep(t) ==
  \/ StopStep(t) /\ UNCHANGED <<timer, sleep, co, asioVars, config, scope, outcome>>
  \/ Cancel(t) /\ UNCHANGED <<stop, sleep, co, asioVars, config, scope, outcome>>
  \/ Finish(t) /\ UNCHANGED <<stop, timer, asioVars, config, scope, outcome>>
  \/ FinishOperation(t) /\ UNCHANGED <<stop, timer, sleep, op, result, config, scope, outcome>>
  \/ BeginCancellation(t) /\ UNCHANGED <<stop, timer, sleep, co, op, result, config, scope, outcome>>
  \/ EmitCancellation(t) /\ UNCHANGED <<stop, timer, sleep, co, word, result, config, scope, outcome>>
  \/ EndCancellation(t) /\ UNCHANGED <<stop, timer, sleep, co, op, result, config, scope, outcome>>
  \/ Claim(t) /\ UNCHANGED <<stop, timer, sleep, op, result, config, scope, outcome>>

ThreadStep(t) == CoroutineStep(t) \/ CallbackStep(t)

(* Somebody stops the token of the task. *)
StopParent ==
  /\ possible /\ ~stop["parent"].stopped /\ stack["stopper"] = <<>>
  /\ stack' = [stack EXCEPT !["stopper"] = << <<"request_stop", "parent">> >>]
  /\ UNCHANGED <<stop, timer, sleep, co, asioVars, config, scope, outcome>>

AsioTimerStep(x) ==
  \/ Expire(x) /\ UNCHANGED <<stack, stop, sleep, co, asioVars, config, scope, outcome>>
  \/ Fire(x) /\ UNCHANGED <<stop, sleep, co, asioVars, config, scope, outcome>>

CompleteStep == Complete /\ UNCHANGED <<stack, stop, timer, sleep, co, word, result, config, scope, outcome>>

HandleStep == Handle /\ UNCHANGED <<stop, timer, sleep, co, word, config, scope, outcome>>

Next ==
  \/ \E t \in Thread : ThreadStep(t)
  \/ \E x \in Timer : AsioTimerStep(x)
  \/ CompleteStep \/ HandleStep \/ StopParent \/ Destroy

Spec == Init /\ [][Next]_vars
(***************************************************************************)
(* Safety.                                                                 *)
(***************************************************************************)

InStack(t, f) == \E i \in DOMAIN stack[t] : stack[t][i] = f

(* The coroutine runs in one thread, or it is suspended and its handle is  *)
(* where a handler or a cancellation will find it, and nowhere else.       *)
ResumedOnce ==
  LET frames == {<<t, i>> \in Thread \X (1..4) :
                   i \in DOMAIN stack[t] /\ stack[t][i] = <<"co">>}
      held == IF awaited = "sleep" THEN sleep = "handle" ELSE word.handle IN
  /\ held <=> co = "suspended"
  /\ \A f, g \in frames : f = g
  /\ co = "suspended" => frames = {}

(* A cancellation finds the asio_continuation alive through its raw        *)
(* pointer, request_stop() the state of the scoped source whose last       *)
(* owners may be gone when a callback returns, and the callback propagate  *)
(* the source it refers to.                                                *)
NothingFreedIsTouched ==
  LET continuation == outcome = "none" \/ co = "release" \/ co = "remove_emit"
                        \/ op # "done" \/ stack["operation"] # <<>>
      state == scope = "open" \/ timer["deadline"] # "idle" IN
  \A t \in Thread :
    /\ (\E f \in {"begin_cancellation", "emit_cancellation", "end_cancellation", "claim"} :
          InStack(t, <<f>>)) => continuation
    /\ InStack(t, <<"take", "scoped">>) \/ InStack(t, <<"ran", "scoped", TRUE>>) => state
    /\ t = "stopper" /\ InStack(t, <<"request_stop", "scoped">>) => scope = "open"

(* "making sure continuation will not be resumed until (a potentially very *)
(* long) cancellation finishes" (asio_awaitable.h:82).                     *)
CancellationBlocksResume ==
  [][co = "suspended" /\ co' = "resumed" =>
       \A t \in Thread : ~Calls(t, "emit_cancellation") /\ ~Calls(t, "end_cancellation")]_vars

(* A sleep returns true when its timer rang.  It returns false, and an     *)
(* operation is aborted, only when the token of the task was stopped, when *)
(* the deadline passed, or when there are no timers.                       *)
OutcomeIsHonest ==
  /\ outcome = "true" => timer["sleep"] = "rang"
  /\ outcome \in {"false", "aborted"} =>
       \/ stop["parent"].stopped \/ timer["deadline"] = "rang"
       \/ outcome = "false" /\ scheduler # "asio"

(* When with_deadline returned or was destroyed, however early, and nobody *)
(* is still stopping its source, no timer is left that waits.              *)
NoTimerOutlivesScope ==
  co = "done" /\ (\A t \in Thread : stack[t] = <<>>) =>
    \A x \in Timer : timer[x] # "armed"

(* await_resume() finds a result: "We should have the result already"      *)
(* (asio_awaitable.h:55).                                                  *)
ResultIsThere == outcome # "error"

(***************************************************************************)
(* Liveness.                                                               *)
(***************************************************************************)

(* Threads run on, timers expire and asio calls handlers.  An operation    *)
(* need not complete, and nobody has to stop the task.                     *)
FairSpec ==
  /\ Spec
  /\ \A t \in Thread : WF_vars(ThreadStep(t))
  /\ \A x \in Timer : WF_vars(AsioTimerStep(x))
  /\ WF_vars(HandleStep)

(* with_deadline returns when there is a timer, and also without one when  *)
(* the token of the task is stopped: nobody waits for a cancellation that  *)
(* waits for them, and no stop is lost before the suspension.              *)
BodyEnds == (scheduler = "asio" \/ awaited = "sleep" \/ stop["parent"].stopped) ~> co = "done"
=============================================================================
