----------------------------- MODULE AsioTimer -----------------------------
(***************************************************************************)
(* The timers of asio_actor_scheduler, and sleep_until on top of them.     *)
(*                                                                         *)
(* A timer is armed by async_wait(); it expires or is cancelled, whatever  *)
(* is first, and then its handler runs in some thread of asio.             *)
(***************************************************************************)
EXTENDS StopThreads

VARIABLES
  timer,   \* [Timer -> "idle", "armed", "expired" or "aborted" with the handler
           \*           still to run, "rang" or "dropped"]
  sleep,   \* sleep_until_context::continuation: "null", "handle", "true", "false"
  co       \* where the coroutine is

(* Mutation of Callback: the callback of with_deadline ignores its argument. *)
CallbackAlwaysStops(x, ok) ==
  IF x = "sleep" THEN << <<"finish", ok>> >> ELSE << <<"request_stop", "scoped">> >>

(* The callback given to schedule(): with_deadline's, or sleep_until's. *)
Callback(x, ok) ==
  IF x = "sleep" THEN << <<"finish", ok>> >>
  ELSE IF ok THEN << <<"request_stop", "scoped">> >> ELSE <<>>

Expire(x) ==
  /\ timer[x] = "armed"
  /\ timer' = [timer EXCEPT ![x] = "expired"]

(* timer_t::cancel_t. *)
Cancel(t) ==
  /\ Calls(t, "cancel")
  /\ timer' = IF timer[Arg(t)] = "armed" THEN [timer EXCEPT ![Arg(t)] = "aborted"] ELSE timer
  /\ Call(t, <<>>)

(* timer_t::finish, in a thread of asio. *)
Fire(x) ==
  /\ timer[x] \in {"expired", "aborted"} /\ stack[x] = <<>>
  /\ timer' = [timer EXCEPT ![x] = IF @ = "expired" THEN "rang" ELSE "dropped"]
  /\ stack' = [stack EXCEPT ![x] = Callback(x, timer[x] = "expired")]

(* Resume a coroutine from thread t: its context lets it run there, or     *)
(* posts it (see ActorContext).                                            *)
Resume(t) ==
  /\ co' = "resumed"
  /\ \/ Call(t, << <<"co">> >>)
     \/ stack' = [stack EXCEPT ![t] = Tail(@), !["task"] = << <<"co">> >>]

(* sleep_until_context::finish. *)
Finish(t) ==
  /\ Calls(t, "finish")
  /\ sleep' = IF Arg(t) THEN "true" ELSE "false"
  /\ IF sleep = "handle" THEN Resume(t) ELSE Call(t, <<>>) /\ UNCHANGED co
=============================================================================
