---------------------------- MODULE StopThreads ----------------------------
(***************************************************************************)
(* Threads that request stops, and the callbacks that run inside of them.  *)
(*                                                                         *)
(* A thread is a stack of calls.  The call on top does its next step and   *)
(* is replaced by the calls that this step makes, if any; <<"co">> is the  *)
(* resume() of a coroutine, on top until the coroutine suspends.  There    *)
(* are two stop states: of the token that a task was started with, and of  *)
(* the scoped_stop_source of with_deadline.                                *)
(***************************************************************************)
EXTENDS Naturals, StopOps

Null == "null"
Source == {"parent", "scoped"}
Timer == {"deadline", "sleep"}

(* Who runs the coroutine, who stops its parent token, and the threads in  *)
(* which asio calls handlers.                                              *)
Thread == {"task", "stopper", "operation"} \union Timer

VARIABLES
  stack,   \* [Thread -> the calls it is in, innermost first]
  stop     \* [Source -> stop state (see StopOps)]

Calls(t, f) == stack[t] # <<>> /\ Head(stack[t])[1] = f

Arg(t) == Head(stack[t])[2]

(* The call on top of t is replaced by these calls. *)
Call(t, calls) == stack' = [stack EXCEPT ![t] = calls \o Tail(@)]

(* The call on top of t makes these calls. *)
Nest(t, calls) == stack' = [stack EXCEPT ![t] = calls \o @]

(* What a stop callback calls: the lambda of with_deadline_impl,           *)
(* emit_cancellation_t of an operation, or cancel_t of a timer.            *)
Body(c) ==
  CASE c = "propagate" -> << <<"request_stop", "scoped">> >>
    [] c = "emit" -> << <<"begin_cancellation">> >>
    [] c \in Timer -> << <<"cancel", c>> >>

RequestStop(t) ==
  /\ Calls(t, "request_stop")
  /\ LET s == Arg(t) IN
     IF stop[s].stopped
     THEN Call(t, <<>>) /\ UNCHANGED stop
     ELSE /\ stop' = [stop EXCEPT ![s] = StopRequested(@)]
          /\ Call(t, << <<"take", s>> >>)

(* The state is not touched again after the last callback returns. *)
Take(t) ==
  /\ Calls(t, "take")
  /\ LET s == Arg(t)
         l == stop[s].listed IN
     IF l = <<>>
     THEN Call(t, <<>>) /\ UNCHANGED stop
     ELSE /\ stop' = [stop EXCEPT ![s] = Taken(@, t)]
          /\ Call(t, Body(Head(l)) \o << <<"ran", s, Tail(l) # <<>> >> >>)

Ran(t) ==
  /\ Calls(t, "ran")
  /\ stop' = [stop EXCEPT ![Arg(t)] = Returned(@, Null)]
  /\ Call(t, IF Head(stack[t])[3] THEN << <<"take", Arg(t)>> >> ELSE <<>>)

StopStep(t) == RequestStop(t) \/ Take(t) \/ Ran(t)

(* The constructor of stop_callback c in thread t. *)
AddCallback(t, s, c) ==
  IF stop[s].stopped
  THEN Nest(t, Body(c)) /\ UNCHANGED stop
  ELSE stop' = [stop EXCEPT ![s] = Listed(@, c)] /\ UNCHANGED stack

(* Its destructor, which waits for c to return in another thread. *)
RemoveCallback(t, s, c) ==
  /\ CanDestroy(stop[s], c, t)
  /\ stop' = [stop EXCEPT ![s] = Deleted(@, c)]
=============================================================================
