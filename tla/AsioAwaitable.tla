--------------------------- MODULE AsioAwaitable ---------------------------
(***************************************************************************)
(* asio_continuation: an asynchronous operation of asio, its handler, and  *)
(* its cancellation by a stop token.                                       *)
(*                                                                         *)
(* The continuation is a word that holds the handle of the coroutine, the  *)
(* marker of a cancellation in progress and the marker of the result.  A   *)
(* loop of compare-and-swap is one step.  asio calls the handler of an     *)
(* operation once, after it completed or was aborted.                      *)
(***************************************************************************)
EXTENDS AsioTimer

VARIABLES
  word,     \* continuation: [handle, cancel, result : BOOLEAN]
  op,       \* the operation: "idle", "pending", "value" or "aborted" with the
            \* handler still to run, "done"
  result    \* what the handler stored: "none", "value" or "aborted"

EmptyWord == [handle |-> FALSE, cancel |-> FALSE, result |-> FALSE]
OnlyResult == [EmptyWord EXCEPT !.result = TRUE]
OnlyCancel == [EmptyWord EXCEPT !.cancel = TRUE]

Complete ==
  /\ op = "pending"
  /\ op' = "value"

(* cs->emit(). *)
Emitted == IF op = "pending" THEN "aborted" ELSE op

(* asio_awaitable_handler::operator(). *)
Handle ==
  /\ op \in {"value", "aborted"}
  /\ result' = op
  /\ op' = "done"
  /\ stack' = [stack EXCEPT !["operation"] = << <<"finish_operation">> >>]

(* Mutation of FinishOperation: the handler resumes the coroutine during a cancellation. *)
FinishOperationAtOnce(t) ==
  /\ Calls(t, "finish_operation")
  /\ word' = [word EXCEPT !.handle = FALSE, !.result = TRUE]
  /\ IF word.handle THEN Resume(t) ELSE Call(t, <<>>) /\ UNCHANGED co

(* finish(): a cancellation in progress keeps the handle, and resumes. *)
FinishOperation(t) ==
  /\ Calls(t, "finish_operation")
  /\ word' = IF word.cancel THEN [word EXCEPT !.result = TRUE] ELSE OnlyResult
  /\ IF word.handle /\ ~word.cancel /\ ~word.result
     THEN Resume(t)
     ELSE Call(t, <<>>) /\ UNCHANGED co

(* emit_cancellation_t. *)
BeginCancellation(t) ==
  /\ Calls(t, "begin_cancellation")
  /\ IF word = OnlyResult
     THEN Call(t, <<>>) /\ UNCHANGED word
     ELSE /\ word' = [word EXCEPT !.cancel = TRUE]
          /\ Call(t, << <<"emit_cancellation">> >>)

EmitCancellation(t) ==
  /\ Calls(t, "emit_cancellation")
  /\ op' = Emitted
  /\ Call(t, << <<"end_cancellation">> >>)

EndCancellation(t) ==
  /\ Calls(t, "end_cancellation")
  /\ word' = [word EXCEPT !.cancel = FALSE]
  /\ Call(t, IF word.handle /\ word.result THEN << <<"claim">> >> ELSE <<>>)

(* Mutation of Claim: does not look whether the continuation is still there. *)
ClaimBlindly(t) ==
  /\ Calls(t, "claim")
  /\ word' = EmptyWord /\ Resume(t)

(* The second compare-and-swap of end_cancellation(). *)
Claim(t) ==
  /\ Calls(t, "claim")
  /\ IF word = [OnlyResult EXCEPT !.handle = TRUE]
     THEN word' = EmptyWord /\ Resume(t)
     ELSE Call(t, <<>>) /\ UNCHANGED <<word, co>>
=============================================================================
