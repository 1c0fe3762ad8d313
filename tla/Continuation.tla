---------------------------- MODULE Continuation ----------------------------
(***************************************************************************)
(* with_continuation: a coroutine that awaits, and the continuation<T>     *)
(* object, given to a callback, that resumes it from any thread            *)
(* (with_continuation.h, detail/with_continuation.h).                      *)
(*                                                                         *)
(* The object is move-only, so one thread at a time uses it: the holder.   *)
(* The two sides meet in continuation_state: an atomic word (null, a       *)
(* coroutine handle, or one of two markers) and a result that is not       *)
(* atomic.  A compare-and-swap loop is one step, its last iteration.       *)
(***************************************************************************)
EXTENDS Naturals

CONSTANT Value   \* what a continuation may be resumed with: values, exceptions

ASSUME ResultsAreDistinct == {"none", "not_resumed", "cancelled"} \intersect Value = {}

VARIABLES
  word,     \* continuation_state::continuation
  result,   \* result_: "none", a member of Value, or an exception of the state's own
  holder,   \* where the holder is
  awaiter,  \* where the awaiting coroutine is
  got,      \* what await_resume returned or threw
  given     \* history: what the holder resumed the coroutine with, "none" before

wcVars == <<word, result, holder, awaiter, got, given>>

WCInit ==
  /\ word = "null" /\ result = "none"
  /\ holder = "idle" /\ awaiter = "starting"
  /\ got = "none" /\ given = "none"

(***************************************************************************)
(* The holder.                                                             *)
(***************************************************************************)

(* Mutation of SetResult: an earlier result is overwritten. *)
SetResultAgain(v) ==
  /\ holder = "idle"
  /\ result' = v
  /\ holder' = "finishing"
  /\ UNCHANGED <<word, awaiter, got, given>>

(* set_value or set_exception of resume() and release_with_result(): they  *)
(* throw, and resume() with them, when there is a result already.          *)
SetResult(v) ==
  /\ holder = "idle" /\ result = "none"
  /\ result' = v
  /\ holder' = "finishing"
  /\ UNCHANGED <<word, awaiter, got, given>>

(* Mutation of Finish: the handle stays in the word. *)
FinishKeepsHandle ==
  /\ holder = "finishing"
  /\ word' = IF word = "handle" THEN word ELSE "finished"
  /\ given' = IF word = "destroyed" THEN given ELSE result
  /\ holder' = IF word = "destroyed" THEN "broken" ELSE "idle"
  /\ awaiter' = IF word = "handle" THEN "resumed" ELSE awaiter
  /\ UNCHANGED <<result, got>>

(* finish(), and resuming the coroutine if it is suspended.  After a       *)
(* destroy() its assert stops the program; a release build resumes the     *)
(* marker as if it were a handle.  Either way that is the end of it.       *)
Finish ==
  /\ holder = "finishing"
  /\ word' = "finished"
  /\ given' = IF word = "destroyed" THEN given ELSE result
  /\ holder' = IF word = "destroyed" THEN "broken" ELSE "idle"
  /\ awaiter' = IF word = "handle" THEN "resumed" ELSE awaiter
  /\ UNCHANGED <<result, got>>

(* Mutation of Destroy: a suspended coroutine is not resumed. *)
DestroyForgets(last) ==
  /\ holder = "idle"
  /\ word' = IF word \in {"null", "handle"} THEN "destroyed" ELSE word
  /\ holder' = IF last THEN "gone" ELSE "idle"
  /\ UNCHANGED <<result, awaiter, got, given>>

(* destroy(): explicitly, by the destructor, or by assigning another       *)
(* continuation.  last says that the object is gone afterwards.            *)
Destroy(last) ==
  /\ holder = "idle"
  /\ word' = IF word \in {"null", "handle"} THEN "destroyed" ELSE word
  /\ holder' = CASE word = "handle" -> IF last THEN "waking_last" ELSE "waking"
                 [] OTHER -> IF last THEN "gone" ELSE "idle"
  /\ UNCHANGED <<result, awaiter, got, given>>

(* The rest of a destroy() that removed a handle: the coroutine gets an    *)
(* exception.                                                              *)
WakeDestroyed ==
  /\ holder \in {"waking", "waking_last"}
  /\ result' = "not_resumed"
  /\ awaiter' = "resumed"
  /\ holder' = IF holder = "waking" THEN "idle" ELSE "gone"
  /\ UNCHANGED <<word, got, given>>

(***************************************************************************)
(* The awaiting coroutine.                                                 *)
(***************************************************************************)

Alive == holder # "broken"

(* The callback has returned: await_ready. *)
Begin ==
  /\ Alive /\ awaiter = "starting"
  /\ awaiter' = IF word = "finished" THEN "resumed" ELSE "suspending"
  /\ UNCHANGED <<word, result, holder, got, given>>

(* await_suspend: set_continuation, and what its status says. *)
SetContinuation ==
  /\ Alive /\ awaiter = "suspending"
  /\ word' = IF word = "null" THEN "handle" ELSE word
  /\ awaiter' = CASE word = "null" -> "suspended"
                  [] word = "finished" -> "resumed"
                  [] word = "destroyed" -> "throwing"
  /\ UNCHANGED <<result, holder, got, given>>

(* await_resume. *)
TakeValue ==
  /\ Alive /\ awaiter = "resumed"
  /\ got' = result
  /\ awaiter' = "done"
  /\ UNCHANGED <<word, result, holder, given>>

(* ~with_continuation_awaiter of an awaiter that was not resumed: after    *)
(* await_suspend threw, or because the coroutine is being destroyed, when  *)
(* its owner ensures that nobody is resuming it.                           *)
Cancel ==
  /\ Alive
  /\ \/ awaiter = "throwing" /\ got' = "not_resumed"
     \/ awaiter \in {"starting", "suspended"} /\ holder \in {"idle", "gone"} /\ UNCHANGED got
  /\ result' = IF result = "none" THEN "cancelled" ELSE result
  /\ word' = "destroyed"
  /\ awaiter' = "done"
  /\ UNCHANGED <<holder, given>>

HolderStep == Finish \/ WakeDestroyed \/ Destroy(TRUE)

AwaiterStep == Begin \/ SetContinuation \/ TakeValue

WCNext ==
  \/ \E v \in Value : SetResult(v)
  \/ \E last \in BOOLEAN : Destroy(last)
  \/ Finish \/ WakeDestroyed \/ AwaiterStep \/ Cancel

WCSpec == WCInit /\ [][WCNext]_wcVars

(***************************************************************************)
(* Safety.                                                                 *)
(***************************************************************************)

(* Every variable has its type. *)
WCTypeOK ==
  /\ word \in {"null", "handle", "finished", "destroyed"}
  /\ result \in Value \union {"none", "not_resumed", "cancelled"}
  /\ holder \in {"idle", "finishing", "waking", "waking_last", "gone", "broken"}
  /\ awaiter \in {"starting", "suspending", "suspended", "resumed", "throwing", "done"}
  /\ got \in Value \union {"none", "not_resumed", "cancelled"}
  /\ given \in Value \union {"none"}

(* The coroutine is resumed once, and only while it is suspended: whoever  *)
(* can still resume it, through the word or after removing the handle from *)
(* it, finds it suspended.                                                 *)
ResumedOnce ==
  /\ word = "handle" => awaiter = "suspended" /\ holder \notin {"waking", "waking_last"}
  /\ holder \in {"waking", "waking_last"} => awaiter = "suspended"

(* A suspended coroutine is not forgotten: its handle is in the word, or a *)
(* destroy() is about to resume it.                                        *)
SuspendedIsReachable ==
  awaiter = "suspended" => word = "handle" \/ holder \in {"waking", "waking_last"}

(* The coroutine gets what the holder resumed it with, whichever came      *)
(* first; it gets "continuation was not resumed" only if it was not.       *)
GetsWhatWasGiven ==
  [][awaiter # "done" /\ awaiter' = "done" /\ got' # "none" =>
       IF given' = "none" THEN got' = "not_resumed" ELSE got' = given']_wcVars

(***************************************************************************)
(* Liveness.                                                               *)
(***************************************************************************)

(* The coroutine runs while it is not suspended; the object is a C++       *)
(* object, so calls on it return and it is destructed in the end.          *)
WCFairSpec ==
  /\ WCSpec
  /\ WF_wcVars(HolderStep) /\ WF_wcVars(AwaiterStep)
  /\ WF_wcVars(awaiter = "throwing" /\ Cancel)

(* "this coroutine will be resumed or destroyed eventually"                *)
(* (detail/with_continuation.h:183)                                        *)
EventuallyResumed == <>(awaiter = "done" \/ ~Alive)
=============================================================================
