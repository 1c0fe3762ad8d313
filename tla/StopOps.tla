------------------------------ MODULE StopOps ------------------------------
(***************************************************************************)
(* A stop state as its users see it, as operators on a record: whether a   *)
(* stop was requested, the callbacks that wait for it, and the one that    *)
(* request_stop() is running and in which thread.                          *)
(***************************************************************************)
EXTENDS Naturals, Sequences

NewStop(null) == [stopped |-> FALSE, listed |-> <<>>, running |-> null, by |-> null]

StopRequested(s) == [s EXCEPT !.stopped = TRUE]

(* The callback added last is the first in the list. *)
Listed(s, c) == [s EXCEPT !.listed = <<c>> \o @]

(* The list without callback c, which is in it once or not at all. *)
Unlinked(list, c) ==
  LET at == {i \in DOMAIN list : list[i] = c}
      n == CHOOSE i \in at : TRUE
  IN  IF at = {} THEN list ELSE SubSeq(list, 1, n - 1) \o SubSeq(list, n + 1, Len(list))

(* A callback that is not in the list is not removed from it. *)
Deleted(s, c) == [s EXCEPT !.listed = Unlinked(@, c)]

(* request_stop() in thread t takes the first callback, to run it. *)
Taken(s, t) ==
  [s EXCEPT !.listed = Tail(@), !.running = Head(s.listed), !.by = t]

Returned(s, null) == [s EXCEPT !.running = null, !.by = null]

(* Whether a destructor in thread t may return: nobody else runs it. *)
CanDestroy(s, c, t) == s.running = c => s.by = t
=============================================================================
