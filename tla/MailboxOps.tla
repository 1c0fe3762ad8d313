----------------------------- MODULE MailboxOps -----------------------------
(***************************************************************************)
(* The steps of a mailbox, as operators on a record: a FIFO queue, the     *)
(* pushes in flight, and the lock.                                         *)
(*                                                                         *)
(* A push takes its place in the order at once (Prepared) and becomes      *)
(* visible later (Published); in between it is in flight.  The holder of   *)
(* the lock pops: it either gets the oldest item or gives the lock up, and *)
(* it gives the lock up only when nothing is queued or some push is still  *)
(* in flight.  Publishing takes the lock when nobody has it and no push    *)
(* after it could.                                                         *)
(***************************************************************************)
EXTENDS Sequences

EmptyMailbox(isLocked) == [queue |-> <<>>, inflight |-> {}, locked |-> isLocked]

(* An unlocked mailbox that holds items waits for a push in flight. *)
IsWakeable(mb) == mb.locked \/ mb.queue = <<>> \/ mb.inflight # {}

Prepared(mb, x) ==
  [mb EXCEPT !.queue = Append(@, x), !.inflight = @ \union {x}]

(* The possible outcomes of publishing x; the push locks when locked flips. *)
Published(mb, x) ==
  {m \in {[mb EXCEPT !.inflight = @ \ {x}, !.locked = l] : l \in {mb.locked, TRUE}} :
     IsWakeable(m)}

CanRemove(mb) ==
  mb.locked /\ mb.queue # <<>> /\ Head(mb.queue) \notin mb.inflight

Removed(mb) == [mb EXCEPT !.queue = Tail(@)]

CanUnlock(mb) == mb.locked /\ (mb.queue = <<>> \/ mb.inflight # {})

Released(mb) == [mb EXCEPT !.locked = FALSE]
=============================================================================
