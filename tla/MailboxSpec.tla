---------------------------- MODULE MailboxSpec ----------------------------
(***************************************************************************)
(* What a mailbox promises: the steps of MailboxOps, in any order.         *)
(***************************************************************************)
EXTENDS MailboxOps

CONSTANT Item

VARIABLE mailbox

Init == \E l \in BOOLEAN : mailbox = EmptyMailbox(l)

Push(x) ==
  /\ \A i \in DOMAIN mailbox.queue : mailbox.queue[i] # x
  /\ x \notin mailbox.inflight
  /\ mailbox' = Prepared(mailbox, x)

Publish(x) ==
  /\ x \in mailbox.inflight
  /\ mailbox' \in Published(mailbox, x)

Remove == CanRemove(mailbox) /\ mailbox' = Removed(mailbox)

Unlock == CanUnlock(mailbox) /\ mailbox' = Released(mailbox)

Lock == ~mailbox.locked /\ mailbox' = [mailbox EXCEPT !.locked = TRUE]

Next == (\E x \in Item : Push(x) \/ Publish(x)) \/ Remove \/ Unlock \/ Lock

Spec == Init /\ [][Next]_mailbox
=============================================================================
