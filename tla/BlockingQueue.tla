--------------------------- MODULE BlockingQueue ---------------------------
(***************************************************************************)
(* The blocking queue of several producers and several consumers           *)
(* (detail/blocking_queue.h): a linked list with a dummy node in front.    *)
(*                                                                         *)
(* head_ is the lock of the queue.  A node in it means unlocked; null or a *)
(* consumer's waiter means locked, by the thread that removed the node.    *)
(* The next pointer of the last node is null or a waiter too.  Waiters are *)
(* linked lists: the first one is in a word, or in the local variable      *)
(* pending of a consumer, and the others are behind it.                    *)
(*                                                                         *)
(* Every access to head_, tail_, a next pointer or a semaphore is a step.  *)
(* The links between waiters are not atomic; a thread sets them in the     *)
(* step that publishes the list, and the code takes them back when that    *)
(* step fails.  The semaphore of a waiter is a counter (see Semaphore).    *)
(***************************************************************************)
EXTENDS Integers, Sequences

CONSTANTS Producer, Consumer, Node,
          Trier,  \* the consumers that call try_pop() too
          Stub,   \* the node a queue is constructed with
          Null    \* nullptr

ASSUME DistinctNames ==
  /\ Stub \in Node /\ Null \notin Node /\ Trier \subseteq Consumer
  /\ Consumer \intersect (Node \union {Null}) = {}

VARIABLES
  head,     \* head_: a node, Null, or the first of a list of waiters
  tail,     \* tail_
  next,     \* [Node -> node::next, like head]
  live,     \* the nodes that are allocated
  prev,     \* [Producer -> local of push(): the node in front of its own]
  own,      \* [Producer -> the node it pushes, then Null]
  wakes,    \* [Producer -> the waiter push() has to notify, or Null]
  behind,   \* [Consumer -> blocking_queue_waiter::next]
  permits,  \* [Consumer -> the semaphore of its waiter]
  pc,       \* [Consumer -> where it is]
  word,     \* [Consumer -> headValue, and nextValue while it has the lock]
  node,     \* [Consumer -> the node it will put back into head_]
  old,      \* [Consumer -> the node in front of it, freed when pop() returns, or Null]
  pending,  \* [Consumer -> the first of the waiters it is responsible for]
  last,     \* [Consumer -> pendingLast]
  order     \* history: the items pushed, in order, less as many as were popped

vars == <<head, tail, next, live, prev, own, wakes, behind, permits, pc, word, node,
          old, pending, last, order>>

producerVars == <<prev, own, wakes>>
listVars == <<behind, pending, last>>

IsWaiter(v) == v \in Consumer
IsNode(v) == v \in Node

NoOne == [c \in Consumer |-> Null]

Init ==
  /\ head = Stub /\ tail = Stub /\ live = {Stub}
  /\ next = [n \in Node |-> Null]
  /\ prev = [p \in Producer |-> Null] /\ own = prev /\ wakes = prev
  /\ behind = NoOne /\ pending = NoOne /\ last = NoOne
  /\ word = NoOne /\ node = NoOne /\ old = NoOne
  /\ permits = [c \in Consumer |-> 0]
  /\ pc = [c \in Consumer |-> "idle"]
  /\ order = <<>>

(***************************************************************************)
(* push().                                                                 *)
(***************************************************************************)

PushTail(p, n) ==
  /\ own[p] = Null /\ wakes[p] = Null
  /\ n \notin live
  /\ live' = live \union {n}
  /\ next' = [next EXCEPT ![n] = Null]
  /\ prev' = [prev EXCEPT ![p] = tail]
  /\ own' = [own EXCEPT ![p] = n]
  /\ tail' = n
  /\ order' = Append(order, n)
  /\ UNCHANGED <<head, wakes, listVars, permits, pc, word, node, old>>

(* Mutation of PushNext: the push does not look for a waiter. *)
PushNextSilent(p) ==
  /\ own[p] # Null
  /\ next' = [next EXCEPT ![prev[p]] = own[p]]
  /\ own' = [own EXCEPT ![p] = Null]
  /\ prev' = [prev EXCEPT ![p] = Null]
  /\ UNCHANGED <<head, tail, live, wakes, listVars, permits, pc, word, node, old, order>>

PushNext(p) ==
  /\ own[p] # Null
  /\ next' = [next EXCEPT ![prev[p]] = own[p]]
  /\ wakes' = [wakes EXCEPT ![p] = IF IsWaiter(next[prev[p]]) THEN next[prev[p]] ELSE Null]
  /\ own' = [own EXCEPT ![p] = Null]
  /\ prev' = [prev EXCEPT ![p] = Null]
  /\ UNCHANGED <<head, tail, live, listVars, permits, pc, word, node, old, order>>

PushNotify(p) ==
  /\ wakes[p] # Null
  /\ permits' = [permits EXCEPT ![wakes[p]] = @ + 1]
  /\ wakes' = [wakes EXCEPT ![p] = Null]
  /\ UNCHANGED <<head, tail, next, live, prev, own, listVars, pc, word, node, old, order>>

ProducerStep(p) == PushNext(p) \/ PushNotify(p)

(***************************************************************************)
(* Lists of waiters.                                                       *)
(***************************************************************************)

Goto(c, l) == pc' = [pc EXCEPT ![c] = l]

(* decode_waiter. *)
Waiter(v) == IF IsWaiter(v) THEN v ELSE Null

(* find_last.  A list is no longer than there are consumers. *)
FindLast(w) ==
  LET end[c \in Consumer] == IF behind[c] = Null THEN c ELSE end[behind[c]] IN end[w]

(* pending and pendingLast of consumer c become the list from w to l. *)
Pend(c, w, l) ==
  /\ pending' = [pending EXCEPT ![c] = w]
  /\ last' = [last EXCEPT ![c] = l]

(* The list that starts with fresh goes in front of pending. *)
Prepend(c, fresh) ==
  IF pending[c] = Null
  THEN Pend(c, fresh, FindLast(fresh)) /\ UNCHANGED behind
  ELSE /\ behind' = [behind EXCEPT ![FindLast(fresh)] = pending[c]]
       /\ pending' = [pending EXCEPT ![c] = fresh]
       /\ UNCHANGED last

(***************************************************************************)
(* pop().                                                                  *)
(***************************************************************************)

Call(c, l) ==
  /\ pc[c] = "idle" /\ (l = "try" => c \in Trier)
  /\ Goto(c, l)
  /\ UNCHANGED <<head, tail, next, live, producerVars, listVars, permits, word, node, old,
                 order>>

LoadHead(c) ==
  /\ pc[c] = "load"
  /\ word' = [word EXCEPT ![c] = head]
  /\ Goto(c, "top")
  /\ UNCHANGED <<head, tail, next, live, producerVars, listVars, permits, node, old, order>>

(* shouldSpin() depends on the time: the thread looks again as long as it  *)
(* says so.                                                                *)
Spin(c) ==
  /\ pc[c] = "top" /\ ~IsNode(word[c])
  /\ word' = [word EXCEPT ![c] = head]
  /\ UNCHANGED <<head, tail, next, live, producerVars, listVars, permits, pc, node, old, order>>

(* Take whatever is in head_: the lock, or waiters that the thread becomes *)
(* responsible for.                                                        *)
Exchange(c) ==
  /\ pc[c] = "top" /\ word[c] # Null
  /\ head' = Null
  /\ IF IsNode(head)
     THEN /\ node' = [node EXCEPT ![c] = head]
          /\ Goto(c, "next")
          /\ UNCHANGED listVars
     ELSE /\ Goto(c, "install")
          /\ IF IsWaiter(head) THEN Prepend(c, head) ELSE UNCHANGED listVars
          /\ UNCHANGED node
  /\ word' = [word EXCEPT ![c] = Null]
  /\ UNCHANGED <<tail, next, live, producerVars, permits, old, order>>

(* The queue is locked: wait in head_ for the lock. *)
Install(c) ==
  /\ pc[c] = "install" \/ (pc[c] = "top" /\ word[c] = Null)
  /\ IF head = Null
     THEN head' = c /\ Goto(c, "lock_wait") /\ UNCHANGED word
     ELSE /\ word' = [word EXCEPT ![c] = head]
          /\ Goto(c, "top")
          /\ UNCHANGED head
  /\ UNCHANGED <<tail, next, live, producerVars, listVars, permits, node, old, order>>

(* Woken up while in head_: those behind have a higher priority. *)
WakeLock(c) ==
  /\ pc[c] = "lock_wait" /\ permits[c] > 0
  /\ permits' = [permits EXCEPT ![c] = @ - 1]
  /\ IF behind[c] = Null
     THEN UNCHANGED listVars
     ELSE LET l == FindLast(behind[c]) IN
          /\ behind' = [behind EXCEPT ![l] = pending[c], ![c] = Null]
          /\ Pend(c, behind[c], IF pending[c] = Null THEN l ELSE last[c])
  /\ Goto(c, "load")
  /\ UNCHANGED <<head, tail, next, live, producerVars, word, node, old, order>>

(* The item in nextValue is taken; the queue will be unlocked with its     *)
(* node as the new dummy, after the waiters in pending were looked after.  *)
Take(c, n) ==
  /\ old' = [old EXCEPT ![c] = node[c]]
  /\ node' = [node EXCEPT ![c] = n]
  /\ word' = [word EXCEPT ![c] = Null]
  /\ order' = SubSeq(order, 2, Len(order))
  /\ Goto(c, IF pending[c] = Null THEN "free" ELSE "load_next")

(* head->next.load() of pop() and try_pop(). *)
LoadNext(c) ==
  /\ pc[c] \in {"next", "try_next"}
  /\ LET v == next[node[c]] IN
     IF IsNode(v) THEN Take(c, v)
     ELSE /\ word' = [word EXCEPT ![c] = v]
          /\ Goto(c, IF pc[c] = "next" THEN "install_next" ELSE "no_item")
          /\ UNCHANGED <<old, node, order>>
  /\ UNCHANGED <<head, tail, next, live, producerVars, listVars, permits>>

(* There is no item: wait for one in front of pending and of the waiters   *)
(* that are there already.                                                 *)
InstallNext(c) ==
  /\ pc[c] = "install_next"
  /\ LET v == next[node[c]] IN
     IF v = word[c]
     THEN /\ next' = [next EXCEPT ![node[c]] = c]
          /\ behind' = IF pending[c] = Null THEN [behind EXCEPT ![c] = Waiter(v)]
                       ELSE [behind EXCEPT ![c] = pending[c], ![last[c]] = Waiter(v)]
          /\ Pend(c, Null, Null)
          /\ Goto(c, "unlock_waiting")
          /\ UNCHANGED <<old, node, word, order>>
     ELSE Take(c, v) /\ UNCHANGED <<next, listVars>>
  /\ UNCHANGED <<head, tail, live, producerVars, permits>>

(* unlock_waiting: put the node back, and take the waiters for the lock.   *)
UnlockWaiting(c) ==
  /\ pc[c] = "unlock_waiting"
  /\ head' = node[c]
  /\ Pend(c, Waiter(head), IF IsWaiter(head) THEN FindLast(head) ELSE Null)
  /\ node' = [node EXCEPT ![c] = Null]
  /\ word' = [word EXCEPT ![c] = Null]
  /\ Goto(c, "item_wait")
  /\ UNCHANGED <<tail, next, live, producerVars, behind, permits, old, order>>

(* Mutation of WakeItem: local->next is not reset. *)
WakeItemKeepsLink(c) ==
  /\ pc[c] = "item_wait" /\ permits[c] > 0
  /\ permits' = [permits EXCEPT ![c] = @ - 1]
  /\ IF behind[c] = Null
     THEN UNCHANGED listVars
     ELSE /\ Pend(c, IF pending[c] = Null THEN behind[c] ELSE pending[c], FindLast(behind[c]))
          /\ behind' = IF pending[c] = Null THEN behind
                       ELSE [behind EXCEPT ![last[c]] = behind[c]]
  /\ Goto(c, "load")
  /\ UNCHANGED <<head, tail, next, live, producerVars, word, node, old, order>>

(* Woken up by a push or by a consumer: those behind have a lower priority *)
(* than pending.                                                           *)
WakeItem(c) ==
  /\ pc[c] = "item_wait" /\ permits[c] > 0
  /\ permits' = [permits EXCEPT ![c] = @ - 1]
  /\ IF behind[c] = Null
     THEN UNCHANGED listVars
     ELSE /\ Pend(c, IF pending[c] = Null THEN behind[c] ELSE pending[c], FindLast(behind[c]))
          /\ behind' = IF pending[c] = Null THEN [behind EXCEPT ![c] = Null]
                       ELSE [behind EXCEPT ![last[c]] = behind[c], ![c] = Null]
  /\ Goto(c, "load")
  /\ UNCHANGED <<head, tail, next, live, producerVars, word, node, old, order>>

(***************************************************************************)
(* unlock_taken() and try_unlock_no_item().                                *)
(***************************************************************************)

(* pop() returns: the node in front of the item is freed, and what was in  *)
(* it is gone.                                                             *)
Return(c) ==
  /\ live' = live \ {old[c]}
  /\ next' = [n \in Node |-> IF n = old[c] THEN Null ELSE next[n]]
  /\ old' = [old EXCEPT ![c] = Null]
  /\ node' = [node EXCEPT ![c] = Null]
  /\ word' = [word EXCEPT ![c] = Null]
  /\ Goto(c, "idle")

(* There are no waiters to look after: unlock, unless there are new ones. *)
Free(c) ==
  /\ pc[c] \in {"free", "no_item"}
  /\ IF head = Null
     THEN head' = node[c] /\ Return(c)
     ELSE /\ Goto(c, IF pc[c] = "free" THEN "grab" ELSE "no_item_grab")
          /\ UNCHANGED <<head, next, live, old, node, word>>
  /\ UNCHANGED <<tail, producerVars, listVars, permits, order>>

(* Mutation of Grab: nextValue is not loaded again for new waiters. *)
GrabStale(c) ==
  /\ pc[c] \in {"grab", "no_item_grab"}
  /\ head' = Null
  /\ IF IsWaiter(head)
     THEN /\ Prepend(c, head)
          /\ Goto(c, IF pc[c] = "grab" THEN "hand_over" ELSE "no_item_install")
     ELSE /\ Goto(c, IF pc[c] = "grab" THEN "free" ELSE "no_item")
          /\ UNCHANGED listVars
  /\ UNCHANGED <<tail, next, live, producerVars, permits, word, node, old, order>>

(* Take the new ones from head_, if no other consumer was faster. *)
Grab(c) ==
  /\ pc[c] \in {"grab", "no_item_grab"}
  /\ head' = Null
  /\ IF IsWaiter(head)
     THEN /\ Prepend(c, head)
          /\ Goto(c, IF pc[c] = "grab" THEN "load_next" ELSE "no_item_install")
     ELSE /\ Goto(c, IF pc[c] = "grab" THEN "free" ELSE "no_item")
          /\ UNCHANGED listVars
  /\ UNCHANGED <<tail, next, live, producerVars, permits, word, node, old, order>>

(* Is there another item for the waiters? *)
LoadMore(c) ==
  /\ pc[c] = "load_next"
  /\ word' = [word EXCEPT ![c] = next[node[c]]]
  /\ Goto(c, IF IsNode(next[node[c]]) THEN "release" ELSE "hand_over")
  /\ UNCHANGED <<head, tail, next, live, producerVars, listVars, permits, node, old, order>>

(* No: the waiters go to the next pointer, in front of those there. *)
HandOver(c) ==
  /\ pc[c] \in {"hand_over", "no_item_install"}
  /\ LET v == next[node[c]] IN
     IF v = word[c]
     THEN /\ next' = [next EXCEPT ![node[c]] = pending[c]]
          /\ behind' = [behind EXCEPT ![last[c]] = Waiter(v)]
          /\ Pend(c, Null, Null)
          /\ Goto(c, IF pc[c] = "hand_over" THEN "free" ELSE "no_item")
          /\ UNCHANGED <<old, node, word, order>>
     ELSE /\ UNCHANGED <<next, listVars>>
          /\ IF pc[c] = "hand_over"
             THEN /\ word' = [word EXCEPT ![c] = v]
                  /\ Goto(c, "release")
                  /\ UNCHANGED <<old, node, order>>
             ELSE IF IsNode(v) THEN Take(c, v)
             ELSE /\ word' = [word EXCEPT ![c] = v]
                  /\ UNCHANGED <<pc, old, node, order>>
  /\ UNCHANGED <<head, tail, live, producerVars, permits>>

(* Yes: unlock, then wake the first waiter.  *)
Release(c) ==
  /\ pc[c] = "release"
  /\ IF head = Null
     THEN head' = node[c] /\ Goto(c, "notify")
     ELSE Goto(c, "grab_more") /\ UNCHANGED head
  /\ UNCHANGED <<tail, next, live, producerVars, listVars, permits, word, node, old, order>>

(* There are new waiters: they go in front. *)
GrabMore(c) ==
  /\ pc[c] = "grab_more"
  /\ head' = Null
  /\ IF IsWaiter(head) THEN Prepend(c, head) ELSE UNCHANGED listVars
  /\ Goto(c, "release")
  /\ UNCHANGED <<tail, next, live, producerVars, permits, word, node, old, order>>

Notify(c) ==
  /\ pc[c] = "notify"
  /\ permits' = [permits EXCEPT ![pending[c]] = @ + 1]
  /\ Pend(c, Null, Null)
  /\ Return(c)
  /\ UNCHANGED <<head, tail, producerVars, behind, order>>

(***************************************************************************)
(* try_pop().                                                              *)
(***************************************************************************)

TryLoad(c) ==
  /\ pc[c] = "try"
  /\ word' = [word EXCEPT ![c] = IF IsNode(head) THEN head ELSE Null]
  /\ Goto(c, IF IsNode(head) THEN "try_lock" ELSE "idle")
  /\ UNCHANGED <<head, tail, next, live, producerVars, listVars, permits, node, old, order>>

(* Mutation of TryLock: the lock is taken with a store. *)
TryLockStore(c) ==
  /\ pc[c] = "try_lock"
  /\ head' = Null
  /\ node' = [node EXCEPT ![c] = word[c]]
  /\ word' = [word EXCEPT ![c] = Null]
  /\ Goto(c, "try_next")
  /\ UNCHANGED <<tail, next, live, producerVars, listVars, permits, old, order>>

(* Lock, or give up when the queue is locked. *)
TryLock(c) ==
  /\ pc[c] = "try_lock"
  /\ IF head = word[c]
     THEN /\ head' = Null
          /\ node' = [node EXCEPT ![c] = word[c]]
          /\ word' = [word EXCEPT ![c] = Null]
          /\ Goto(c, "try_next")
     ELSE /\ word' = [word EXCEPT ![c] = IF IsNode(head) THEN head ELSE Null]
          /\ Goto(c, IF IsNode(head) THEN "try_lock" ELSE "idle")
          /\ UNCHANGED <<head, node>>
  /\ UNCHANGED <<tail, next, live, producerVars, listVars, permits, old, order>>

UnlockStep(c) ==
  Free(c) \/ Grab(c) \/ LoadMore(c) \/ HandOver(c) \/ Release(c) \/ GrabMore(c) \/ Notify(c)

ConsumerStep(c) ==
  \/ LoadHead(c) \/ Exchange(c) \/ Install(c) \/ WakeLock(c) \/ LoadNext(c)
  \/ InstallNext(c) \/ UnlockWaiting(c) \/ WakeItem(c)
  \/ UnlockStep(c) \/ TryLoad(c) \/ TryLock(c)

Next ==
  \/ \E p \in Producer : ProducerStep(p) \/ \E n \in Node : PushTail(p, n)
  \/ \E c \in Consumer : Call(c, "load") \/ Call(c, "try") \/ Spin(c) \/ ConsumerStep(c)

Spec == Init /\ [][Next]_vars

(***************************************************************************)
(* Safety.                                                                 *)
(***************************************************************************)

Waiting == {"unlock_waiting", "item_wait", "lock_wait"}

(* The thread removed the node from head_ and has not put it back. *)
HasLock(c) == node[c] # Null /\ pc[c] # "notify"

(* One thread at a time has the queue, and head_ shows it.  While it has   *)
(* it, only a push changes the next pointer of its node (the asserts of    *)
(* push(), pop(), unlock_taken() and unlock_waiting()), and the nodes that *)
(* it and the pushes write to have not been freed.                         *)
QueueIsLocked ==
  /\ \A c, d \in Consumer : HasLock(c) /\ HasLock(d) => c = d
  /\ IsNode(head) <=> \A c \in Consumer : ~HasLock(c)
  /\ \A c \in Consumer : HasLock(c) => node[c] \in live
  /\ \A c \in Consumer : pc[c] \in {"install_next", "hand_over"} =>
       next[node[c]] = word[c] \/ IsNode(next[node[c]])
  /\ \A p \in Producer : own[p] # Null => prev[p] \in live /\ ~IsNode(next[prev[p]])

(* Where the waiter of consumer w is pointed to from.  The local variables *)
(* of a call that has returned do not count.                               *)
Refs(w) ==
  {v \in {<<"head">>} : head = w}
    \union ({"next"} \X {n \in live : next[n] = w})
    \union ({"pending"} \X {c \in Consumer : pc[c] # "idle" /\ pending[c] = w})
    \union ({"behind"} \X {c \in Consumer : behind[c] = w})
    \union ({"wakes"} \X {p \in Producer : wakes[p] = w})

(* A waiting thread is in one list, or on its way to be notified, or has   *)
(* been: nobody is forgotten, woken twice or in two lists at once.  A      *)
(* thread that does not wait is in no list.                                *)
WaiterIsHeldOnce ==
  \A w \in Consumer :
    /\ permits[w] \in (IF pc[w] \in Waiting THEN {0, 1} ELSE {0})
    /\ IF pc[w] \in Waiting /\ permits[w] = 0
       THEN \E x \in Refs(w) : Refs(w) = {x}
       ELSE Refs(w) = {}

(* Items are popped in the order of their pushes, and each one once. *)
Fifo ==
  [][\A c \in Consumer : old[c] = Null /\ old'[c] # Null =>
       order # <<>> /\ node'[c] = Head(order)]_vars

(***************************************************************************)
(* Liveness.                                                               *)
(***************************************************************************)

(* Threads run on; shouldSpin() says no in the end.  Nobody has to call    *)
(* anything.                                                               *)
FairSpec ==
  /\ Spec
  /\ \A p \in Producer : WF_vars(ProducerStep(p))
  /\ \A c \in Consumer : WF_vars(ConsumerStep(c))

Stuck == order # <<>> /\ \E c \in Consumer : pc[c] \in Waiting

(* The queue does not end up with threads blocked in pop() and items that  *)
(* nobody pops.                                                            *)
ItemsArePopped == []<>~Stuck \/ []<><<Len(order') < Len(order)>>_vars
=============================================================================
