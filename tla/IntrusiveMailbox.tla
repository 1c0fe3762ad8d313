-------------------------- MODULE IntrusiveMailbox --------------------------
(***************************************************************************)
(* coroactors/detail/intrusive_mailbox.h: the lock-free intrusive mailbox  *)
(* with many producers and one consumer, the holder of its lock.           *)
(*                                                                         *)
(* One action is one atomic access of the code to memory that another      *)
(* thread may write, with the thread-local work that follows it.  Atomics  *)
(* are sequentially consistent here.  Two pairs of accesses are one        *)
(* action, because no other thread can tell them apart: the store to       *)
(* stub_.next that takes the stub out of the list is done with the load    *)
(* before it, and tail_'s load with the compare-exchange after it (once    *)
(* tail_ has moved past head_ it does not return while head_ is linked).   *)
(***************************************************************************)
EXTENDS Naturals, Sequences

CONSTANTS
  Thread,     \* threads that push, lock and consume
  Item,       \* nodes that threads push
  Stub,       \* the mailbox's own node, stub_
  Null,       \* nullptr
  Unlocked    \* MarkerUnlocked

ASSUME DistinctNodes ==
  /\ Stub \notin Item
  /\ Null \notin Item \union {Stub}
  /\ Unlocked \notin Item \union {Stub, Null}

Node == Item \union {Stub}

VARIABLES
  next,       \* next[n]: the node's atomic next pointer
  head,       \* head_, written by the holder of the lock only
  tail,       \* tail_
  owner,      \* the threads that were told they hold the lock
  linked,     \* nodes that are in the mailbox, from push to removal
  ahead,      \* history: ahead[n] is what was linked before n and still is
  queue,      \* history: the items in the mailbox, as push_prepare ordered them
  pc,         \* where each thread is in its current call
  op,         \* the call a consuming thread is in
  item,       \* push: the node being pushed
  prev,       \* push: the node returned by push_prepare
  promised    \* the node peek or a failed try_unlock said the next pop returns

vars == <<next, head, tail, owner, linked, ahead, queue, pc, op, item, prev,
          promised>>

PopOp == {"pop", "try_pop", "peek", "try_unlock"}

(* pop_impl's template parameter *)
Unlocks(o) == o \in {"pop", "try_unlock"}

(* Every variable has its type: pointers point to nodes or are markers, and *)
(* head_ and tail_ are never null (intrusive_mailbox's members).            *)
TypeOK ==
  /\ next \in [Node -> Node \union {Null, Unlocked}]
  /\ head \in Node
  /\ tail \in Node
  /\ owner \subseteq Thread
  /\ linked \subseteq Node
  /\ ahead \in [Node -> SUBSET Node]
  /\ queue \in Seq(Item)
  /\ pc \in [Thread -> {"idle", "publish", "cas_stub", "load_next", "cas_tail", "cas_head"}]
  /\ op \in [Thread -> PopOp \union {Null}]
  /\ item \in [Thread -> Item \union {Null}]
  /\ prev \in [Thread -> Node \union {Null}]
  /\ promised \in Item \union {Null}

(* The two constructors: initially unlocked, or locked by its creator. *)
Init ==
  /\ \/ owner = {} /\ next = [n \in Node |-> IF n = Stub THEN Unlocked ELSE Null]
     \/ (\E t \in Thread : owner = {t}) /\ next = [n \in Node |-> Null]
  /\ head = Stub
  /\ tail = Stub
  /\ linked = {Stub}
  /\ ahead = [n \in Node |-> {}]
  /\ queue = <<>>
  /\ pc = [t \in Thread |-> "idle"]
  /\ op = [t \in Thread |-> Null]
  /\ item = [t \in Thread |-> Null]
  /\ prev = [t \in Thread |-> Null]
  /\ promised = Null

-----------------------------------------------------------------------------
(* Mutation of PushPrepare: the node keeps the next pointer of its last stay. *)
PushPrepareStaleNext(t, x) ==
  /\ pc[t] = "idle"
  /\ x \notin linked
  /\ tail' = x
  /\ linked' = linked \union {x}
  /\ ahead' = [ahead EXCEPT ![x] = linked]
  /\ queue' = Append(queue, x)
  /\ pc' = [pc EXCEPT ![t] = "publish"]
  /\ item' = [item EXCEPT ![t] = x]
  /\ prev' = [prev EXCEPT ![t] = tail]
  /\ UNCHANGED <<next, head, owner, op, promised>>

(* push_prepare: any thread between calls may push a node it owns *)
PushPrepare(t, x) ==
  /\ pc[t] = "idle"
  /\ x \notin linked
  /\ next' = [next EXCEPT ![x] = Null]
  /\ tail' = x
  /\ linked' = linked \union {x}
  /\ ahead' = [ahead EXCEPT ![x] = linked]
  /\ queue' = Append(queue, x)
  /\ pc' = [pc EXCEPT ![t] = "publish"]
  /\ item' = [item EXCEPT ![t] = x]
  /\ prev' = [prev EXCEPT ![t] = tail]
  /\ UNCHANGED <<head, owner, op, promised>>

(* Mutations of PushPublish: it returns true always, or never. *)
PushPublishReturns(t, locked) ==
  /\ pc[t] = "publish"
  /\ next' = [next EXCEPT ![prev[t]] = item[t]]
  /\ owner' = IF locked THEN owner \union {t} ELSE owner
  /\ pc' = [pc EXCEPT ![t] = "idle"]
  /\ item' = [item EXCEPT ![t] = Null]
  /\ prev' = [prev EXCEPT ![t] = Null]
  /\ UNCHANGED <<head, tail, linked, ahead, queue, op, promised>>

PushPublishAlwaysLocks(t) == PushPublishReturns(t, TRUE)

PushPublishNeverLocks(t) == PushPublishReturns(t, FALSE)

(* push_publish: exchanges the predecessor's next, locks when it was unlocked *)
PushPublish(t) ==
  /\ pc[t] = "publish"
  /\ next' = [next EXCEPT ![prev[t]] = item[t]]
  /\ owner' = IF next[prev[t]] = Unlocked THEN owner \union {t} ELSE owner
  /\ pc' = [pc EXCEPT ![t] = "idle"]
  /\ item' = [item EXCEPT ![t] = Null]
  /\ prev' = [prev EXCEPT ![t] = Null]
  /\ UNCHANGED <<head, tail, linked, ahead, queue, op, promised>>

(* try_lock: the compare-exchange on stub_.next; nothing happens when it fails *)
TryLock(t) ==
  /\ pc[t] = "idle"
  /\ next[Stub] = Unlocked
  /\ next' = [next EXCEPT ![Stub] = Null]
  /\ owner' = owner \union {t}
  /\ UNCHANGED <<head, tail, linked, ahead, queue, pc, op, item, prev, promised>>

(* empty(), for the holder of the lock *)
Empty == head = Stub /\ tail = Stub

-----------------------------------------------------------------------------
(* pop_impl, shared by pop, try_pop, peek and try_unlock *)

Goto(t, o, label) ==
  /\ pc' = [pc EXCEPT ![t] = label]
  /\ op' = [op EXCEPT ![t] = o]
  /\ UNCHANGED <<owner, item, prev, promised>>

Done(t) ==
  /\ pc' = [pc EXCEPT ![t] = "idle"]
  /\ op' = [op EXCEPT ![t] = Null]
  /\ UNCHANGED <<item, prev>>

Without(order, n) == [m \in Node |-> order[m] \ {n}]

(* The queue without x, wherever x is in it. *)
Dropped(x) ==
  LET i == CHOOSE j \in DOMAIN queue : queue[j] = x
  IN  SubSeq(queue, 1, i - 1) \o SubSeq(queue, i + 1, Len(queue))

(* pop_impl returns {h, m}: pop and try_pop move head_ past h.  The node m is *)
(* linked already, unless it is the stub that was just put behind h.         *)
Return(t, o, h, m) ==
  LET order == IF m \in linked THEN ahead ELSE [ahead EXCEPT ![m] = linked]
  IN  /\ Done(t)
      /\ UNCHANGED owner
      /\ IF o \in {"pop", "try_pop"}
         THEN /\ head' = m
              /\ linked' = (linked \union {m}) \ {h}
              /\ ahead' = Without(order, h)
              /\ queue' = Dropped(h)
              /\ promised' = Null
         ELSE /\ head' = h
              /\ linked' = linked \union {m}
              /\ ahead' = order
              /\ UNCHANGED queue
              /\ promised' = h

(* pop_impl returns no head and keeps the lock *)
ReturnNothing(t) ==
  /\ Done(t)
  /\ UNCHANGED <<next, head, tail, owner, linked, ahead, queue, promised>>

(* pop_impl returns no head after the compare-exchange of n's next unlocked *)
ReturnUnlocked(t, n) ==
  /\ Done(t)
  /\ next' = [next EXCEPT ![n] = Unlocked]
  /\ owner' = owner \ {t}
  /\ promised' = Null
  /\ UNCHANGED <<head, tail, linked, ahead, queue>>

(* the stub leaves the list; head_ moves to the first published item *)
RemoveStub(t, o, first) ==
  /\ Goto(t, o, "load_next")
  /\ next' = [next EXCEPT ![Stub] = Null]
  /\ head' = first
  /\ linked' = linked \ {Stub}
  /\ ahead' = Without(ahead, Stub)
  /\ UNCHANGED <<tail, queue>>

PopBegin(t, o) ==
  /\ t \in owner
  /\ pc[t] = "idle"
  /\ \/ /\ head = Stub /\ next[Stub] = Null
        /\ IF Unlocks(o)
           THEN Goto(t, o, "cas_stub") /\ UNCHANGED <<next, head, tail, linked, ahead, queue>>
           ELSE ReturnNothing(t)
     \/ /\ head = Stub /\ next[Stub] # Null
        /\ RemoveStub(t, o, next[Stub])
     \/ /\ head # Stub /\ next[head] = Null
        /\ Goto(t, o, "cas_tail") /\ UNCHANGED <<next, head, tail, linked, ahead, queue>>
     \/ /\ head # Stub /\ next[head] # Null
        /\ Return(t, o, head, next[head]) /\ UNCHANGED <<next, tail>>

(* unlocks an empty mailbox, unless an item was published since *)
PopCasStub(t) ==
  /\ pc[t] = "cas_stub"
  /\ IF next[Stub] = Null
     THEN ReturnUnlocked(t, Stub)
     ELSE RemoveStub(t, op[t], next[Stub])

PopLoadNext(t) ==
  /\ pc[t] = "load_next"
  /\ IF next[head] = Null
     THEN Goto(t, op[t], "cas_tail") /\ UNCHANGED <<next, head, tail, linked, ahead, queue>>
     ELSE Return(t, op[t], head, next[head]) /\ UNCHANGED <<next, tail>>

(* Mutation of PopCasTail: stores to tail_ without comparing. *)
PopCasTailStore(t) ==
  /\ pc[t] = "cas_tail"
  /\ tail' = Stub
  /\ next' = [next EXCEPT ![head] = Stub]
  /\ Return(t, op[t], head, Stub)

(* Mutation of PopCasTail: peek returns a head that a push still blocks. *)
PopCasTailPeeksBlocked(t) ==
  /\ pc[t] = "cas_tail"
  /\ IF tail = head
     THEN /\ tail' = Stub
          /\ next' = [next EXCEPT ![head] = Stub]
          /\ Return(t, op[t], head, Stub)
     ELSE IF Unlocks(op[t])
          THEN Goto(t, op[t], "cas_head") /\ UNCHANGED <<next, head, tail, linked, ahead, queue>>
          ELSE /\ Done(t)
               /\ promised' = IF op[t] = "peek" THEN head ELSE promised
               /\ UNCHANGED <<next, head, tail, owner, linked, ahead, queue>>

(* puts the stub behind head_ when head_ is the last node *)
PopCasTail(t) ==
  /\ pc[t] = "cas_tail"
  /\ IF tail = head
     THEN /\ tail' = Stub
          /\ next' = [next EXCEPT ![head] = Stub]
          /\ Return(t, op[t], head, Stub)
     ELSE IF Unlocks(op[t])
          THEN Goto(t, op[t], "cas_head") /\ UNCHANGED <<next, head, tail, linked, ahead, queue>>
          ELSE ReturnNothing(t)

(* Mutation of PopCasHead: unlocks without comparing. *)
PopCasHeadStore(t) == pc[t] = "cas_head" /\ ReturnUnlocked(t, head)

(* unlocks behind a blocked head_, unless the blocking push finished since *)
PopCasHead(t) ==
  /\ pc[t] = "cas_head"
  /\ IF next[head] = Null
     THEN ReturnUnlocked(t, head)
     ELSE Return(t, op[t], head, next[head]) /\ UNCHANGED <<next, tail>>

PopStep(t) == PopCasStub(t) \/ PopLoadNext(t) \/ PopCasTail(t) \/ PopCasHead(t)

Next ==
  \E t \in Thread :
    \/ \E x \in Item : PushPrepare(t, x)
    \/ PushPublish(t)
    \/ TryLock(t)
    \/ \E o \in PopOp : PopBegin(t, o)
    \/ PopStep(t)

Spec == Init /\ [][Next]_vars

(***************************************************************************)
(* Every call that started runs to its end, and a thread that holds the    *)
(* lock calls pop again and again until pop takes the lock away, as        *)
(* async_context_manager does.  Nobody has to push or to try_lock.         *)
(***************************************************************************)
Fairness ==
  \A t \in Thread :
    /\ WF_vars(PushPublish(t))
    /\ WF_vars(PopStep(t))
    /\ SF_vars(PopBegin(t, "pop"))

FairSpec == Spec /\ Fairness

-----------------------------------------------------------------------------
(* At most one thread holds the lock: push, try_lock and the initial lock   *)
(* never hand it to a second consumer while the first one still has it.     *)
MutualExclusion == \A t, u \in owner : t = u

(* A push between its two halves writes to a node that is still in the      *)
(* mailbox: pop never hands a node to its caller, who may free or push it   *)
(* again, while another thread is about to store to its next pointer.       *)
NoDanglingPush ==
  \A t \in Thread : pc[t] = "publish" => prev[t] \in linked /\ item[t] \in linked

(* The lock is given up only to a push that will take it: when nobody holds *)
(* it and an item is queued, the push right behind head_ is still running.  *)
NoLostItem ==
  owner = {} /\ linked \intersect Item # {} =>
    \E t \in Thread : pc[t] = "publish" /\ prev[t] = head /\ next[head] = Unlocked

(* Items leave in the order in which push_prepare put them in: the item a   *)
(* pop or try_pop removes has no item left that was in the mailbox before.  *)
Fifo ==
  [][\A x \in Item : x \in linked /\ x \notin linked' => ahead[x] \intersect Item = {}]_vars

(* The assertions of push_publish, try_lock and pop_impl never fail.        *)
AssertionsHold ==
  /\ next[Stub] = Unlocked => head = Stub
  /\ \A t \in Thread :
       /\ pc[t] = "publish" => next[prev[t]] \in {Null, Unlocked}
       /\ t \in owner /\ pc[t] # "publish" => next[head] # Unlocked
       /\ pc[t] = "cas_tail" /\ tail = head => next[Stub] = Null

(* For the thread that holds the lock and is between calls, empty() tells   *)
(* exactly whether any push has taken a place in the mailbox.               *)
EmptyIsExact ==
  \A t \in owner : pc[t] = "idle" => (Empty <=> linked = {Stub})

(* "When a non-nullptr pointer is returned the next pop() is guaranteed to  *)
(* return it without unlocking" (peek), and a failed try_unlock leaves "an  *)
(* unblocked node that is guaranteed to be removable".                      *)
PromiseKept ==
  [][promised # Null /\ promised' # promised =>
       promised \notin linked' /\ owner' = owner]_vars

(***************************************************************************)
(* Refinement.                                                             *)
(***************************************************************************)

Abstract == INSTANCE MailboxSpec WITH
  mailbox <- [queue    |-> queue,
              inflight |-> {item[t] : t \in {u \in Thread : pc[u] = "publish"}},
              locked   |-> owner # {}]

(* The linked list with its stub, its markers and its half-done pushes      *)
(* behaves as a FIFO queue with a lock: items leave in the order in which   *)
(* push_prepare ran, each exactly once, and the lock is given up only when  *)
(* the queue is empty or a running push will take it.                       *)
ImplementsMailbox == Abstract!Spec

(* An item pushed to the mailbox is eventually handed to a consumer.        *)
EveryItemLeaves == \A x \in Item : x \in linked ~> x \notin linked
=============================================================================
