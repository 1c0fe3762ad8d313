----------------------- MODULE IntrusiveMailboxProofs -----------------------
(***************************************************************************)
(* Proofs about IntrusiveMailbox, for any number of threads and items.     *)
(*                                                                         *)
(* Inv is the inductive invariant.  Its heart is in PointerInv and         *)
(* PushInv: whatever a node's next pointer, or a push that is about to     *)
(* write it, leads to has exactly that node and its predecessors ahead of  *)
(* it.  With EndsInv it follows that a node with a successor is not the    *)
(* tail, that nothing leads to the head, and that a list whose head is its *)
(* tail holds nothing else.                                                *)
(***************************************************************************)
EXTENDS IntrusiveMailbox, TLAPS

Pushing(t) == pc[t] = "publish"

Consuming(t) == pc[t] \in {"cas_stub", "load_next", "cas_tail", "cas_head"}

(* Threads in a call have the arguments of that call. *)
Calls ==
  \A t \in Thread :
    /\ Pushing(t) => item[t] \in Item /\ prev[t] \in Node
    /\ Consuming(t) => t \in owner /\ op[t] \in PopOp /\ promised = Null
    /\ pc[t] = "cas_stub" => head = Stub
    /\ pc[t] \in {"load_next", "cas_tail", "cas_head"} => head # Stub /\ Stub \notin linked
    /\ pc[t] = "cas_head" => head # tail

(* The lock is free exactly when the marker is in the head's next. *)
LockInv ==
  /\ \A t, u \in owner : t = u
  /\ owner = {} <=> next[head] = Unlocked
  /\ \A n \in linked : next[n] = Unlocked => n = head
  /\ next[head] = Unlocked /\ head # Stub => head # tail

(* A published next pointer leads to a linked node. *)
PointerInv ==
  \A n \in linked : next[n] \in Node =>
    /\ next[n] \in linked
    /\ ahead[next[n]] = ahead[n] \union {n}

(* A push writes to a node nobody has written to since it was the tail. *)
PushInv ==
  \A t \in Thread : Pushing(t) =>
    /\ prev[t] \in linked /\ item[t] \in linked
    /\ next[prev[t]] \in {Null, Unlocked}
    /\ ahead[item[t]] = ahead[prev[t]] \union {prev[t]}

(* Two pushes never write to the same node, nor are they of the same node. *)
PushersInv ==
  \A t, u \in Thread :
    Pushing(t) /\ Pushing(u) /\ (prev[t] = prev[u] \/ item[t] = item[u]) => t = u

(* Only the tail has no successor, published or about to be. *)
LinkInv ==
  \A n \in linked : n # tail /\ next[n] \notin Node =>
    \E t \in Thread : Pushing(t) /\ prev[t] = n

(* head is first, tail is last *)
EndsInv ==
  /\ head \in linked /\ tail \in linked
  /\ ahead[head] = {}
  /\ ahead[tail] = linked \ {tail}
  /\ \A n \in linked : n \notin ahead[n] /\ ahead[n] \subseteq linked

(* The stub is at the front of the list, or right behind it, or out. *)
StubInv ==
  /\ Stub \in linked => head = Stub \/ next[head] = Stub
  /\ Stub \notin linked => next[Stub] = Null

PromiseInv ==
  promised # Null => promised = head /\ next[head] \in Node /\ owner # {}

(* The queue has the linked items, each behind what is ahead of it. *)
QueueInv ==
  /\ \A i \in DOMAIN queue : queue[i] \in linked
  /\ \A x \in linked \intersect Item : \E i \in DOMAIN queue : queue[i] = x
  /\ \A i, j \in DOMAIN queue : i < j => queue[i] \in ahead[queue[j]]

Inv ==
  /\ TypeOK
  /\ Calls
  /\ LockInv
  /\ PointerInv
  /\ PushInv
  /\ PushersInv
  /\ LinkInv
  /\ EndsInv
  /\ StubInv
  /\ PromiseInv
  /\ QueueInv

-----------------------------------------------------------------------------
(* The tail has no successor: nothing published, no push on its way. *)
LEMMA TailIsLast ==
  ASSUME Inv
  PROVE  /\ next[tail] \notin Node
         /\ \A t \in Thread : Pushing(t) => prev[t] # tail
  BY SMTT(30) DEF Inv, TypeOK, PointerInv, PushInv, EndsInv, Node

(* Nothing leads to the head. *)
LEMMA HeadIsFirst ==
  ASSUME Inv
  PROVE  /\ \A n \in linked : next[n] # head
         /\ \A t \in Thread : Pushing(t) => item[t] # head
  BY SMTT(30) DEF Inv, TypeOK, PointerInv, PushInv, EndsInv, Node

(* A list whose head is its tail holds nothing else. *)
LEMMA SingletonList ==
  ASSUME Inv, head = tail
  PROVE  linked = {head}
  BY Zenon DEF Inv, EndsInv

(* A head that is an item is the first of the queue, and dropping it leaves *)
(* the rest.                                                                *)
LEMMA HeadIsNext ==
  ASSUME Inv, head \in Item
  PROVE  /\ queue # <<>> /\ Head(queue) = head
         /\ Dropped(head) = Tail(queue)
  <1>1. queue \in Seq(Item) /\ head \in linked /\ ahead[head] = {}
    BY Zenon DEF Inv, TypeOK, EndsInv
  <1>2. PICK i \in DOMAIN queue : queue[i] = head
    BY Zenon, <1>1 DEF Inv, QueueInv
  <1>3. \A j \in DOMAIN queue : queue[j] = head => j = 1
    <2>1. \A j \in DOMAIN queue : j \in Nat /\ (j = 1 \/ (1 < j /\ 1 \in DOMAIN queue))
      BY SMTT(30), <1>1
    <2>2. QED
      BY Zenon, <1>1, <2>1 DEF Inv, QueueInv
  <1>4. (CHOOSE j \in DOMAIN queue : queue[j] = head) = 1
    BY Zenon, <1>2, <1>3
  <1>5. Dropped(head) = SubSeq(queue, 1, 0) \o SubSeq(queue, 2, Len(queue))
    <2>1. Dropped(head) = SubSeq(queue, 1, 1 - 1) \o SubSeq(queue, 1 + 1, Len(queue))
      BY <1>4, Zenon DEF Dropped
    <2>2. 1 - 1 = 0 /\ 1 + 1 = 2
      OBVIOUS
    <2>3. QED
      BY <2>1, <2>2, Zenon
  <1>6. QED
    BY SMTT(30), <1>1, <1>2, <1>3, <1>5

(* Both constructors establish the invariant. *)
LEMMA InitInv == Init => Inv
  BY SMTT(30), DistinctNodes
  DEF Init, Inv, TypeOK, Calls, LockInv, PointerInv, PushInv, PushersInv, LinkInv,
      EndsInv, StubInv, PromiseInv, QueueInv, Node, Pushing, Consuming, PopOp

(* push_prepare keeps the invariant: the new tail is behind all others. *)
LEMMA PushPrepareInv ==
  ASSUME Inv, NEW t \in Thread, NEW x \in Item, PushPrepare(t, x)
  PROVE  Inv'
  <1> USE DistinctNodes DEF Inv, PushPrepare, Node, Pushing, Consuming
  <1>1. TypeOK'
    BY SMTT(30) DEF TypeOK
  <1>2. Calls'
    BY SMTT(30) DEF Calls, TypeOK, EndsInv
  <1>3. LockInv'
    BY SMTT(30) DEF LockInv, TypeOK, EndsInv
  <1>4. PointerInv'
    BY SMTT(30) DEF PointerInv, TypeOK
  <1>5. PushInv'
    BY SMTT(30), TailIsLast DEF PushInv, TypeOK, EndsInv
  <1>6. PushersInv'
    BY SMTT(30), TailIsLast DEF PushersInv, PushInv, TypeOK
  <1>7. LinkInv'
    BY SMTT(30) DEF LinkInv, TypeOK
  <1>8. EndsInv'
    BY SMTT(30) DEF EndsInv, TypeOK
  <1>9. StubInv'
    BY Zenon DEF StubInv, TypeOK, EndsInv
  <1>10. PromiseInv'
    BY Zenon DEF PromiseInv, TypeOK, EndsInv
  <1>11. QueueInv'
    <2>1. /\ queue \in Seq(Item) /\ queue' = Append(queue, x) /\ x \notin linked
          /\ \A i \in DOMAIN queue : queue[i] \in linked
      BY Zenon DEF QueueInv, TypeOK
    <2>2. /\ Len(queue) \in Nat /\ DOMAIN queue = 1 .. Len(queue)
          /\ DOMAIN queue' = 1 .. Len(queue) + 1
          /\ queue'[Len(queue) + 1] = x
          /\ \A i \in DOMAIN queue : queue'[i] = queue[i]
      BY SMTT(30), <2>1
    <2>3. /\ linked' = linked \union {x} /\ ahead'[x] = linked
          /\ \A n \in linked : ahead'[n] = ahead[n]
      BY Zenon, <2>1 DEF TypeOK
    <2>4. \A i \in DOMAIN queue' : i = Len(queue) + 1 \/ i \in DOMAIN queue
      BY SMTT(30), <2>2
    <2>5. \A i \in DOMAIN queue' : queue'[i] \in linked'
      BY Zenon, <2>1, <2>2, <2>3, <2>4
    <2>6. \A y \in linked' \intersect Item : \E i \in DOMAIN queue' : queue'[i] = y
      BY SMTT(30), <2>2, <2>3 DEF QueueInv
    <2>7. \A i, j \in DOMAIN queue' : i < j => queue'[i] \in ahead'[queue'[j]]
      <3> SUFFICES ASSUME NEW i \in DOMAIN queue', NEW j \in DOMAIN queue', i < j
                   PROVE  queue'[i] \in ahead'[queue'[j]]
        OBVIOUS
      <3>1. i \in DOMAIN queue
        BY SMTT(30), <2>2
      <3>2. QED
        BY Zenon, <2>1, <2>2, <2>3, <2>4, <3>1 DEF QueueInv
    <2>8. QED
      BY Zenon, <2>5, <2>6, <2>7 DEF QueueInv
  <1>12. QED
    BY Zenon, <1>1, <1>2, <1>3, <1>4, <1>5, <1>6, <1>7, <1>8, <1>9, <1>10, <1>11

(* push_publish keeps the invariant. *)
LEMMA PushPublishInv ==
  ASSUME Inv, NEW t \in Thread, PushPublish(t)
  PROVE  Inv'
  <1> USE DistinctNodes DEF Inv, PushPublish, Node, Pushing, Consuming
  <1>1. TypeOK'
    BY SMTT(30) DEF TypeOK, Calls
  <1>2. Calls'
    BY Zenon DEF Calls, TypeOK
  <1>3. LockInv'
    <2>a. item[t] \in Item /\ prev[t] \in linked /\ next[prev[t]] \in {Null, Unlocked}
      BY Zenon DEF Calls, PushInv
    <2>b. \A n \in Node : next'[n] = IF n = prev[t] THEN item[t] ELSE next[n]
      BY Zenon, <2>a DEF TypeOK
    <2>1. CASE next[prev[t]] = Unlocked
      <3>1. prev[t] = head /\ owner = {} /\ owner' = {t}
        BY Zenon, <2>1, <2>a DEF LockInv
      <3>2. \A n \in linked : next'[n] # Unlocked
        BY SMTT(30), <3>1, <2>a, <2>b DEF LockInv, TypeOK
      <3>3. QED
        BY Zenon, <3>1, <3>2, <2>a DEF LockInv, EndsInv
    <2>2. CASE next[prev[t]] = Null
      <3>1. owner' = owner
        BY Zenon, <2>2
      <3>2. \A n \in linked : next'[n] = Unlocked <=> next[n] = Unlocked
        BY Zenon, <2>2, <2>a, <2>b DEF TypeOK
      <3>3. QED
        BY Zenon, <3>1, <3>2 DEF LockInv, EndsInv
    <2>3. QED
      BY Zenon, <2>1, <2>2, <2>a
  <1>4. PointerInv'
    BY Zenon DEF PointerInv, TypeOK, PushInv
  <1>5. PushInv'
    BY Zenon DEF PushInv, PushersInv, TypeOK
  <1>6. PushersInv'
    BY Zenon DEF PushersInv, TypeOK
  <1>7. LinkInv'
    BY Zenon DEF LinkInv, TypeOK, Calls
  <1>8. EndsInv'
    BY Zenon DEF EndsInv, TypeOK
  <1>9. StubInv'
    BY Zenon DEF StubInv, TypeOK, PushInv
  <1>10. PromiseInv'
    BY Zenon DEF PromiseInv, TypeOK, PushInv
  <1>11. QueueInv'
    BY Zenon DEF QueueInv
  <1>12. QED
    BY Zenon, <1>1, <1>2, <1>3, <1>4, <1>5, <1>6, <1>7, <1>8, <1>9, <1>10, <1>11

(* try_lock keeps the invariant: the marker is in the stub, so it is head. *)
LEMMA TryLockInv ==
  ASSUME Inv, NEW t \in Thread, TryLock(t)
  PROVE  Inv'
  <1> USE DistinctNodes DEF Inv, TryLock, Node, Pushing, Consuming
  <1>a. head = Stub /\ owner = {} /\ Stub \in linked
    BY Zenon DEF LockInv, StubInv, TypeOK
  <1>1. TypeOK'
    BY Zenon DEF TypeOK
  <1>2. Calls'
    BY Zenon, <1>a DEF Calls, TypeOK
  <1>3. LockInv'
    BY Zenon, <1>a DEF LockInv, TypeOK
  <1>4. PointerInv'
    BY Zenon DEF PointerInv, TypeOK
  <1>5. PushInv'
    BY Zenon DEF PushInv, TypeOK
  <1>6. PushersInv'
    BY Zenon DEF PushersInv, TypeOK
  <1>7. LinkInv'
    BY Zenon DEF LinkInv, TypeOK
  <1>8. EndsInv'
    BY Zenon DEF EndsInv, TypeOK
  <1>9. StubInv'
    BY Zenon, <1>a DEF StubInv, TypeOK
  <1>10. PromiseInv'
    BY Zenon, <1>a DEF PromiseInv, TypeOK
  <1>11. QueueInv'
    BY Zenon DEF QueueInv
  <1>12. QED
    BY Zenon, <1>1, <1>2, <1>3, <1>4, <1>5, <1>6, <1>7, <1>8, <1>9, <1>10, <1>11

-----------------------------------------------------------------------------
(* Moving on to the next access of pop_impl keeps the invariant. *)
LEMMA GotoInv ==
  ASSUME Inv, NEW t \in owner, NEW o \in PopOp, promised = Null,
         pc[t] # "publish", head # Stub, Stub \notin linked,
         NEW label \in {"cas_tail", "cas_head"}, label = "cas_head" => head # tail,
         Goto(t, o, label), UNCHANGED <<next, head, tail, linked, ahead, queue>>
  PROVE  Inv'
  <1> USE DistinctNodes DEF Inv, Goto, Node, Pushing, Consuming
  <1>1. TypeOK' /\ Calls'
    BY Zenon DEF TypeOK, Calls
  <1>2. LockInv' /\ PointerInv' /\ EndsInv' /\ StubInv' /\ PromiseInv' /\ QueueInv'
    BY Zenon DEF LockInv, PointerInv, EndsInv, StubInv, PromiseInv, QueueInv
  <1>3. PushInv' /\ PushersInv' /\ LinkInv'
    BY SMTT(30) DEF PushInv, PushersInv, LinkInv, TypeOK
  <1>4. QED
    BY Zenon, <1>1, <1>2, <1>3

(* Returning without a node and without unlocking keeps the invariant. *)
LEMMA ReturnNothingInv ==
  ASSUME Inv, NEW t \in owner, pc[t] # "publish", ReturnNothing(t)
  PROVE  Inv'
  <1> USE DistinctNodes DEF Inv, ReturnNothing, Done, Node, Pushing, Consuming
  <1>1. TypeOK' /\ Calls'
    BY Zenon DEF TypeOK, Calls
  <1>2. LockInv' /\ PointerInv' /\ EndsInv' /\ StubInv' /\ PromiseInv' /\ QueueInv'
    BY Zenon DEF LockInv, PointerInv, EndsInv, StubInv, PromiseInv, QueueInv
  <1>3. PushInv' /\ PushersInv' /\ LinkInv'
    BY SMTT(30) DEF PushInv, PushersInv, LinkInv, TypeOK
  <1>4. QED
    BY Zenon, <1>1, <1>2, <1>3

(* Unlocking keeps the invariant: the marker goes to the head's null next. *)
LEMMA ReturnUnlockedInv ==
  ASSUME Inv, NEW t \in owner, Consuming(t), ReturnUnlocked(t, head),
         next[head] = Null, head # Stub => head # tail
  PROVE  Inv'
  <1> USE DistinctNodes DEF Inv, ReturnUnlocked, Done, Node, Pushing, Consuming
  <1>1. TypeOK'
    BY Zenon DEF TypeOK
  <1>2. Calls'
    BY SMTT(30) DEF Calls, TypeOK, LockInv
  <1>3. LockInv'
    BY SMTT(30) DEF LockInv, TypeOK, EndsInv
  <1>4. PointerInv'
    BY Zenon DEF PointerInv, TypeOK
  <1>5. PushInv' /\ PushersInv'
    BY SMTT(30) DEF PushInv, PushersInv, TypeOK
  <1>6. LinkInv'
    BY Zenon DEF LinkInv, TypeOK
  <1>7. EndsInv'
    BY Zenon DEF EndsInv
  <1>8. StubInv' /\ PromiseInv' /\ QueueInv'
    BY SMTT(30) DEF StubInv, PromiseInv, QueueInv, TypeOK, EndsInv
  <1>9. QED
    BY Zenon, <1>1, <1>2, <1>3, <1>4, <1>5, <1>6, <1>7, <1>8

(* Taking the stub off the front keeps the invariant. *)
LEMMA RemoveStubInv ==
  ASSUME Inv, NEW t \in owner, NEW o \in PopOp, pc[t] # "publish",
         head = Stub, next[Stub] \in Node, RemoveStub(t, o, next[Stub])
  PROVE  Inv'
  <1> USE DistinctNodes DEF Inv, RemoveStub, Goto, Without, Node, Pushing, Consuming
  <1>a. /\ next[Stub] \in linked /\ next[Stub] # Stub
        /\ ahead[next[Stub]] = {Stub}
        /\ Stub # tail
        /\ promised = Null
    BY Zenon, HeadIsFirst, TailIsLast DEF PointerInv, EndsInv, TypeOK, PromiseInv
  <1>1. TypeOK'
    BY Zenon, <1>a DEF TypeOK
  <1>2. Calls'
    BY SMTT(30), <1>a DEF Calls, TypeOK, LockInv
  <1>3. LockInv'
    BY Zenon, <1>a DEF LockInv, TypeOK
  <1>4. PointerInv'
    BY SMTT(30), <1>a, HeadIsFirst DEF PointerInv, TypeOK
  <1>5. PushInv' /\ PushersInv'
    BY SMTT(30), <1>a, HeadIsFirst DEF PushInv, PushersInv, TypeOK
  <1>6. LinkInv'
    BY Zenon, <1>a DEF LinkInv, TypeOK
  <1>7. EndsInv'
    BY SMTT(30), <1>a DEF EndsInv, TypeOK
  <1>8. StubInv' /\ PromiseInv'
    BY Zenon, <1>a DEF StubInv, PromiseInv, TypeOK
  <1>9. QueueInv'
    <2>1. \A i \in DOMAIN queue : queue[i] \in Item
      BY SMTT(30) DEF TypeOK
    <2>2. QED
      BY SMTT(30), <2>1 DEF QueueInv, TypeOK
  <1>10. QED
    BY Zenon, <1>1, <1>2, <1>3, <1>4, <1>5, <1>6, <1>7, <1>8, <1>9

(* Taking the head off the front keeps the rest of the queue in its order. *)
LEMMA TailQueue ==
  ASSUME Inv, head \in Item, queue' = Dropped(head),
         \A n \in linked' \intersect Item : n \in linked /\ n # head,
         linked \ {head} \subseteq linked',
         \A n \in linked \intersect Item : ahead'[n] = ahead[n] \ {head}
  PROVE  QueueInv'
  <1>1. /\ queue \in Seq(Item) /\ queue # <<>> /\ queue[1] = head /\ queue' = Tail(queue)
        /\ ahead[head] = {}
        /\ \A i \in DOMAIN queue : queue[i] \in linked /\ queue[i] \in Item
    BY SMTT(30), HeadIsNext DEF Inv, TypeOK, QueueInv, EndsInv
  <1>2. /\ Len(queue) \in Nat \ {0} /\ DOMAIN queue = 1 .. Len(queue)
        /\ DOMAIN queue' = 1 .. Len(queue) - 1
        /\ \A i \in DOMAIN queue' : queue'[i] = queue[i + 1]
    BY SMTT(30), <1>1
  <1>3. \A i \in DOMAIN queue' : i \in Nat \ {0} /\ i + 1 \in DOMAIN queue /\ 1 \in DOMAIN queue /\ 1 < i + 1
    BY SMTT(30), <1>2
  <1>4. \A i \in DOMAIN queue' : queue'[i] # head
    BY SMTT(30), <1>1, <1>2, <1>3 DEF Inv, QueueInv
  <1>5. \A i \in DOMAIN queue' : queue'[i] \in linked'
    BY Zenon, <1>1, <1>2, <1>3, <1>4
  <1>6. ASSUME NEW x \in linked' \intersect Item PROVE \E i \in DOMAIN queue' : queue'[i] = x
    <2>1. PICK j \in DOMAIN queue : queue[j] = x
      BY Zenon, <1>6 DEF Inv, QueueInv
    <2>2. j # 1
      BY Zenon, <1>1, <1>6, <2>1
    <2>3. j - 1 \in DOMAIN queue' /\ queue'[j - 1] = x
      BY SMTT(30), <1>2, <2>1, <2>2
    <2>4. QED
      BY Zenon, <2>3
  <1>7. ASSUME NEW i \in DOMAIN queue', NEW j \in DOMAIN queue', i < j
        PROVE  queue'[i] \in ahead'[queue'[j]]
    <2>1. i + 1 < j + 1
      BY SMTT(30), <1>2, <1>7
    <2>2. queue[i + 1] \in ahead[queue[j + 1]]
      BY Zenon, <1>3, <2>1 DEF Inv, QueueInv
    <2>3. QED
      BY SMTT(30), <1>1, <1>2, <1>3, <1>4, <2>2
  <1>8. QED
    BY Zenon, <1>5, <1>6, <1>7 DEF QueueInv

(* Returning a head whose next is published keeps the invariant. *)
LEMMA ReturnInv ==
  ASSUME Inv, NEW t \in owner, NEW o \in PopOp, pc[t] # "publish",
         head # Stub, next[head] \in Node,
         Return(t, o, head, next[head]), UNCHANGED <<next, tail>>
  PROVE  Inv'
  <1> DEFINE m == next[head]
  <1> USE DistinctNodes DEF Inv, Return, Done, Without, Node, Pushing, Consuming
  <1>a. /\ m \in linked /\ m # head
        /\ ahead[m] = {head}
        /\ head # tail
        /\ head \in Item
        /\ next[head] # Unlocked /\ owner # {}
    <2>1. head \in linked /\ head \in Item /\ ahead[head] = {}
      BY Zenon DEF EndsInv, TypeOK
    <2>2. next[head] # head /\ head # tail
      BY Zenon, <2>1, HeadIsFirst, TailIsLast
    <2>3. m \in linked /\ ahead[m] = ahead[head] \union {head}
      BY Zenon, <2>1 DEF PointerInv
    <2>4. next[head] # Unlocked /\ owner # {}
      BY Zenon
    <2>5. QED
      BY Zenon, <2>1, <2>2, <2>3, <2>4
  <1>q. queue \in Seq(Item) /\ queue # <<>> /\ Dropped(head) = Tail(queue)
    BY Zenon, <1>a, HeadIsNext DEF TypeOK
  <1>b. \A u \in Thread : u # t => ~Consuming(u)
    BY Zenon DEF Calls, LockInv
  <1>c. \A u \in Thread : Pushing(u)' <=> Pushing(u)
    BY Zenon DEF TypeOK
  <1>1. TypeOK'
    <2>1. queue' \in Seq(Item)
      <3>1. queue' = Dropped(head) \/ queue' = queue
        BY Zenon
      <3>2. Tail(queue) \in Seq(Item)
        BY ONLY SMTT(30), <1>q
      <3>3. QED
        BY <1>q, <3>1, <3>2, Zenon
    <2>2. QED
      BY SMTT(30), <1>a, <2>1 DEF TypeOK
  <1>2. Calls'
    BY SMTT(30), <1>a, <1>b DEF Calls, TypeOK
  <1>3. CASE o \in {"pop", "try_pop"}
    <2>a. /\ head' = m /\ linked' = linked \ {head} /\ promised' = Null
          /\ owner' = owner
          /\ ahead' = Without(ahead, head)
      BY SMTT(30), <1>3, <1>a
    <2>b. \A n \in Node : ahead'[n] = ahead[n] \ {head}
      BY Zenon, <2>a
    <2>1. LockInv'
      BY Zenon, <1>a, <2>a DEF LockInv, EndsInv
    <2>2. PointerInv'
      BY SMTT(30), <1>a, <2>a, <2>b, HeadIsFirst DEF PointerInv, TypeOK
    <2>3. PushInv' /\ PushersInv'
      <3>1. ASSUME NEW u \in Thread, Pushing(u)'
            PROVE  /\ prev'[u] \in linked' /\ item'[u] \in linked'
                   /\ next'[prev'[u]] \in {Null, Unlocked}
                   /\ ahead'[item'[u]] = ahead'[prev'[u]] \union {prev'[u]}
        <4>1. /\ Pushing(u) /\ prev[u] \in linked /\ item[u] \in linked
              /\ next[prev[u]] \in {Null, Unlocked} /\ ahead[item[u]] = ahead[prev[u]] \union {prev[u]}
          BY Zenon, <1>c, <3>1 DEF PushInv
        <4>2. prev[u] # head /\ item[u] # head
          BY Zenon, <4>1, HeadIsFirst
        <4>3. prev[u] \in Node /\ item[u] \in Node
          BY Zenon, <4>1 DEF TypeOK
        <4>4. ahead[item[u]] \ {head} = (ahead[prev[u]] \ {head}) \union {prev[u]}
          BY Zenon, <4>1, <4>2
        <4>5. QED
          BY Zenon, <2>a, <2>b, <4>1, <4>2, <4>3, <4>4
      <3>2. PushersInv'
        BY Zenon, <1>c DEF PushersInv
      <3>3. QED
        BY Zenon, <3>1, <3>2 DEF PushInv
    <2>4. LinkInv'
      BY SMTT(30), <1>a, <1>c, <2>a DEF LinkInv
    <2>5. EndsInv'
      BY SMTT(30), <1>a, <2>a, <2>b DEF EndsInv, TypeOK
    <2>6. StubInv' /\ PromiseInv'
      BY Zenon, <1>a, <2>a DEF StubInv, PromiseInv
    <2>7. QueueInv'
      BY Zenon, <1>3, <1>a, <2>a, <2>b, TailQueue
    <2>8. QED
      BY Zenon, <1>1, <1>2, <2>1, <2>2, <2>3, <2>4, <2>5, <2>6, <2>7
  <1>4. CASE o \notin {"pop", "try_pop"}
    <2>a. /\ head' = head /\ linked' = linked /\ ahead' = ahead /\ promised' = head
          /\ owner' = owner /\ queue' = queue
      BY SMTT(30), <1>4, <1>a
    <2>1. LockInv' /\ PointerInv' /\ EndsInv' /\ StubInv' /\ PromiseInv' /\ QueueInv'
      BY Zenon, <1>a, <2>a DEF LockInv, PointerInv, EndsInv, StubInv, PromiseInv, QueueInv
    <2>2. PushInv' /\ PushersInv' /\ LinkInv'
      BY SMTT(30), <1>c, <2>a DEF PushInv, PushersInv, LinkInv, TypeOK
    <2>3. QED
      BY Zenon, <1>1, <1>2, <2>1, <2>2
  <1>5. QED
    BY ZenonT(40), <1>3, <1>4

(* Putting the stub behind the last node keeps the invariant. *)
LEMMA InsertStubInv ==
  ASSUME Inv, NEW t \in owner, pc[t] = "cas_tail", tail = head, PopCasTail(t)
  PROVE  Inv'
  <1> DEFINE o == op[t]
  <1> USE DistinctNodes DEF Inv, PopCasTail, Return, Done, Without, Node, Pushing, Consuming
  <1>a. /\ head # Stub /\ Stub \notin linked /\ next[Stub] = Null
        /\ linked = {head} /\ ahead[head] = {} /\ head \in Item
        /\ owner # {} /\ o \in PopOp
    BY Zenon, SingletonList DEF Calls, StubInv, EndsInv, TypeOK
  <1>q. queue \in Seq(Item) /\ queue # <<>> /\ Dropped(head) = Tail(queue)
    BY Zenon, <1>a, HeadIsNext DEF TypeOK
  <1>b. \A u \in Thread : ~Pushing(u)
    BY Zenon, <1>a, TailIsLast DEF PushInv
  <1>c. \A u \in Thread : u # t => ~Consuming(u)
    BY Zenon DEF Calls, LockInv
  <1>d. /\ next' = [next EXCEPT ![head] = Stub] /\ tail' = Stub /\ owner' = owner
        /\ pc' = [pc EXCEPT ![t] = "idle"] /\ op' = [op EXCEPT ![t] = Null]
        /\ UNCHANGED <<item, prev>>
    BY Zenon DEF TypeOK
  <1>e. \A n \in Node : next'[n] = IF n = head THEN Stub ELSE next[n]
    BY ZenonT(40), <1>d DEF TypeOK
  <1>1. Calls' /\ PushInv' /\ PushersInv'
    BY SMTT(30), <1>b, <1>c, <1>d DEF Calls, PushInv, PushersInv, TypeOK
  <1>2. CASE o \in {"pop", "try_pop"}
    <2>a. head' = Stub /\ linked' = {Stub} /\ promised' = Null
      BY Zenon, <1>2, <1>a
    <2>f. ahead' = Without([ahead EXCEPT ![Stub] = linked], head)
      BY <1>2, <1>a, Zenon
    <2>b. ahead' \in [Node -> SUBSET Node] /\ ahead'[Stub] = {}
      BY Zenon, <1>a, <2>f DEF TypeOK
    <2>c. queue' = Dropped(head) /\ queue' \in Seq(Item)
      <3>1. queue' = Dropped(head)
        BY <1>2, Zenon
      <3>2. Tail(queue) \in Seq(Item)
        BY ONLY SMTT(30), <1>q
      <3>3. QED
        BY <1>q, <3>1, <3>2, Zenon
    <2>d. ahead'[head] = ahead[head] \ {head}
      BY Zenon, <1>a, <2>f DEF TypeOK
    <2>e. QueueInv'
      BY Zenon, <1>a, <2>a, <2>c, <2>d, TailQueue
    <2>1. TypeOK'
      BY Zenon, <1>d, <2>a, <2>b, <2>c DEF TypeOK
    <2>2. LockInv' /\ StubInv' /\ PromiseInv'
      BY ZenonT(40), <1>a, <1>d, <1>e, <2>a DEF LockInv, StubInv, PromiseInv
    <2>3. EndsInv'
      BY ZenonT(40), <1>d, <2>a, <2>b, <1>a DEF EndsInv
    <2>4. PointerInv' /\ LinkInv'
      BY SMTT(30), <1>a, <1>d, <1>e, <2>a, <2>b DEF PointerInv, LinkInv
    <2>5. QED
      BY Zenon, <1>1, <2>1, <2>2, <2>3, <2>4, <2>e
  <1>3. CASE o \notin {"pop", "try_pop"}
    <2>a. /\ head' = head /\ linked' = {head, Stub} /\ promised' = head
          /\ ahead' = [ahead EXCEPT ![Stub] = linked] /\ queue' = queue
      BY Zenon, <1>3, <1>a
    <2>b. ahead' \in [Node -> SUBSET Node] /\ ahead'[Stub] = {head} /\ ahead'[head] = {}
      BY Zenon, <2>a, <1>a DEF TypeOK
    <2>1. TypeOK'
      BY Zenon, <1>a, <1>d, <2>a, <2>b DEF TypeOK
    <2>2. LockInv' /\ StubInv' /\ PromiseInv'
      BY SMTT(30), <1>a, <1>d, <1>e, <2>a DEF LockInv, StubInv, PromiseInv
    <2>3. EndsInv'
      BY SMTT(30), <1>d, <2>a, <2>b, <1>a DEF EndsInv
    <2>4. PointerInv' /\ LinkInv'
      BY SMTT(30), <1>a, <1>d, <1>e, <2>a, <2>b DEF PointerInv, LinkInv
    <2>e. QueueInv'
      <3>1. \A i \in DOMAIN queue : queue[i] \in Item /\ ahead'[queue[i]] = ahead[queue[i]]
        BY SMTT(30), <2>a DEF TypeOK
      <3>2. QED
        <4>1. /\ \A i \in DOMAIN queue : queue[i] \in linked
              /\ \A x \in linked \intersect Item : \E i \in DOMAIN queue : queue[i] = x
              /\ \A i, j \in DOMAIN queue : i < j => queue[i] \in ahead[queue[j]]
          BY Zenon DEF QueueInv
        <4>2. linked \subseteq linked' /\ linked' \intersect Item = linked \intersect Item
          BY Zenon, <1>a, <2>a
        <4>3. QED
          BY ONLY SMTT(30), <2>a, <3>1, <4>1, <4>2 DEF QueueInv
    <2>5. QED
      BY Zenon, <1>1, <2>1, <2>2, <2>3, <2>4, <2>e
  <1>4. QED
    BY Zenon, <1>2, <1>3

(* Every call of the consumer keeps the invariant. *)
LEMMA PopBeginInv ==
  ASSUME Inv, NEW t \in Thread, NEW o \in PopOp, PopBegin(t, o)
  PROVE  Inv'
  <1> USE DistinctNodes DEF Inv, Node
  <1>a. t \in owner /\ pc[t] # "publish" /\ pc[t] = "idle" /\ next[head] # Unlocked
    BY Zenon DEF PopBegin, LockInv
  <1>1. CASE head = Stub /\ next[Stub] = Null /\ ~Unlocks(o)
    BY Zenon, <1>1, <1>a, ReturnNothingInv DEF PopBegin
  <1>2. CASE head = Stub /\ next[Stub] = Null /\ Unlocks(o)
    <2> USE DEF Goto, Pushing, Consuming
    <2>0. Goto(t, o, "cas_stub") /\ UNCHANGED <<next, head, tail, linked, ahead, queue>>
      BY Zenon, <1>2 DEF PopBegin
    <2>a. promised = Null
      BY Zenon, <1>2 DEF PromiseInv
    <2>1. TypeOK' /\ Calls'
      BY SMTT(30), <1>2, <1>a, <2>0, <2>a DEF TypeOK, Calls
    <2>2. LockInv' /\ PointerInv' /\ EndsInv' /\ StubInv' /\ PromiseInv' /\ QueueInv'
      BY Zenon, <2>0 DEF LockInv, PointerInv, EndsInv, StubInv, PromiseInv, QueueInv
    <2>3. PushInv' /\ PushersInv' /\ LinkInv'
      BY SMTT(30), <2>0, <1>a DEF PushInv, PushersInv, LinkInv, TypeOK
    <2>4. QED
      BY Zenon, <2>1, <2>2, <2>3
  <1>3. CASE head = Stub /\ next[Stub] # Null
    <2>1. next[Stub] \in Node
      BY Zenon, <1>3, <1>a DEF TypeOK
    <2>2. QED
      BY Zenon, <1>3, <1>a, <2>1, RemoveStubInv DEF PopBegin
  <1>4. CASE head # Stub /\ next[head] = Null
    <2>1. promised = Null /\ Stub \notin linked
      BY Zenon, <1>4 DEF PromiseInv, StubInv
    <2>2. Goto(t, o, "cas_tail") /\ UNCHANGED <<next, head, tail, linked, ahead, queue>>
      BY Zenon, <1>4 DEF PopBegin
    <2>3. QED
      BY Zenon, <1>4, <1>a, <2>1, <2>2, GotoInv
  <1>5. CASE head # Stub /\ next[head] # Null
    <2>1. next[head] \in Node
      BY Zenon, <1>5, <1>a DEF TypeOK
    <2>2. QED
      BY Zenon, <1>5, <1>a, <2>1, ReturnInv DEF PopBegin
  <1>6. QED
    BY Zenon, <1>1, <1>2, <1>3, <1>4, <1>5

(* Every later access of pop_impl keeps the invariant. *)
LEMMA PopStepInv ==
  ASSUME Inv, NEW t \in Thread, PopStep(t)
  PROVE  Inv'
  <1> USE DistinctNodes DEF Inv, Node
  <1>a. /\ Consuming(t) /\ pc[t] # "publish" /\ t \in owner /\ op[t] \in PopOp
        /\ promised = Null /\ next[head] # Unlocked
    BY Zenon DEF PopStep, PopCasStub, PopLoadNext, PopCasTail, PopCasHead, Calls, Consuming, LockInv
  <1>b. next[head] # Null => next[head] \in Node
    BY Zenon, <1>a DEF TypeOK
  <1>1. CASE PopCasStub(t)
    <2>1. head = Stub
      BY Zenon, <1>1 DEF PopCasStub, Calls
    <2>2. QED
      BY Zenon, <1>1, <1>a, <1>b, <2>1, ReturnUnlockedInv, RemoveStubInv DEF PopCasStub
  <1>2. CASE PopLoadNext(t)
    <2>1. head # Stub /\ Stub \notin linked
      BY Zenon, <1>2 DEF PopLoadNext, Calls
    <2>2. QED
      BY Zenon, <1>2, <1>a, <1>b, <2>1, GotoInv, ReturnInv DEF PopLoadNext
  <1>3. CASE PopCasTail(t)
    <2>1. pc[t] = "cas_tail" /\ head # Stub /\ Stub \notin linked
      BY Zenon, <1>3 DEF PopCasTail, Calls
    <2>2. CASE tail = head
      BY Zenon, <1>3, <1>a, <2>1, <2>2, InsertStubInv
    <2>3. CASE tail # head
      BY Zenon, <1>3, <1>a, <2>1, <2>3, GotoInv, ReturnNothingInv DEF PopCasTail
    <2>4. QED
      BY Zenon, <2>2, <2>3
  <1>4. CASE PopCasHead(t)
    <2>1. head # Stub /\ head # tail
      BY Zenon, <1>4 DEF PopCasHead, Calls
    <2>2. QED
      BY Zenon, <1>4, <1>a, <1>b, <2>1, ReturnUnlockedInv, ReturnInv DEF PopCasHead
  <1>5. QED
    BY Zenon, <1>1, <1>2, <1>3, <1>4 DEF PopStep

-----------------------------------------------------------------------------
(* The invariant is inductive. *)
THEOREM InvIsInductive == Spec => []Inv
  <1>1. Inv /\ [Next]_vars => Inv'
    <2> SUFFICES ASSUME Inv, [Next]_vars PROVE Inv'
      OBVIOUS
    <2>1. CASE Next
      BY Zenon, <2>1, PushPrepareInv, PushPublishInv, TryLockInv, PopBeginInv, PopStepInv DEF Next
    <2>2. CASE UNCHANGED vars
      BY SMTT(30), <2>2
      DEF vars, Inv, TypeOK, Calls, LockInv, PointerInv, PushInv, PushersInv, LinkInv,
          EndsInv, StubInv, PromiseInv, QueueInv, Pushing, Consuming
    <2>3. QED
      BY Zenon, <2>1, <2>2
  <1>2. QED
    BY InitInv, <1>1, PTL DEF Spec

(* Type correctness of the mailbox for any threads and items. *)
THEOREM TypeCorrect == Spec => []TypeOK
  BY InvIsInductive, PTL DEF Inv

(* Never two holders of the mailbox's lock, however pushes, try_lock and    *)
(* unlocking pops interleave.                                               *)
THEOREM AtMostOneOwner == Spec => []MutualExclusion
  <1>1. Inv => MutualExclusion
    BY Zenon DEF Inv, LockInv, MutualExclusion
  <1>2. QED
    BY InvIsInductive, <1>1, PTL

(* push_publish never writes to a node that pop already handed out. *)
THEOREM PushIsSafe == Spec => []NoDanglingPush
  <1>1. Inv => NoDanglingPush
    BY Zenon DEF Inv, PushInv, Pushing, NoDanglingPush
  <1>2. QED
    BY InvIsInductive, <1>1, PTL

(* An unlocked mailbox with an item in it has a push that will lock it. *)
THEOREM NothingIsLost == Spec => []NoLostItem
  <1>1. Inv => NoLostItem
    <2> SUFFICES ASSUME Inv, owner = {}, linked \intersect Item # {}
                 PROVE  \E t \in Thread :
                          pc[t] = "publish" /\ prev[t] = head /\ next[head] = Unlocked
      BY Zenon DEF NoLostItem
    <2>1. next[head] = Unlocked
      BY Zenon DEF Inv, LockInv
    <2>2. head # tail
      BY Zenon, <2>1, SingletonList, DistinctNodes DEF Inv, LockInv
    <2>3. QED
      BY Zenon, <2>1, <2>2, DistinctNodes DEF Inv, LinkInv, EndsInv, Pushing, Node
  <1>2. QED
    BY InvIsInductive, <1>1, PTL

(* No assertion of intrusive_mailbox.h can fail. *)
THEOREM NoAssertionFails == Spec => []AssertionsHold
  <1>1. Inv => AssertionsHold
    BY Zenon, SingletonList, DistinctNodes
    DEF Inv, LockInv, PushInv, Calls, StubInv, EndsInv, Pushing, AssertionsHold
  <1>2. QED
    BY InvIsInductive, <1>1, PTL

(* empty() is exact for the holder of the lock. *)
THEOREM EmptyTellsTheTruth == Spec => []EmptyIsExact
  <1>1. Inv => EmptyIsExact
    BY SMTT(30), SingletonList DEF Inv, EndsInv, Empty, EmptyIsExact
  <1>2. QED
    BY InvIsInductive, <1>1, PTL

(* Who removes a node, and what pop_impl knows of it, in one step. *)
LEMMA RemovalStep ==
  ASSUME Inv, Next
  PROVE  /\ \A x \in Item : x \in linked /\ x \notin linked' => x = head
         /\ promised # Null /\ promised' # promised => head \notin linked' /\ owner' = owner
  <1> USE DistinctNodes DEF Node
  <1>1. ASSUME NEW t \in Thread, NEW x \in Item, PushPrepare(t, x)
        PROVE  linked \subseteq linked' /\ promised' = promised
    BY Zenon, <1>1 DEF PushPrepare
  <1>2. ASSUME NEW t \in Thread, PushPublish(t) \/ TryLock(t)
        PROVE  linked' = linked /\ promised' = promised
    BY Zenon, <1>2 DEF PushPublish, TryLock
  <1>3. ASSUME NEW t \in Thread, NEW o \in PopOp, PopBegin(t, o)
        PROVE  /\ linked \ {head} \subseteq linked'
               /\ promised # Null /\ promised' # promised => head \notin linked' /\ owner' = owner
    <2>1. promised # Null => head # Stub /\ next[head] \in Node
      BY SMTT(30) DEF Inv, PromiseInv, TypeOK
    <2>2. next[head] \in Node => head # next[head]
      BY Zenon, HeadIsFirst DEF Inv, EndsInv
    <2>3. QED
      BY Zenon, <1>3, <2>1, <2>2
      DEF PopBegin, Goto, ReturnNothing, RemoveStub, Return, Done, Inv, PromiseInv
  <1>4. ASSUME NEW t \in Thread, PopStep(t)
        PROVE  linked \ {head} \subseteq linked' \union {Stub} /\ promised = Null
    <2>1. promised = Null
      BY Zenon, <1>4 DEF PopStep, PopCasStub, PopLoadNext, PopCasTail, PopCasHead, Inv, Calls, Consuming
    <2>2. QED
      BY Zenon, <1>4, <2>1
      DEF PopStep, PopCasStub, PopLoadNext, PopCasTail, PopCasHead,
          Goto, ReturnNothing, ReturnUnlocked, RemoveStub, Return, Done
  <1>5. QED
    BY SMTT(30), <1>1, <1>2, <1>3, <1>4 DEF Next

(* Items leave in the order in which they were pushed. *)
THEOREM OrderIsFifo == Spec => Fifo
  <1>1. Inv /\ [Next]_vars =>
          [\A x \in Item : x \in linked /\ x \notin linked' => ahead[x] \intersect Item = {}]_vars
    BY Zenon, RemovalStep DEF Inv, EndsInv
  <1>2. QED
    BY InvIsInductive, <1>1, PTL DEF Spec, Fifo

(* A node shown by peek, or by a failed try_unlock, is what pop returns next. *)
THEOREM PeekIsKept == Spec => PromiseKept
  <1>1. Inv /\ [Next]_vars =>
          [promised # Null /\ promised' # promised =>
             promised \notin linked' /\ owner' = owner]_vars
    BY Zenon, RemovalStep DEF Inv, PromiseInv
  <1>2. QED
    BY InvIsInductive, <1>1, PTL DEF Spec, PromiseKept

-----------------------------------------------------------------------------
(* The state of MailboxSpec that a state of the mailbox stands for. *)
InFlight == {item[t] : t \in {u \in Thread : pc[u] = "publish"}}

Mailbox(q, f, l) == [queue |-> q, inflight |-> f, locked |-> l]

(* The fields of such a state, and what an update of one makes of it. *)
LEMMA MailboxFields ==
  /\ \A q, f, l : Mailbox(q, f, l).queue = q
  /\ \A q, f, l : Mailbox(q, f, l).inflight = f
  /\ \A q, f, l : Mailbox(q, f, l).locked = l
  BY Zenon DEF Mailbox

(* A record of its parts with another queue, *)
LEMMA QueueUpdate == \A q, f, l, x : [Mailbox(q, f, l) EXCEPT !.queue = x] = Mailbox(x, f, l)
  BY SMTT(30) DEF Mailbox

(* with other pushes in flight, *)
LEMMA InFlightUpdate == \A q, f, l, x : [Mailbox(q, f, l) EXCEPT !.inflight = x] = Mailbox(q, x, l)
  BY SMTT(30) DEF Mailbox

(* or with the lock taken or given up (owner). *)
LEMMA LockedUpdate == \A q, f, l, x : [Mailbox(q, f, l) EXCEPT !.locked = x] = Mailbox(q, f, x)
  BY SMTT(30) DEF Mailbox

(* What the steps of MailboxOps do to it. *)
LEMMA MailboxPrepares ==
  ASSUME NEW q, NEW f, NEW l, NEW x
  PROVE  Abstract!Prepared(Mailbox(q, f, l), x) = Mailbox(Append(q, x), f \union {x}, l)
  <1> DEFINE mb == Mailbox(q, f, l)
             longer == Mailbox(Append(q, x), f, l)
  <1>1. mb.queue = q /\ mb.inflight = f
    BY SMTT(30), MailboxFields
  <1>2. ASSUME NEW y PROVE [mb EXCEPT !.queue = y] = Mailbox(y, f, l)
    BY SMTT(30), QueueUpdate
  <1>3. ASSUME NEW y PROVE [longer EXCEPT !.inflight = y] = Mailbox(Append(q, x), y, l)
    BY SMTT(30), InFlightUpdate
  <1> HIDE DEF mb
  <1>4. [mb EXCEPT !.queue = Append(q, x)] = longer
    BY <1>2, Zenon
  <1> HIDE DEF longer
  <1>5. Abstract!Prepared(mb, x) = Mailbox(Append(q, x), f \union {x}, l)
    BY <1>1, <1>3, <1>4, Zenon DEF Abstract!Prepared
  <1>6. QED
    BY <1>5, Zenon DEF mb

(* Removing the oldest item, as a pop does. *)
LEMMA MailboxRemoves ==
  ASSUME NEW q, NEW f, NEW l
  PROVE  Abstract!Removed(Mailbox(q, f, l)) = Mailbox(Tail(q), f, l)
  <1> DEFINE mb == Mailbox(q, f, l)
  <1>1. mb.queue = q
    BY Zenon, MailboxFields
  <1>2. ASSUME NEW y PROVE [mb EXCEPT !.queue = y] = Mailbox(y, f, l)
    BY SMTT(30), QueueUpdate
  <1> HIDE DEF mb
  <1>3. Abstract!Removed(mb) = Mailbox(Tail(q), f, l)
    BY <1>1, <1>2, Zenon DEF Abstract!Removed
  <1>4. QED
    BY <1>3, Zenon DEF mb

(* Releasing the lock, and taking it. *)
LEMMA MailboxLocks ==
  ASSUME NEW q, NEW f, NEW l
  PROVE  /\ Abstract!Released(Mailbox(q, f, l)) = Mailbox(q, f, FALSE)
         /\ [Mailbox(q, f, l) EXCEPT !.locked = TRUE] = Mailbox(q, f, TRUE)
  <1> DEFINE mb == Mailbox(q, f, l)
  <1>1. ASSUME NEW y PROVE [mb EXCEPT !.locked = y] = Mailbox(q, f, y)
    BY SMTT(30), LockedUpdate
  <1> HIDE DEF mb
  <1>2. Abstract!Released(mb) = Mailbox(q, f, FALSE)
    BY <1>1, Zenon DEF Abstract!Released
  <1>3. [mb EXCEPT !.locked = TRUE] = Mailbox(q, f, TRUE)
    BY <1>1, Zenon
  <1>4. QED
    BY <1>2, <1>3, Zenon DEF mb

(* A publish may lock or not, as long as the mailbox stays wakeable. *)
LEMMA MailboxPublishes ==
  ASSUME NEW q, NEW f, NEW l, NEW x, NEW k \in {l, TRUE},
         k \/ q = <<>> \/ f \ {x} # {}
  PROVE  Mailbox(q, f \ {x}, k) \in Abstract!Published(Mailbox(q, f, l), x)
  <1> DEFINE mb == Mailbox(q, f, l)
             fewer == Mailbox(q, f \ {x}, l)
             m == Mailbox(q, f \ {x}, k)
  <1>1. /\ mb.inflight = f /\ mb.locked = l
        /\ m.queue = q /\ m.inflight = f \ {x} /\ m.locked = k
    BY SMTT(30), MailboxFields
  <1>2. ASSUME NEW y PROVE [mb EXCEPT !.inflight = y] = Mailbox(q, y, l)
    BY SMTT(30), InFlightUpdate
  <1>3. ASSUME NEW y PROVE [fewer EXCEPT !.locked = y] = Mailbox(q, f \ {x}, y)
    BY SMTT(30), LockedUpdate
  <1> HIDE DEF mb
  <1>4. [mb EXCEPT !.inflight = f \ {x}] = fewer
    BY <1>2, Zenon
  <1> HIDE DEF fewer
  <1>9. [fewer EXCEPT !.locked = k] = m
    BY <1>3, Zenon
  <1> HIDE DEF m
  <1>5. m = [mb EXCEPT !.inflight = @ \ {x}, !.locked = k]
    BY <1>1, <1>4, <1>9, Zenon
  <1>6. Abstract!IsWakeable(m)
    BY <1>1, Zenon DEF Abstract!IsWakeable
  <1>7. m \in Abstract!Published(mb, x)
    BY <1>1, <1>5, <1>6, Zenon DEF Abstract!Published
  <1>8. QED
    BY <1>7, Zenon DEF m, mb

(* A free mailbox with something in its queue has a push in flight. *)
LEMMA QueueIsWakeable ==
  ASSUME Inv
  PROVE  owner # {} \/ queue = <<>> \/ InFlight # {}
  <1> SUFFICES ASSUME owner = {}, queue # <<>> PROVE InFlight # {}
    OBVIOUS
  <1>1. 1 \in DOMAIN queue /\ queue[1] \in Item
    BY SMTT(30) DEF Inv, TypeOK
  <1>2. linked \intersect Item # {}
    BY Zenon, <1>1 DEF Inv, QueueInv
  <1>3. next[head] = Unlocked /\ head # tail
    BY Zenon, <1>2, SingletonList, DistinctNodes DEF Inv, LockInv
  <1>4. \E t \in Thread : pc[t] = "publish"
    BY Zenon, <1>3, DistinctNodes DEF Inv, LinkInv, EndsInv, Pushing, Node
  <1>5. QED
    BY Zenon, <1>4 DEF InFlight

(* ... and so after a step. *)
LEMMA QueueStaysWakeable == Inv' => (owner # {} \/ queue = <<>> \/ InFlight # {})'
  <1>1. Inv => owner # {} \/ queue = <<>> \/ InFlight # {}
    BY Zenon, QueueIsWakeable
  <1>2. QED
    BY <1>1, PTL

(* What push_prepare does to the abstract mailbox. *)
LEMMA PushRefines ==
  ASSUME Inv, NEW t \in Thread, NEW x \in Item, PushPrepare(t, x)
  PROVE  /\ queue' = Append(queue, x) /\ InFlight' = InFlight \union {x} /\ owner' = owner
         /\ \A i \in DOMAIN queue : queue[i] # x
         /\ x \notin InFlight
  <1>1. /\ queue' = Append(queue, x) /\ owner' = owner /\ x \notin linked /\ pc[t] = "idle"
        /\ \A u \in Thread : /\ pc'[u] = IF u = t THEN "publish" ELSE pc[u]
                             /\ item'[u] = IF u = t THEN x ELSE item[u]
    BY Zenon DEF PushPrepare, Inv, TypeOK
  <1>2. InFlight' = InFlight \union {x}
    BY SMTT(30), <1>1 DEF InFlight
  <1>3. QED
    BY SMTT(30), <1>1, <1>2 DEF Inv, QueueInv, PushInv, Pushing, InFlight

(* What push_publish does to it. *)
LEMMA PublishRefines ==
  ASSUME Inv, NEW t \in Thread, PushPublish(t)
  PROVE  /\ queue' = queue /\ InFlight' = InFlight \ {item[t]} /\ item[t] \in InFlight
         /\ item[t] \in Item
         /\ owner' # {} \/ owner' = owner
  <1>1. /\ queue' = queue /\ pc[t] = "publish" /\ item[t] \in Item
        /\ owner' # {} \/ owner' = owner
        /\ \A u \in Thread : /\ pc'[u] = IF u = t THEN "idle" ELSE pc[u]
                             /\ u # t => item'[u] = item[u]
    BY Zenon DEF PushPublish, Inv, TypeOK, Calls, Pushing
  <1>2. \A u \in Thread : pc[u] = "publish" /\ item[u] = item[t] => u = t
    BY Zenon, <1>1 DEF Inv, PushersInv, Pushing
  <1>3. QED
    BY SMTT(30), <1>1, <1>2 DEF InFlight

(* What a call of the consumer, or a later access of it, does to it. *)
LEMMA PopRefines ==
  ASSUME Inv, NEW t \in Thread, PopStep(t) \/ \E o \in PopOp : PopBegin(t, o)
  PROVE  /\ InFlight' = InFlight
         /\ \/ queue' = queue /\ owner' = owner
            \/ /\ owner # {} /\ owner' = owner
               /\ queue # <<>> /\ Head(queue) \notin InFlight /\ queue' = Tail(queue)
            \/ owner # {} /\ owner' = {} /\ queue' = queue
  <1>1. t \in owner /\ pc[t] # "publish" /\ owner \ {t} = {}
    BY Zenon DEF PopStep, PopCasStub, PopLoadNext, PopCasTail, PopCasHead, PopBegin, Inv, Calls,
           Consuming, LockInv
  <1>2. /\ \E label \in {"idle", "cas_stub", "load_next", "cas_tail", "cas_head"} :
             pc' = [pc EXCEPT ![t] = label]
        /\ item' = item
    BY Zenon DEF PopStep, PopCasStub, PopLoadNext, PopCasTail, PopCasHead, PopBegin,
           Goto, ReturnNothing, ReturnUnlocked, RemoveStub, Return, Done
  <1>3. InFlight' = InFlight
    <2>1. \A u \in Thread : pc'[u] = "publish" <=> pc[u] = "publish"
      BY Zenon, <1>1, <1>2 DEF Inv, TypeOK
    <2>2. QED
      BY Zenon, <1>2, <2>1 DEF InFlight
  <1>4. \/ queue' = queue /\ owner' = owner
        \/ head # Stub /\ queue' = Dropped(head) /\ owner' = owner
        \/ owner' = owner \ {t} /\ queue' = queue
    BY Zenon DEF PopStep, PopCasStub, PopLoadNext, PopCasTail, PopCasHead, PopBegin,
           Goto, ReturnNothing, ReturnUnlocked, RemoveStub, Return, Done, Inv, Calls
  <1>5. ASSUME head # Stub
        PROVE  queue # <<>> /\ Head(queue) \notin InFlight /\ Dropped(head) = Tail(queue)
    <2>1. head \in Item
      BY Zenon, <1>5 DEF Inv, TypeOK, Node
    <2>2. QED
      BY Zenon, <2>1, HeadIsNext, HeadIsFirst DEF InFlight, Pushing
  <1>6. QED
    BY <1>1, <1>3, <1>4, <1>5, Zenon

(* Both constructors make an empty mailbox of MailboxSpec. *)
LEMMA InitRefines == Init => Abstract!Init
  <1> SUFFICES ASSUME Init PROVE Abstract!Init
    OBVIOUS
  <1>1. InFlight = {} /\ queue = <<>> /\ (owner # {}) \in BOOLEAN
    BY Zenon DEF Init, InFlight
  <1>2. QED
    BY Zenon, <1>1 DEF Abstract!Init, Abstract!EmptyMailbox, InFlight

(* Every step is a step of MailboxSpec or leaves its state alone. *)
LEMMA NextRefines ==
  Inv /\ Inv' /\ [Next]_vars =>
    [Abstract!Next]_([queue    |-> queue,
                      inflight |-> {item[t] : t \in {u \in Thread : pc[u] = "publish"}},
                      locked   |-> owner # {}])
  <1> DEFINE mb == Mailbox(queue, InFlight, owner # {})
  <1> SUFFICES ASSUME Inv, Inv', [Next]_vars, mb' # mb PROVE Abstract!Next
    BY Zenon DEF Mailbox, InFlight
  <1>0. mb.queue = queue /\ mb.inflight = InFlight /\ mb.locked = (owner # {})
    BY SMTT(30), MailboxFields
  <1>1. ASSUME NEW t \in Thread, NEW x \in Item, PushPrepare(t, x) PROVE Abstract!Push(x)
    <2>1. mb' = Mailbox(Append(queue, x), InFlight \union {x}, owner # {})
      BY <1>1, PushRefines, Zenon
    <2>2. mb' = Abstract!Prepared(mb, x)
      <3>1. Abstract!Prepared(mb, x) = Mailbox(Append(queue, x), InFlight \union {x}, owner # {})
        BY ONLY SMTT(30), MailboxPrepares
      <3>2. QED
        BY <2>1, <3>1, Zenon
    <2>3. QED
      BY <1>0, <1>1, <2>2, PushRefines, Zenon DEF Abstract!Push, Mailbox, InFlight
  <1>2. ASSUME NEW t \in Thread, PushPublish(t) PROVE \E x \in Item : Abstract!Publish(x)
    <2>1. mb' = Mailbox(queue, InFlight \ {item[t]}, owner' # {})
      BY <1>2, PublishRefines, Zenon
    <2>2. (owner' # {}) \in {owner # {}, TRUE}
      BY <1>2, PublishRefines, Zenon
    <2>3. owner' # {} \/ queue = <<>> \/ InFlight \ {item[t]} # {}
      BY <1>2, PublishRefines, QueueStaysWakeable, Zenon
    <2>4. mb' \in Abstract!Published(mb, item[t])
      <3>1. Mailbox(queue, InFlight \ {item[t]}, owner' # {}) \in Abstract!Published(mb, item[t])
        BY ONLY <2>2, <2>3, MailboxPublishes, Zenon
      <3>2. QED
        BY <2>1, <3>1, Zenon
    <2>5. PICK x \in Item : x = item[t]
      BY <1>2, PublishRefines, Zenon
    <2>6. Abstract!Publish(x)
      BY <1>0, <1>2, <2>4, <2>5, PublishRefines, Zenon DEF Abstract!Publish, Mailbox, InFlight
    <2>7. QED
      BY <2>6, Zenon
  <1>3. ASSUME NEW t \in Thread, TryLock(t) PROVE Abstract!Lock
    <2>1. owner = {} /\ owner' # {} /\ queue' = queue /\ InFlight' = InFlight
      <3>1. /\ next[Stub] = Unlocked /\ owner' = owner \union {t}
            /\ queue' = queue /\ InFlight' = InFlight
        BY Zenon, <1>3 DEF TryLock, InFlight
      <3>2. owner = {}
        BY SMTT(30), <3>1 DEF Inv, LockInv, StubInv
      <3>3. QED
        BY Zenon, <3>1, <3>2
    <2>2. mb' = Mailbox(queue, InFlight, TRUE)
      BY <2>1, Zenon
    <2>3. mb' = [mb EXCEPT !.locked = TRUE]
      BY <2>2, MailboxLocks, Zenon
    <2>4. QED
      BY <1>0, <2>1, <2>3, ZenonT(40) DEF Abstract!Lock, Mailbox, InFlight
  <1>4. ASSUME NEW t \in Thread, PopStep(t) \/ \E o \in PopOp : PopBegin(t, o)
        PROVE  Abstract!Remove \/ Abstract!Unlock
    <2>1. InFlight' = InFlight
      BY <1>4, PopRefines, Zenon
    <2>2. CASE owner # {} /\ owner' = {} /\ queue' = queue
      <3>1. queue = <<>> \/ InFlight # {}
        BY <2>1, <2>2, QueueStaysWakeable, Zenon
      <3>2. mb' = Mailbox(queue, InFlight, FALSE)
        BY <2>1, <2>2, Zenon
      <3>3. Abstract!CanUnlock(mb)
        BY <1>0, <2>2, <3>1, Zenon DEF Abstract!CanUnlock
      <3>4. mb' = Abstract!Released(mb)
        BY <3>2, MailboxLocks, Zenon
      <3>5. QED
        BY <3>3, <3>4, Zenon DEF Abstract!Unlock, Mailbox, InFlight
    <2>3. CASE /\ owner # {} /\ owner' = owner
               /\ queue # <<>> /\ Head(queue) \notin InFlight /\ queue' = Tail(queue)
      <3>1. mb' = Mailbox(Tail(queue), InFlight, owner # {})
        BY <2>1, <2>3, Zenon
      <3>2. Abstract!CanRemove(mb)
        BY <1>0, <2>3, Zenon DEF Abstract!CanRemove
      <3>3. mb' = Abstract!Removed(mb)
        BY <3>1, MailboxRemoves, Zenon
      <3>4. QED
        BY <3>2, <3>3, Zenon DEF Abstract!Remove, Mailbox, InFlight
    <2>4. CASE queue' = queue /\ owner' = owner
      BY <2>1, <2>4, Zenon
    <2>5. QED
      BY <1>4, <2>2, <2>3, <2>4, PopRefines, Zenon
  <1>5. CASE UNCHANGED vars
    BY <1>5, Zenon DEF vars, InFlight
  <1>6. CASE Next
    BY <1>1, <1>2, <1>3, <1>4, <1>6, Zenon DEF Next, Abstract!Next
  <1>7. QED
    BY <1>5, <1>6, Zenon

(* The mailbox implements MailboxSpec, for any number of threads and items: *)
(* what pop hands out is the oldest push, and the lock is given up only     *)
(* when the queue is empty or a push that is still running will take it.    *)
THEOREM Refinement == Spec => ImplementsMailbox
  BY InitRefines, NextRefines, InvIsInductive, PTL DEF Spec, ImplementsMailbox, Abstract!Spec
=============================================================================
