------------------------- MODULE BlockingQueueProofs -------------------------
(***************************************************************************)
(* Proofs about BlockingQueue, for any producers, consumers and nodes: the *)
(* lock in head_ is exclusive and items leave in the order of their        *)
(* pushes.  They end with what BlockingQueueWaiters needs to follow the    *)
(* waiters.                                                                *)
(*                                                                         *)
(* Inv is a picture of the linked list.  Its first node d, the dummy, is   *)
(* in head_ or with the consumer that has the lock; the items follow in    *)
(* order; each is linked to the one in front of it, or is still being      *)
(* pushed by one producer.                                                 *)
(*                                                                         *)
(* WaiterInv is one of the waiters.  head_, every next pointer, pending,   *)
(* link and the waiter a push is about to notify are places; no waiter is  *)
(* in two of them, and it is in one until it has been notified.  The links *)
(* make lists that end, and pendingLast is the end of the one in pending.  *)
(***************************************************************************)
EXTENDS BlockingQueue, TLAPS

Word == Node \union Consumer \union {Null}

MaybeNode == Node \union {Null}

MaybeConsumer == Consumer \union {Null}

(* Where a consumer has the lock. *)
Holding == {"next", "try_next", "install_next", "unlock_waiting", "free", "grab", "load_next",
            "hand_over", "release", "grab_more", "no_item", "no_item_grab", "no_item_install"}

(* Where it has taken an item. *)
Taken == {"free", "grab", "load_next", "hand_over", "release", "grab_more", "notify"}

(* Where it has seen no item. *)
SawNone == {"install_next", "hand_over", "no_item", "no_item_grab", "no_item_install"}

Outside == {"idle", "load", "top", "install", "lock_wait", "item_wait", "try", "try_lock"}

Types ==
  /\ head \in Word /\ next \in [Node -> Word] /\ word \in [Consumer -> Word]
  /\ tail \in Node /\ live \subseteq Node /\ order \in Seq(Node)
  /\ prev \in [Producer -> MaybeNode] /\ own \in [Producer -> MaybeNode]
  /\ node \in [Consumer -> MaybeNode] /\ old \in [Consumer -> MaybeNode]
  /\ behind \in [Consumer -> MaybeConsumer] /\ pending \in [Consumer -> MaybeConsumer]
  /\ pc \in [Consumer -> Holding \union Outside \union {"notify"}]

(* What a consumer knows where it is. *)
Knows(c) ==
  /\ node[c] # Null <=> pc[c] \notin Outside
  /\ pc[c] = "try_lock" => IsNode(word[c])
  /\ pc[c] \in SawNone => ~IsNode(word[c])
  /\ old[c] # Null => pc[c] \in Taken

(* Who has the lock. *)
Locks ==
  /\ \A c \in Consumer : Knows(c)
  /\ \A c, e \in Consumer : pc[c] \in Holding /\ pc[e] \in Holding => c = e
  /\ IsNode(head) <=> \A c \in Consumer : pc[c] \notin Holding

(* d is the first node of the list. *)
Front(d) ==
  /\ d \in Node
  /\ IsNode(head) => d = head
  /\ \A c \in Consumer : pc[c] \in Holding => node[c] = d

(* The node in front of the i-th item. *)
Before(d, i) == IF i = 1 THEN d ELSE order[i - 1]

Items == 1..Len(order)

(* The nodes of the list are allocated and distinct. *)
Distinct(d) ==
  /\ d \in live
  /\ \A i \in Items : order[i] \in live /\ order[i] # d
  /\ \A i, j \in Items : order[i] = order[j] => i = j

(* Every item is linked to the node in front of it, or being pushed. *)
Linked(d) ==
  /\ tail = Before(d, Len(order) + 1) /\ ~IsNode(next[tail])
  /\ \A i \in Items :
       \/ next[Before(d, i)] = order[i]
       \/ ~IsNode(next[Before(d, i)]) /\ \E p \in Producer : own[p] = order[i]
  /\ \A p \in Producer : own[p] # Null =>
       \E i \in Items : /\ own[p] = order[i] /\ prev[p] = Before(d, i)
                        /\ ~IsNode(next[Before(d, i)])
  /\ \A p, q \in Producer : own[p] # Null /\ own[p] = own[q] => p = q

(* The nodes that are going to be freed are in no list, and nobody waits at *)
(* them.                                                                    *)
Freed(d) ==
  /\ \A c \in Consumer : old[c] # Null =>
       /\ old[c] \in live /\ old[c] # d /\ \A i \in Items : order[i] # old[c]
       /\ IsNode(next[old[c]])
  /\ \A c, e \in Consumer : old[c] # Null /\ old[c] = old[e] => c = e

Chain(d) == Distinct(d) /\ Linked(d) /\ Freed(d)

(* The next pointer that a consumer has read changed to a node, if it did. *)
Fresh ==
  \A c \in Consumer : pc[c] \in {"install_next", "hand_over"} =>
    next[node[c]] = word[c] \/ IsNode(next[node[c]])

Inv == Types /\ Locks /\ Fresh /\ \E d : Front(d) /\ Chain(d)

-----------------------------------------------------------------------------
(* What the list looks like at its first node. *)
LEMMA FrontFacts ==
  ASSUME Types, NEW d, Front(d), Chain(d)
  PROVE  /\ d \in Node /\ d \in live
         /\ Len(order) \in Nat /\ \A i \in Items : order[i] \in Node
         /\ \A i \in 1..(Len(order) + 1) : Before(d, i) \in Node /\ Before(d, i) \in live
         /\ \A i, j \in 1..(Len(order) + 1) : Before(d, i) = Before(d, j) => i = j
         /\ IsNode(next[d]) => order # <<>> /\ next[d] = order[1] /\ next[d] = Head(order)
  <1>1. d \in Node /\ d \in live /\ Len(order) \in Nat /\ \A i \in Items : order[i] \in Node
    BY SMTT(30) DEF Types, Front, Chain, Distinct, Items
  <1>2. \A i \in 1..(Len(order) + 1) : i # 1 => i - 1 \in Items
    BY SMTT(30), <1>1 DEF Items
  <1>3. \A i \in 1..(Len(order) + 1) : Before(d, i) \in Node /\ Before(d, i) \in live
    BY Zenon, <1>1, <1>2 DEF Before, Chain, Distinct
  <1>4. ASSUME NEW i \in 1..(Len(order) + 1), NEW j \in 1..(Len(order) + 1),
               Before(d, i) = Before(d, j)
        PROVE  i = j
    BY SMTT(30), <1>1, <1>2, <1>4 DEF Before, Chain, Distinct
  <1>5. ASSUME IsNode(next[d]) PROVE order # <<>> /\ next[d] = order[1] /\ next[d] = Head(order)
    <2>1. Before(d, 1) = d
      BY Zenon DEF Before
    <2>2. Len(order) # 0
      <3>1. CASE Len(order) = 0
        <4>1. tail = d
          BY SMTT(30), <3>1, <2>1 DEF Chain, Linked
        <4>2. QED
          BY Zenon, <1>5, <4>1 DEF Chain, Linked
      <3>2. QED
        BY Zenon, <3>1
    <2>3. 1 \in Items
      BY SMTT(30), <1>1, <2>2 DEF Items
    <2>4. next[d] = order[1]
      BY Zenon, <1>5, <2>1, <2>3 DEF Chain, Linked
    <2>5. order # <<>> /\ Head(order) = order[1]
      BY SMTT(30), <2>2 DEF Types
    <2>6. QED
      BY Zenon, <2>4, <2>5
  <1>6. QED
    BY Zenon, <1>1, <1>3, <1>4, <1>5

(* Consumer c takes an item: its node n is the first one now, d will be    *)
(* freed.                                                                  *)
TakesNode(c, d, n) ==
  /\ c \in Consumer /\ n = next[d] /\ IsNode(n)
  /\ old[c] = Null /\ old' = [old EXCEPT ![c] = d]
  /\ order' = SubSeq(order, 2, Len(order))
  /\ tail' = tail /\ next' = next /\ live' = live /\ own' = own /\ prev' = prev

(***************************************************************************)
(* Steps of a consumer.                                                    *)
(***************************************************************************)
(* Only consumer c moves. *)
Alone(c) ==
  \A e \in Consumer \ {c} :
    pc'[e] = pc[e] /\ node'[e] = node[e] /\ old'[e] = old[e] /\ word'[e] = word[e]

(* The next pointer in front of the items changes for the lock's owner only. *)
KeepsNext(c) == \A d : Front(d) /\ Chain(d) => next'[d] = next[d] \/ pc[c] \in Holding

(* A step takes the oldest item, if it takes one. *)
TakesOldest ==
  \A c \in Consumer : old[c] = Null /\ old'[c] # Null => order # <<>> /\ node'[c] = Head(order)

(* What a step of consumer c may do to the lock. *)
KeepsLock(c) ==
  /\ pc'[c] \in Holding <=> pc[c] \in Holding
  /\ pc[c] \in Holding => node'[c] = node[c]
  /\ head' = head \/ (~IsNode(head) /\ ~IsNode(head'))

GetsLock(c) == IsNode(head) /\ head' = Null /\ pc'[c] \in Holding /\ node'[c] = head

GivesLock(c) == pc[c] \in Holding /\ pc'[c] \notin Holding /\ head' = node[c]

(* What it may do to the list, when it takes no item. *)
KeepsList(c) ==
  /\ KeepsNext(c)
  /\ \A d : Front(d) /\ Chain(d) => Chain(d)'
  /\ \A e \in Consumer : old[e] = Null => old'[e] = Null

(* The picture of the list is right at first, and every step of every push *)
(* and pop keeps it so; what a pop takes is the oldest item.               *)
LEMMA InvSteps ==
  /\ Init => Inv
  /\ Inv /\ [Next]_vars => Inv' /\ TakesOldest
  (* push() takes its place behind the last node. *)
  <1>ChainAppends. ASSUME Types, NEW d, Front(d), Chain(d), NEW p \in Producer, NEW n \in Node, PushTail(p, n)
                   PROVE  Chain(d)'
    <2> USE <1>ChainAppends
    <2> DEFINE m == Len(order)
    <2>1. /\ d \in Node /\ d \in live /\ m \in Nat /\ \A i \in 1..m : order[i] \in Node
          /\ \A i \in 1..(m + 1) : Before(d, i) \in Node /\ Before(d, i) \in live
          /\ \A i, j \in 1..(m + 1) : Before(d, i) = Before(d, j) => i = j
      BY Zenon, FrontFacts DEF Items
    <2>2. /\ n \notin live /\ live' = live \union {n} /\ next' = [next EXCEPT ![n] = Null]
          /\ prev' = [prev EXCEPT ![p] = tail] /\ own' = [own EXCEPT ![p] = n]
          /\ tail' = n /\ order' = Append(order, n) /\ old' = old /\ own[p] = Null
      BY Zenon DEF PushTail
    <2>3. /\ Len(order') = m + 1 /\ order'[m + 1] = n /\ \A i \in 1..m : order'[i] = order[i]
          /\ Items' = 1..(m + 1)
      BY SMTT(30), <2>2 DEF Types, Items
    <2>4. /\ next'[n] = Null /\ ~IsNode(next'[n]) /\ \A x \in Node \ {n} : next'[x] = next[x]
          /\ own'[p] = n /\ prev'[p] = tail
          /\ \A q \in Producer \ {p} : own'[q] = own[q] /\ prev'[q] = prev[q]
      BY Zenon, <2>2, DistinctNames DEF Types, IsNode
    <2> HIDE DEF m
    <2>5. \A i \in 1..(m + 1) : Before(d, i)' = Before(d, i)
      BY SMTT(30), <2>1, <2>3 DEF Before
    <2>6. Distinct(d)'
      <3>1. Distinct(d) /\ \A i \in 1..m : order[i] \in live /\ order[i] # d /\ order[i] # n
        BY Zenon, <2>1, <2>2 DEF Chain, Distinct, Items, m
      <3>2. \A i, j \in 1..m : order[i] = order[j] => i = j
        BY Zenon, <3>1 DEF Distinct, Items, m
      <3>3. \A i \in 1..(m + 1) : i \in 1..m \/ i = m + 1
        BY SMTT(30), <2>1
      <3>4. QED
        BY SMTT(30), <2>1, <2>2, <2>3, <3>1, <3>2, <3>3 DEF Distinct
    <2>7. tail = Before(d, m + 1) /\ ~IsNode(next[tail]) /\ tail # n /\ tail \in Node
      BY SMTT(30), <2>1, <2>2 DEF Chain, Linked, m
    <2>8. \A i \in 1..(m + 1) : next'[Before(d, i)] = next[Before(d, i)]
      BY Zenon, <2>1, <2>2, <2>4
    <2>9. Linked(d)'
      <3>1. tail' = Before(d, Len(order) + 1)' /\ ~IsNode(next'[tail'])
        <4>1. Len(order') + 1 # 1 /\ Len(order') + 1 - 1 = m + 1
          BY SMTT(30), <2>1, <2>3
        <4>2. Before(d, Len(order) + 1)' = order'[m + 1]
          BY SMTT(30), <4>1 DEF Before
        <4>3. QED
          BY Zenon, <2>2, <2>3, <2>4, <4>2
      <3>2. ASSUME NEW i \in Items'
            PROVE  \/ next'[Before(d, i)'] = order'[i]
                   \/ ~IsNode(next'[Before(d, i)']) /\ \E q \in Producer : own'[q] = order'[i]
        <4>1. CASE i \in 1..m
          <5>1. \/ next[Before(d, i)] = order[i]
                \/ ~IsNode(next[Before(d, i)]) /\ \E q \in Producer : own[q] = order[i]
            BY Zenon, <4>1 DEF Chain, Linked, Items, m
          <5>2. \A q \in Producer : own[q] = order[i] => q # p
            BY Zenon, <2>1, <2>2, <4>1, DistinctNames
          <5>3. i \in 1..(m + 1)
            BY SMTT(30), <2>1, <4>1
          <5>4. QED
            BY Zenon, <2>3, <2>4, <2>5, <2>8, <4>1, <5>1, <5>2, <5>3
        <4>2. CASE i = m + 1
          BY Zenon, <2>1, <2>3, <2>4, <2>5, <2>7, <2>8, <4>2
        <4>3. QED
          BY SMTT(30), <2>1, <2>3, <3>2, <4>1, <4>2
      <3>3. ASSUME NEW q \in Producer, own'[q] # Null
            PROVE  \E i \in Items' : /\ own'[q] = order'[i] /\ prev'[q] = Before(d, i)'
                                     /\ ~IsNode(next'[Before(d, i)'])
        <4>1. CASE q = p
          <5>1. m + 1 \in Items'
            BY SMTT(30), <2>1, <2>3
          <5>2. QED
            BY SMTT(30), <2>3, <2>4, <2>5, <2>7, <2>8, <4>1, <5>1
        <4>2. CASE q # p
          <5>1. PICK i \in 1..m : own[q] = order[i] /\ prev[q] = Before(d, i) /\ ~IsNode(next[Before(d, i)])
            BY Zenon, <2>4, <3>3, <4>2 DEF Chain, Linked, Items, m
          <5>2. i \in 1..(m + 1) /\ i \in Items'
            BY SMTT(30), <2>1, <2>3
          <5>3. QED
            BY Zenon, <2>3, <2>4, <2>5, <2>8, <4>2, <5>1, <5>2
        <4>3. QED
          BY Zenon, <4>1, <4>2
      <3>4. ASSUME NEW q \in Producer, NEW s \in Producer, own'[q] # Null, own'[q] = own'[s]
            PROVE  q = s
        <4>1. \A x \in Producer : own[x] # Null => own[x] # n
          BY SMTT(30), <2>2 DEF Chain, Linked, Distinct
        <4>2. n # Null
          BY Zenon, DistinctNames
        <4>3. QED
          BY SMTT(30), <2>2, <2>4, <3>4, <4>1, <4>2 DEF Chain, Linked
      <3>5. QED
        BY Zenon, <3>1, <3>2, <3>3, <3>4 DEF Linked
    <2>10. Freed(d)'
      <3>1. ASSUME NEW c \in Consumer, old[c] # Null
            PROVE  /\ old[c] \in live' /\ old[c] # d /\ \A i \in Items' : order'[i] # old[c]
                   /\ IsNode(next'[old[c]])
        <4>1. /\ old[c] \in live /\ old[c] # d /\ \A i \in 1..m : order[i] # old[c]
              /\ IsNode(next[old[c]]) /\ old[c] \in Node
          BY Zenon, <3>1 DEF Chain, Freed, Items, m, Types
        <4>2. old[c] # n /\ next'[old[c]] = next[old[c]]
          BY Zenon, <2>2, <2>4, <4>1
        <4>3. \A i \in 1..(m + 1) : i \in 1..m \/ i = m + 1
          BY SMTT(30), <2>1
        <4>4. QED
          BY Zenon, <2>2, <2>3, <4>1, <4>2, <4>3
      <3>2. \A c, e \in Consumer : old[c] # Null /\ old[c] = old[e] => c = e
        BY Zenon DEF Chain, Freed
      <3>3. QED
        BY Zenon, <2>2, <3>1, <3>2 DEF Freed
    <2>11. QED
      BY Zenon, <2>6, <2>9, <2>10 DEF Chain
  (* push() links its node to the one in front of it. *)
  <1>ChainLinks. ASSUME Types, NEW d, Front(d), Chain(d), NEW p \in Producer, PushNext(p)
                 PROVE  Chain(d)' /\ own[p] # Null /\ prev[p] \in live /\ ~IsNode(next[prev[p]]) /\ own[p] \in Node
    <2> USE <1>ChainLinks
    <2> DEFINE m == Len(order)
    <2>1. /\ d \in Node /\ d \in live /\ m \in Nat /\ \A i \in 1..m : order[i] \in Node
          /\ \A i \in 1..(m + 1) : Before(d, i) \in Node /\ Before(d, i) \in live
          /\ \A i, j \in 1..(m + 1) : Before(d, i) = Before(d, j) => i = j
      BY Zenon, FrontFacts DEF Items
    <2>2. /\ own[p] # Null /\ next' = [next EXCEPT ![prev[p]] = own[p]]
          /\ own' = [own EXCEPT ![p] = Null] /\ prev' = [prev EXCEPT ![p] = Null]
          /\ tail' = tail /\ order' = order /\ live' = live /\ old' = old
      BY Zenon DEF PushNext
    <2>3. PICK k \in 1..m : own[p] = order[k] /\ prev[p] = Before(d, k) /\ ~IsNode(next[Before(d, k)])
      BY Zenon, <2>2 DEF Chain, Linked, Items
    <2>4. k \in 1..(m + 1) /\ Before(d, k) \in Node /\ order[k] \in Node
      BY SMTT(30), <2>1
    <2>5. /\ next'[Before(d, k)] = order[k]
          /\ \A i \in 1..(m + 1) : i # k => next'[Before(d, i)] = next[Before(d, i)]
          /\ own'[p] = Null
          /\ \A q \in Producer \ {p} : own'[q] = own[q] /\ prev'[q] = prev[q]
      BY Zenon, <2>1, <2>2, <2>3, <2>4 DEF Types
    <2>6. \A i : Before(d, i)' = Before(d, i)
      BY Zenon, <2>2 DEF Before
    <2>7. Items' = 1..m /\ Items = 1..m
      BY Zenon, <2>2 DEF Items
    <2>8. Distinct(d)' /\ Freed(d)'
      <3>1. Distinct(d)'
        BY Zenon, <2>2, <2>7 DEF Distinct, Chain
      <3>2. \A x \in live : IsNode(next[x]) => next'[x] = next[x]
        BY Zenon, <2>2, <2>3 DEF Types
      <3>3. QED
        BY SMTT(30), <2>2, <2>7, <3>1, <3>2 DEF Freed, Chain
    <2>9. Linked(d)'
      <3>1. tail' = Before(d, Len(order) + 1)' /\ ~IsNode(next'[tail'])
        <4>1. tail = Before(d, m + 1) /\ ~IsNode(next[tail]) /\ m + 1 # k /\ m + 1 \in 1..(m + 1)
          BY SMTT(30), <2>1 DEF Chain, Linked
        <4>2. QED
          BY Zenon, <2>2, <2>5, <2>6, <4>1
      <3>2. ASSUME NEW i \in 1..m
            PROVE  \/ next'[Before(d, i)] = order[i]
                   \/ ~IsNode(next'[Before(d, i)]) /\ \E q \in Producer : own'[q] = order[i]
        <4>1. CASE i = k
          BY Zenon, <2>5, <4>1
        <4>2. CASE i # k
          <5>1. order[i] # order[k]
            BY Zenon, <2>7, <4>2 DEF Chain, Distinct
          <5>2. \A q \in Producer : own[q] = order[i] => own'[q] = order[i]
            BY Zenon, <2>3, <2>5, <5>1
          <5>3. \/ next[Before(d, i)] = order[i]
                \/ ~IsNode(next[Before(d, i)]) /\ \E q \in Producer : own[q] = order[i]
            BY Zenon, <2>7 DEF Chain, Linked
          <5>4. i \in 1..(m + 1)
            BY SMTT(30), <2>1
          <5>5. QED
            BY Zenon, <2>5, <4>2, <5>2, <5>3, <5>4
        <4>3. QED
          BY Zenon, <4>1, <4>2
      <3>3. ASSUME NEW q \in Producer, own'[q] # Null
            PROVE  \E i \in 1..m : /\ own'[q] = order[i] /\ prev'[q] = Before(d, i)
                                   /\ ~IsNode(next'[Before(d, i)])
        <4>1. q # p /\ own'[q] = own[q] /\ prev'[q] = prev[q]
          BY Zenon, <2>5, <3>3
        <4>2. PICK i \in 1..m : own[q] = order[i] /\ prev[q] = Before(d, i) /\ ~IsNode(next[Before(d, i)])
          BY Zenon, <2>7, <3>3, <4>1 DEF Chain, Linked
        <4>3. i # k
          BY SMTT(30), <2>2, <2>3, <4>1, <4>2 DEF Chain, Linked
        <4>4. i \in 1..(m + 1)
          BY SMTT(30), <2>1
        <4>5. QED
          BY Zenon, <2>5, <4>1, <4>2, <4>3, <4>4
      <3>4. \A q, s \in Producer : own'[q] # Null /\ own'[q] = own'[s] => q = s
        BY SMTT(30), <2>5 DEF Chain, Linked
      <3>5. QED
        BY SMTT(30), <2>2, <2>6, <2>7, <3>1, <3>2, <3>3, <3>4 DEF Linked
    <2>10. QED
      BY Zenon, <2>1, <2>2, <2>3, <2>4, <2>8, <2>9 DEF Chain
  (* The list after that. *)
  <1>ChainTakes. ASSUME Types, NEW c, NEW d, NEW n, Front(d), Chain(d), TakesNode(c, d, n)
                 PROVE  Chain(n)' /\ order # <<>> /\ n = Head(order)
    <2> USE <1>ChainTakes
    <2> USE DEF TakesNode
    <2> DEFINE m == Len(order)
    <2>1. /\ d \in Node /\ d \in live /\ m \in Nat /\ \A i \in 1..m : order[i] \in Node
          /\ \A i \in 1..(m + 1) : Before(d, i) \in Node /\ Before(d, i) \in live
          /\ \A i, j \in 1..(m + 1) : Before(d, i) = Before(d, j) => i = j
          /\ order # <<>> /\ n = order[1] /\ n = Head(order)
      BY Zenon, FrontFacts DEF Items
    <2>2. m # 0 /\ order \in Seq(Node)
      BY SMTT(30), <2>1 DEF Types
    <2>3. /\ Len(order') = m - 1 /\ \A i \in 1..(m - 1) : order'[i] = order[i + 1]
          /\ Items' = 1..(m - 1) /\ Items = 1..m
      <3>1. SubSeq(order, 2, m) = Tail(order)
        BY SMTT(30), <2>1, <2>2
      <3>2. Len(Tail(order)) = m - 1 /\ \A i \in 1..(m - 1) : Tail(order)[i] = order[i + 1]
        BY SMTT(30), <2>1, <2>2
      <3>3. QED
        BY Zenon, <3>1, <3>2 DEF Items
    <2> HIDE DEF m
    <2>4. \A i \in 1..m : Before(n, i)' = Before(d, i + 1)
      BY SMTT(30), <2>1, <2>2, <2>3 DEF Before
    <2>5. \A i \in 1..(m - 1) : i + 1 \in 1..m /\ i \in 1..m
      BY SMTT(30), <2>1
    <2>6. /\ \A i \in 1..m : order[i] \in live /\ order[i] # d
          /\ \A i, j \in 1..m : order[i] = order[j] => i = j
      BY Zenon, <2>3 DEF Chain, Distinct
    <2>7. 1 \in 1..m /\ \A i \in 1..(m - 1) : i + 1 # 1
      BY SMTT(30), <2>1, <2>2
    <2>8. Distinct(n)'
      <3>1. n \in live'
        BY Zenon, <2>1, <2>6, <2>7
      <3>2. \A i \in 1..(m - 1) : order'[i] \in live' /\ order'[i] # n
        BY SMTT(30), <2>1, <2>3, <2>5, <2>6, <2>7
      <3>3. \A i, j \in 1..(m - 1) : order'[i] = order'[j] => i = j
        <4>1. ASSUME NEW i \in 1..(m - 1), NEW j \in 1..(m - 1), order'[i] = order'[j] PROVE i = j
          <5>1. i + 1 = j + 1
            BY SMTT(30), <2>3, <2>5, <2>6, <4>1
          <5>2. QED
            BY SMTT(30), <5>1
        <4>2. QED
          BY Zenon, <4>1
      <3>4. QED
        BY Zenon, <2>3, <3>1, <3>2, <3>3 DEF Distinct
    <2>9. Linked(n)'
      <3>1. tail' = Before(n, Len(order) + 1)' /\ ~IsNode(next'[tail'])
        <4>1. Before(d, m + 1) = order[m] /\ tail = Before(d, m + 1) /\ ~IsNode(next[tail])
          BY SMTT(30), <2>1, <2>2 DEF Chain, Linked, Before, m
        <4>2. Before(n, Len(order) + 1)' = IF m = 1 THEN n ELSE order'[m - 1]
          BY SMTT(30), <2>1, <2>2, <2>3 DEF Before
        <4>3. Before(n, Len(order) + 1)' = order[m]
          BY SMTT(30), <2>1, <2>2, <2>3, <4>2
        <4>4. QED
          BY Zenon, <4>1, <4>3
      <3>2. ASSUME NEW i \in 1..(m - 1)
            PROVE  \/ next'[Before(n, i)'] = order'[i]
                   \/ ~IsNode(next'[Before(n, i)']) /\ \E q \in Producer : own'[q] = order'[i]
        <4>1. \/ next[Before(d, i + 1)] = order[i + 1]
              \/ ~IsNode(next[Before(d, i + 1)]) /\ \E q \in Producer : own[q] = order[i + 1]
          BY Zenon, <2>3, <2>5 DEF Chain, Linked
        <4>2. QED
          BY Zenon, <2>3, <2>4, <2>5, <4>1
      <3>3. ASSUME NEW q \in Producer, own'[q] # Null
            PROVE  \E i \in 1..(m - 1) : /\ own'[q] = order'[i] /\ prev'[q] = Before(n, i)'
                                         /\ ~IsNode(next'[Before(n, i)'])
        <4>1. PICK i \in 1..m : own[q] = order[i] /\ prev[q] = Before(d, i) /\ ~IsNode(next[Before(d, i)])
          BY Zenon, <2>3, <3>3 DEF Chain, Linked
        <4>2. i # 1
          BY Zenon, <4>1 DEF Before
        <4>3. i - 1 \in 1..(m - 1) /\ i - 1 \in 1..m /\ (i - 1) + 1 = i
          BY SMTT(30), <2>1, <4>2
        <4>4. order'[i - 1] = order[i] /\ Before(n, i - 1)' = Before(d, i)
          BY Zenon, <2>3, <2>4, <4>3
        <4>5. QED
          BY Zenon, <4>1, <4>3, <4>4
      <3>4. \A q, s \in Producer : own'[q] # Null /\ own'[q] = own'[s] => q = s
        BY Zenon DEF Chain, Linked
      <3>5. QED
        BY Zenon, <2>3, <3>1, <3>2, <3>3, <3>4 DEF Linked
    <2>10. Freed(n)'
      <3>1. old'[c] = d /\ \A e \in Consumer \ {c} : old'[e] = old[e]
        BY Zenon DEF Types
      <3>2. \A e \in Consumer : old[e] # Null =>
              /\ old[e] \in live /\ old[e] # d /\ \A i \in 1..m : order[i] # old[e]
              /\ IsNode(next[old[e]])
        BY Zenon, <2>3 DEF Chain, Freed
      <3>3. ASSUME NEW e \in Consumer, old'[e] # Null
            PROVE  /\ old'[e] \in live' /\ old'[e] # n /\ \A i \in 1..(m - 1) : order'[i] # old'[e]
                   /\ IsNode(next'[old'[e]])
        <4>1. CASE e = c
          <5>1. d \in live /\ d # n /\ \A i \in 1..(m - 1) : order'[i] # d
            BY SMTT(30), <2>1, <2>3, <2>5, <2>6, <2>7
          <5>2. live' = live /\ next' = next /\ IsNode(next[d])
            OBVIOUS
          <5>3. QED
            BY ONLY Zenon, <3>1, <4>1, <5>1, <5>2
        <4>2. CASE e # c
          <5>1. /\ old'[e] = old[e] /\ old[e] \in live /\ \A i \in 1..m : order[i] # old[e]
                /\ IsNode(next[old[e]])
            BY Zenon, <3>1, <3>2, <3>3, <4>2
          <5>2. old[e] # n /\ \A i \in 1..(m - 1) : order'[i] # old[e]
            BY Zenon, <2>1, <2>3, <2>5, <2>7, <5>1
          <5>3. live' = live /\ next' = next
            OBVIOUS
          <5>4. QED
            BY ONLY Zenon, <5>1, <5>2, <5>3
        <4>3. QED
          BY Zenon, <4>1, <4>2
      <3>4. \A e, f \in Consumer : old'[e] # Null /\ old'[e] = old'[f] => e = f
        <4>1. \A e, f \in Consumer : old[e] # Null /\ old[e] = old[f] => e = f
          BY Zenon DEF Chain, Freed
        <4>2. \A e \in Consumer \ {c} : old'[e] # d \/ old'[e] = Null
          BY Zenon, <3>1, <3>2
        <4>3. d # Null
          BY Zenon, <2>1, DistinctNames
        <4>4. QED
          BY SMTT(30), <3>1, <4>1, <4>2, <4>3
      <3>5. QED
        BY Zenon, <2>3, <3>3, <3>4 DEF Freed
    <2>11. QED
      BY Zenon, <2>1, <2>8, <2>9, <2>10 DEF Chain
  (* Waiters are put into the next pointer of the first node. *)
  <1>ChainWaits. ASSUME Types, NEW d, Front(d), Chain(d), NEW v, ~IsNode(v), ~IsNode(next[d]),
                        next' = [next EXCEPT ![d] = v], UNCHANGED <<tail, live, own, prev, order, old>>
                 PROVE  Chain(d)'
    <2> USE <1>ChainWaits
    <2>1. /\ d \in Node /\ Len(order) \in Nat
          /\ \A i \in 1..(Len(order) + 1) : Before(d, i) \in Node
          /\ \A i \in Items : i \in 1..(Len(order) + 1)
      BY SMTT(30), FrontFacts DEF Items
    <2>2. Items' = Items /\ \A i : Before(d, i)' = Before(d, i)
      BY Zenon DEF Items, Before
    <2>3. \A x \in Node : /\ next[x] # next'[x] => ~IsNode(next[x])
                          /\ IsNode(next'[x]) <=> IsNode(next[x])
      BY Zenon, <2>1 DEF Types
    <2>4. Distinct(d)' /\ Freed(d)'
      <3>1. live \subseteq Node
        BY Zenon DEF Types
      <3>2. QED
        BY SMTT(30), <2>2, <2>3, <3>1 DEF Chain, Distinct, Freed
    <2>5. Linked(d)'
      <3>1. tail' = Before(d, Len(order) + 1)' /\ ~IsNode(next'[tail'])
        <4>1. tail \in Node /\ tail = Before(d, Len(order) + 1) /\ ~IsNode(next[tail])
          BY Zenon DEF Types, Chain, Linked
        <4>2. Before(d, Len(order) + 1)' = Before(d, Len(order) + 1)
          BY Zenon DEF Before
        <4>3. QED
          BY Zenon, <2>3, <4>1, <4>2
      <3>2. ASSUME NEW i \in Items
            PROVE  \/ next'[Before(d, i)] = order[i]
                   \/ ~IsNode(next'[Before(d, i)]) /\ \E q \in Producer : own[q] = order[i]
        <4>1. \/ next[Before(d, i)] = order[i]
              \/ ~IsNode(next[Before(d, i)]) /\ \E q \in Producer : own[q] = order[i]
          BY Zenon DEF Chain, Linked
        <4>2. IsNode(order[i]) /\ Before(d, i) \in Node
          BY Zenon, <2>1, FrontFacts DEF IsNode
        <4>3. QED
          BY Zenon, <2>3, <4>1, <4>2
      <3>3. ASSUME NEW q \in Producer, own[q] # Null
            PROVE  \E i \in Items : /\ own[q] = order[i] /\ prev[q] = Before(d, i)
                                    /\ ~IsNode(next'[Before(d, i)])
        <4>1. PICK i \in Items : own[q] = order[i] /\ prev[q] = Before(d, i) /\ ~IsNode(next[Before(d, i)])
          BY Zenon, <3>3 DEF Chain, Linked
        <4>2. QED
          BY Zenon, <2>1, <2>3, <4>1
      <3>4. \A q, s \in Producer : own[q] # Null /\ own[q] = own[s] => q = s
        BY Zenon DEF Chain, Linked
      <3>5. QED
        BY SMTT(30), <2>2, <3>1, <3>2, <3>3, <3>4 DEF Linked
    <2>6. QED
      BY Zenon, <2>4, <2>5 DEF Chain
  (* pop() returns and frees the node that was in front of its item. *)
  <1>ChainFrees. ASSUME Types, NEW d, Front(d), Chain(d), NEW c \in Consumer, live' = live \ {old[c]},
                        next' = [n \in Node |-> IF n = old[c] THEN Null ELSE next[n]],
                        old' = [old EXCEPT ![c] = Null], UNCHANGED <<tail, own, prev, order>>
                 PROVE  Chain(d)' /\ next'[d] = next[d]
    <2> USE <1>ChainFrees
    <2>1. Items' = Items /\ \A i : Before(d, i)' = Before(d, i)
      BY Zenon DEF Items, Before
    <2>2. Before(d, Len(order) + 1)' = Before(d, Len(order) + 1)
      BY Zenon DEF Before
    <2>4. /\ d \in live /\ \A i \in Items : order[i] \in live
          /\ live \subseteq Node /\ Null \notin Node
      BY Zenon, DistinctNames DEF Chain, Distinct, Types
    <2>5. /\ old[c] # d /\ \A i \in Items : order[i] # old[c]
      BY SMTT(30), <2>4 DEF Chain, Freed
    <2>3. Linked(d)' /\ next'[d] = next[d]
      <3>1. /\ Len(order) \in Nat /\ \A i \in 1..(Len(order) + 1) : Before(d, i) \in Node
            /\ \A i \in Items : i \in 1..(Len(order) + 1)
            /\ Len(order) + 1 \in 1..(Len(order) + 1)
        BY SMTT(30), FrontFacts DEF Items
      <3>2. \A i \in 1..(Len(order) + 1) : Before(d, i) # old[c]
        <4>1. \A i \in 1..(Len(order) + 1) : i # 1 => i - 1 \in Items
          BY SMTT(30), <3>1 DEF Items
        <4>2. QED
          BY Zenon, <2>5, <4>1 DEF Before
      <3>3. \A i \in 1..(Len(order) + 1) : next'[Before(d, i)] = next[Before(d, i)]
        BY Zenon, <3>1, <3>2
      <3>4. tail' = Before(d, Len(order) + 1)' /\ ~IsNode(next'[tail'])
        BY Zenon, <2>2, <3>1, <3>3 DEF Chain, Linked
      <3>5. ASSUME NEW i \in Items
            PROVE  \/ next'[Before(d, i)'] = order'[i]
                   \/ ~IsNode(next'[Before(d, i)']) /\ \E q \in Producer : own'[q] = order'[i]
        <4>1. \/ next[Before(d, i)] = order[i]
              \/ ~IsNode(next[Before(d, i)]) /\ \E q \in Producer : own[q] = order[i]
          BY Zenon DEF Chain, Linked
        <4>2. next'[Before(d, i)'] = next[Before(d, i)]
          BY Zenon, <2>1, <3>1, <3>3
        <4>3. QED
          BY Zenon, <4>1, <4>2
      <3>6. ASSUME NEW q \in Producer, own'[q] # Null
            PROVE  \E i \in Items' : /\ own'[q] = order'[i] /\ prev'[q] = Before(d, i)'
                                     /\ ~IsNode(next'[Before(d, i)'])
        <4>1. PICK i \in Items : own[q] = order[i] /\ prev[q] = Before(d, i) /\ ~IsNode(next[Before(d, i)])
          BY Zenon, <3>6 DEF Chain, Linked
        <4>2. next'[Before(d, i)'] = next[Before(d, i)] /\ Before(d, i)' = Before(d, i)
          BY Zenon, <2>1, <3>1, <3>3
        <4>3. QED
          BY Zenon, <2>1, <4>1, <4>2
      <3>7. \A q, s \in Producer : own'[q] # Null /\ own'[q] = own'[s] => q = s
        BY Zenon DEF Chain, Linked
      <3>8. QED
        BY Zenon, <2>1, <2>4, <2>5, <3>4, <3>5, <3>6, <3>7 DEF Linked
    <2>6. Distinct(d)'
      BY Zenon, <2>1, <2>4, <2>5 DEF Chain, Distinct
    <2>7. old'[c] = Null /\ \A e \in Consumer \ {c} : old'[e] = old[e]
      BY Zenon DEF Types
    <2>8. \A e \in Consumer : old'[e] # Null => e # c /\ old'[e] = old[e] /\ old[e] # old[c]
      BY Zenon, <2>7 DEF Chain, Freed
    <2>9. Freed(d)'
      <3>1. \A e \in Consumer : old'[e] # Null => old[e] \in live /\ next'[old[e]] = next[old[e]]
        BY Zenon, <2>4, <2>8 DEF Chain, Freed
      <3>2. QED
        BY SMTT(30), <2>1, <2>8, <3>1 DEF Chain, Freed
    <2>10. QED
      BY Zenon, <2>3, <2>6, <2>9 DEF Chain
  (* The list is not touched. *)
  <1>ChainStays. ASSUME NEW d, Chain(d), UNCHANGED <<tail, next, live, own, prev, order, old>>
                 PROVE  Chain(d)'
    <2> USE <1>ChainStays
    <2>1. Items' = Items /\ \A i : Before(d, i)' = Before(d, i)
      BY Zenon DEF Items, Before
    <2>2. Before(d, Len(order) + 1)' = Before(d, Len(order) + 1)
      BY Zenon DEF Before
    <2>3. QED
      BY SMTT(30), <2>1, <2>2 DEF Chain, Distinct, Linked, Freed
  (* The others still know what they knew. *)
  <1>OthersKnow. ASSUME Locks, NEW c \in Consumer, Alone(c), Knows(c)'
                 PROVE  \A e \in Consumer : Knows(e)'
    BY <1>OthersKnow, Zenon DEF Locks, Alone, Knows
  (* The lock does not change hands. *)
  <1>LockStays. ASSUME Locks, NEW d, Front(d), NEW c \in Consumer, Alone(c), Knows(c)',
                       pc'[c] \in Holding <=> pc[c] \in Holding,
                       pc[c] \in Holding => node'[c] = node[c],
                       head' = head \/ (~IsNode(head) /\ ~IsNode(head'))
                PROVE  Locks' /\ Front(d)'
    <2> USE <1>LockStays
    <2>1. \A e \in Consumer : Knows(e)'
      BY Zenon, <1>OthersKnow
    <2>2. \A e \in Consumer : pc'[e] \in Holding <=> pc[e] \in Holding
      BY Zenon DEF Alone
    <2>3. \A e \in Consumer : pc[e] \in Holding => node'[e] = node[e]
      BY Zenon DEF Alone
    <2>4. Locks'
      BY Zenon, <2>1, <2>2 DEF Locks
    <2>5. Front(d)'
      BY Zenon, <2>2, <2>3 DEF Front
    <2>6. QED
      BY Zenon, <2>4, <2>5
  (* Consumer c removes the node from head_. *)
  <1>LockIsTaken. ASSUME Locks, NEW d, Front(d), NEW c \in Consumer, Alone(c), Knows(c)',
                         IsNode(head), head' = Null, pc'[c] \in Holding, node'[c] = head
                  PROVE  Locks' /\ Front(d)'
    <2> USE <1>LockIsTaken
    <2>1. \A e \in Consumer : Knows(e)'
      BY Zenon, <1>OthersKnow
    <2>2. \A e \in Consumer : pc'[e] \in Holding <=> e = c
      BY Zenon DEF Alone, Locks
    <2>3. ~IsNode(head')
      BY Zenon, DistinctNames DEF IsNode
    <2>4. Locks'
      BY Zenon, <2>1, <2>2, <2>3 DEF Locks
    <2>5. Front(d)'
      BY Zenon, <2>2, <2>3 DEF Front
    <2>6. QED
      BY Zenon, <2>4, <2>5
  (* Consumer c puts it back. *)
  <1>LockIsGiven. ASSUME Locks, NEW d, Front(d), NEW c \in Consumer, Alone(c), Knows(c)',
                         pc[c] \in Holding, pc'[c] \notin Holding, head' = node[c]
                  PROVE  Locks' /\ Front(d)'
    <2> USE <1>LockIsGiven
    <2>1. \A e \in Consumer : Knows(e)'
      BY Zenon, <1>OthersKnow
    <2>2. \A e \in Consumer : pc'[e] \notin Holding
      BY Zenon DEF Alone, Locks
    <2>3. IsNode(head') /\ head' = d
      BY Zenon DEF IsNode, Front
    <2>4. Locks'
      BY Zenon, <2>1, <2>2, <2>3 DEF Locks
    <2>5. Front(d)'
      BY Zenon, <2>2, <2>3 DEF Front
    <2>6. QED
      BY Zenon, <2>4, <2>5
  (* The consumer with the lock goes on to the next node. *)
  <1>LockMoves. ASSUME Locks, NEW c \in Consumer, Alone(c), Knows(c)', NEW n \in Node,
                       pc[c] \in Holding, pc'[c] \in Holding, node'[c] = n, head' = head
                PROVE  Locks' /\ Front(n)'
    <2> USE <1>LockMoves
    <2>1. \A e \in Consumer : Knows(e)'
      BY Zenon, <1>OthersKnow
    <2>2. \A e \in Consumer : pc'[e] \in Holding <=> e = c
      BY Zenon DEF Alone, Locks
    <2>3. ~IsNode(head')
      BY Zenon DEF Locks
    <2>4. Locks'
      BY Zenon, <2>1, <2>2, <2>3 DEF Locks
    <2>5. Front(n)'
      BY Zenon, <2>2, <2>3 DEF Front
    <2>6. QED
      BY Zenon, <2>4, <2>5
  (* What a consumer has read of the next pointer is what it was. *)
  <1>FreshStays. ASSUME Locks, Fresh, \E d : Front(d) /\ Chain(d), NEW c \in Consumer, Alone(c), KeepsNext(c),
                        pc'[c] \in {"install_next", "hand_over"} =>
                          next'[node'[c]] = word'[c] \/ IsNode(next'[node'[c]])
                 PROVE  Fresh'
    <2> USE <1>FreshStays
    <2> SUFFICES ASSUME NEW e \in Consumer, e # c, pc[e] \in {"install_next", "hand_over"}
                 PROVE  next'[node[e]] = word[e] \/ IsNode(next'[node[e]])
      BY Zenon DEF Fresh, Alone
    <2>1. pc[e] \in Holding
      BY Zenon DEF Holding
    <2>2. PICK d : Front(d) /\ Chain(d)
      OBVIOUS
    <2>3. next'[node[e]] = next[node[e]]
      BY Zenon, <2>1, <2>2 DEF Locks, Front, KeepsNext
    <2>4. QED
      BY Zenon, <2>3 DEF Fresh
  (* The item in the next pointer is taken, by the consumer with the lock. *)
  <1>TakeInv. ASSUME Inv, NEW c \in Consumer, pc[c] \in Holding, old[c] = Null, NEW n, n = next[node[c]],
                     IsNode(n), Take(c, n), UNCHANGED <<head, tail, next, live, own, prev, behind, pending>>
              PROVE  Inv' /\ TakesOldest
    <2> USE <1>TakeInv
    <2>1. PICK d : Front(d) /\ Chain(d)
      BY Zenon DEF Inv
    <2>2. node[c] = d /\ d \in Node /\ n \in Node /\ n # Null /\ d # Null
      BY Zenon, <2>1, DistinctNames DEF Front, IsNode
    <2>3. /\ old' = [old EXCEPT ![c] = d] /\ node' = [node EXCEPT ![c] = n]
          /\ word' = [word EXCEPT ![c] = Null] /\ order' = SubSeq(order, 2, Len(order))
          /\ pc' = [pc EXCEPT ![c] = IF pending[c] = Null THEN "free" ELSE "load_next"]
      BY Zenon, <2>2 DEF Take, Goto
    <2>4. /\ pc'[c] \in {"free", "load_next"} /\ node'[c] = n /\ old'[c] = d /\ word'[c] = Null
          /\ Alone(c)
      BY Zenon, <2>3 DEF Inv, Types, Alone
    <2>5. Chain(n)' /\ order # <<>> /\ n = Head(order)
      <3>1. Types
        BY Zenon DEF Inv
      <3>2. TakesNode(c, d, n)
        BY Zenon, <2>2, <2>3 DEF TakesNode
      <3>3. QED
        BY ONLY SMTT(30), <2>1, <3>1, <3>2, <1>ChainTakes
    <2>6. Types'
      <3>1. order' \in Seq(Node)
        <4>1. order \in Seq(Node)
          BY Zenon DEF Inv, Types
        <4>2. SubSeq(order, 2, Len(order)) = Tail(order) /\ Tail(order) \in Seq(Node)
          BY SMTT(30), <2>5, <4>1
        <4>3. QED
          BY Zenon, <2>3, <4>2
      <3>2. (IF pending[c] = Null THEN "free" ELSE "load_next") \in Holding
        BY Zenon DEF Holding
      <3>3. QED
        BY Zenon, <2>2, <2>3, <3>1, <3>2 DEF Inv, Types, MaybeNode, Word
    <2>7. Knows(c)'
      BY Zenon, <2>2, <2>4 DEF Knows, Outside, SawNone, Taken
    <2>8. pc'[c] \in Holding
      BY Zenon, <2>4 DEF Holding
    <2>9. Locks' /\ Front(n)'
      BY Zenon, <2>2, <2>4, <2>7, <2>8, <1>LockMoves DEF Inv
    <2>10. Fresh'
      BY Zenon, <2>4, <1>FreshStays DEF Inv, KeepsNext
    <2>11. TakesOldest
      BY Zenon, <2>4, <2>5 DEF TakesOldest, Alone
    <2>12. QED
      BY Zenon, <2>5, <2>6, <2>9, <2>10, <2>11 DEF Inv
  (* A step of a consumer that takes no item. *)
  <1>ConsumerInv. ASSUME Inv, Types', NEW c \in Consumer, Alone(c), Knows(c)', KeepsList(c),
                         KeepsLock(c) \/ GetsLock(c) \/ GivesLock(c),
                         pc'[c] \in {"install_next", "hand_over"} =>
                           next'[node'[c]] = word'[c] \/ IsNode(next'[node'[c]])
                  PROVE  Inv' /\ TakesOldest
    <2> USE <1>ConsumerInv
    <2>1. PICK d : Front(d) /\ Chain(d)
      BY Zenon DEF Inv
    <2>2. Locks /\ Fresh
      BY Zenon DEF Inv
    <2>3. Locks' /\ Front(d)'
      BY Zenon, <2>1, <2>2, <1>LockStays, <1>LockIsTaken, <1>LockIsGiven DEF KeepsLock, GetsLock, GivesLock
    <2>4. Fresh'
      BY Zenon, <2>1, <2>2, <1>FreshStays DEF KeepsList
    <2>5. Chain(d)' /\ TakesOldest
      BY Zenon, <2>1 DEF KeepsList, TakesOldest
    <2>6. QED
      BY Zenon, <2>3, <2>4, <2>5 DEF Inv
  (* The list is not touched at all. *)
  <1>ListStays. ASSUME NEW c, UNCHANGED <<tail, next, live, own, prev, order, old>>
                PROVE  KeepsList(c)
    BY <1>ListStays, Zenon, <1>ChainStays DEF KeepsList, KeepsNext
  (* Its nodes are, by the return of pop(). *)
  <1>ListFrees. ASSUME Types, NEW c \in Consumer, live' = live \ {old[c]}, old' = [old EXCEPT ![c] = Null],
                       next' = [n \in Node |-> IF n = old[c] THEN Null ELSE next[n]],
                       UNCHANGED <<tail, own, prev, order>>
                PROVE  KeepsList(c)
    <2> USE <1>ListFrees
    <2>1. \A d : Front(d) /\ Chain(d) => Chain(d)' /\ next'[d] = next[d]
      BY Zenon, <1>ChainFrees
    <2>2. \A e \in Consumer : old[e] = Null => old'[e] = Null
      BY Zenon DEF Types
    <2>3. QED
      BY Zenon, <2>1, <2>2 DEF KeepsList, KeepsNext
  (* Its first next pointer gets waiters from the consumer with the lock. *)
  <1>ListWaits. ASSUME Types, NEW c \in Consumer, pc[c] \in Holding, NEW v, ~IsNode(v),
                       ~IsNode(next[node[c]]), next' = [next EXCEPT ![node[c]] = v],
                       UNCHANGED <<tail, live, own, prev, order, old>>
                PROVE  KeepsList(c)
    <2> USE <1>ListWaits
    <2>1. ASSUME NEW d, Front(d), Chain(d) PROVE Chain(d)'
      <3>1. node[c] = d
        BY Zenon, <2>1 DEF Front
      <3>2. ~IsNode(next[d]) /\ next' = [next EXCEPT ![d] = v]
        BY Zenon, <3>1
      <3>3. QED
        BY Zenon, <2>1, <3>2, <1>ChainWaits
    <2>2. QED
      BY Zenon, <2>1 DEF KeepsList, KeepsNext
  (* The lists of waiters stay lists of waiters. *)
  <1>PrependTypes. ASSUME Types, NEW c \in Consumer, NEW w \in Consumer, Prepend(c, w)
                   PROVE  behind' \in [Consumer -> MaybeConsumer] /\ pending' \in [Consumer -> MaybeConsumer]
    BY <1>PrependTypes, SMTT(30) DEF Types, Prepend, Pend, MaybeConsumer
  (* A word is a node, a waiter or null. *)
  <1>Words. ASSUME Types
            PROVE  /\ \A v \in Word : IsNode(v) \/ IsWaiter(v) \/ v = Null
                   /\ \A v : IsNode(v) => v \in Word /\ v # Null
                   /\ \A v : IsWaiter(v) => ~IsNode(v) /\ v \in Word
                   /\ ~IsNode(Null) /\ ~IsWaiter(Null) /\ Null \in Word
                   /\ \A v \in Word : Waiter(v) \in MaybeConsumer
                   /\ \A v \in MaybeConsumer : v \in Word /\ ~IsNode(v)
    BY <1>Words, Zenon, DistinctNames DEF Word, IsNode, IsWaiter, Waiter, MaybeConsumer
  (* The steps of pop() before it has the lock. *)
  <1>WaitLockInv. ASSUME Inv, NEW c \in Consumer,
                         \/ Call(c, "load") \/ Call(c, "try") \/ LoadHead(c) \/ Spin(c) \/ Exchange(c)
                         \/ Install(c) \/ WakeLock(c) \/ WakeItem(c) \/ TryLoad(c) \/ TryLock(c)
                  PROVE  Inv' /\ TakesOldest
    <2> USE <1>WaitLockInv
    <2>1. Types /\ Locks /\ Knows(c) /\ pc[c] \in Holding \union Outside \union {"notify"}
      BY Zenon DEF Inv, Locks, Types
    <2>2. ASSUME NEW l \in Outside, l # "try_lock", pc[c] \in Outside, pc' = [pc EXCEPT ![c] = l],
                 node' = node, old' = old, KeepsList(c), Types', Alone(c),
                 head' = head \/ (~IsNode(head) /\ ~IsNode(head'))
          PROVE  Inv' /\ TakesOldest
      <3>1. pc'[c] = l
        BY Zenon, <2>1, <2>2 DEF Types
      <3>2. l \notin Holding /\ l \notin SawNone /\ l \notin Taken /\ pc[c] \notin Holding /\ pc[c] \notin Taken
        BY Zenon, <2>2 DEF Outside, Holding, SawNone, Taken
      <3>3. Knows(c)'
        BY Zenon, <2>1, <2>2, <3>1, <3>2 DEF Knows
      <3>4. KeepsLock(c)
        BY Zenon, <2>2, <3>1, <3>2 DEF KeepsLock
      <3>5. l \notin {"install_next", "hand_over"}
        BY Zenon, <2>2 DEF Outside
      <3>6. QED
        BY Zenon, <2>2, <3>1, <3>3, <3>4, <3>5, <1>ConsumerInv
    <2>3. ASSUME Call(c, "load") \/ Call(c, "try") PROVE Inv' /\ TakesOldest
      <3>1. PICK l \in {"load", "try"} : Call(c, l)
        BY Zenon, <2>3
      <3>2. /\ pc' = [pc EXCEPT ![c] = l] /\ l \in Outside /\ l # "try_lock" /\ pc[c] \in Outside
            /\ node' = node /\ old' = old /\ head' = head /\ word' = word
        BY Zenon, <3>1 DEF Call, Goto, Outside
      <3>3. Types' /\ Alone(c)
        BY Zenon, <2>1, <3>1, <3>2 DEF Types, Alone, Call, listVars, producerVars
      <3>4. KeepsList(c)
        BY Zenon, <3>1, <1>ListStays DEF Call, producerVars
      <3>5. QED
        BY Zenon, <2>2, <3>2, <3>3, <3>4
    <2>4. ASSUME LoadHead(c) \/ Spin(c) PROVE Inv' /\ TakesOldest
      <3>1. /\ pc' = [pc EXCEPT ![c] = "top"] /\ "top" \in Outside /\ pc[c] \in Outside
            /\ node' = node /\ old' = old /\ head' = head /\ word' = [word EXCEPT ![c] = head]
        BY Zenon, <2>1, <2>4 DEF LoadHead, Spin, Goto, Outside, Types
      <3>2. Types' /\ Alone(c)
        BY Zenon, <2>1, <2>4, <3>1 DEF Types, Alone, LoadHead, Spin, listVars, producerVars
      <3>3. KeepsList(c)
        BY Zenon, <2>4, <1>ListStays DEF LoadHead, Spin, producerVars
      <3>4. QED
        BY Zenon, <2>2, <3>1, <3>2, <3>3
    <2>5. ASSUME Exchange(c) PROVE Inv' /\ TakesOldest
      <3>1. /\ pc[c] = "top" /\ pc[c] \in Outside /\ head' = Null /\ ~IsNode(head') /\ head \in Word
            /\ old' = old /\ word' = [word EXCEPT ![c] = Null]
        BY Zenon, <2>1, <2>5, <1>Words DEF Exchange, Outside, Types
      <3>2. KeepsList(c)
        BY Zenon, <2>5, <1>ListStays DEF Exchange, producerVars
      <3>3. CASE IsNode(head)
        <4>1. /\ node' = [node EXCEPT ![c] = head] /\ pc' = [pc EXCEPT ![c] = "next"]
              /\ behind' = behind /\ pending' = pending
          BY Zenon, <2>5, <3>3 DEF Exchange, Goto, listVars
        <4>2. Types' /\ Alone(c)
          BY Zenon, <2>1, <2>5, <3>1, <3>3, <4>1 DEF Types, Alone, Exchange, producerVars, Holding, IsNode,
             MaybeNode, Word
        <4>3. pc'[c] = "next" /\ node'[c] = head /\ head # Null
          BY Zenon, <2>1, <3>3, <4>1, <1>Words DEF Types
        <4>4. Knows(c)'
          BY Zenon, <2>1, <3>1, <4>3 DEF Knows, Outside, SawNone, Taken
        <4>5. GetsLock(c)
          BY Zenon, <3>1, <3>3, <4>3 DEF GetsLock, Holding
        <4>6. QED
          BY Zenon, <3>2, <4>2, <4>3, <4>4, <4>5, <1>ConsumerInv
      <3>4. CASE ~IsNode(head)
        <4>1. node' = node /\ pc' = [pc EXCEPT ![c] = "install"] /\ "install" \in Outside
          BY Zenon, <2>5, <3>4 DEF Exchange, Goto, Outside
        <4>2. behind' \in [Consumer -> MaybeConsumer] /\ pending' \in [Consumer -> MaybeConsumer]
          <5>1. CASE IsWaiter(head)
            <6>1. Prepend(c, head) /\ head \in Consumer
              BY Zenon, <2>5, <3>4, <5>1 DEF Exchange, IsWaiter
            <6>2. QED
              BY Zenon, <2>1, <6>1, <1>PrependTypes
          <5>2. CASE ~IsWaiter(head)
            BY Zenon, <2>1, <2>5, <3>4, <5>2 DEF Exchange, listVars, Types
          <5>3. QED
            BY Zenon, <5>1, <5>2
        <4>3. Types' /\ Alone(c)
          BY Zenon, <2>1, <2>5, <3>1, <4>1, <4>2 DEF Types, Alone, Exchange, producerVars, Word
        <4>4. QED
          BY Zenon, <2>2, <3>1, <3>2, <3>4, <4>1, <4>3
      <3>5. QED
        BY Zenon, <3>3, <3>4
    <2>6. ASSUME Install(c) PROVE Inv' /\ TakesOldest
      <3>1. pc[c] \in Outside /\ node' = node /\ old' = old /\ head \in Word
        BY Zenon, <2>1, <2>6 DEF Install, Outside, Types
      <3>2. KeepsList(c)
        BY Zenon, <2>6, <1>ListStays DEF Install, producerVars
      <3>3. PICK l \in {"lock_wait", "top"} : pc' = [pc EXCEPT ![c] = l]
        BY Zenon, <2>6 DEF Install, Goto
      <3>4. /\ head' = head \/ (~IsNode(head) /\ ~IsNode(head'))
            /\ head' \in Word
            /\ word' = word \/ word' = [word EXCEPT ![c] = head]
        BY Zenon, <2>6, <3>1, DistinctNames DEF Install, IsNode, Word
      <3>5. l \in Outside /\ l # "try_lock"
        BY Zenon DEF Outside
      <3>6. Types' /\ Alone(c)
        BY Zenon, <2>1, <2>6, <3>1, <3>3, <3>4, <3>5 DEF Types, Alone, Install, listVars, producerVars
      <3>7. QED
        BY Zenon, <2>2, <3>1, <3>2, <3>3, <3>4, <3>5, <3>6
    <2>7. ASSUME WakeLock(c) \/ WakeItem(c) PROVE Inv' /\ TakesOldest
      <3>1. /\ pc[c] \in Outside /\ node' = node /\ old' = old /\ head' = head /\ word' = word
            /\ pc' = [pc EXCEPT ![c] = "load"] /\ "load" \in Outside
        BY Zenon, <2>7 DEF WakeLock, WakeItem, Outside, Goto
      <3>2. KeepsList(c)
        BY Zenon, <2>7, <1>ListStays DEF WakeLock, WakeItem, producerVars
      <3>3. behind' \in [Consumer -> MaybeConsumer]
        BY ZenonT(40), <2>1, <2>7 DEF WakeLock, WakeItem, Types, listVars, MaybeConsumer
      <3>4. pending' \in [Consumer -> MaybeConsumer]
        BY SMTT(30), <2>1, <2>7 DEF WakeLock, WakeItem, Types, listVars, MaybeConsumer, Pend
      <3>5. Types' /\ Alone(c)
        BY Zenon, <2>1, <2>7, <3>1, <3>3, <3>4 DEF Types, Alone, WakeLock, WakeItem, producerVars
      <3>6. QED
        BY Zenon, <2>2, <3>1, <3>2, <3>5
    <2>8. ASSUME TryLoad(c) \/ TryLock(c) PROVE Inv' /\ TakesOldest
      <3>1. pc[c] \in Outside /\ old' = old
        BY Zenon, <2>8 DEF TryLoad, TryLock, Outside
      <3>2. KeepsList(c)
        BY Zenon, <2>8, <1>ListStays DEF TryLoad, TryLock, producerVars
      <3>3. CASE pc[c] = "try_lock" /\ head = word[c]
        <4>1. /\ head' = Null /\ IsNode(head) /\ node' = [node EXCEPT ![c] = head]
              /\ word' = [word EXCEPT ![c] = Null] /\ pc' = [pc EXCEPT ![c] = "try_next"]
          BY Zenon, <2>1, <2>8, <3>3 DEF TryLoad, TryLock, Goto, Knows
        <4>2. Types' /\ Alone(c)
          BY Zenon, <2>1, <2>8, <3>1, <4>1 DEF Types, Alone, TryLoad, TryLock, listVars, producerVars,
             Holding, IsNode, MaybeNode, Word
        <4>3. pc'[c] = "try_next" /\ node'[c] = head /\ head # Null
          BY Zenon, <2>1, <4>1, <1>Words DEF Types
        <4>4. Knows(c)'
          BY Zenon, <2>1, <3>1, <3>3, <4>3 DEF Knows, Outside, SawNone, Taken
        <4>5. GetsLock(c)
          BY Zenon, <4>1, <4>3 DEF GetsLock, Holding
        <4>6. QED
          BY Zenon, <3>2, <4>2, <4>3, <4>4, <4>5, <1>ConsumerInv
      <3>4. CASE ~(pc[c] = "try_lock" /\ head = word[c])
        <4>1. /\ head' = head /\ node' = node
              /\ word' = [word EXCEPT ![c] = IF IsNode(head) THEN head ELSE Null]
              /\ pc' = [pc EXCEPT ![c] = IF IsNode(head) THEN "try_lock" ELSE "idle"]
          BY Zenon, <2>8, <3>4 DEF TryLoad, TryLock, Goto
        <4>2. /\ (IF IsNode(head) THEN head ELSE Null) \in Word
              /\ (IF IsNode(head) THEN "try_lock" ELSE "idle") \in Outside
          BY Zenon, <2>1, <1>Words DEF Outside, Types
        <4>3. Types' /\ Alone(c)
          BY Zenon, <2>1, <2>8, <3>1, <4>1, <4>2 DEF Types, Alone, TryLoad, TryLock, listVars, producerVars
        <4>4. /\ pc'[c] \in {"try_lock", "idle"} /\ (pc'[c] = "try_lock" => IsNode(word'[c]))
              /\ pc'[c] \in Outside
          BY Zenon, <2>1, <4>1, <4>2 DEF Types
        <4>5. Knows(c)'
          BY Zenon, <2>1, <3>1, <4>1, <4>4 DEF Knows, Outside, SawNone, Taken
        <4>6. KeepsLock(c)
          BY Zenon, <3>1, <4>1, <4>4 DEF KeepsLock, Outside, Holding
        <4>7. QED
          BY Zenon, <3>2, <4>3, <4>4, <4>5, <4>6, <1>ConsumerInv
      <3>5. QED
        BY Zenon, <3>3, <3>4
    <2>9. QED
      BY Zenon, <2>3, <2>4, <2>5, <2>6, <2>7, <2>8
  (* The consumer with the lock goes from one place to another. *)
  <1>HoldInv. ASSUME Inv, NEW c \in Consumer, pc[c] \in Holding, NEW l \in Holding, Types', KeepsList(c),
                     pc' = [pc EXCEPT ![c] = l], node' = node, Alone(c), ~IsNode(head'),
                     l \in SawNone => ~IsNode(word'[c]),
                     old'[c] # Null => l \in Taken,
                     l \in {"install_next", "hand_over"} => next'[node[c]] = word'[c]
              PROVE  Inv' /\ TakesOldest
    <2> USE <1>HoldInv
    <2>1. Types /\ Locks /\ Knows(c)
      BY Zenon DEF Inv, Locks
    <2>2. pc'[c] = l /\ l \notin Outside /\ l # "try_lock" /\ pc[c] \notin Outside
      BY Zenon, <2>1 DEF Types, Outside, Holding
    <2>3. Knows(c)'
      BY Zenon, <2>1, <2>2 DEF Knows
    <2>4. ~IsNode(head)
      BY Zenon, <2>1 DEF Locks
    <2>5. KeepsLock(c)
      BY Zenon, <2>2, <2>4 DEF KeepsLock
    <2>6. QED
      BY Zenon, <2>2, <2>3, <2>5, <1>ConsumerInv
  (* What it can rely on. *)
  <1>HeldFacts. ASSUME Inv, NEW c \in Consumer, pc[c] \in Holding
                PROVE  /\ Types /\ Locks /\ Knows(c) /\ ~IsNode(head) /\ head \in Word
                       /\ node[c] \in Node /\ node[c] # Null /\ next[node[c]] \in Word
                       /\ pending[c] \in MaybeConsumer
    <2> USE <1>HeldFacts
    <2>1. Types /\ Locks /\ Knows(c) /\ ~IsNode(head) /\ head \in Word
      BY Zenon DEF Inv, Locks, Types
    <2>2. node[c] \in Node /\ node[c] # Null
      BY Zenon, DistinctNames DEF Inv, Front
    <2>3. QED
      BY Zenon, <2>1, <2>2 DEF Types
  (* head->next.load(): an item, or none. *)
  <1>LoadNextInv. ASSUME Inv, NEW c \in Consumer, LoadNext(c)
                  PROVE  Inv' /\ TakesOldest
    <2> USE <1>LoadNextInv
    <2> DEFINE v == next[node[c]]
    <2>1. pc[c] \in {"next", "try_next"} /\ pc[c] \in Holding /\ pc[c] \notin Taken
      BY Zenon DEF LoadNext, Holding, Taken
    <2>2. /\ Types /\ Locks /\ Knows(c) /\ ~IsNode(head) /\ head \in Word
          /\ node[c] \in Node /\ node[c] # Null /\ v \in Word /\ old[c] = Null
      BY Zenon, <2>1, <1>HeldFacts DEF Knows
    <2>3. CASE IsNode(v)
      <3>1. Take(c, v) /\ UNCHANGED <<head, tail, next, live, own, prev, behind, pending>>
        BY Zenon, <2>3 DEF LoadNext, producerVars, listVars
      <3>2. QED
        BY Zenon, <2>1, <2>2, <2>3, <3>1, <1>TakeInv
    <2>4. CASE ~IsNode(v)
      <3>1. PICK l \in {"install_next", "no_item"} : pc' = [pc EXCEPT ![c] = l]
        BY Zenon, <2>4 DEF LoadNext, Goto
      <3>2. /\ word' = [word EXCEPT ![c] = v] /\ node' = node /\ old' = old /\ next' = next /\ head' = head
            /\ UNCHANGED <<tail, live, own, prev, order, behind, pending>>
        BY Zenon, <2>4 DEF LoadNext, producerVars, listVars
      <3>3. l \in Holding
        BY Zenon DEF Holding
      <3>4. Types' /\ Alone(c) /\ word'[c] = v
        BY Zenon, <2>2, <3>1, <3>2, <3>3 DEF Types, Alone
      <3>5. KeepsList(c)
        BY Zenon, <3>2, <1>ListStays
      <3>6. QED
        BY Zenon, <2>1, <2>2, <2>4, <3>1, <3>2, <3>3, <3>4, <3>5, <1>HoldInv
    <2>5. QED
      BY Zenon, <2>3, <2>4
  (* A waiter is installed in the next pointer, or there is an item now. *)
  <1>InstallNextInv. ASSUME Inv, NEW c \in Consumer, InstallNext(c)
                     PROVE  Inv' /\ TakesOldest
    <2> USE <1>InstallNextInv
    <2> DEFINE v == next[node[c]]
    <2>1. /\ pc[c] = "install_next" /\ pc[c] \in Holding /\ pc[c] \notin Taken /\ pc[c] \in SawNone
          /\ pc[c] \in {"install_next", "hand_over"}
      BY Zenon DEF InstallNext, Holding, Taken, SawNone
    <2>2. /\ Types /\ Locks /\ Knows(c) /\ ~IsNode(head) /\ head \in Word
          /\ node[c] \in Node /\ node[c] # Null /\ v \in Word /\ old[c] = Null
          /\ pending[c] \in MaybeConsumer
      BY Zenon, <2>1, <1>HeldFacts DEF Knows
    <2>3. CASE v = word[c]
      <3>1. /\ next' = [next EXCEPT ![node[c]] = c] /\ pc' = [pc EXCEPT ![c] = "unlock_waiting"]
            /\ pending' = [pending EXCEPT ![c] = Null] /\ head' = head
            /\ behind' = IF pending[c] = Null THEN [behind EXCEPT ![c] = Waiter(v)]
                         ELSE [behind EXCEPT ![c] = pending[c], ![last[c]] = Waiter(v)]
            /\ UNCHANGED <<tail, live, own, prev, order, old, node, word>>
        BY Zenon, <2>3 DEF InstallNext, Pend, Goto, producerVars
      <3>2. Waiter(v) \in MaybeConsumer /\ ~IsNode(c) /\ c \in Word /\ ~IsNode(v)
        BY Zenon, <2>1, <2>2, <2>3, <1>Words DEF IsWaiter, Knows
      <3>3. behind' \in [Consumer -> MaybeConsumer]
        BY Zenon, <2>2, <3>1, <3>2 DEF Types
      <3>4. pending' \in [Consumer -> MaybeConsumer]
        BY Zenon, <2>2, <3>1 DEF Types, MaybeConsumer
      <3>5. "unlock_waiting" \in Holding /\ "unlock_waiting" \notin SawNone
        BY Zenon DEF Holding, SawNone
      <3>6. Types' /\ Alone(c)
        BY Zenon, <2>2, <3>1, <3>2, <3>3, <3>4, <3>5 DEF Types, Alone
      <3>7. KeepsList(c)
        BY Zenon, <2>1, <2>2, <3>1, <3>2, <1>ListWaits
      <3>8. QED
        BY Zenon, <2>1, <2>2, <3>1, <3>5, <3>6, <3>7, <1>HoldInv
    <2>4. CASE v # word[c]
      <3>1. IsNode(v)
        BY Zenon, <2>1, <2>4 DEF Inv, Fresh
      <3>2. Take(c, v) /\ UNCHANGED <<head, tail, next, live, own, prev, behind, pending>>
        BY Zenon, <2>4 DEF InstallNext, producerVars, listVars
      <3>3. QED
        BY Zenon, <2>1, <2>2, <3>1, <3>2, <1>TakeInv
    <2>5. QED
      BY Zenon, <2>3, <2>4
  (* unlock_waiting: the node goes back into head_. *)
  <1>UnlockWaitingInv. ASSUME Inv, NEW c \in Consumer, UnlockWaiting(c)
                       PROVE  Inv' /\ TakesOldest
    <2> USE <1>UnlockWaitingInv
    <2>1. pc[c] \in Holding /\ pc[c] \notin Taken
      BY Zenon DEF UnlockWaiting, Holding, Taken
    <2>2. /\ Types /\ Locks /\ Knows(c) /\ head \in Word /\ node[c] \in Node /\ old[c] = Null
      BY Zenon, <2>1, <1>HeldFacts DEF Knows
    <2>3. /\ head' = node[c] /\ pending' = [pending EXCEPT ![c] = Waiter(head)]
          /\ node' = [node EXCEPT ![c] = Null] /\ word' = [word EXCEPT ![c] = Null]
          /\ pc' = [pc EXCEPT ![c] = "item_wait"]
          /\ UNCHANGED <<tail, next, live, own, prev, behind, old, order>>
      BY Zenon DEF UnlockWaiting, Pend, Goto, producerVars
    <2>4. Waiter(head) \in MaybeConsumer /\ Null \in Word /\ Null \in MaybeNode /\ node[c] \in Word
      BY Zenon, <2>2, <1>Words DEF MaybeNode, IsNode
    <2>5. /\ "item_wait" \in Outside /\ "item_wait" \notin Holding /\ "item_wait" \notin SawNone
          /\ "item_wait" \notin {"install_next", "hand_over"}
      BY Zenon DEF Outside, Holding, SawNone
    <2>6. Types' /\ Alone(c)
      BY Zenon, <2>2, <2>3, <2>4, <2>5 DEF Types, Alone
    <2>7. pc'[c] = "item_wait" /\ node'[c] = Null
      BY Zenon, <2>2, <2>3 DEF Types
    <2>8. Knows(c)'
      BY Zenon, <2>2, <2>3, <2>5, <2>7 DEF Knows
    <2>9. KeepsList(c)
      BY Zenon, <2>3, <1>ListStays
    <2>10. GivesLock(c)
      BY Zenon, <2>1, <2>3, <2>5, <2>7 DEF GivesLock
    <2>11. QED
      BY Zenon, <2>5, <2>6, <2>7, <2>8, <2>9, <2>10, <1>ConsumerInv
  (* pop() returns: unlocking without waiters, or after the notification. *)
  <1>ReturnInv. ASSUME Inv, NEW c \in Consumer, node[c] # Null, Return(c), behind' = behind,
                       pending' \in [Consumer -> MaybeConsumer],
                       \/ pc[c] \in Holding /\ head' = node[c]
                       \/ pc[c] \notin Holding /\ head' = head,
                       UNCHANGED <<tail, own, prev, order>>
                PROVE  Inv' /\ TakesOldest
    <2> USE <1>ReturnInv
    <2>1. Types /\ Locks /\ Knows(c) /\ node[c] \in Node /\ node[c] \in Word /\ Null \in Word
      BY Zenon DEF Inv, Locks, Types, MaybeNode, Word
    <2>2. /\ live' = live \ {old[c]} /\ old' = [old EXCEPT ![c] = Null]
          /\ next' = [n \in Node |-> IF n = old[c] THEN Null ELSE next[n]]
          /\ node' = [node EXCEPT ![c] = Null] /\ word' = [word EXCEPT ![c] = Null]
          /\ pc' = [pc EXCEPT ![c] = "idle"]
      BY Zenon DEF Return, Goto
    <2>3. /\ "idle" \in Outside /\ "idle" \notin Holding /\ "idle" \notin SawNone
          /\ "idle" \notin {"install_next", "hand_over"} /\ Null \in MaybeNode
      BY Zenon DEF Outside, Holding, SawNone, MaybeNode
    <2>4. Types' /\ Alone(c)
      BY Zenon, <2>1, <2>2, <2>3 DEF Types, Alone
    <2>5. pc'[c] = "idle" /\ node'[c] = Null /\ old'[c] = Null
      BY Zenon, <2>1, <2>2 DEF Types
    <2>6. Knows(c)'
      BY Zenon, <2>3, <2>5 DEF Knows
    <2>7. KeepsList(c)
      BY Zenon, <2>1, <2>2, <1>ListFrees
    <2>8. KeepsLock(c) \/ GivesLock(c)
      BY Zenon, <2>3, <2>5 DEF KeepsLock, GivesLock
    <2>9. QED
      BY Zenon, <2>3, <2>4, <2>5, <2>6, <2>7, <2>8, <1>ConsumerInv
  (* Unlocking, or looking for new waiters. *)
  <1>UnlockInv. ASSUME Inv, NEW c \in Consumer,
                       Free(c) \/ Grab(c) \/ LoadMore(c) \/ Release(c) \/ GrabMore(c) \/ Notify(c)
                PROVE  Inv' /\ TakesOldest
    <2> USE <1>UnlockInv
    <2>1. ASSUME Free(c) PROVE Inv' /\ TakesOldest
      <3>1. pc[c] \in {"free", "no_item"} /\ pc[c] \in Holding
        BY Zenon, <2>1 DEF Free, Holding
      <3>2. Types /\ Locks /\ Knows(c) /\ ~IsNode(head) /\ node[c] # Null
        BY Zenon, <3>1, <1>HeldFacts
      <3>3. CASE head = Null
        <4>1. /\ head' = node[c] /\ Return(c) /\ behind' = behind /\ pending' = pending
              /\ UNCHANGED <<tail, own, prev, order>>
          BY Zenon, <2>1, <3>3 DEF Free, producerVars, listVars
        <4>2. QED
          BY Zenon, <3>1, <3>2, <4>1, <1>ReturnInv DEF Types
      <3>4. CASE head # Null
        <4>1. UNCHANGED <<head, tail, next, live, own, prev, behind, pending, node, old, word, order>>
          BY Zenon, <2>1, <3>4 DEF Free, producerVars, listVars
        <4>2. PICK l \in {"grab", "no_item_grab"} :
                pc' = [pc EXCEPT ![c] = l] /\ (l = "grab" <=> pc[c] = "free")
          BY Zenon, <2>1, <3>1, <3>4 DEF Free, Goto
        <4>3. /\ l \in Holding /\ (l \in SawNone => pc[c] \in SawNone)
              /\ (pc[c] \in Taken => l \in Taken)
          BY Zenon, <3>1, <4>2 DEF Holding, SawNone, Taken
        <4>4. Types' /\ Alone(c)
          BY Zenon, <3>2, <4>1, <4>2, <4>3 DEF Types, Alone
        <4>5. KeepsList(c)
          BY Zenon, <4>1, <1>ListStays
        <4>6. QED
          BY Zenon, <3>1, <3>2, <4>1, <4>2, <4>3, <4>4, <4>5, <1>HoldInv DEF Knows
      <3>5. QED
        BY Zenon, <3>3, <3>4
    <2>2. ASSUME Grab(c) \/ GrabMore(c) PROVE Inv' /\ TakesOldest
      <3>1. pc[c] \in {"grab", "no_item_grab", "grab_more"} /\ pc[c] \in Holding
        BY Zenon, <2>2 DEF Grab, GrabMore, Holding
      <3>2. Types /\ Locks /\ Knows(c) /\ ~IsNode(head) /\ node[c] # Null /\ ~IsNode(Null)
        BY Zenon, <3>1, <1>HeldFacts, <1>Words
      <3>3. /\ head' = Null /\ UNCHANGED <<tail, next, live, own, prev, node, old, word, order>>
        BY Zenon, <2>2 DEF Grab, GrabMore, producerVars
      <3>4. behind' \in [Consumer -> MaybeConsumer] /\ pending' \in [Consumer -> MaybeConsumer]
        <4>1. CASE IsWaiter(head)
          <5>1. Prepend(c, head) /\ head \in Consumer
            BY Zenon, <2>2, <4>1 DEF Grab, GrabMore, IsWaiter
          <5>2. QED
            BY Zenon, <3>2, <5>1, <1>PrependTypes
        <4>2. CASE ~IsWaiter(head)
          BY Zenon, <2>2, <3>2, <4>2 DEF Grab, GrabMore, listVars, Types
        <4>3. QED
          BY Zenon, <4>1, <4>2
      <3>5. PICK l \in {"load_next", "free", "no_item", "no_item_install", "release"} :
              /\ pc' = [pc EXCEPT ![c] = l]
              /\ l \in {"no_item", "no_item_install"} <=> pc[c] = "no_item_grab"
        BY Zenon, <2>2, <3>1 DEF Grab, GrabMore, Goto
      <3>6. /\ l \in Holding /\ (l \in SawNone => pc[c] \in SawNone)
            /\ (pc[c] \in Taken => l \in Taken)
            /\ l \notin {"install_next", "hand_over"}
        BY Zenon, <3>1, <3>5 DEF Holding, SawNone, Taken
      <3>7. Types' /\ Alone(c)
        BY Zenon, <3>2, <3>3, <3>4, <3>5, <3>6 DEF Types, Alone, Word
      <3>8. KeepsList(c)
        BY Zenon, <3>3, <1>ListStays
      <3>9. QED
        BY Zenon, <3>1, <3>2, <3>3, <3>5, <3>6, <3>7, <3>8, <1>HoldInv DEF Knows
    <2>3. ASSUME LoadMore(c) PROVE Inv' /\ TakesOldest
      <3>1. pc[c] = "load_next" /\ pc[c] \in Holding
        BY Zenon, <2>3 DEF LoadMore, Holding
      <3>2. Types /\ Locks /\ Knows(c) /\ ~IsNode(head) /\ next[node[c]] \in Word
        BY Zenon, <3>1, <1>HeldFacts
      <3>3. /\ word' = [word EXCEPT ![c] = next[node[c]]]
            /\ UNCHANGED <<head, tail, next, live, own, prev, behind, pending, node, old, order>>
        BY Zenon, <2>3 DEF LoadMore, producerVars, listVars
      <3>4. PICK l \in {"release", "hand_over"} :
              pc' = [pc EXCEPT ![c] = l] /\ (l = "hand_over" => ~IsNode(next[node[c]]))
        BY Zenon, <2>3 DEF LoadMore, Goto
      <3>5. l \in Holding /\ l \in Taken /\ (l \in SawNone => l = "hand_over")
        BY Zenon DEF Holding, Taken, SawNone
      <3>6. Types' /\ Alone(c) /\ word'[c] = next[node[c]]
        BY Zenon, <3>2, <3>3, <3>4, <3>5 DEF Types, Alone
      <3>7. KeepsList(c)
        BY Zenon, <3>3, <1>ListStays
      <3>8. QED
        BY Zenon, <3>1, <3>2, <3>3, <3>4, <3>5, <3>6, <3>7, <1>HoldInv
    <2>4. ASSUME Release(c) PROVE Inv' /\ TakesOldest
      <3>1. pc[c] = "release" /\ pc[c] \in Holding
        BY Zenon, <2>4 DEF Release, Holding
      <3>2. Types /\ Locks /\ Knows(c) /\ ~IsNode(head) /\ node[c] # Null /\ node[c] \in Node
        BY Zenon, <3>1, <1>HeldFacts
      <3>3. UNCHANGED <<tail, next, live, own, prev, behind, pending, node, old, word, order>>
        BY Zenon, <2>4 DEF Release, producerVars, listVars
      <3>4. KeepsList(c)
        BY Zenon, <3>3, <1>ListStays
      <3>5. CASE head = Null
        <4>1. head' = node[c] /\ pc' = [pc EXCEPT ![c] = "notify"]
          BY Zenon, <2>4, <3>5 DEF Release, Goto
        <4>2. Types' /\ Alone(c)
          BY Zenon, <3>2, <3>3, <4>1 DEF Types, Alone, Word
        <4>3. /\ pc'[c] = "notify" /\ "notify" \notin Outside /\ "notify" \notin Holding
              /\ "notify" \notin SawNone /\ "notify" \in Taken
          BY Zenon, <3>2, <4>1 DEF Types, Outside, Holding, SawNone, Taken
        <4>4. Knows(c)'
          BY Zenon, <3>2, <3>3, <4>3 DEF Knows
        <4>5. GivesLock(c)
          BY Zenon, <3>1, <4>1, <4>3 DEF GivesLock
        <4>6. QED
          BY Zenon, <3>4, <4>2, <4>3, <4>4, <4>5, <1>ConsumerInv
      <3>6. CASE head # Null
        <4>1. head' = head /\ pc' = [pc EXCEPT ![c] = "grab_more"]
          BY Zenon, <2>4, <3>6 DEF Release, Goto
        <4>2. "grab_more" \in Holding /\ "grab_more" \in Taken /\ "grab_more" \notin SawNone
          BY Zenon DEF Holding, Taken, SawNone
        <4>3. Types' /\ Alone(c)
          BY Zenon, <3>2, <3>3, <4>1, <4>2 DEF Types, Alone
        <4>4. QED
          BY ZenonT(40), <3>1, <3>2, <3>3, <3>4, <4>1, <4>2, <4>3, <1>HoldInv
      <3>7. QED
        BY Zenon, <3>5, <3>6
    <2>5. ASSUME Notify(c) PROVE Inv' /\ TakesOldest
      <3>1. /\ pc[c] = "notify" /\ Return(c) /\ behind' = behind /\ head' = head
            /\ pending' = [pending EXCEPT ![c] = Null] /\ UNCHANGED <<tail, own, prev, order>>
        BY Zenon, <2>5 DEF Notify, Pend, producerVars
      <3>2. pc[c] \notin Holding /\ pc[c] \notin Outside
        BY Zenon, <3>1 DEF Holding, Outside
      <3>3. node[c] # Null /\ pending' \in [Consumer -> MaybeConsumer]
        BY Zenon, <3>1, <3>2 DEF Inv, Locks, Knows, Types, MaybeConsumer
      <3>4. QED
        BY Zenon, <3>1, <3>2, <3>3, <1>ReturnInv
    <2>6. QED
      BY Zenon, <2>1, <2>2, <2>3, <2>4, <2>5
  (* The waiters go to the next pointer, unless there is an item now. *)
  <1>HandOverInv. ASSUME Inv, NEW c \in Consumer, HandOver(c)
                  PROVE  Inv' /\ TakesOldest
    <2> USE <1>HandOverInv
    <2> DEFINE v == next[node[c]]
    <2>1. /\ pc[c] \in {"hand_over", "no_item_install"} /\ pc[c] \in Holding /\ pc[c] \in SawNone
          /\ pc[c] = "no_item_install" => pc[c] \notin Taken
      BY Zenon DEF HandOver, Holding, Taken, SawNone
    <2>2. /\ Types /\ Locks /\ Knows(c) /\ ~IsNode(head) /\ head \in Word
          /\ node[c] \in Node /\ node[c] # Null /\ v \in Word /\ pending[c] \in MaybeConsumer
          /\ ~IsNode(word[c])
      BY Zenon, <2>1, <1>HeldFacts DEF Knows
    <2>3. CASE v = word[c]
      <3>1. /\ next' = [next EXCEPT ![node[c]] = pending[c]]
            /\ pending' = [pending EXCEPT ![c] = Null] /\ head' = head
            /\ behind' = [behind EXCEPT ![last[c]] = Waiter(v)]
            /\ UNCHANGED <<tail, live, own, prev, order, old, node, word>>
        BY Zenon, <2>3 DEF HandOver, Pend, producerVars
      <3>2. PICK l \in {"free", "no_item"} :
              pc' = [pc EXCEPT ![c] = l] /\ (l = "free" <=> pc[c] = "hand_over")
        BY Zenon, <2>1, <2>3 DEF HandOver, Goto
      <3>3. Waiter(v) \in MaybeConsumer /\ ~IsNode(pending[c]) /\ pending[c] \in Word
        BY Zenon, <2>2, <1>Words
      <3>4. behind' \in [Consumer -> MaybeConsumer] /\ pending' \in [Consumer -> MaybeConsumer]
        BY Zenon, <2>2, <3>1, <3>3 DEF Types, MaybeConsumer
      <3>5. l \in Holding /\ (pc[c] \in Taken => l \in Taken) /\ l \notin {"install_next", "hand_over"}
        BY Zenon, <2>1, <3>2 DEF Holding, Taken
      <3>6. Types' /\ Alone(c)
        BY ZenonT(40), <2>2, <3>1, <3>2, <3>3, <3>4, <3>5 DEF Types, Alone
      <3>7. KeepsList(c)
        BY Zenon, <2>1, <2>2, <2>3, <3>1, <3>3, <1>ListWaits
      <3>8. QED
        BY ZenonT(40), <2>1, <2>2, <3>1, <3>2, <3>5, <3>6, <3>7, <1>HoldInv DEF Knows
    <2>4. CASE v # word[c] /\ pc[c] = "no_item_install" /\ IsNode(v)
      <3>1. Take(c, v) /\ UNCHANGED <<head, tail, next, live, own, prev, behind, pending>>
        BY Zenon, <2>4 DEF HandOver, producerVars, listVars
      <3>2. old[c] = Null
        BY Zenon, <2>1, <2>2, <2>4 DEF Knows
      <3>3. QED
        BY Zenon, <2>1, <2>4, <3>1, <3>2, <1>TakeInv
    <2>5. CASE v # word[c] /\ ~(pc[c] = "no_item_install" /\ IsNode(v))
      <3>1. /\ word' = [word EXCEPT ![c] = v]
            /\ UNCHANGED <<head, tail, next, live, own, prev, behind, pending, node, old, order>>
        BY Zenon, <2>1, <2>5 DEF HandOver, producerVars, listVars
      <3>2. PICK l \in {"release", "no_item_install"} :
              pc' = [pc EXCEPT ![c] = l] /\ (l = "release" <=> pc[c] = "hand_over")
        BY Zenon, <2>1, <2>2, <2>5 DEF HandOver, Goto, Types
      <3>3. /\ l \in Holding /\ (pc[c] \in Taken => l \in Taken) /\ l \notin {"install_next", "hand_over"}
            /\ (l \in SawNone => l = "no_item_install")
        BY Zenon, <2>1, <3>2 DEF Holding, Taken, SawNone
      <3>4. Types' /\ Alone(c) /\ word'[c] = v
        BY Zenon, <2>2, <3>1, <3>2, <3>3 DEF Types, Alone
      <3>5. KeepsList(c)
        BY Zenon, <3>1, <1>ListStays
      <3>6. QED
        BY ZenonT(40), <2>1, <2>2, <2>5, <3>1, <3>2, <3>3, <3>4, <3>5, <1>HoldInv DEF Knows
    <2>6. QED
      BY Zenon, <2>3, <2>4, <2>5
  (* A push leaves the consumers where they are. *)
  <1>PushInv. ASSUME Inv, NEW p \in Producer,
                     PushNext(p) \/ PushNotify(p) \/ \E n \in Node : PushTail(p, n)
              PROVE  Inv' /\ TakesOldest
    <2> USE <1>PushInv
    <2>1. Types /\ Locks /\ Fresh
      BY Zenon DEF Inv
    <2>2. PICK d : Front(d) /\ Chain(d)
      BY Zenon DEF Inv
    <2>3. d \in Node /\ d \in live
      BY Zenon, <2>1, <2>2, FrontFacts
    <2>4. UNCHANGED <<head, behind, pending, pc, word, node, old>>
      BY Zenon DEF PushNext, PushNotify, PushTail, listVars
    <2>5. Locks' /\ Front(d)'
      BY Zenon, <2>1, <2>2, <2>4 DEF Locks, Knows, Front
    <2>6. TakesOldest
      BY Zenon, <2>4 DEF TakesOldest
    <2>7. \A c \in Consumer : pc[c] \in {"install_next", "hand_over"} => node[c] = d
      BY Zenon, <2>2 DEF Front, Holding
    <2>8. ASSUME NEW n \in Node, PushTail(p, n) PROVE Inv'
      <3>1. Chain(d)'
        BY Zenon, <2>1, <2>2, <2>8, <1>ChainAppends
      <3>2. /\ live' = live \union {n} /\ next' = [next EXCEPT ![n] = Null] /\ n \notin live
            /\ prev' = [prev EXCEPT ![p] = tail] /\ own' = [own EXCEPT ![p] = n]
            /\ tail' = n /\ order' = Append(order, n)
        BY Zenon, <2>8 DEF PushTail
      <3>3. Types'
        BY SMTT(30), <2>1, <2>4, <3>2 DEF Types, Word, MaybeNode
      <3>4. next'[d] = next[d]
        BY Zenon, <2>1, <2>3, <3>2 DEF Types
      <3>5. Fresh'
        BY Zenon, <2>1, <2>4, <2>7, <3>4 DEF Fresh
      <3>6. QED
        BY Zenon, <2>5, <3>1, <3>3, <3>5 DEF Inv
    <2>9. ASSUME PushNext(p) PROVE Inv'
      <3>1. Chain(d)' /\ own[p] \in Node
        BY Zenon, <2>1, <2>2, <2>9, <1>ChainLinks
      <3>2. /\ next' = [next EXCEPT ![prev[p]] = own[p]]
            /\ own' = [own EXCEPT ![p] = Null] /\ prev' = [prev EXCEPT ![p] = Null]
            /\ UNCHANGED <<tail, live, order>>
        BY Zenon, <2>9 DEF PushNext
      <3>3. Types'
        BY ZenonT(40), <2>1, <2>4, <3>1, <3>2 DEF Types, Word, MaybeNode
      <3>4. next'[d] = next[d] \/ next'[d] = own[p]
        BY Zenon, <2>1, <2>3, <3>2 DEF Types
      <3>5. Fresh'
        BY Zenon, <2>1, <2>4, <2>7, <3>1, <3>4 DEF Fresh, IsNode
      <3>6. QED
        BY Zenon, <2>5, <3>1, <3>3, <3>5 DEF Inv
    <2>10. ASSUME PushNotify(p) PROVE Inv'
      <3>1. UNCHANGED <<tail, next, live, prev, own, order>>
        BY Zenon, <2>10 DEF PushNotify
      <3>2. Types' /\ Fresh'
        BY Zenon, <2>1, <2>4, <3>1 DEF Types, Fresh
      <3>3. Chain(d)'
        BY Zenon, <2>2, <2>4, <3>1, <1>ChainStays
      <3>4. QED
        BY Zenon, <2>5, <3>2, <3>3 DEF Inv
    <2>11. QED
      BY Zenon, <2>6, <2>8, <2>9, <2>10
  (* The queue as constructed: a stub, unlocked, nobody waiting. *)
  <1>InitInv. Init => Inv
    <2> SUFFICES ASSUME Init PROVE Inv
      OBVIOUS
    <2> USE DEF Init, NoOne
    <2>1. Stub \in Node /\ Null \notin Node
      BY Zenon, DistinctNames
    <2>2. /\ \A c \in Consumer : pc[c] = "idle" /\ node[c] = Null /\ old[c] = Null
          /\ \A p \in Producer : own[p] = Null
          /\ Len(order) = 0 /\ head = Stub /\ next[Stub] = Null
      BY Zenon, <2>1
    <2>3. "idle" \in Outside /\ "idle" \notin Holding /\ "idle" \notin SawNone /\ "idle" # "try_lock"
          /\ "idle" \notin {"install_next", "hand_over"}
      BY Zenon DEF Outside, Holding, SawNone
    <2>4. Types
      BY SMTT(30), <2>1, <2>3 DEF Types, Word, MaybeNode, MaybeConsumer
    <2>5. Locks
      BY Zenon, <2>1, <2>2, <2>3 DEF Locks, Knows, IsNode
    <2>6. Fresh
      BY Zenon, <2>2, <2>3 DEF Fresh
    <2>7. Front(Stub)
      BY Zenon, <2>1, <2>2, <2>3 DEF Front
    <2>8. Items = {}
      BY SMTT(30), <2>2 DEF Items
    <2>9. Before(Stub, Len(order) + 1) = Stub
      BY SMTT(30), <2>2 DEF Before
    <2>10. Distinct(Stub) /\ Freed(Stub)
      BY Zenon, <2>2, <2>8 DEF Distinct, Freed
    <2>11. Linked(Stub)
      BY Zenon, <2>1, <2>2, <2>8, <2>9 DEF Linked, IsNode
    <2>12. QED
      BY ZenonT(40), <2>4, <2>5, <2>6, <2>7, <2>10, <2>11 DEF Inv, Chain
  (* Every step of every push and pop keeps the invariant. *)
  <1>NextInv. ASSUME Inv, [Next]_vars
              PROVE  Inv' /\ TakesOldest
    <2> USE <1>NextInv
    <2>1. CASE UNCHANGED vars
      <3>1. UNCHANGED <<head, tail, next, live, own, prev, behind, pending, pc, word, node, old, order>>
        BY Zenon, <2>1 DEF vars
      <3>2. Types' /\ Locks' /\ Fresh' /\ TakesOldest
        BY Zenon, <3>1 DEF Inv, Types, Locks, Knows, Fresh, TakesOldest
      <3>3. PICK d : Front(d) /\ Chain(d)
        BY Zenon DEF Inv
      <3>4. Front(d)' /\ Chain(d)'
        BY Zenon, <3>1, <3>3, <1>ChainStays DEF Front
      <3>5. QED
        BY Zenon, <3>2, <3>4 DEF Inv
    <2>2. ASSUME NEW p \in Producer, ProducerStep(p) \/ \E n \in Node : PushTail(p, n)
          PROVE  Inv' /\ TakesOldest
      BY Zenon, <2>2, <1>PushInv DEF ProducerStep
    <2>3. ASSUME NEW c \in Consumer,
                 Call(c, "load") \/ Call(c, "try") \/ Spin(c) \/ ConsumerStep(c)
          PROVE  Inv' /\ TakesOldest
      BY ZenonT(40), <2>3, <1>WaitLockInv, <1>LoadNextInv, <1>InstallNextInv, <1>UnlockWaitingInv, <1>UnlockInv, <1>HandOverInv
      DEF ConsumerStep, UnlockStep
    <2>4. QED
      BY Zenon, <2>1, <2>2, <2>3 DEF Next
  <1> QED
    BY Zenon, <1>InitInv, <1>NextInv

(* The picture of the list is an invariant of the queue. *)
THEOREM InvHolds == Spec => []Inv
  <1>1. Init => Inv
    BY Zenon, InvSteps
  <1>2. Inv /\ [Next]_vars => Inv'
    BY Zenon, InvSteps
  <1>3. QED
    BY <1>1, <1>2, PTL DEF Spec

(* One thread at a time has the queue and head_ shows it; while it has it, *)
(* only a push changes the next pointer of its node, and neither it nor a  *)
(* push writes to a node that was freed.                                   *)
THEOREM LockIsExclusive == Spec => []QueueIsLocked
  <1>1. ASSUME Inv PROVE QueueIsLocked
    <2>1. Types /\ Locks /\ Fresh
      BY Zenon, <1>1 DEF Inv
    <2>2. PICK d : Front(d) /\ Chain(d)
      BY Zenon, <1>1 DEF Inv
    <2>3. ASSUME NEW c \in Consumer PROVE HasLock(c) <=> pc[c] \in Holding
      <3>1. pc[c] \in Holding \union Outside \union {"notify"} /\ Knows(c)
        BY Zenon, <2>1 DEF Types, Locks
      <3>2. \A l \in Holding : l \notin Outside /\ l # "notify"
        BY Zenon DEF Holding, Outside
      <3>3. QED
        BY Zenon, <3>1, <3>2 DEF HasLock, Knows
    <2>4. /\ \A c, e \in Consumer : HasLock(c) /\ HasLock(e) => c = e
          /\ IsNode(head) <=> \A c \in Consumer : ~HasLock(c)
      BY Zenon, <2>1, <2>3 DEF Locks
    <2>5. /\ d \in live /\ Len(order) \in Nat
          /\ \A i \in 1..(Len(order) + 1) : Before(d, i) \in live
      BY Zenon, <2>1, <2>2, FrontFacts
    <2>6. \A c \in Consumer : HasLock(c) => node[c] \in live
      BY Zenon, <2>2, <2>3, <2>5 DEF Front
    <2>7. ASSUME NEW p \in Producer, own[p] # Null
          PROVE  prev[p] \in live /\ ~IsNode(next[prev[p]])
      <3>1. PICK i \in Items : prev[p] = Before(d, i) /\ ~IsNode(next[Before(d, i)])
        BY Zenon, <2>2, <2>7 DEF Chain, Linked
      <3>2. i \in 1..(Len(order) + 1)
        BY SMTT(30), <2>5 DEF Items
      <3>3. QED
        BY Zenon, <2>5, <3>1, <3>2
    <2>8. QED
      BY Zenon, <2>1, <2>4, <2>6, <2>7 DEF QueueIsLocked, Fresh
  <1>2. QED
    BY <1>1, InvHolds, PTL

(* pop() and try_pop() take the items in the order of the exchanges of     *)
(* tail_ by push(), and each item once.                                    *)
THEOREM ItemsAreInOrder == Spec => Fifo
  <1>1. Inv /\ [Next]_vars =>
          [\A c \in Consumer : old[c] = Null /\ old'[c] # Null =>
             order # <<>> /\ node'[c] = Head(order)]_vars
    BY Zenon, InvSteps DEF TakesOldest
  <1>2. QED
    BY <1>1, InvHolds, PTL DEF Spec, Fifo
-----------------------------------------------------------------------------
(***************************************************************************)
(* The lists of waiters, for links b from each waiter to the one behind it. *)
(***************************************************************************)

Closed(b, S) == \A x \in S : b[x] # Null => b[x] \in S

(* z is w or somewhere behind it: every set that holds w and what is behind *)
(* its members holds z.                                                     *)
Reach(b, w, z) == \A S \in SUBSET Consumer : w \in S /\ Closed(b, S) => z \in S

(* Nobody is in front of w. *)
IsFirst(b, w) == w \in Consumer /\ \A x \in Consumer : b[x] # w

(* z is the last one of the list of w. *)
IsLast(b, w, z) == z \in Consumer /\ b[z] = Null /\ Reach(b, w, z)

(* Links that make up lists: no two waiters are in front of the same one,   *)
(* and every list has an end.                                               *)
AreLists(b) ==
  /\ b \in [Consumer -> MaybeConsumer]
  /\ \A x, y \in Consumer : b[x] # Null /\ b[x] = b[y] => x = y
  /\ \A w \in Consumer : \E z \in Consumer : IsLast(b, w, z)

(* Being behind is reflexive, transitive, and goes along the links. *)
LEMMA ReachFacts ==
  ASSUME NEW b \in [Consumer -> MaybeConsumer]
  PROVE  /\ \A w \in Consumer : Reach(b, w, w)
         /\ \A w, y, z \in Consumer : Reach(b, w, y) /\ Reach(b, y, z) => Reach(b, w, z)
         /\ \A w \in Consumer : b[w] # Null => Reach(b, w, b[w])
  <1>1. ASSUME NEW w \in Consumer PROVE Reach(b, w, w)
    BY Zenon DEF Reach
  <1>2. ASSUME NEW w \in Consumer, NEW y \in Consumer, NEW z \in Consumer,
               Reach(b, w, y), Reach(b, y, z)
        PROVE  Reach(b, w, z)
    BY Zenon, <1>2 DEF Reach
  <1>3. ASSUME NEW w \in Consumer, b[w] # Null PROVE Reach(b, w, b[w])
    BY Zenon, <1>3 DEF Reach, Closed
  <1>4. QED
    BY Zenon, <1>1, <1>2, <1>3

(* Nothing but the last one itself is behind it. *)
LEMMA EndOfList ==
  ASSUME NEW b \in [Consumer -> MaybeConsumer], NEW z \in Consumer, b[z] = Null,
         NEW y \in Consumer, Reach(b, z, y)
  PROVE  y = z
  <1>1. {z} \in SUBSET Consumer /\ z \in {z} /\ Closed(b, {z})
    BY DEF Closed
  <1>2. y \in {z}
    BY Zenon, <1>1 DEF Reach
  <1>3. QED
    BY <1>2

(* What is behind w, other than w, is behind the one after it. *)
LEMMA ReachNext ==
  ASSUME NEW b \in [Consumer -> MaybeConsumer], NEW w \in Consumer, NEW z \in Consumer,
         Reach(b, w, z), w # z, b[w] # Null
  PROVE  Reach(b, b[w], z)
  <1>1. SUFFICES ASSUME NEW S \in SUBSET Consumer, b[w] \in S, Closed(b, S) PROVE z \in S
    BY Zenon DEF Reach
  <1>2. S \union {w} \in SUBSET Consumer /\ w \in S \union {w}
    BY <1>1
  <1>3. Closed(b, S \union {w})
    BY <1>1 DEF Closed
  <1>4. z \in S \union {w}
    BY Zenon, <1>2, <1>3 DEF Reach
  <1>5. QED
    BY <1>4

(* A list has one end. *)
LEMMA OneEnd ==
  ASSUME NEW b \in [Consumer -> MaybeConsumer], NEW w \in Consumer, NEW y, NEW z,
         IsLast(b, w, y), IsLast(b, w, z)
  PROVE  y = z
  <1> DEFINE S == {x \in Consumer : Reach(b, x, z)}
  <1>1. S \in SUBSET Consumer /\ w \in S
    BY DEF IsLast
  <1>2. ASSUME NEW x \in S, b[x] # Null PROVE b[x] \in S
    <2>1. x \in Consumer /\ Reach(b, x, z) /\ b[x] \in Consumer /\ z \in Consumer /\ b[z] = Null
      BY <1>2 DEF IsLast, MaybeConsumer
    <2>2. x # z
      BY <1>2, <2>1
    <2>3. Reach(b, b[x], z)
      BY <1>2, <2>1, <2>2, ReachNext
    <2>4. QED
      BY <2>1, <2>3
  <1>3. Closed(b, S)
    BY Zenon, <1>2 DEF Closed
  <1> HIDE DEF S
  <1>4. y \in S
    BY Zenon, <1>1, <1>3 DEF IsLast, Reach
  <1>5. Reach(b, y, z) /\ y \in Consumer /\ z \in Consumer /\ b[y] = Null
    BY <1>4 DEF S, IsLast
  <1>6. QED
    BY <1>5, EndOfList

(* The lists of two first waiters have nobody in common. *)
LEMMA ListsAreDisjoint ==
  ASSUME NEW b, AreLists(b), NEW f, NEW g, IsFirst(b, f), IsFirst(b, g), f # g,
         NEW z \in Consumer, Reach(b, f, z)
  PROVE  ~Reach(b, g, z)
  <1> DEFINE R == {x \in Consumer : Reach(b, f, x)}
             S == Consumer \ R
  <1>1. /\ b \in [Consumer -> MaybeConsumer] /\ f \in Consumer /\ g \in Consumer
        /\ \A x, y \in Consumer : b[x] # Null /\ b[x] = b[y] => x = y
    BY DEF AreLists, IsFirst
  <1>2. ASSUME NEW y \in R, y # f PROVE \E x \in R : b[x] = y
    <2> DEFINE T == R \ {y}
    <2>1. SUFFICES ASSUME \A x \in R : b[x] # y PROVE FALSE
      BY Zenon
    <2>2. f \in T /\ T \in SUBSET Consumer
      BY <1>1, <1>2, ReachFacts
    <2>3. ASSUME NEW x \in T, b[x] # Null PROVE b[x] \in T
      <3>1. x \in Consumer /\ Reach(b, f, x) /\ x \in R /\ b[x] \in Consumer
        BY <1>1, <2>3 DEF MaybeConsumer
      <3>2. Reach(b, x, b[x])
        BY <1>1, <2>3, <3>1, ReachFacts
      <3>3. Reach(b, f, b[x])
        BY Zenon, <1>1, <3>1, <3>2, ReachFacts
      <3>4. QED
        BY <2>1, <3>1, <3>3
    <2>4. Closed(b, T)
      BY Zenon, <2>3 DEF Closed
    <2>5. y \in T
      <3>1. Reach(b, f, y)
        BY <1>2
      <3> HIDE DEF T
      <3>2. QED
        BY Zenon, <2>2, <2>4, <3>1 DEF Reach
    <2>6. QED
      BY <2>5
  <1>3. g \notin R
    BY <1>1, <1>2 DEF IsFirst
  <1>4. ASSUME NEW x \in S, b[x] # Null PROVE b[x] \in S
    <2>1. x \in Consumer /\ x \notin R /\ b[x] \in Consumer
      BY <1>1, <1>4 DEF MaybeConsumer
    <2>2. SUFFICES ASSUME b[x] \in R PROVE FALSE
      BY <2>1
    <2>3. b[x] # f
      BY <2>1 DEF IsFirst
    <2>4. PICK y \in R : b[y] = b[x]
      BY Zenon, <1>2, <2>2, <2>3
    <2>5. QED
      BY <1>1, <1>4, <2>1, <2>4
  <1>5. S \in SUBSET Consumer /\ g \in S /\ Closed(b, S) /\ z \notin S
    BY <1>1, <1>3, <1>4 DEF Closed
  <1> HIDE DEF S
  <1>6. QED
    BY Zenon, <1>5 DEF Reach

(* find_last() finds the end of the list. *)
LEMMA FindLastFinds ==
  ASSUME AreLists(behind), NEW w \in Consumer
  PROVE  IsLast(behind, w, FindLast(w))
  <1> DEFINE F(e) == e = [c \in Consumer |-> IF behind[c] = Null THEN c ELSE e[behind[c]]]
             end == CHOOSE e : F(e)
             g == [c \in Consumer |-> CHOOSE z : IsLast(behind, c, z)]
  <1>1. /\ behind \in [Consumer -> MaybeConsumer]
        /\ \A c \in Consumer : \E z \in Consumer : IsLast(behind, c, z)
    BY DEF AreLists
  <1>2. \A c \in Consumer : IsLast(behind, c, g[c])
    BY Zenon, <1>1
  <1>0. g = [c \in Consumer |-> g[c]]
    BY SMTT(30)
  <1> HIDE DEF g
  <1>3. ASSUME NEW c \in Consumer PROVE g[c] = IF behind[c] = Null THEN c ELSE g[behind[c]]
    <2>1. CASE behind[c] = Null
      <3>1. IsLast(behind, c, c)
        BY <1>1, <2>1, ReachFacts DEF IsLast
      <3>2. g[c] = c
        BY Zenon, <1>1, <1>2, <3>1, OneEnd
      <3>3. QED
        BY Zenon, <2>1, <3>2
    <2>2. CASE behind[c] # Null
      <3>1. behind[c] \in Consumer
        BY <1>1, <2>2 DEF MaybeConsumer
      <3> DEFINE y == g[behind[c]]
      <3>2. y \in Consumer /\ behind[y] = Null /\ Reach(behind, behind[c], y)
        BY Zenon, <1>2, <3>1 DEF IsLast
      <3>3. Reach(behind, c, behind[c])
        BY Zenon, <1>1, <2>2, ReachFacts
      <3> HIDE DEF y
      <3>4. Reach(behind, c, y)
        BY Zenon, <1>1, <3>1, <3>2, <3>3, ReachFacts
      <3>5. IsLast(behind, c, y)
        BY Zenon, <3>2, <3>4 DEF IsLast
      <3>6. g[c] = y
        BY Zenon, <1>1, <1>2, <3>5, OneEnd
      <3>7. QED
        BY Zenon, <2>2, <3>6 DEF y
    <2>3. QED
      BY Zenon, <2>1, <2>2
  <1>4. F(g)
    <2>1. [c \in Consumer |-> g[c]] =
            [c \in Consumer |-> IF behind[c] = Null THEN c ELSE g[behind[c]]]
      BY Zenon, <1>3
    <2>2. QED
      BY Zenon, <1>0, <2>1
  <1>5. F(end)
    BY Zenon, <1>4
  <1>6. FindLast(w) = end[w]
    BY DEF FindLast
  <1> HIDE DEF end
  <1>7. \A c \in Consumer : end[c] = IF behind[c] = Null THEN c ELSE end[behind[c]]
    BY Zenon, <1>5
  <1> DEFINE S == {x \in Consumer : end[x] = end[w]}
  <1>8. S \in SUBSET Consumer /\ w \in S
    OBVIOUS
  <1>9. ASSUME NEW x \in S, behind[x] # Null PROVE behind[x] \in S
    <2>1. x \in Consumer /\ end[x] = end[w] /\ behind[x] \in Consumer
      BY <1>1, <1>9 DEF MaybeConsumer
    <2>2. end[x] = end[behind[x]]
      BY Zenon, <1>7, <1>9, <2>1
    <2>3. QED
      BY <2>1, <2>2
  <1>10. Closed(behind, S)
    BY Zenon, <1>9 DEF Closed
  <1>11. PICK z \in Consumer : IsLast(behind, w, z)
    BY Zenon, <1>1
  <1>12. z \in S
    <2> HIDE DEF S
    <2>1. QED
      BY Zenon, <1>8, <1>10, <1>11 DEF IsLast, Reach
  <1>13. end[z] = end[w] /\ end[z] = z
    BY Zenon, <1>7, <1>11, <1>12 DEF IsLast
  <1>14. QED
    BY Zenon, <1>6, <1>11, <1>13

(* The list of p is put behind l, the last one of the list of f. *)
LEMMA Linking ==
  ASSUME NEW b, AreLists(b), NEW f, NEW l, NEW p, IsFirst(b, f), IsFirst(b, p), f # p,
         IsLast(b, f, l)
  PROVE  /\ AreLists([b EXCEPT ![l] = p])
         /\ \A z : IsLast(b, p, z) => IsLast([b EXCEPT ![l] = p], f, z)
         /\ \A g, z : IsFirst(b, g) /\ g # f /\ IsLast(b, g, z) => IsLast([b EXCEPT ![l] = p], g, z)
         /\ \A g : IsFirst(b, g) /\ g # p => IsFirst([b EXCEPT ![l] = p], g)
  <1> DEFINE d == [b EXCEPT ![l] = p]
  <1>1. /\ b \in [Consumer -> MaybeConsumer] /\ f \in Consumer /\ p \in Consumer
        /\ l \in Consumer /\ b[l] = Null /\ Reach(b, f, l) /\ p # Null
    BY DistinctNames DEF AreLists, IsFirst, IsLast
  <1>2. /\ d \in [Consumer -> MaybeConsumer] /\ d[l] = p
        /\ \A x \in Consumer \ {l} : d[x] = b[x]
    BY <1>1 DEF MaybeConsumer
  <1> HIDE DEF d
  <1>3. ASSUME NEW x, NEW z, Reach(b, x, z) PROVE Reach(d, x, z)
    <2>1. \A S \in SUBSET Consumer : Closed(d, S) => Closed(b, S)
      BY <1>1, <1>2 DEF Closed
    <2>2. QED
      BY Zenon, <1>3, <2>1 DEF Reach
  <1>4. ASSUME NEW g, NEW z, IsFirst(b, g), g # f, IsLast(b, g, z) PROVE IsLast(d, g, z)
    <2>1. z # l
      BY Zenon, <1>1, <1>4, ListsAreDisjoint DEF IsLast
    <2>2. d[z] = Null
      BY <1>2, <1>4, <2>1 DEF IsLast
    <2>3. QED
      BY Zenon, <1>3, <1>4, <2>2 DEF IsLast
  <1>5. ASSUME NEW x \in Consumer, NEW z, Reach(b, x, l), IsLast(b, p, z) PROVE IsLast(d, x, z)
    <2>1. IsLast(d, p, z)
      BY Zenon, <1>4, <1>5
    <2>2. Reach(d, x, l) /\ Reach(d, l, p) /\ Reach(d, p, z) /\ z \in Consumer
      <3>1. Reach(d, l, p)
        BY Zenon, <1>1, <1>2, ReachFacts
      <3>2. QED
        BY Zenon, <1>3, <1>5, <2>1, <3>1 DEF IsLast
    <2>3. Reach(d, x, p)
      BY Zenon, <1>1, <1>2, <2>2, ReachFacts
    <2>4. Reach(d, x, z)
      BY Zenon, <1>1, <1>2, <2>2, <2>3, ReachFacts
    <2>5. QED
      BY Zenon, <2>1, <2>4 DEF IsLast
  <1>6. ASSUME NEW w \in Consumer PROVE \E z \in Consumer : IsLast(d, w, z)
    <2>1. PICK z \in Consumer : IsLast(b, w, z)
      BY Zenon DEF AreLists
    <2>2. CASE z = l
      <3>1. PICK y \in Consumer : IsLast(b, p, y)
        BY Zenon, <1>1 DEF AreLists
      <3>2. IsLast(d, w, y)
        BY Zenon, <1>5, <2>1, <2>2, <3>1 DEF IsLast
      <3>3. QED
        BY Zenon, <3>2
    <2>3. CASE z # l
      <3>1. d[z] = Null
        BY <1>2, <2>1, <2>3 DEF IsLast
      <3>2. QED
        BY Zenon, <1>3, <2>1, <3>1 DEF IsLast
    <2>4. QED
      BY Zenon, <2>2, <2>3
  <1>7. \A x, y \in Consumer : d[x] # Null /\ d[x] = d[y] => x = y
    <2>1. \A x, y \in Consumer : b[x] # Null /\ b[x] = b[y] => x = y
      BY DEF AreLists
    <2>2. \A x \in Consumer : b[x] # p
      BY DEF IsFirst
    <2>3. QED
      BY <1>1, <1>2, <2>1, <2>2
  <1>8. AreLists(d)
    BY Zenon, <1>2, <1>6, <1>7 DEF AreLists
  <1>9. \A g : IsFirst(b, g) /\ g # p => IsFirst(d, g)
    BY <1>2 DEF IsFirst
  <1>10. \A z : IsLast(b, p, z) => IsLast(d, f, z)
    BY Zenon, <1>1, <1>5
  <1>11. QED
    BY Zenon, <1>4, <1>8, <1>9, <1>10 DEF d

(* A first waiter leaves: the one behind it is a first one now. *)
LEMMA Cutting ==
  ASSUME NEW b, AreLists(b), NEW c, IsFirst(b, c)
  PROVE  /\ AreLists([b EXCEPT ![c] = Null])
         /\ b[c] # Null => IsFirst([b EXCEPT ![c] = Null], b[c])
         /\ \A g, z : g \in Consumer /\ g # c /\ IsLast(b, g, z) => IsLast([b EXCEPT ![c] = Null], g, z)
         /\ \A g : IsFirst(b, g) => IsFirst([b EXCEPT ![c] = Null], g)
  <1> DEFINE d == [b EXCEPT ![c] = Null]
  <1>1. /\ b \in [Consumer -> MaybeConsumer] /\ c \in Consumer /\ \A x \in Consumer : b[x] # c
        /\ \A x, y \in Consumer : b[x] # Null /\ b[x] = b[y] => x = y
    BY DEF AreLists, IsFirst
  <1>2. /\ d \in [Consumer -> MaybeConsumer] /\ d[c] = Null
        /\ \A x \in Consumer \ {c} : d[x] = b[x]
    BY <1>1 DEF MaybeConsumer
  <1> HIDE DEF d
  <1>3. ASSUME NEW g \in Consumer, g # c, NEW z \in Consumer, Reach(b, g, z) PROVE Reach(d, g, z)
    <2>1. SUFFICES ASSUME NEW S \in SUBSET Consumer, g \in S, Closed(d, S) PROVE z \in S
      BY Zenon DEF Reach
    <2> DEFINE T == S \ {c}
    <2>2. T \in SUBSET Consumer /\ g \in T
      BY <1>3, <2>1
    <2>3. Closed(b, T)
      BY <1>1, <1>2, <2>1 DEF Closed
    <2> HIDE DEF T
    <2>4. z \in T
      BY Zenon, <1>3, <2>2, <2>3 DEF Reach
    <2>5. QED
      BY <2>4 DEF T
  <1>4. ASSUME NEW g \in Consumer, g # c, NEW z, IsLast(b, g, z) PROVE IsLast(d, g, z)
    <2>1. z \in Consumer /\ b[z] = Null /\ Reach(b, g, z)
      BY <1>4 DEF IsLast
    <2>2. d[z] = Null
      BY <1>2, <2>1
    <2>3. QED
      BY Zenon, <1>3, <1>4, <2>1, <2>2 DEF IsLast
  <1>5. ASSUME NEW w \in Consumer PROVE \E z \in Consumer : IsLast(d, w, z)
    <2>1. CASE w = c
      BY Zenon, <1>1, <1>2, <2>1, ReachFacts DEF IsLast
    <2>2. CASE w # c
      <3>1. PICK z \in Consumer : IsLast(b, w, z)
        BY Zenon DEF AreLists
      <3>2. QED
        BY Zenon, <1>4, <2>2, <3>1
    <2>3. QED
      BY Zenon, <2>1, <2>2
  <1>6. \A x, y \in Consumer : d[x] # Null /\ d[x] = d[y] => x = y
    BY <1>1, <1>2
  <1>7. AreLists(d)
    BY Zenon, <1>2, <1>5, <1>6 DEF AreLists
  <1>8. b[c] # Null => IsFirst(d, b[c])
    BY <1>1, <1>2 DEF IsFirst, MaybeConsumer
  <1>9. \A g : IsFirst(b, g) => IsFirst(d, g)
    <2>1. SUFFICES ASSUME NEW g, IsFirst(b, g), NEW x \in Consumer PROVE g \in Consumer /\ d[x] # g
      BY Zenon DEF IsFirst
    <2>2. g \in Consumer /\ b[x] # g
      BY <2>1 DEF IsFirst
    <2>3. QED
      BY <1>2, <2>2, DistinctNames
  <1>10. QED
    BY Zenon, <1>4, <1>7, <1>8, <1>9 DEF d
-----------------------------------------------------------------------------
(***************************************************************************)
(* The places that can point to a waiter, and what is in them.             *)
(***************************************************************************)

AtHead == <<"head">>
AtNext(n) == <<"next", n>>
AtPending(c) == <<"pending", c>>
AtBehind(c) == <<"behind", c>>
AtWakes(p) == <<"wakes", p>>

Place ==
  {AtHead} \union {AtNext(n) : n \in Node} \union {AtPending(c) : c \in Consumer}
    \union {AtBehind(c) : c \in Consumer} \union {AtWakes(p) : p \in Producer}

Contents ==
  [x \in Place |-> IF x[1] = "head" THEN head
                   ELSE IF x[1] = "next" THEN next[x[2]]
                   ELSE IF x[1] = "pending" THEN pending[x[2]]
                   ELSE IF x[1] = "behind" THEN behind[x[2]] ELSE wakes[x[2]]]

(* No waiter is in two places. *)
OneHolder(V) == \A x, y \in Place : V[x] \in Consumer /\ V[x] = V[y] => x = y

Held(V, w) == \E x \in Place : V[x] = w

(* The places are different ones. *)
LEMMA PlacesDiffer ==
  /\ \A n, m : AtNext(n) = AtNext(m) => n = m
  /\ \A n, m : AtPending(n) = AtPending(m) => n = m
  /\ \A n, m : AtBehind(n) = AtBehind(m) => n = m
  /\ \A n, m : AtWakes(n) = AtWakes(m) => n = m
  /\ \A n : AtHead # AtNext(n) /\ AtHead # AtPending(n) /\ AtHead # AtBehind(n) /\ AtHead # AtWakes(n)
  /\ \A n, m : AtNext(n) # AtPending(m) /\ AtNext(n) # AtBehind(m) /\ AtNext(n) # AtWakes(m)
  /\ \A n, m : AtPending(n) # AtBehind(m) /\ AtPending(n) # AtWakes(m) /\ AtBehind(n) # AtWakes(m)
  BY DEF AtHead, AtNext, AtPending, AtBehind, AtWakes

(* There are no others. *)
LEMMA Places ==
  /\ AtHead \in Place
  /\ \A n \in Node : AtNext(n) \in Place
  /\ \A c \in Consumer : AtPending(c) \in Place /\ AtBehind(c) \in Place
  /\ \A p \in Producer : AtWakes(p) \in Place
  /\ \A x \in Place : \/ x = AtHead \/ \E n \in Node : x = AtNext(n)
                      \/ \E c \in Consumer : x = AtPending(c) \/ x = AtBehind(c)
                      \/ \E p \in Producer : x = AtWakes(p)
  BY Zenon DEF Place

Reads ==
  /\ Contents[AtHead] = head
  /\ \A n \in Node : Contents[AtNext(n)] = next[n]
  /\ \A c \in Consumer : Contents[AtPending(c)] = pending[c] /\ Contents[AtBehind(c)] = behind[c]
  /\ \A p \in Producer : Contents[AtWakes(p)] = wakes[p]

(* What is in them. *)
LEMMA ContentsAre == Reads
  <1>1. /\ AtHead[1] = "head" /\ \A n : AtNext(n)[1] = "next" /\ AtNext(n)[2] = n
        /\ \A n : AtPending(n)[1] = "pending" /\ AtPending(n)[2] = n
        /\ \A n : AtBehind(n)[1] = "behind" /\ AtBehind(n)[2] = n
        /\ \A n : AtWakes(n)[1] = "wakes" /\ AtWakes(n)[2] = n
    BY DEF AtHead, AtNext, AtPending, AtBehind, AtWakes
  <1>2. Contents[AtHead] = head /\ \A n \in Node : Contents[AtNext(n)] = next[n]
    BY <1>1, Places DEF Contents
  <1>3. \A c \in Consumer : Contents[AtPending(c)] = pending[c] /\ Contents[AtBehind(c)] = behind[c]
    BY <1>1, Places DEF Contents
  <1>4. \A p \in Producer : Contents[AtWakes(p)] = wakes[p]
    BY Zenon, <1>1, Places DEF Contents
  <1>5. QED
    BY Zenon, <1>2, <1>3, <1>4 DEF Reads

(* What is in them after a step. *)
LEMMA ContentsWillBe == Reads'
  BY ContentsAre, PTL

(* What is in a place changes only with the variable that has it. *)
LEMMA PlacesKeep ==
  ASSUME NEW S, AtHead \in S \/ head' = head,
         \A n \in Node : AtNext(n) \in S \/ next'[n] = next[n],
         \A c \in Consumer : AtPending(c) \in S \/ pending'[c] = pending[c],
         \A c \in Consumer : AtBehind(c) \in S \/ behind'[c] = behind[c],
         \A p \in Producer : AtWakes(p) \in S \/ wakes'[p] = wakes[p]
  PROVE  \A x \in Place : x \in S \/ Contents'[x] = Contents[x]
  <1> SUFFICES ASSUME NEW x \in Place, x \notin S PROVE Contents'[x] = Contents[x]
    OBVIOUS
  <1>1. CASE x = AtHead
    BY Zenon, <1>1, ContentsAre, ContentsWillBe DEF Reads
  <1>2. CASE \E n \in Node : x = AtNext(n)
    <2>1. PICK n \in Node : x = AtNext(n)
      BY Zenon, <1>2
    <2>2. next'[n] = next[n]
      BY Zenon, <2>1
    <2>3. Contents[AtNext(n)] = next[n] /\ Contents'[AtNext(n)] = next'[n]
      BY Zenon, ContentsAre, ContentsWillBe DEF Reads
    <2>4. QED
      BY Zenon, <2>1, <2>2, <2>3
  <1>3. CASE \E c \in Consumer : x = AtPending(c)
    <2>1. PICK c \in Consumer : x = AtPending(c)
      BY Zenon, <1>3
    <2>2. pending'[c] = pending[c]
      BY Zenon, <2>1
    <2>3. Contents[AtPending(c)] = pending[c] /\ Contents'[AtPending(c)] = pending'[c]
      BY Zenon, ContentsAre, ContentsWillBe DEF Reads
    <2>4. QED
      BY Zenon, <2>1, <2>2, <2>3
  <1>4. CASE \E c \in Consumer : x = AtBehind(c)
    <2>1. PICK c \in Consumer : x = AtBehind(c)
      BY Zenon, <1>4
    <2>2. behind'[c] = behind[c]
      BY Zenon, <2>1
    <2>3. Contents[AtBehind(c)] = behind[c] /\ Contents'[AtBehind(c)] = behind'[c]
      BY Zenon, ContentsAre, ContentsWillBe DEF Reads
    <2>4. QED
      BY Zenon, <2>1, <2>2, <2>3
  <1>5. CASE \E p \in Producer : x = AtWakes(p)
    <2>1. PICK p \in Producer : x = AtWakes(p)
      BY Zenon, <1>5
    <2>2. wakes'[p] = wakes[p]
      BY Zenon, <2>1
    <2>3. Contents[AtWakes(p)] = wakes[p] /\ Contents'[AtWakes(p)] = wakes'[p]
      BY Zenon, ContentsAre, ContentsWillBe DEF Reads
    <2>4. QED
      BY Zenon, <2>1, <2>2, <2>3
  <1>6. QED
    BY Zenon, <1>1, <1>2, <1>3, <1>4, <1>5, Places

(* A waiter goes from a to b. *)
LEMMA Moved ==
  ASSUME NEW V, NEW W, OneHolder(V), NEW a \in Place, NEW b \in Place, a # b,
         V[b] \notin Consumer, W[b] = V[a], W[a] \notin Consumer,
         \A x \in Place : x # a /\ x # b => W[x] = V[x]
  PROVE  OneHolder(W) /\ \A w \in Consumer : Held(W, w) <=> Held(V, w)
  BY Zenon DEF OneHolder, Held

(* One goes from a to b and another one from b to d. *)
LEMMA Shifted ==
  ASSUME NEW V, NEW W, OneHolder(V), NEW a \in Place, NEW b \in Place, NEW d \in Place,
         a # b, a # d, b # d, V[d] \notin Consumer, W[d] = V[b], W[b] = V[a], W[a] \notin Consumer,
         \A x \in Place : x # a /\ x # b /\ x # d => W[x] = V[x]
  PROVE  OneHolder(W) /\ \A w \in Consumer : Held(W, w) <=> Held(V, w)
  BY ZenonT(40) DEF OneHolder, Held

(* A waiter that is in no place goes to a. *)
LEMMA Added ==
  ASSUME NEW V, NEW W, OneHolder(V), NEW a \in Place, V[a] \notin Consumer, ~Held(V, W[a]),
         \A x \in Place : x # a => W[x] = V[x]
  PROVE  OneHolder(W) /\ \A w \in Consumer : Held(W, w) <=> Held(V, w) \/ w = W[a]
  BY Zenon DEF OneHolder, Held

(* A waiter that is in no place goes to a; who was there goes behind it. *)
LEMMA Joined ==
  ASSUME NEW V, NEW W, OneHolder(V), NEW a \in Place, NEW b \in Place, a # b,
         V[b] \notin Consumer, ~Held(V, W[a]), W[b] = V[a],
         \A x \in Place : x # a /\ x # b => W[x] = V[x]
  PROVE  OneHolder(W) /\ \A w \in Consumer : Held(W, w) <=> Held(V, w) \/ w = W[a]
  BY Zenon DEF OneHolder, Held

(* A waiter leaves a. *)
LEMMA Dropped ==
  ASSUME NEW V, NEW W, OneHolder(V), NEW a \in Place, V[a] \in Consumer, W[a] \notin Consumer,
         \A x \in Place : x # a => W[x] = V[x] \/ (W[x] \notin Consumer /\ V[x] \notin Consumer)
  PROVE  OneHolder(W) /\ \A w \in Consumer : Held(W, w) <=> Held(V, w) /\ w # V[a]
  BY Zenon DEF OneHolder, Held

(* Waiters are where they were. *)
LEMMA Stayed ==
  ASSUME NEW V, NEW W, OneHolder(V),
         \A x \in Place : W[x] = V[x] \/ (W[x] \notin Consumer /\ V[x] \notin Consumer)
  PROVE  OneHolder(W) /\ \A w \in Consumer : Held(W, w) <=> Held(V, w)
  BY Zenon DEF OneHolder, Held

-----------------------------------------------------------------------------
(* Where a consumer is responsible for nobody, and where for somebody. *)
ServesNone == {"idle", "free", "grab", "no_item", "no_item_grab", "unlock_waiting",
               "try", "try_lock", "try_next"}

ServesSome == {"load_next", "hand_over", "release", "grab_more", "notify", "no_item_install"}

Serves(c) ==
  /\ pc[c] \in ServesNone => pending[c] = Null
  /\ pc[c] \in ServesSome => pending[c] # Null

(* pendingLast is the end of the list in pending. *)
Tails == \A c \in Consumer : pending[c] # Null => IsLast(behind, pending[c], last[c])

(* A thread waits with its waiter in one place until it has a permit; one  *)
(* that does not wait has nobody behind it.                                *)
Waits(w) ==
  /\ permits[w] = 0 \/ (permits[w] = 1 /\ pc[w] \in Waiting)
  /\ Held(Contents, w) <=> pc[w] \in Waiting /\ permits[w] = 0
  /\ pc[w] \notin Waiting => behind[w] = Null

WaiterTypes ==
  /\ wakes \in [Producer -> MaybeConsumer] /\ last \in [Consumer -> MaybeConsumer]
  /\ permits \in [Consumer -> {0, 1}]
  /\ \A p \in Producer : own[p] # Null => wakes[p] = Null
  /\ \A n \in Node : n \notin live => next[n] = Null

WaiterInv ==
  /\ WaiterTypes /\ OneHolder(Contents) /\ AreLists(behind) /\ Tails
  /\ \A c \in Consumer : Waits(c) /\ Serves(c)

(* A waiter that is not behind another one is the first of its list. *)
LEMMA FirstOfList ==
  ASSUME Types, WaiterInv, NEW w \in Consumer
  PROVE  /\ \A x \in Place : Contents[x] = w /\ (\A c \in Consumer : x # AtBehind(c)) => IsFirst(behind, w)
         /\ ~Held(Contents, w) => IsFirst(behind, w)
  <1>1. \A c \in Consumer : behind[c] = w => AtBehind(c) \in Place /\ Contents[AtBehind(c)] = w
    BY Zenon, Places, ContentsAre DEF Reads
  <1>2. ASSUME NEW x \in Place, Contents[x] = w, \A c \in Consumer : x # AtBehind(c)
        PROVE  IsFirst(behind, w)
    BY Zenon, <1>1, <1>2 DEF WaiterInv, OneHolder, IsFirst
  <1>3. ASSUME ~Held(Contents, w) PROVE IsFirst(behind, w)
    BY Zenon, <1>1, <1>3 DEF Held, IsFirst
  <1>4. QED
    BY Zenon, <1>2, <1>3

(* Those in head_, in a next pointer or in pending are. *)
LEMMA Firsts ==
  ASSUME Types, WaiterInv
  PROVE  /\ head \in Consumer => IsFirst(behind, head)
         /\ \A n \in Node : next[n] \in Consumer => IsFirst(behind, next[n])
         /\ \A c \in Consumer : pending[c] \in Consumer => IsFirst(behind, pending[c])
         /\ \A c \in Consumer : ~Held(Contents, c) => IsFirst(behind, c)
  <1>1. head \in Consumer => IsFirst(behind, head)
    <2>1. AtHead \in Place /\ Contents[AtHead] = head /\ \A e \in Consumer : AtHead # AtBehind(e)
      BY Zenon, Places, ContentsAre, PlacesDiffer DEF Reads
    <2>2. QED
      BY Zenon, <2>1, FirstOfList
  <1>2. ASSUME NEW n \in Node PROVE next[n] \in Consumer => IsFirst(behind, next[n])
    <2>1. AtNext(n) \in Place /\ Contents[AtNext(n)] = next[n] /\ \A e \in Consumer : AtNext(n) # AtBehind(e)
      BY Zenon, Places, ContentsAre, PlacesDiffer DEF Reads
    <2>2. QED
      BY Zenon, <2>1, FirstOfList
  <1>3. ASSUME NEW c \in Consumer PROVE pending[c] \in Consumer => IsFirst(behind, pending[c])
    <2>1. AtPending(c) \in Place /\ Contents[AtPending(c)] = pending[c] /\ \A e \in Consumer : AtPending(c) # AtBehind(e)
      BY Zenon, Places, ContentsAre, PlacesDiffer DEF Reads
    <2>2. QED
      BY Zenon, <2>1, FirstOfList
  <1>4. QED
    BY Zenon, <1>1, <1>2, <1>3, FirstOfList

(* They are different ones. *)
LEMMA FirstsDiffer ==
  ASSUME Types, WaiterInv
  PROVE  /\ \A n \in Node : head \in Consumer => head # next[n]
         /\ \A c \in Consumer : head \in Consumer => head # pending[c] /\ head # behind[c]
         /\ \A n \in Node, c \in Consumer : next[n] \in Consumer =>
              next[n] # pending[c] /\ next[n] # behind[c]
         /\ \A c, e \in Consumer : pending[c] \in Consumer =>
              pending[c] # behind[e] /\ (pending[c] = pending[e] => c = e)
  <1>1. \A x, y \in Place : Contents[x] \in Consumer /\ Contents[x] = Contents[y] => x = y
    BY Zenon DEF WaiterInv, OneHolder
  <1>2. /\ \A n \in Node : head \in Consumer => head # next[n]
        /\ \A c \in Consumer : head \in Consumer => head # pending[c] /\ head # behind[c]
    BY SMTT(30), <1>1, Places, ContentsAre, PlacesDiffer DEF Reads
  <1>3. \A n \in Node, c \in Consumer : next[n] \in Consumer =>
              next[n] # pending[c] /\ next[n] # behind[c]
    BY SMTT(30), <1>1, Places, ContentsAre, PlacesDiffer DEF Reads
  <1>4. \A c, e \in Consumer : pending[c] \in Consumer =>
              pending[c] # behind[e] /\ (pending[c] = pending[e] => c = e)
    BY SMTT(30), <1>1, Places, ContentsAre, PlacesDiffer DEF Reads
  <1>5. QED
    BY Zenon, <1>2, <1>3, <1>4

(* Everybody in a list that somebody points to waits. *)
LEMMA AllInListWait ==
  ASSUME Types, WaiterInv, NEW w \in Consumer, Held(Contents, w), NEW z \in Consumer, Reach(behind, w, z)
  PROVE  Held(Contents, z) /\ pc[z] \in Waiting
  <1> DEFINE S == {x \in Consumer : Held(Contents, x)}
  <1>1. S \in SUBSET Consumer /\ w \in S
    OBVIOUS
  <1>2. ASSUME NEW x \in S, behind[x] # Null PROVE behind[x] \in S
    <2>1. x \in Consumer /\ behind[x] \in Consumer
      BY <1>2 DEF WaiterInv, AreLists, MaybeConsumer
    <2>2. Held(Contents, behind[x])
      BY Zenon, <2>1, Places, ContentsAre DEF Reads, Held
    <2>3. QED
      BY Zenon, <2>1, <2>2
  <1>3. Closed(behind, S)
    BY Zenon, <1>2 DEF Closed
  <1> HIDE DEF S
  <1>4. z \in S
    BY Zenon, <1>1, <1>3 DEF Reach
  <1>5. Held(Contents, z)
    BY Zenon, <1>4 DEF S
  <1>6. QED
    BY Zenon, <1>5 DEF WaiterInv, Waits

(* What holds of a consumer that goes to l. *)
LEMMA ConsumerGoes ==
  ASSUME Types, WaiterInv, NEW c \in Consumer, NEW l, pc' = [pc EXCEPT ![c] = l],
         \A e \in Consumer : e # c => pending'[e] = pending[e],
         l \in ServesNone => pending'[c] = Null, l \in ServesSome => pending'[c] # Null
  PROVE  /\ pc'[c] = l /\ \A e \in Consumer : e # c => pc'[e] = pc[e]
         /\ \A e \in Consumer : Serves(e)'
  <1>1. pc'[c] = l /\ \A e \in Consumer : e # c => pc'[e] = pc[e]
    BY SMTT(30) DEF Types
  <1>2. \A e \in Consumer : Serves(e)'
    BY SMTT(30), <1>1 DEF Serves, WaiterInv
  <1>3. QED
    BY Zenon, <1>1, <1>2

(* Everybody who waits goes on to. *)
LEMMA WaitersKeepWaiting ==
  ASSUME WaiterInv, \A w \in Consumer : pc'[w] \in Waiting <=> pc[w] \in Waiting,
         permits' = permits, \A w \in Consumer : Held(Contents', w) <=> Held(Contents, w),
         \A w \in Consumer : pc[w] \notin Waiting => behind'[w] = Null
  PROVE  \A w \in Consumer : Waits(w)'
  BY SMTT(30) DEF Waits, WaiterInv

(* Consumer c starts to wait. *)
LEMMA WaiterStarts ==
  ASSUME WaiterInv, NEW c \in Consumer, pc[c] \notin Waiting, pc'[c] \in Waiting,
         \A e \in Consumer : e # c => pc'[e] = pc[e], permits' = permits,
         \A w \in Consumer : Held(Contents', w) <=> Held(Contents, w) \/ w = c,
         \A w \in Consumer : w # c /\ pc[w] \notin Waiting => behind'[w] = Null
  PROVE  \A w \in Consumer : Waits(w)'
  BY SMTT(30) DEF Waits, WaiterInv

(* A thread that waits is notified. *)
LEMMA WaiterIsNotified ==
  ASSUME WaiterInv, NEW w \in Consumer, Held(Contents, w), permits' = [permits EXCEPT ![w] = @ + 1],
         \A e \in Consumer : pc'[e] \in Waiting <=> pc[e] \in Waiting, behind' = behind,
         \A e \in Consumer : Held(Contents', e) <=> Held(Contents, e) /\ e # w
  PROVE  (\A e \in Consumer : Waits(e)') /\ permits' \in [Consumer -> {0, 1}]
  <1>1. permits \in [Consumer -> {0, 1}] /\ \A e \in Consumer : Waits(e)
    BY Zenon DEF WaiterInv, WaiterTypes
  <1>2. permits[w] = 0 /\ pc[w] \in Waiting
    BY Zenon, <1>1 DEF Waits
  <1>3. permits'[w] = 1 /\ \A e \in Consumer : e # w => permits'[e] = permits[e]
    BY SMTT(30), <1>1, <1>2
  <1>4. permits' \in [Consumer -> {0, 1}]
    BY SMTT(30), <1>1, <1>2
  <1>5. 1 # 0
    BY SMTT(30)
  <1>6. \A e \in Consumer : Waits(e)'
    BY SMTT(30), <1>1, <1>2, <1>3, <1>5 DEF Waits
  <1>7. QED
    BY Zenon, <1>4, <1>6

(* A step of consumer c that leaves the lists alone. *)
LEMMA WaitersStay ==
  ASSUME Types, WaiterInv, NEW c \in Consumer, NEW l, pc' = [pc EXCEPT ![c] = l],
         l \in Waiting <=> pc[c] \in Waiting, UNCHANGED <<listVars, permits, wakes, own>>,
         head' = head \/ (head' \notin Consumer /\ head \notin Consumer),
         \A n \in Node : \/ next'[n] = next[n]
                         \/ next'[n] \notin Consumer /\ next[n] \notin Consumer,
         \A n \in Node : n \notin live' => next'[n] = Null,
         l \in ServesNone => pending[c] = Null, l \in ServesSome => pending[c] # Null
  PROVE  WaiterInv'
  <1>1. /\ behind' = behind /\ pending' = pending /\ last' = last /\ wakes' = wakes
        /\ own' = own /\ permits' = permits
    BY Zenon DEF listVars
  <1>2. \A x \in Place : \/ Contents'[x] = Contents[x]
                         \/ Contents'[x] \notin Consumer /\ Contents[x] \notin Consumer
    BY SMTT(30), <1>1, Places, ContentsAre, ContentsWillBe DEF Reads
  <1>3. OneHolder(Contents) /\ AreLists(behind) /\ Tails /\ WaiterTypes
    BY Zenon DEF WaiterInv
  <1>4. OneHolder(Contents') /\ \A w \in Consumer : Held(Contents', w) <=> Held(Contents, w)
    BY Zenon, <1>2, <1>3, Stayed
  <1>5. Tails' /\ WaiterTypes' /\ AreLists(behind')
    BY Zenon, <1>1, <1>3 DEF Tails, WaiterTypes
  <1>6. \A w \in Consumer : pc[w] \notin Waiting => behind'[w] = Null
    BY Zenon, <1>1 DEF WaiterInv, Waits
  <1>7. /\ pc'[c] = l /\ \A e \in Consumer : e # c => pc'[e] = pc[e]
        /\ \A e \in Consumer : Serves(e)'
    BY Zenon, <1>1, ConsumerGoes
  <1>8. \A w \in Consumer : pc'[w] \in Waiting <=> pc[w] \in Waiting
    BY Zenon, <1>7
  <1>9. \A w \in Consumer : Waits(w)'
    BY Zenon, <1>1, <1>4, <1>6, <1>8, WaitersKeepWaiting
  <1>10. QED
    BY Zenon, <1>4, <1>5, <1>7, <1>9 DEF WaiterInv

(* What the picture of the list says of the steps below. *)
LEMMA StepFacts ==
  ASSUME Inv
  PROVE  /\ Types
         /\ \A p \in Producer : own[p] # Null => 
              prev[p] \in Node /\ prev[p] \in live /\ ~IsNode(next[prev[p]])
         /\ \A c \in Consumer : pc[c] \in Holding => node[c] \in Node /\ node[c] \in live
         /\ \A c \in Consumer : pc[c] \in SawNone => ~IsNode(word[c])
         /\ \A c \in Consumer : old[c] # Null => old[c] \in Node /\ next[old[c]] \in Node
  <1>1. PICK d : Front(d) /\ Chain(d)
    BY Zenon DEF Inv
  <1>2. Types /\ \A c \in Consumer : Knows(c)
    BY Zenon DEF Inv, Locks
  <1>3. /\ Len(order) \in Nat /\ d \in Node /\ d \in live
        /\ \A i \in 1..(Len(order) + 1) : Before(d, i) \in Node /\ Before(d, i) \in live
    BY Zenon, <1>1, <1>2, FrontFacts
  <1>4. ASSUME NEW p \in Producer, own[p] # Null
        PROVE  prev[p] \in Node /\ prev[p] \in live /\ ~IsNode(next[prev[p]])
    <2>1. PICK i \in Items : prev[p] = Before(d, i) /\ ~IsNode(next[Before(d, i)])
      BY Zenon, <1>1, <1>4 DEF Chain, Linked
    <2>2. i \in 1..(Len(order) + 1)
      BY SMTT(30), <1>3 DEF Items
    <2>3. QED
      BY Zenon, <1>3, <2>1, <2>2
  <1>5. \A c \in Consumer : pc[c] \in Holding => node[c] \in Node /\ node[c] \in live
    BY Zenon, <1>1, <1>3 DEF Front
  <1>6. \A c \in Consumer : pc[c] \in SawNone => ~IsNode(word[c])
    BY Zenon, <1>2 DEF Knows
  <1>7. \A c \in Consumer : old[c] # Null => old[c] \in Node /\ next[old[c]] \in Node
    BY SMTT(30), <1>1, <1>2 DEF Chain, Freed, Types, IsNode
  <1>8. QED
    BY Zenon, <1>2, <1>4, <1>5, <1>6, <1>7

(* A function that is not changed. *)
LEMMA SameValue ==
  ASSUME NEW S, NEW T, NEW b \in [S -> T], NEW l \in S
  PROVE  [b EXCEPT ![l] = b[l]] = b
  BY SMTT(30)

(* Two changes in either order. *)
LEMMA TwoValues ==
  ASSUME NEW S, NEW T, NEW b \in [S -> T], NEW l \in S, NEW c \in S, l # c, NEW x \in T, NEW y \in T
  PROVE  [b EXCEPT ![l] = x, ![c] = y] = [[b EXCEPT ![c] = y] EXCEPT ![l] = x]
  <1> DEFINE f == [b EXCEPT ![l] = x, ![c] = y]
             h == [b EXCEPT ![c] = y]
             g == [h EXCEPT ![l] = x]
  <1>1. f \in [S -> T] /\ f[l] = x /\ f[c] = y /\ \A z \in S : z # l /\ z # c => f[z] = b[z]
    BY SMTT(30)
  <1>2. h \in [S -> T] /\ h[c] = y /\ \A z \in S : z # c => h[z] = b[z]
    BY SMTT(30)
  <1> HIDE DEF h
  <1>3. g \in [S -> T] /\ g[l] = x /\ g[c] = y /\ \A z \in S : z # l /\ z # c => g[z] = b[z]
    BY SMTT(30), <1>2
  <1> HIDE DEF f, g
  <1>4. f = g
    BY SMTT(30), <1>1, <1>3
  <1>5. QED
    BY Zenon, <1>4 DEF f, g, h

(* push(): who waits at the node in front is the one to wake. *)
LEMMA PushKeepsWaiters ==
  ASSUME Inv, WaiterInv, NEW p \in Producer, ProducerStep(p) \/ \E n \in Node : PushTail(p, n)
  PROVE  WaiterInv'
  <1>1. /\ OneHolder(Contents) /\ AreLists(behind) /\ Tails /\ WaiterTypes /\ Types
        /\ \A c \in Consumer : Waits(c) /\ Serves(c)
    BY Zenon, StepFacts DEF WaiterInv
  <1>2. /\ next \in [Node -> Word] /\ own \in [Producer -> MaybeNode]
        /\ wakes \in [Producer -> MaybeConsumer] /\ \A q \in Producer : own[q] # Null => wakes[q] = Null
        /\ \A m \in Node : m \notin live => next[m] = Null
    BY Zenon, <1>1 DEF Types, WaiterTypes
  <1>3. /\ pc' = pc /\ behind' = behind /\ pending' = pending /\ last' = last /\ head' = head
    BY Zenon DEF ProducerStep, PushNext, PushNotify, PushTail, listVars
  <1>4. AreLists(behind') /\ Tails' /\ \A c \in Consumer : Serves(c)'
    BY Zenon, <1>1, <1>3 DEF Tails, Serves
  <1>5. /\ \A w \in Consumer : pc'[w] \in Waiting <=> pc[w] \in Waiting
        /\ \A w \in Consumer : pc[w] \notin Waiting => behind'[w] = Null
    BY Zenon, <1>1, <1>3 DEF Waits
  <1>6. CASE \E n \in Node : PushTail(p, n)
    <2>1. PICK n \in Node : PushTail(p, n)
      BY Zenon, <1>6
    <2>2. /\ live' = live \union {n} /\ next' = [next EXCEPT ![n] = Null] /\ n \notin live
          /\ own' = [own EXCEPT ![p] = n] /\ wakes[p] = Null /\ wakes' = wakes /\ permits' = permits
      BY Zenon, <2>1 DEF PushTail
    <2>3. next[n] = Null /\ \A m \in Node : next'[m] = next[m]
      BY ZenonT(40), <1>2, <2>2
    <2>4. \A x \in Place : Contents'[x] = Contents[x]
      <3> DEFINE S == {}
      <3>1. /\ \A m \in Node : AtNext(m) \in S \/ next'[m] = next[m]
            /\ \A q \in Producer : AtWakes(q) \in S \/ wakes'[q] = wakes[q]
            /\ \A x : x \notin S
        BY Zenon, <2>2, <2>3
      <3> HIDE DEF S
      <3>2. \A x \in Place : x \in S \/ Contents'[x] = Contents[x]
        BY Zenon, <1>3, <3>1, PlacesKeep
      <3>3. QED
        BY Zenon, <3>1, <3>2
    <2>5. OneHolder(Contents') /\ \A w \in Consumer : Held(Contents', w) <=> Held(Contents, w)
      BY Zenon, <1>1, <2>4, Stayed
    <2>6. WaiterTypes'
      <3>1. \A q \in Producer : own'[q] # Null => wakes'[q] = Null
        BY SMTT(30), <1>2, <2>2
      <3>2. \A m \in Node : m \notin live' => next'[m] = Null
        BY SMTT(30), <1>2, <2>2, <2>3
      <3>3. QED
        BY Zenon, <1>1, <1>3, <2>2, <3>1, <3>2 DEF WaiterTypes
    <2>7. \A w \in Consumer : Waits(w)'
      BY Zenon, <1>5, <2>2, <2>5, WaitersKeepWaiting
    <2>8. QED
      BY Zenon, <1>4, <2>5, <2>6, <2>7 DEF WaiterInv
  <1>7. CASE PushNext(p)
    <2> DEFINE n == prev[p]
    <2>1. /\ own[p] # Null /\ next' = [next EXCEPT ![n] = own[p]]
          /\ wakes' = [wakes EXCEPT ![p] = IF IsWaiter(next[n]) THEN next[n] ELSE Null]
          /\ own' = [own EXCEPT ![p] = Null] /\ live' = live /\ permits' = permits
      BY Zenon, <1>7 DEF PushNext
    <2>2. n \in Node /\ ~IsNode(next[n]) /\ own[p] \in Node /\ wakes[p] = Null /\ next[n] \in MaybeConsumer
      <3>1. n \in Node /\ ~IsNode(next[n])
        BY Zenon, <2>1, StepFacts
      <3>2. QED
        BY SMTT(30), <1>2, <2>1, <3>1 DEF MaybeNode, MaybeConsumer, Word, IsNode
    <2> HIDE DEF n
    <2>3. /\ next'[n] = own[p] /\ \A m \in Node : m # n => next'[m] = next[m]
          /\ wakes'[p] = next[n] /\ \A q \in Producer : q # p => wakes'[q] = wakes[q]
          /\ own'[p] = Null /\ \A q \in Producer : q # p => own'[q] = own[q]
      <3>1. (IF IsWaiter(next[n]) THEN next[n] ELSE Null) = next[n]
        BY Zenon, <2>2 DEF IsWaiter, MaybeConsumer
      <3>2. wakes' = [wakes EXCEPT ![p] = next[n]]
        BY Zenon, <2>1, <3>1
      <3>3. QED
        BY Zenon, <1>2, <2>1, <2>2, <3>2
    <2>4. /\ AtNext(n) \in Place /\ AtWakes(p) \in Place /\ AtNext(n) # AtWakes(p)
          /\ Contents[AtWakes(p)] \notin Consumer /\ Contents'[AtWakes(p)] = Contents[AtNext(n)]
          /\ Contents'[AtNext(n)] \notin Consumer
      <3>1. AtNext(n) \in Place /\ AtWakes(p) \in Place /\ AtNext(n) # AtWakes(p)
        BY Zenon, <2>2, Places, PlacesDiffer
      <3>2. Contents[AtWakes(p)] = Null /\ Contents[AtNext(n)] = next[n]
        BY Zenon, <2>2, ContentsAre DEF Reads
      <3>3. Contents'[AtWakes(p)] = next[n] /\ Contents'[AtNext(n)] = own[p]
        BY ZenonT(40), <2>2, <2>3, ContentsWillBe DEF Reads
      <3>4. QED
        BY Zenon, <2>2, <3>1, <3>2, <3>3, DistinctNames
    <2>5. \A x \in Place : x # AtNext(n) /\ x # AtWakes(p) => Contents'[x] = Contents[x]
      <3> DEFINE S == {AtNext(n), AtWakes(p)}
      <3>1. /\ \A m \in Node : AtNext(m) \in S \/ next'[m] = next[m]
            /\ \A q \in Producer : AtWakes(q) \in S \/ wakes'[q] = wakes[q]
            /\ \A x : x \in S => x = AtNext(n) \/ x = AtWakes(p)
        BY Zenon, <2>3
      <3> HIDE DEF S
      <3>2. \A x \in Place : x \in S \/ Contents'[x] = Contents[x]
        BY Zenon, <1>3, <3>1, PlacesKeep
      <3>3. QED
        BY Zenon, <3>1, <3>2
    <2>6. OneHolder(Contents') /\ \A w \in Consumer : Held(Contents', w) <=> Held(Contents, w)
      BY SMTT(30), <1>1, <2>4, <2>5, Moved
    <2>7. WaiterTypes'
      <3>1. wakes' \in [Producer -> MaybeConsumer]
        BY SMTT(30), <1>2, <2>1, <2>2 DEF MaybeConsumer
      <3>2. \A q \in Producer : own'[q] # Null => wakes'[q] = Null
        BY SMTT(30), <1>2, <2>3
      <3>3. n \in live
        BY Zenon, <2>1, StepFacts DEF n
      <3>4. \A m \in Node : m \notin live' => next'[m] = Null
        BY SMTT(30), <1>2, <2>1, <2>3, <3>3
      <3>5. QED
        BY Zenon, <1>1, <1>3, <2>1, <3>1, <3>2, <3>4 DEF WaiterTypes
    <2>8. \A w \in Consumer : Waits(w)'
      BY Zenon, <1>5, <2>1, <2>6, WaitersKeepWaiting
    <2>9. QED
      BY Zenon, <1>4, <2>6, <2>7, <2>8 DEF WaiterInv
  <1>8. CASE PushNotify(p)
    <2> DEFINE w == wakes[p]
    <2>1. /\ w # Null /\ permits' = [permits EXCEPT ![w] = @ + 1] /\ wakes' = [wakes EXCEPT ![p] = Null]
          /\ next' = next /\ live' = live /\ own' = own
      BY Zenon, <1>8 DEF PushNotify
    <2>2. w \in Consumer
      BY SMTT(30), <1>2, <2>1 DEF MaybeConsumer
    <2>3. wakes'[p] = Null /\ \A q \in Producer : q # p => wakes'[q] = wakes[q]
      BY Zenon, <1>2, <2>1
    <2>4. /\ AtWakes(p) \in Place /\ Contents[AtWakes(p)] = w /\ Contents'[AtWakes(p)] \notin Consumer
          /\ \A x \in Place : x # AtWakes(p) => Contents'[x] = Contents[x]
      <3>1. AtWakes(p) \in Place /\ Contents[AtWakes(p)] = w /\ Contents'[AtWakes(p)] = Null
        BY ZenonT(40), <2>3, Places, ContentsAre, ContentsWillBe DEF Reads
      <3>2. \A x \in Place : x \in {AtWakes(p)} \/ Contents'[x] = Contents[x]
        BY Zenon, <1>3, <2>1, <2>3, PlacesKeep
      <3>3. QED
        BY Zenon, <3>1, <3>2, DistinctNames
    <2> HIDE DEF w
    <2>5. OneHolder(Contents') /\ \A e \in Consumer : Held(Contents', e) <=> Held(Contents, e) /\ e # w
      <3>1. /\ OneHolder(Contents) /\ AtWakes(p) \in Place
            /\ Contents[AtWakes(p)] \in Consumer /\ Contents'[AtWakes(p)] \notin Consumer
        BY Zenon, <1>1, <2>2, <2>4
      <3>2. \A x \in Place : x # AtWakes(p) =>
              Contents'[x] = Contents[x] \/ (Contents'[x] \notin Consumer /\ Contents[x] \notin Consumer)
        BY Zenon, <2>4
      <3>3. /\ OneHolder(Contents')
            /\ \A e \in Consumer : Held(Contents', e) <=> Held(Contents, e) /\ e # Contents[AtWakes(p)]
        BY ZenonT(40), <3>1, <3>2, Dropped
      <3>4. QED
        BY Zenon, <2>4, <3>3
    <2>6. Held(Contents, w)
      BY Zenon, <2>4 DEF Held
    <2>7. (\A e \in Consumer : Waits(e)') /\ permits' \in [Consumer -> {0, 1}]
      BY Zenon, <1>3, <1>5, <2>1, <2>2, <2>5, <2>6, WaiterIsNotified
    <2>8. WaiterTypes'
      <3>1. wakes' \in [Producer -> MaybeConsumer]
        BY SMTT(30), <1>2, <2>1 DEF MaybeConsumer
      <3>2. \A q \in Producer : own'[q] # Null => wakes'[q] = Null
        BY SMTT(30), <1>2, <2>1, <2>3
      <3>3. QED
        BY Zenon, <1>1, <1>3, <2>1, <2>7, <3>1, <3>2 DEF WaiterTypes
    <2>9. QED
      BY Zenon, <1>4, <2>5, <2>7, <2>8 DEF WaiterInv
  <1>9. QED
    BY Zenon, <1>6, <1>7, <1>8 DEF ProducerStep
=============================================================================
