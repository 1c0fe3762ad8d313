----------------------- MODULE BlockingQueueWaiters ------------------------
(***************************************************************************)
(* The waiters of BlockingQueue, for any producers, consumers and nodes: a *)
(* thread that waits in pop() is in one list, or about to be notified, or  *)
(* notified, and is never lost, woken twice or in two lists.               *)
(*                                                                         *)
(* The proof shows for every step of a consumer that it keeps WaiterInv:   *)
(* which places it changes, which lists it joins or cuts, and who waits    *)
(* after it.  Inv gives what a step needs to know of the list of items: a  *)
(* node that is waited at or freed is not one that somebody else changes.  *)
(***************************************************************************)
EXTENDS BlockingQueueProofs

(* A step that moves no waiter. *)
LEMMA NothingMoves ==
  ASSUME Types, WaiterInv, NEW c \in Consumer, NEW l, pc' = [pc EXCEPT ![c] = l],
         l \notin Waiting, pc[c] \notin Waiting, next' = next, live' = live,
         UNCHANGED <<listVars, producerVars, permits>>,
         head' = head \/ (head' \notin Consumer /\ head \notin Consumer),
         l \in ServesNone => pending[c] = Null, l \in ServesSome => pending[c] # Null
  PROVE  WaiterInv'
  <1>1. UNCHANGED <<listVars, permits, wakes, own>>
    BY Zenon DEF producerVars
  <1>2. \A n \in Node : n \notin live' => next'[n] = Null
    BY Zenon DEF WaiterInv, WaiterTypes
  <1>3. \A n \in Node : next'[n] = next[n] \/ (next'[n] \notin Consumer /\ next[n] \notin Consumer)
    BY Zenon
  <1>4. QED
    BY Zenon, <1>1, <1>2, <1>3, WaitersStay

(* Leaving the next pointer to waiters, the thread itself or those it      *)
(* serves: install_next and hand_over, whether or not the word has changed. *)
LEMMA NextKeepsWaiters ==
  \A c \in Consumer : Inv /\ WaiterInv /\ (InstallNext(c) \/ HandOver(c)) => WaiterInv'
  (* The list of p, if there is one, is put behind l. *)
  <1>LinkingAny. ASSUME NEW b, AreLists(b), NEW f, NEW l, NEW p, IsFirst(b, f), IsLast(b, f, l),
                        p = Null \/ (IsFirst(b, p) /\ p # f)
                 PROVE  /\ AreLists([b EXCEPT ![l] = p])
                        /\ \A g, z : IsFirst(b, g) /\ g # f /\ IsLast(b, g, z) => IsLast([b EXCEPT ![l] = p], g, z)
                        /\ \A g : IsFirst(b, g) /\ g # p => IsFirst([b EXCEPT ![l] = p], g)
    <2> USE <1>LinkingAny
    <2>1. CASE p = Null
      <3>1. b \in [Consumer -> MaybeConsumer] /\ l \in Consumer /\ b[l] = Null
        BY Zenon DEF AreLists, IsLast
      <3>2. [b EXCEPT ![l] = b[l]] = b
        BY Zenon, <3>1, SameValue
      <3>3. [b EXCEPT ![l] = p] = b
        BY Zenon, <2>1, <3>1, <3>2
      <3>4. QED
        BY Zenon, <3>3
    <2>2. CASE p # Null
      BY Zenon, <2>2, Linking
    <2>3. QED
      BY Zenon, <2>1, <2>2
  (* The waiters in pending go to the next pointer. *)
  <1>HandOverMoves. ASSUME Inv, WaiterInv, NEW c \in Consumer, NEW l \in {"free", "no_item"},
                           pc[c] \in {"hand_over", "no_item_install"}, next[node[c]] = word[c],
                           next' = [next EXCEPT ![node[c]] = pending[c]],
                           behind' = [behind EXCEPT ![last[c]] = Waiter(next[node[c]])],
                           pending' = [pending EXCEPT ![c] = Null], last' = [last EXCEPT ![c] = Null],
                           pc' = [pc EXCEPT ![c] = l], UNCHANGED <<head, live, wakes, own, permits>>
                    PROVE  WaiterInv'
    <2> USE <1>HandOverMoves
    <2> DEFINE n == node[c]
               v == next[n]
               p == pending[c]
               m == last[c]
    <2>1. /\ OneHolder(Contents) /\ AreLists(behind) /\ Tails /\ WaiterTypes /\ Types
          /\ \A w \in Consumer : Waits(w) /\ Serves(w)
          /\ pending \in [Consumer -> MaybeConsumer] /\ last \in [Consumer -> MaybeConsumer]
          /\ behind \in [Consumer -> MaybeConsumer] /\ next \in [Node -> Word]
      BY Zenon, StepFacts DEF WaiterInv, WaiterTypes, Types
    <2>2. /\ pc[c] \in Holding /\ pc[c] \in SawNone /\ pc[c] \in ServesSome /\ pc[c] \notin Waiting
          /\ l \in ServesNone /\ l \notin ServesSome /\ l \notin Waiting
      BY Zenon DEF Holding, SawNone, ServesSome, Waiting, ServesNone
    <2>3. n \in Node /\ n \in live /\ ~IsNode(v) /\ p # Null
      BY Zenon, <2>1, <2>2, StepFacts DEF Serves
    <2>4. Waiter(v) = v /\ v \in MaybeConsumer /\ p \in Consumer
      BY SMTT(30), <2>1, <2>3 DEF Waiter, IsWaiter, IsNode, Word, MaybeConsumer
    <2>5. IsFirst(behind, p) /\ IsLast(behind, p, m) /\ m \in Consumer /\ behind[m] = Null
      BY Zenon, <2>1, <2>3, <2>4, Firsts DEF Tails, IsLast
    <2>6. /\ pending'[c] = Null /\ \A e \in Consumer : e # c => pending'[e] = pending[e]
          /\ \A e \in Consumer : e # c => last'[e] = last[e]
      BY SMTT(30), <2>1
    <2>7. last' \in [Consumer -> MaybeConsumer]
      BY SMTT(30), <2>1 DEF MaybeConsumer
    <2>8. behind' = [behind EXCEPT ![m] = v]
      BY Zenon, <2>4
    <2>9. behind'[m] = v /\ \A e \in Consumer : e # m => behind'[e] = behind[e]
      BY SMTT(30), <2>1, <2>5, <2>8
    <2>10. next'[n] = p /\ \A e \in Node : e # n => next'[e] = next[e]
      BY SMTT(30), <2>1, <2>3
    <2> HIDE DEF n, v, p, m
    <2>11. /\ pc'[c] = l /\ \A e \in Consumer : e # c => pc'[e] = pc[e]
           /\ \A e \in Consumer : Serves(e)'
      BY Zenon, <2>1, <2>2, <2>6, ConsumerGoes
    <2>12. OneHolder(Contents') /\ \A w \in Consumer : Held(Contents', w) <=> Held(Contents, w)
      <3>1. /\ AtPending(c) \in Place /\ AtNext(n) \in Place /\ AtBehind(m) \in Place
            /\ AtPending(c) # AtNext(n) /\ AtPending(c) # AtBehind(m) /\ AtNext(n) # AtBehind(m)
        BY Zenon, <2>3, <2>5, Places, PlacesDiffer
      <3>2. /\ Contents[AtBehind(m)] \notin Consumer /\ Contents'[AtBehind(m)] = Contents[AtNext(n)]
            /\ Contents'[AtNext(n)] = Contents[AtPending(c)] /\ Contents'[AtPending(c)] \notin Consumer
        BY SMTT(30), <2>3, <2>5, <2>6, <2>9, <2>10, ContentsAre, ContentsWillBe, DistinctNames DEF Reads, v, p
      <3>3. \A x \in Place : x # AtPending(c) /\ x # AtNext(n) /\ x # AtBehind(m) => Contents'[x] = Contents[x]
        BY SMTT(30), <2>6, <2>9, <2>10, Places, ContentsAre, ContentsWillBe DEF Reads
      <3>4. QED
        BY SMTT(30), <2>1, <3>1, <3>2, <3>3, Shifted
    <2>13. AreLists(behind') /\ Tails'
      <3>1. v = Null \/ (IsFirst(behind, v) /\ v # p)
        BY Zenon, <2>1, <2>3, <2>4, Firsts, FirstsDiffer DEF MaybeConsumer, v, p
      <3>2. /\ AreLists([behind EXCEPT ![m] = v])
            /\ \A g, z : IsFirst(behind, g) /\ g # p /\ IsLast(behind, g, z) => IsLast([behind EXCEPT ![m] = v], g, z)
        BY Zenon, <2>1, <2>5, <3>1, <1>LinkingAny
      <3>3. ASSUME NEW e \in Consumer, e # c, pending[e] # Null
            PROVE  IsFirst(behind, pending[e]) /\ pending[e] # p /\ IsLast(behind, pending[e], last[e])
        <4>1. pending[e] \in Consumer
          BY SMTT(30), <2>1, <3>3 DEF MaybeConsumer
        <4>2. QED
          BY Zenon, <2>1, <3>3, <4>1, Firsts, FirstsDiffer DEF Tails, p
      <3>4. ASSUME NEW e \in Consumer, e # c, pending'[e] # Null
            PROVE  IsLast(behind', pending'[e], last'[e])
        <4>1. pending'[e] = pending[e] /\ last'[e] = last[e]
          BY Zenon, <2>6, <3>4
        <4>2. IsLast([behind EXCEPT ![m] = v], pending[e], last[e])
          BY Zenon, <3>2, <3>3, <3>4, <4>1
        <4>3. QED
          BY Zenon, <2>8, <4>1, <4>2
      <3>5. QED
        BY Zenon, <2>6, <2>8, <3>2, <3>4 DEF Tails
    <2>14. \A w \in Consumer : pc[w] \notin Waiting => behind'[w] = Null
      <3>1. Held(Contents, p)
        BY Zenon, Places, ContentsAre DEF Reads, Held, p
      <3>2. pc[m] \in Waiting
        BY Zenon, <2>1, <2>4, <2>5, <3>1, AllInListWait DEF IsLast
      <3>3. QED
        BY Zenon, <2>1, <2>9, <3>2 DEF Waits
    <2>15. \A w \in Consumer : pc'[w] \in Waiting <=> pc[w] \in Waiting
      BY Zenon, <2>2, <2>11
    <2>16. \A w \in Consumer : Waits(w)'
      BY Zenon, <2>12, <2>14, <2>15, WaitersKeepWaiting
    <2>17. WaiterTypes'
      <3>1. \A e \in Node : e \notin live' => next'[e] = Null
        BY Zenon, <2>1, <2>3, <2>10 DEF WaiterTypes
      <3>2. QED
        BY Zenon, <2>1, <2>7, <3>1 DEF WaiterTypes
    <2>18. QED
      BY Zenon, <2>11, <2>12, <2>13, <2>16, <2>17 DEF WaiterInv
  (* A waiter is installed in the next pointer, in front of pending and of   *)
  (* those who are there.                                                    *)
  <1>InstallNextJoins. ASSUME Inv, WaiterInv, NEW c \in Consumer, pc[c] = "install_next", next[node[c]] = word[c],
                              next' = [next EXCEPT ![node[c]] = c],
                              behind' = IF pending[c] = Null THEN [behind EXCEPT ![c] = Waiter(next[node[c]])]
                                        ELSE [behind EXCEPT ![c] = pending[c], ![last[c]] = Waiter(next[node[c]])],
                              pending' = [pending EXCEPT ![c] = Null], last' = [last EXCEPT ![c] = Null],
                              pc' = [pc EXCEPT ![c] = "unlock_waiting"], UNCHANGED <<head, live, wakes, own, permits>>
                       PROVE  WaiterInv'
    <2> USE <1>InstallNextJoins
    <2> DEFINE n == node[c]
               v == next[n]
               p == pending[c]
               m == last[c]
    <2>1. /\ OneHolder(Contents) /\ AreLists(behind) /\ Tails /\ WaiterTypes /\ Types
          /\ \A w \in Consumer : Waits(w) /\ Serves(w)
          /\ pending \in [Consumer -> MaybeConsumer] /\ last \in [Consumer -> MaybeConsumer]
          /\ behind \in [Consumer -> MaybeConsumer] /\ next \in [Node -> Word]
      BY Zenon, StepFacts DEF WaiterInv, WaiterTypes, Types
    <2>2. /\ pc[c] \in Holding /\ pc[c] \in SawNone /\ pc[c] \notin Waiting
          /\ "unlock_waiting" \notin ServesSome /\ "unlock_waiting" \in Waiting
      BY Zenon DEF Holding, SawNone, ServesSome, Waiting
    <2>3. n \in Node /\ n \in live /\ ~IsNode(v)
      BY Zenon, <2>1, <2>2, StepFacts
    <2>4. Waiter(v) = v /\ v \in MaybeConsumer /\ p \in MaybeConsumer
      BY SMTT(30), <2>1, <2>3 DEF Waiter, IsWaiter, IsNode, Word, MaybeConsumer
    <2>5. /\ ~Held(Contents, c) /\ IsFirst(behind, c) /\ behind[c] = Null /\ IsLast(behind, c, c)
      <3>1. ~Held(Contents, c) /\ behind[c] = Null
        BY Zenon, <2>1, <2>2 DEF Waits
      <3>2. QED
        BY Zenon, <2>1, <3>1, Firsts DEF IsLast, Reach
    <2>6. /\ pending'[c] = Null /\ \A e \in Consumer : e # c => pending'[e] = pending[e]
          /\ \A e \in Consumer : e # c => last'[e] = last[e]
      BY SMTT(30), <2>1
    <2>7. last' \in [Consumer -> MaybeConsumer]
      BY SMTT(30), <2>1 DEF MaybeConsumer
    <2>8. behind' = IF p = Null THEN [behind EXCEPT ![c] = v] ELSE [behind EXCEPT ![c] = p, ![m] = v]
      BY Zenon, <2>4
    <2>9. next'[n] = c /\ \A e \in Node : e # n => next'[e] = next[e]
      BY SMTT(30), <2>1, <2>3
    <2> HIDE DEF n, v, p, m
    <2>10. /\ pc'[c] = "unlock_waiting" /\ \A e \in Consumer : e # c => pc'[e] = pc[e]
           /\ \A e \in Consumer : Serves(e)'
      BY Zenon, <2>1, <2>2, <2>6, ConsumerGoes
    <2>11. WaiterTypes'
      <3>1. \A e \in Node : e \notin live' => next'[e] = Null
        BY Zenon, <2>1, <2>3, <2>9 DEF WaiterTypes
      <3>2. QED
        BY Zenon, <2>1, <2>7, <3>1 DEF WaiterTypes
    <2>12. v = Null \/ (IsFirst(behind, v) /\ v # c /\ v # p)
      <3>1. \A x \in Place : Contents[x] # c
        BY Zenon, <2>5 DEF Held
      <3>2. v # c
        BY ZenonT(40), <2>3, <3>1, Places, ContentsAre DEF Reads, v
      <3>3. QED
        BY Zenon, <2>1, <2>3, <2>4, <3>2, Firsts, FirstsDiffer DEF MaybeConsumer, v, p
    <2>13. ASSUME NEW e \in Consumer, pending[e] # Null
           PROVE  /\ IsFirst(behind, pending[e]) /\ pending[e] # c /\ pending[e] # v /\ (e # c => pending[e] # p)
                  /\ IsLast(behind, pending[e], last[e]) /\ last[e] \in Consumer /\ last[e] # c
                  /\ behind[last[e]] = Null /\ pc[last[e]] \in Waiting
      <3>1. pending[e] \in Consumer
        BY SMTT(30), <2>1, <2>13 DEF MaybeConsumer
      <3>2. Held(Contents, pending[e])
        BY Zenon, Places, ContentsAre DEF Reads, Held
      <3>3. IsLast(behind, pending[e], last[e]) /\ last[e] \in Consumer /\ behind[last[e]] = Null
        BY Zenon, <2>1, <2>13 DEF Tails, IsLast
      <3>4. pc[last[e]] \in Waiting
        BY Zenon, <2>1, <3>1, <3>2, <3>3, AllInListWait DEF IsLast
      <3>5. pending[e] # c /\ last[e] # c
        BY Zenon, <2>2, <2>5, <3>2, <3>4
      <3>6. IsFirst(behind, pending[e]) /\ pending[e] # v /\ (e # c => pending[e] # p)
        BY Zenon, <2>1, <2>3, <3>1, Firsts, FirstsDiffer DEF v, p
      <3>7. QED
        BY Zenon, <3>3, <3>4, <3>5, <3>6
    <2>14. CASE p = Null
      <3>1. behind' = [behind EXCEPT ![c] = v]
        BY Zenon, <2>8, <2>14
      <3>2. behind'[c] = v /\ \A e \in Consumer : e # c => behind'[e] = behind[e]
        BY SMTT(30), <2>1, <3>1
      <3>3. OneHolder(Contents') /\ \A w \in Consumer : Held(Contents', w) <=> Held(Contents, w) \/ w = c
        <4>1. AtNext(n) \in Place /\ AtBehind(c) \in Place /\ AtNext(n) # AtBehind(c)
          BY Zenon, <2>3, Places, PlacesDiffer
        <4>2. /\ Contents[AtBehind(c)] \notin Consumer /\ Contents'[AtBehind(c)] = Contents[AtNext(n)]
              /\ Contents'[AtNext(n)] = c
          <5>1. Contents[AtBehind(c)] = Null /\ Contents[AtNext(n)] = v
            BY Zenon, <2>3, <2>5, ContentsAre DEF Reads, v
          <5>2. Contents'[AtNext(n)] = c /\ Contents'[AtBehind(c)] = v
            BY Zenon, <2>3, <2>9, <3>2, ContentsWillBe DEF Reads
          <5>3. QED
            BY Zenon, <5>1, <5>2, DistinctNames
        <4>3. \A x \in Place : x # AtNext(n) /\ x # AtBehind(c) => Contents'[x] = Contents[x]
          BY SMTT(30), <2>6, <2>9, <2>14, <3>2, Places, ContentsAre, ContentsWillBe DEF Reads, p
        <4>4. ~Held(Contents, Contents'[AtNext(n)])
          BY Zenon, <2>5, <4>2
        <4>5. /\ OneHolder(Contents')
              /\ \A w \in Consumer : Held(Contents', w) <=> Held(Contents, w) \/ w = Contents'[AtNext(n)]
          BY SMTT(30), <2>1, <4>1, <4>2, <4>3, <4>4, Joined
        <4>6. QED
          BY Zenon, <4>2, <4>5
      <3>4. /\ AreLists(behind')
            /\ \A g, z : IsFirst(behind, g) /\ g # c /\ IsLast(behind, g, z) => IsLast(behind', g, z)
        <4> DEFINE d == [behind EXCEPT ![c] = v]
        <4>1. AreLists(d) /\ \A g, z : IsFirst(behind, g) /\ g # c /\ IsLast(behind, g, z) => IsLast(d, g, z)
          <5>1. v = Null \/ (IsFirst(behind, v) /\ v # c)
            BY Zenon, <2>12
          <5>2. QED
            BY Zenon, <2>1, <2>5, <5>1, <1>LinkingAny
        <4>2. behind' = d
          BY Zenon, <3>1
        <4> HIDE DEF d
        <4>3. QED
          BY ONLY Zenon, <4>1, <4>2
      <3>5. Tails'
        BY Zenon, <2>6, <2>13, <3>4 DEF Tails
      <3>6. \A w \in Consumer : w # c /\ pc[w] \notin Waiting => behind'[w] = Null
        BY Zenon, <2>1, <3>2 DEF Waits
      <3>7. \A w \in Consumer : Waits(w)'
        BY Zenon, <2>2, <2>10, <3>3, <3>6, WaiterStarts
      <3>8. QED
        BY Zenon, <2>10, <2>11, <3>3, <3>4, <3>5, <3>7 DEF WaiterInv
    <2>15. CASE p # Null
      <3> DEFINE b == [behind EXCEPT ![m] = v]
      <3>1. /\ p \in Consumer /\ p # c /\ IsFirst(behind, p) /\ IsLast(behind, p, m) /\ m \in Consumer
            /\ m # c /\ behind[m] = Null /\ pc[m] \in Waiting
        BY Zenon, <2>13, <2>15 DEF p, m, IsFirst
      <3>2. behind' = [b EXCEPT ![c] = p]
        <4>1. [behind EXCEPT ![c] = p, ![m] = v] = [b EXCEPT ![c] = p]
          BY Zenon, <2>1, <2>4, <3>1, TwoValues
        <4>2. QED
          BY Zenon, <2>8, <2>15, <4>1
      <3>3. /\ behind'[c] = p /\ behind'[m] = v
            /\ \A e \in Consumer : e # c /\ e # m => behind'[e] = behind[e]
        BY SMTT(30), <2>1, <2>8, <2>15, <3>1
      <3>4. OneHolder(Contents') /\ \A w \in Consumer : Held(Contents', w) <=> Held(Contents, w) \/ w = c
        <4>1. /\ AtNext(n) \in Place /\ AtBehind(m) \in Place /\ AtPending(c) \in Place /\ AtBehind(c) \in Place
              /\ AtNext(n) # AtBehind(m) /\ AtNext(n) # AtPending(c) /\ AtNext(n) # AtBehind(c)
              /\ AtBehind(m) # AtPending(c) /\ AtBehind(m) # AtBehind(c) /\ AtPending(c) # AtBehind(c)
          BY Zenon, <2>3, <3>1, Places, PlacesDiffer
        <4>2. /\ Contents[AtBehind(m)] \notin Consumer /\ Contents[AtBehind(c)] \notin Consumer
              /\ Contents'[AtNext(n)] = c /\ Contents'[AtBehind(m)] = Contents[AtNext(n)]
              /\ Contents'[AtBehind(c)] = Contents[AtPending(c)] /\ Contents'[AtPending(c)] \notin Consumer
          <5>1. /\ Contents[AtBehind(m)] = Null /\ Contents[AtBehind(c)] = Null
                /\ Contents[AtNext(n)] = v /\ Contents[AtPending(c)] = p
            BY Zenon, <2>3, <2>5, <3>1, ContentsAre DEF Reads, v, p
          <5>2. /\ Contents'[AtNext(n)] = c /\ Contents'[AtBehind(m)] = v
                /\ Contents'[AtBehind(c)] = p /\ Contents'[AtPending(c)] = Null
            BY Zenon, <2>3, <2>6, <2>9, <3>1, <3>3, ContentsWillBe DEF Reads
          <5>3. QED
            BY Zenon, <5>1, <5>2, DistinctNames
        <4>3. ASSUME NEW x \in Place, x # AtNext(n), x # AtBehind(m), x # AtPending(c), x # AtBehind(c)
              PROVE  Contents'[x] = Contents[x]
          <5>1. CASE x = AtHead
            BY Zenon, <5>1, ContentsAre, ContentsWillBe DEF Reads
          <5>2. ASSUME NEW i \in Node, x = AtNext(i) PROVE Contents'[x] = Contents[x]
            BY Zenon, <2>9, <4>3, <5>2, ContentsAre, ContentsWillBe DEF Reads
          <5>3. ASSUME NEW e \in Consumer, x = AtPending(e) PROVE Contents'[x] = Contents[x]
            BY SMTT(30), <2>6, <4>3, <5>3, ContentsAre, ContentsWillBe DEF Reads
          <5>4. ASSUME NEW e \in Consumer, x = AtBehind(e) PROVE Contents'[x] = Contents[x]
            BY Zenon, <3>3, <4>3, <5>4, ContentsAre, ContentsWillBe DEF Reads
          <5>5. ASSUME NEW i \in Producer, x = AtWakes(i) PROVE Contents'[x] = Contents[x]
            BY Zenon, <5>5, ContentsAre, ContentsWillBe DEF Reads
          <5>6. QED
            BY Zenon, <5>1, <5>2, <5>3, <5>4, <5>5, Places
        <4>4. ~Held(Contents, Contents'[AtNext(n)])
          BY Zenon, <2>5, <4>2
        <4>5. /\ OneHolder(Contents')
              /\ \A w \in Consumer : Held(Contents', w) <=> Held(Contents, w) \/ w = Contents'[AtNext(n)]
          <5>1. \A x \in Place : x # AtNext(n) /\ x # AtBehind(m) /\ x # AtPending(c) /\ x # AtBehind(c) =>
                  Contents'[x] = Contents[x]
            BY Zenon, <4>3
          <5>2. OneHolder(Contents)
            BY Zenon, <2>1
          <5>3. OneHolder(Contents')
            BY ONLY SMTT(30), <4>1, <4>2, <4>4, <5>1, <5>2 DEF OneHolder, Held
          <5>4. \A w \in Consumer : Held(Contents', w) <=> Held(Contents, w) \/ w = Contents'[AtNext(n)]
            BY ONLY SMTT(30), <4>1, <4>2, <4>4, <5>1, <5>2 DEF OneHolder, Held
          <5>5. QED
            BY Zenon, <5>3, <5>4
        <4>6. QED
          BY Zenon, <4>2, <4>5
      <3>5. /\ AreLists(b)
            /\ \A g, z : IsFirst(behind, g) /\ g # p /\ IsLast(behind, g, z) => IsLast(b, g, z)
            /\ \A g : IsFirst(behind, g) /\ g # v => IsFirst(b, g)
        BY Zenon, <2>1, <2>12, <3>1, <1>LinkingAny
      <3> HIDE DEF b
      <3>6. IsFirst(b, c) /\ IsFirst(b, p) /\ IsLast(b, c, c)
        <4>1. c # v /\ p # v
          BY Zenon, <2>12, <3>1, DistinctNames
        <4>2. QED
          BY Zenon, <2>5, <3>1, <3>5, <4>1
      <3>7. /\ AreLists(behind') /\ \A g, z : IsFirst(b, g) /\ g # c /\ IsLast(b, g, z) => IsLast(behind', g, z)
        <4> DEFINE d == [b EXCEPT ![c] = p]
        <4>1. AreLists(d) /\ \A g, z : IsFirst(b, g) /\ g # c /\ IsLast(b, g, z) => IsLast(d, g, z)
          <5>1. p = Null \/ (IsFirst(b, p) /\ p # c)
            BY Zenon, <3>1, <3>6
          <5>2. QED
            BY Zenon, <3>5, <3>6, <5>1, <1>LinkingAny
        <4>2. behind' = d
          BY Zenon, <3>2
        <4> HIDE DEF d
        <4>3. QED
          BY ONLY Zenon, <4>1, <4>2
      <3>8. Tails'
        <4>1. ASSUME NEW e \in Consumer, e # c, pending[e] # Null PROVE IsLast(behind', pending[e], last[e])
          BY Zenon, <2>13, <3>5, <3>7, <4>1
        <4>2. QED
          BY Zenon, <2>6, <4>1 DEF Tails
      <3>9. \A w \in Consumer : w # c /\ pc[w] \notin Waiting => behind'[w] = Null
        BY Zenon, <2>1, <3>1, <3>3 DEF Waits
      <3>10. \A w \in Consumer : Waits(w)'
        BY Zenon, <2>2, <2>10, <3>4, <3>9, WaiterStarts
      <3>11. QED
        BY Zenon, <2>10, <2>11, <3>4, <3>7, <3>8, <3>10 DEF WaiterInv
    <2>16. QED
      BY Zenon, <2>14, <2>15
  (* Trying to leave the next pointer to waiters. *)
  <1>TriesNext. ASSUME Inv, WaiterInv, NEW c \in Consumer, InstallNext(c) \/ HandOver(c)
                PROVE  WaiterInv'
    <2> USE <1>TriesNext
    <2> DEFINE v == next[node[c]]
    <2>1. Types /\ Serves(c) /\ head' = head /\ live' = live
      BY Zenon, StepFacts DEF WaiterInv, InstallNext, HandOver
    <2>2. UNCHANGED <<producerVars, permits>> /\ UNCHANGED <<head, live, wakes, own, permits>>
      BY Zenon DEF InstallNext, HandOver, producerVars
    <2>3. CASE InstallNext(c) /\ v = word[c]
      <3>1. /\ pc[c] = "install_next" /\ next' = [next EXCEPT ![node[c]] = c]
            /\ behind' = IF pending[c] = Null THEN [behind EXCEPT ![c] = Waiter(next[node[c]])]
                         ELSE [behind EXCEPT ![c] = pending[c], ![last[c]] = Waiter(next[node[c]])]
            /\ pending' = [pending EXCEPT ![c] = Null] /\ last' = [last EXCEPT ![c] = Null]
            /\ pc' = [pc EXCEPT ![c] = "unlock_waiting"]
        BY Zenon, <2>3 DEF InstallNext, Pend, Goto
      <3>2. QED
        BY Zenon, <2>2, <2>3, <3>1, <1>InstallNextJoins
    <2>4. CASE HandOver(c) /\ v = word[c]
      <3>1. PICK l \in {"free", "no_item"} : pc' = [pc EXCEPT ![c] = l]
        BY Zenon, <2>4 DEF HandOver, Goto
      <3>2. /\ pc[c] \in {"hand_over", "no_item_install"} /\ next' = [next EXCEPT ![node[c]] = pending[c]]
            /\ behind' = [behind EXCEPT ![last[c]] = Waiter(next[node[c]])]
            /\ pending' = [pending EXCEPT ![c] = Null] /\ last' = [last EXCEPT ![c] = Null]
        BY Zenon, <2>4 DEF HandOver, Pend
      <3>3. QED
        BY Zenon, <2>2, <2>4, <3>1, <3>2, <1>HandOverMoves
    <2>5. CASE v # word[c]
      <3>1. next' = next /\ UNCHANGED listVars
        BY Zenon, <2>5 DEF InstallNext, HandOver
      <3>2. UNCHANGED <<listVars, producerVars, permits>>
        BY Zenon, <2>2, <3>1
      <3>3. CASE InstallNext(c)
        <4> DEFINE l == IF pending[c] = Null THEN "free" ELSE "load_next"
        <4>1. pc' = [pc EXCEPT ![c] = l] /\ pc[c] = "install_next"
          BY Zenon, <2>5, <3>3 DEF InstallNext, Take, Goto
        <4>2. l \in {"free", "load_next"} /\ (l = "free" => pending[c] = Null) /\ (l = "load_next" => pending[c] # Null)
          BY Zenon
        <4> HIDE DEF l
        <4>3. /\ pc[c] \notin Waiting /\ l \notin Waiting /\ (l \in ServesNone => pending[c] = Null)
              /\ (l \in ServesSome => pending[c] # Null)
          BY Zenon, <4>1, <4>2 DEF Waiting, ServesNone, ServesSome
        <4>4. QED
          BY Zenon, <2>1, <3>1, <3>2, <4>1, <4>3, NothingMoves
      <3>4. CASE HandOver(c)
        <4>1. pc[c] \in {"hand_over", "no_item_install"}
          BY Zenon, <3>4 DEF HandOver
        <4>2. pc[c] \notin Waiting /\ pending[c] # Null
          BY Zenon, <2>1, <4>1 DEF Waiting, Serves, ServesSome
        <4>3. PICK l \in {"release", "load_next", "no_item_install"} : pc' = [pc EXCEPT ![c] = l]
          <5>1. CASE pc[c] = "hand_over"
            BY Zenon, <2>5, <3>4, <5>1 DEF HandOver, Goto
          <5>2. CASE pc[c] # "hand_over" /\ IsNode(v)
            <6>1. pc' = [pc EXCEPT ![c] = IF pending[c] = Null THEN "free" ELSE "load_next"]
              BY Zenon, <2>5, <3>4, <5>2 DEF HandOver, Take, Goto
            <6>2. QED
              BY Zenon, <4>2, <6>1
          <5>3. CASE pc[c] # "hand_over" /\ ~IsNode(v)
            <6>1. pc' = pc /\ pc[c] = "no_item_install"
              BY Zenon, <2>5, <3>4, <4>1, <5>3 DEF HandOver
            <6>2. pc' = [pc EXCEPT ![c] = "no_item_install"]
              BY SMTT(30), <2>1, <6>1 DEF Types
            <6>3. QED
              BY Zenon, <6>2
          <5>4. QED
            BY Zenon, <5>1, <5>2, <5>3
        <4>4. l \notin Waiting /\ l \notin ServesNone
          BY Zenon DEF Waiting, ServesNone
        <4>5. QED
          BY Zenon, <2>1, <3>1, <3>2, <4>2, <4>3, <4>4, NothingMoves
      <3>5. QED
        BY Zenon, <3>3, <3>4
    <2>6. QED
      BY Zenon, <2>3, <2>4, <2>5
  <1>1. QED
    BY Zenon, <1>TriesNext

(* A woken thread, in head_ or in a next pointer before, takes care of     *)
(* those behind it.                                                        *)
LEMMA WakesKeepWaiters ==
  \A c \in Consumer : Inv /\ WaiterInv /\ (WakeLock(c) \/ WakeItem(c)) => WaiterInv'
  (* Consumer c has a permit and stops to wait. *)
  <1>WaiterStops. ASSUME WaiterInv, NEW c \in Consumer, permits[c] > 0, pc'[c] \notin Waiting,
                         \A e \in Consumer : e # c => pc'[e] = pc[e], permits' = [permits EXCEPT ![c] = @ - 1],
                         \A w \in Consumer : Held(Contents', w) <=> Held(Contents, w),
                         \A w \in Consumer : w = c \/ pc[w] \notin Waiting => behind'[w] = Null
                  PROVE  (\A w \in Consumer : Waits(w)') /\ permits' \in [Consumer -> {0, 1}]
    <2> USE <1>WaiterStops
    <2>1. permits \in [Consumer -> {0, 1}] /\ \A w \in Consumer : Waits(w)
      BY Zenon DEF WaiterInv, WaiterTypes
    <2>2. permits[c] = 1
      BY SMTT(30), <2>1
    <2>3. permits'[c] = 0 /\ \A e \in Consumer : e # c => permits'[e] = permits[e]
      BY SMTT(30), <2>1, <2>2
    <2>4. permits' \in [Consumer -> {0, 1}]
      BY SMTT(30), <2>1, <2>2
    <2>5. 1 # 0
      BY SMTT(30)
    <2>6. \A w \in Consumer : Waits(w)'
      BY SMTT(30), <2>1, <2>2, <2>3, <2>5 DEF Waits
    <2>7. QED
      BY Zenon, <2>4, <2>6
  (* A consumer with a permit is in no place. *)
  <1>WokenIsFree. ASSUME Types, WaiterInv, NEW c \in Consumer, permits[c] > 0
                  PROVE  /\ ~Held(Contents, c) /\ IsFirst(behind, c)
                         /\ \A e \in Consumer : pending[e] # c
    <2> USE <1>WokenIsFree
    <2>1. permits[c] # 0
      BY SMTT(30)
    <2>2. ~Held(Contents, c)
      BY Zenon, <2>1 DEF WaiterInv, Waits
    <2>3. \A e \in Consumer : pending[e] # c
      BY SMTT(30), <2>2, Places, ContentsAre DEF Reads, Held
    <2>4. QED
      BY Zenon, <2>2, <2>3, Firsts
  (* A consumer that was woken up takes those behind it over: the links      *)
  (* without its own.                                                        *)
  <1>CutFacts. ASSUME Types, WaiterInv, NEW c \in Consumer, permits[c] > 0, behind[c] # Null
               PROVE  LET b == [behind EXCEPT ![c] = Null]
                          g == behind[c]
                      IN  /\ AreLists(b) /\ IsFirst(b, g) /\ g \in Consumer /\ IsLast(b, g, FindLast(g))
                          /\ FindLast(g) # c /\ FindLast(g) \in Consumer /\ behind[FindLast(g)] = Null
                          /\ \A e \in Consumer : pending[e] # Null =>
                               /\ IsFirst(b, pending[e]) /\ IsLast(b, pending[e], last[e]) /\ pending[e] # g
                               /\ last[e] # c /\ last[e] \in Consumer /\ behind[last[e]] = Null /\ pc[last[e]] \in Waiting
                          /\ pc[FindLast(g)] \in Waiting
    <2> USE <1>CutFacts
    <2> DEFINE b == [behind EXCEPT ![c] = Null]
               g == behind[c]
               l == FindLast(g)
    <2>1. /\ AreLists(behind) /\ Tails /\ behind \in [Consumer -> MaybeConsumer]
          /\ pending \in [Consumer -> MaybeConsumer]
      BY Zenon DEF WaiterInv, Types
    <2>2. g \in Consumer /\ IsFirst(behind, c) /\ \A e \in Consumer : pending[e] # c
      <3>1. g \in Consumer
        BY SMTT(30), <2>1 DEF MaybeConsumer
      <3>2. QED
        BY Zenon, <3>1, <1>WokenIsFree
    <2>3. IsLast(behind, g, l) /\ l \in Consumer /\ behind[l] = Null
      <3>1. IsLast(behind, g, l)
        BY Zenon, <2>1, <2>2, FindLastFinds
      <3>2. QED
        BY Zenon, <3>1 DEF IsLast
    <2> HIDE DEF l
    <2>4. l # c /\ g # c
      BY Zenon, <2>2, <2>3 DEF IsFirst
    <2>5. /\ AreLists(b) /\ IsFirst(b, g)
          /\ \A x, z : x \in Consumer /\ x # c /\ IsLast(behind, x, z) => IsLast(b, x, z)
          /\ \A x : IsFirst(behind, x) => IsFirst(b, x)
      BY Zenon, <2>1, <2>2, Cutting
    <2> HIDE DEF b
    <2>6. IsLast(b, g, l)
      BY Zenon, <2>2, <2>3, <2>4, <2>5
    <2>7. Held(Contents, g)
      BY Zenon, Places, ContentsAre DEF Reads, Held
    <2>8. pc[l] \in Waiting
      BY Zenon, <2>2, <2>3, <2>7, AllInListWait DEF IsLast
    <2>9. ASSUME NEW e \in Consumer, pending[e] # Null
          PROVE  /\ IsFirst(b, pending[e]) /\ IsLast(b, pending[e], last[e]) /\ pending[e] # g
                 /\ last[e] # c /\ last[e] \in Consumer /\ behind[last[e]] = Null /\ pc[last[e]] \in Waiting
      <3>1. pending[e] \in Consumer
        BY SMTT(30), <2>1, <2>9 DEF MaybeConsumer
      <3>2. IsFirst(behind, pending[e]) /\ pending[e] # g /\ IsLast(behind, pending[e], last[e])
        BY Zenon, <2>1, <2>9, <3>1, Firsts, FirstsDiffer DEF Tails
      <3>3. IsFirst(b, pending[e]) /\ IsLast(b, pending[e], last[e])
        BY Zenon, <2>2, <2>5, <3>1, <3>2
      <3>4. last[e] \in Consumer /\ behind[last[e]] = Null /\ last[e] # c
        BY Zenon, <3>2 DEF IsLast
      <3>5. Held(Contents, pending[e])
        BY Zenon, Places, ContentsAre DEF Reads, Held
      <3>6. pc[last[e]] \in Waiting
        BY Zenon, <3>1, <3>2, <3>4, <3>5, AllInListWait DEF IsLast
      <3>7. QED
        BY Zenon, <3>2, <3>3, <3>4, <3>6
    <2>10. QED
      BY Zenon, <2>2, <2>3, <2>4, <2>5, <2>6, <2>8, <2>9 DEF b, l
  (* A consumer that was woken up goes back to look at head_. *)
  <1>WokenGoes. ASSUME Types, WaiterInv, NEW c \in Consumer, permits[c] > 0, permits' = [permits EXCEPT ![c] = @ - 1],
                       pc' = [pc EXCEPT ![c] = "load"], next' = next, live' = live, wakes' = wakes, own' = own,
                       OneHolder(Contents'), \A w \in Consumer : Held(Contents', w) <=> Held(Contents, w),
                       AreLists(behind'), Tails', last' \in [Consumer -> MaybeConsumer],
                       \A e \in Consumer : e # c => pending'[e] = pending[e],
                       \A w \in Consumer : w = c \/ pc[w] \notin Waiting => behind'[w] = Null
                PROVE  WaiterInv'
    <2> USE <1>WokenGoes
    <2>1. "load" \notin ServesNone /\ "load" \notin ServesSome /\ "load" \notin Waiting
      BY Zenon DEF ServesNone, ServesSome, Waiting
    <2>2. /\ pc'[c] = "load" /\ \A e \in Consumer : e # c => pc'[e] = pc[e]
          /\ \A e \in Consumer : Serves(e)'
      BY Zenon, <2>1, ConsumerGoes
    <2>3. (\A w \in Consumer : Waits(w)') /\ permits' \in [Consumer -> {0, 1}]
      BY Zenon, <2>1, <2>2, <1>WaiterStops
    <2>4. WaiterTypes'
      BY Zenon, <2>3 DEF WaiterInv, WaiterTypes
    <2>5. QED
      BY Zenon, <2>2, <2>3, <2>4 DEF WaiterInv
  (* There is nobody behind it. *)
  <1>WokenStays. ASSUME Types, WaiterInv, NEW c \in Consumer, permits[c] > 0, permits' = [permits EXCEPT ![c] = @ - 1],
                        pc' = [pc EXCEPT ![c] = "load"], head' = head, next' = next, live' = live, wakes' = wakes,
                        own' = own, behind[c] = Null, pending' = pending, behind' = behind, last' = last
                 PROVE  WaiterInv'
    <2> USE <1>WokenStays
    <2>1. \A x \in Place : Contents'[x] = Contents[x]
      BY SMTT(30), Places, ContentsAre, ContentsWillBe DEF Reads
    <2>2. /\ OneHolder(Contents) /\ AreLists(behind) /\ Tails /\ last \in [Consumer -> MaybeConsumer]
          /\ \A w \in Consumer : Waits(w)
      BY Zenon DEF WaiterInv, WaiterTypes
    <2>3. OneHolder(Contents') /\ \A w \in Consumer : Held(Contents', w) <=> Held(Contents, w)
      BY Zenon, <2>1, <2>2, Stayed
    <2>4. Tails' /\ \A w \in Consumer : w = c \/ pc[w] \notin Waiting => behind'[w] = Null
      BY Zenon, <2>2 DEF Tails, Waits
    <2>5. QED
      BY Zenon, <2>2, <2>3, <2>4, <1>WokenGoes
  (* Woken up while in head_. *)
  <1>WakeLockKeepsWaiters. ASSUME Inv, WaiterInv, NEW c \in Consumer, WakeLock(c)
                           PROVE  WaiterInv'
    <2> USE <1>WakeLockKeepsWaiters
    <2>1. /\ OneHolder(Contents) /\ AreLists(behind) /\ Tails /\ WaiterTypes /\ Types
          /\ \A w \in Consumer : Waits(w)
          /\ behind \in [Consumer -> MaybeConsumer] /\ pending \in [Consumer -> MaybeConsumer]
          /\ last \in [Consumer -> MaybeConsumer] /\ Null \in MaybeConsumer
      BY Zenon, StepFacts DEF WaiterInv, WaiterTypes, Types, MaybeConsumer
    <2>2. /\ pc[c] = "lock_wait" /\ permits[c] > 0 /\ permits' = [permits EXCEPT ![c] = @ - 1]
          /\ pc' = [pc EXCEPT ![c] = "load"] /\ head' = head /\ next' = next /\ live' = live
          /\ wakes' = wakes /\ own' = own
      BY Zenon DEF WakeLock, Goto, producerVars
    <2>3. CASE behind[c] = Null
      <3>1. pending' = pending /\ behind' = behind /\ last' = last
        BY Zenon, <2>3 DEF WakeLock, listVars
      <3>2. QED
        BY Zenon, <2>1, <2>2, <2>3, <3>1, <1>WokenStays
    <2>4. CASE behind[c] # Null
      <3> DEFINE g == behind[c]
                 l == FindLast(g)
                 p == pending[c]
                 b == [behind EXCEPT ![c] = Null]
      <3>1. /\ AreLists(b) /\ IsFirst(b, g) /\ g \in Consumer /\ IsLast(b, g, l)
            /\ l # c /\ l \in Consumer /\ behind[l] = Null /\ pc[l] \in Waiting
            /\ \A e \in Consumer : pending[e] # Null =>
                 IsFirst(b, pending[e]) /\ IsLast(b, pending[e], last[e]) /\ pending[e] # g
        BY Zenon, <2>1, <2>2, <2>4, <1>CutFacts
      <3>2. /\ behind' = [behind EXCEPT ![l] = p, ![c] = Null] /\ pending' = [pending EXCEPT ![c] = g]
            /\ last' = [last EXCEPT ![c] = IF p = Null THEN l ELSE last[c]]
        BY Zenon, <2>4 DEF WakeLock, Pend
      <3>3. p \in MaybeConsumer
        BY SMTT(30), <2>1
      <3> HIDE DEF l
      <3>4. behind' = [b EXCEPT ![l] = p]
        <4>1. [behind EXCEPT ![l] = p, ![c] = Null] = [b EXCEPT ![l] = p]
          BY Zenon, <2>1, <3>1, <3>3, TwoValues
        <4>2. QED
          BY Zenon, <3>2, <4>1
      <3>5. /\ pending'[c] = g /\ \A e \in Consumer : e # c => pending'[e] = pending[e]
            /\ behind'[l] = p /\ behind'[c] = Null
            /\ \A e \in Consumer : e # l /\ e # c => behind'[e] = behind[e]
        BY SMTT(30), <2>1, <3>1, <3>2
      <3>6. /\ last'[c] = (IF p = Null THEN l ELSE last[c]) /\ last' \in [Consumer -> MaybeConsumer]
            /\ \A e \in Consumer : e # c => last'[e] = last[e]
        BY SMTT(30), <2>1, <3>1, <3>2 DEF MaybeConsumer
      <3> HIDE DEF g, p, b
      <3>7. OneHolder(Contents') /\ \A w \in Consumer : Held(Contents', w) <=> Held(Contents, w)
        <4>1. /\ AtBehind(c) \in Place /\ AtPending(c) \in Place /\ AtBehind(l) \in Place
              /\ AtBehind(c) # AtPending(c) /\ AtBehind(c) # AtBehind(l) /\ AtPending(c) # AtBehind(l)
          BY Zenon, <3>1, Places, PlacesDiffer
        <4>2. /\ Contents[AtBehind(l)] \notin Consumer /\ Contents'[AtBehind(l)] = Contents[AtPending(c)]
              /\ Contents'[AtPending(c)] = Contents[AtBehind(c)] /\ Contents'[AtBehind(c)] \notin Consumer
          BY SMTT(30), <3>1, <3>5, ContentsAre, ContentsWillBe, DistinctNames DEF Reads, p, g
        <4>3. \A x \in Place : x # AtBehind(c) /\ x # AtPending(c) /\ x # AtBehind(l) => Contents'[x] = Contents[x]
          BY SMTT(30), <2>2, <3>5, Places, ContentsAre, ContentsWillBe DEF Reads
        <4>4. QED
          BY SMTT(30), <2>1, <4>1, <4>2, <4>3, Shifted
      <3>8. AreLists(behind') /\ Tails'
        <4>1. CASE p = Null
          <5>1. behind' = b
            <6>1. b[l] = Null /\ b \in [Consumer -> MaybeConsumer]
              BY SMTT(30), <2>1, <3>1 DEF b
            <6>2. [b EXCEPT ![l] = b[l]] = b
              BY Zenon, <3>1, <6>1, SameValue
            <6>3. QED
              BY Zenon, <3>4, <4>1, <6>1, <6>2
          <5>2. IsLast(behind', pending'[c], last'[c])
            BY Zenon, <3>1, <3>5, <3>6, <4>1, <5>1
          <5>3. \A e \in Consumer : e # c /\ pending'[e] # Null => IsLast(behind', pending'[e], last'[e])
            BY Zenon, <3>1, <3>5, <3>6, <5>1
          <5>4. QED
            BY Zenon, <3>1, <5>1, <5>2, <5>3 DEF Tails
        <4>2. CASE p # Null
          <5>1. IsFirst(b, p) /\ IsLast(b, p, last[c]) /\ p # g
            BY Zenon, <3>1, <4>2 DEF p
          <5>2. /\ AreLists(behind') /\ \A z : IsLast(b, p, z) => IsLast(behind', g, z)
                /\ \A f, z : IsFirst(b, f) /\ f # g /\ IsLast(b, f, z) => IsLast(behind', f, z)
            <6>1. /\ AreLists([b EXCEPT ![l] = p]) /\ \A z : IsLast(b, p, z) => IsLast([b EXCEPT ![l] = p], g, z)
                  /\ \A f, z : IsFirst(b, f) /\ f # g /\ IsLast(b, f, z) => IsLast([b EXCEPT ![l] = p], f, z)
              BY Zenon, <3>1, <5>1, Linking
            <6>2. QED
              BY Zenon, <3>4, <6>1
          <5>3. IsLast(behind', pending'[c], last'[c])
            BY Zenon, <3>5, <3>6, <4>2, <5>1, <5>2
          <5>4. \A e \in Consumer : e # c /\ pending'[e] # Null => IsLast(behind', pending'[e], last'[e])
            BY Zenon, <3>1, <3>5, <3>6, <5>2
          <5>5. QED
            BY Zenon, <5>2, <5>3, <5>4 DEF Tails
        <4>3. QED
          BY Zenon, <4>1, <4>2
      <3>9. \A w \in Consumer : w = c \/ pc[w] \notin Waiting => behind'[w] = Null
        BY Zenon, <2>1, <3>1, <3>5 DEF Waits
      <3>10. QED
        BY Zenon, <2>1, <2>2, <3>5, <3>6, <3>7, <3>8, <3>9, <1>WokenGoes
    <2>5. QED
      BY Zenon, <2>3, <2>4
  (* Woken up by a push or by a consumer. *)
  <1>WakeItemKeepsWaiters. ASSUME Inv, WaiterInv, NEW c \in Consumer, WakeItem(c)
                           PROVE  WaiterInv'
    <2> USE <1>WakeItemKeepsWaiters
    <2>1. /\ OneHolder(Contents) /\ AreLists(behind) /\ Tails /\ WaiterTypes /\ Types
          /\ \A w \in Consumer : Waits(w)
          /\ behind \in [Consumer -> MaybeConsumer] /\ pending \in [Consumer -> MaybeConsumer]
          /\ last \in [Consumer -> MaybeConsumer] /\ Null \in MaybeConsumer
      BY Zenon, StepFacts DEF WaiterInv, WaiterTypes, Types, MaybeConsumer
    <2>2. /\ pc[c] = "item_wait" /\ permits[c] > 0 /\ permits' = [permits EXCEPT ![c] = @ - 1]
          /\ pc' = [pc EXCEPT ![c] = "load"] /\ head' = head /\ next' = next /\ live' = live
          /\ wakes' = wakes /\ own' = own
      BY Zenon DEF WakeItem, Goto, producerVars
    <2>3. CASE behind[c] = Null
      <3>1. pending' = pending /\ behind' = behind /\ last' = last
        BY Zenon, <2>3 DEF WakeItem, listVars
      <3>2. QED
        BY Zenon, <2>1, <2>2, <2>3, <3>1, <1>WokenStays
    <2>4. CASE behind[c] # Null
      <3> DEFINE g == behind[c]
                 l == FindLast(g)
                 p == pending[c]
                 m == last[c]
                 b == [behind EXCEPT ![c] = Null]
      <3>1. /\ AreLists(b) /\ IsFirst(b, g) /\ g \in Consumer /\ IsLast(b, g, l) /\ l \in Consumer
            /\ \A e \in Consumer : pending[e] # Null =>
                 /\ IsFirst(b, pending[e]) /\ IsLast(b, pending[e], last[e]) /\ pending[e] # g
                 /\ last[e] # c /\ last[e] \in Consumer /\ behind[last[e]] = Null /\ pc[last[e]] \in Waiting
        BY Zenon, <2>1, <2>2, <2>4, <1>CutFacts
      <3>2. /\ behind' = IF p = Null THEN b ELSE [behind EXCEPT ![m] = g, ![c] = Null]
            /\ pending' = [pending EXCEPT ![c] = IF p = Null THEN g ELSE p]
            /\ last' = [last EXCEPT ![c] = l]
        BY Zenon, <2>4 DEF WakeItem, Pend
      <3> HIDE DEF l
      <3>3. /\ last'[c] = l /\ last' \in [Consumer -> MaybeConsumer]
            /\ \A e \in Consumer : e # c => last'[e] = last[e]
        BY SMTT(30), <2>1, <3>1, <3>2 DEF MaybeConsumer
      <3>4. /\ pending'[c] = (IF p = Null THEN g ELSE p)
            /\ \A e \in Consumer : e # c => pending'[e] = pending[e]
        BY SMTT(30), <2>1, <3>2
      <3>5. CASE p = Null
        <4>1. behind' = b /\ behind'[c] = Null /\ \A e \in Consumer : e # c => behind'[e] = behind[e]
          BY SMTT(30), <2>1, <3>2, <3>5
        <4> HIDE DEF g, p, b, m
        <4>2. OneHolder(Contents') /\ \A w \in Consumer : Held(Contents', w) <=> Held(Contents, w)
          <5>1. /\ AtBehind(c) \in Place /\ AtPending(c) \in Place /\ AtBehind(c) # AtPending(c)
            BY Zenon, Places, PlacesDiffer
          <5>2. /\ Contents[AtPending(c)] \notin Consumer /\ Contents'[AtPending(c)] = Contents[AtBehind(c)]
                /\ Contents'[AtBehind(c)] \notin Consumer
            BY SMTT(30), <3>4, <3>5, <4>1, ContentsAre, ContentsWillBe, DistinctNames DEF Reads, p, g
          <5>3. \A x \in Place : x # AtBehind(c) /\ x # AtPending(c) => Contents'[x] = Contents[x]
            BY SMTT(30), <2>2, <3>4, <4>1, Places, ContentsAre, ContentsWillBe DEF Reads
          <5>4. QED
            BY SMTT(30), <2>1, <5>1, <5>2, <5>3, Moved
        <4>3. IsLast(behind', pending'[c], last'[c])
          BY Zenon, <3>1, <3>3, <3>4, <3>5, <4>1
        <4>4. \A e \in Consumer : e # c /\ pending'[e] # Null => IsLast(behind', pending'[e], last'[e])
          BY Zenon, <3>1, <3>3, <3>4, <4>1
        <4>5. AreLists(behind') /\ Tails'
          BY Zenon, <3>1, <4>1, <4>3, <4>4 DEF Tails
        <4>6. \A w \in Consumer : w = c \/ pc[w] \notin Waiting => behind'[w] = Null
          BY Zenon, <2>1, <4>1 DEF Waits
        <4>7. QED
          BY Zenon, <2>1, <2>2, <3>3, <3>4, <4>2, <4>5, <4>6, <1>WokenGoes
      <3>6. CASE p # Null
        <4>1. /\ p \in Consumer /\ IsFirst(b, p) /\ IsLast(b, p, m) /\ p # g /\ m # c /\ m \in Consumer
              /\ behind[m] = Null /\ pc[m] \in Waiting /\ g \in MaybeConsumer
          <5>1. p \in Consumer /\ g \in MaybeConsumer
            BY SMTT(30), <2>1, <3>6 DEF MaybeConsumer
          <5>2. QED
            BY Zenon, <3>1, <3>6, <5>1
        <4>2. behind' = [b EXCEPT ![m] = g]
          <5>1. [behind EXCEPT ![m] = g, ![c] = Null] = [b EXCEPT ![m] = g]
            BY Zenon, <2>1, <4>1, TwoValues
          <5>2. QED
            BY Zenon, <3>2, <3>6, <5>1
        <4>3. behind'[c] = Null /\ behind'[m] = g /\ \A e \in Consumer : e # c /\ e # m => behind'[e] = behind[e]
          BY SMTT(30), <2>1, <3>2, <3>6, <4>1
        <4> HIDE DEF g, p, b, m
        <4>4. \A e \in Consumer : pending'[e] = pending[e]
          BY Zenon, <3>4, <3>6 DEF p
        <4>5. OneHolder(Contents') /\ \A w \in Consumer : Held(Contents', w) <=> Held(Contents, w)
          <5>1. /\ AtBehind(c) \in Place /\ AtBehind(m) \in Place /\ AtBehind(c) # AtBehind(m)
            BY Zenon, <4>1, Places, PlacesDiffer
          <5>2. /\ Contents[AtBehind(m)] \notin Consumer /\ Contents'[AtBehind(m)] = Contents[AtBehind(c)]
                /\ Contents'[AtBehind(c)] \notin Consumer
            BY SMTT(30), <4>1, <4>3, ContentsAre, ContentsWillBe, DistinctNames DEF Reads, g
          <5>3. \A x \in Place : x # AtBehind(c) /\ x # AtBehind(m) => Contents'[x] = Contents[x]
            BY SMTT(30), <2>2, <4>3, <4>4, Places, ContentsAre, ContentsWillBe DEF Reads
          <5>4. QED
            BY SMTT(30), <2>1, <5>1, <5>2, <5>3, Moved
        <4>6. /\ AreLists(behind') /\ IsLast(behind', p, l)
              /\ \A f, z : IsFirst(b, f) /\ f # p /\ IsLast(b, f, z) => IsLast(behind', f, z)
          <5>1. /\ AreLists([b EXCEPT ![m] = g]) /\ \A z : IsLast(b, g, z) => IsLast([b EXCEPT ![m] = g], p, z)
                /\ \A f, z : IsFirst(b, f) /\ f # p /\ IsLast(b, f, z) => IsLast([b EXCEPT ![m] = g], f, z)
            BY Zenon, <3>1, <4>1, Linking
          <5>2. QED
            BY Zenon, <3>1, <4>2, <5>1
        <4>7. IsLast(behind', pending'[c], last'[c])
          BY Zenon, <3>3, <3>4, <3>6, <4>6
        <4>8. \A e \in Consumer : e # c /\ pending'[e] # Null => IsLast(behind', pending'[e], last'[e])
          <5>1. \A e \in Consumer : e # c => pending[e] # p
            BY Zenon, <2>1, <4>1, FirstsDiffer DEF p
          <5>2. QED
            BY Zenon, <3>1, <3>3, <3>4, <4>6, <5>1
        <4>9. Tails'
          BY Zenon, <4>7, <4>8 DEF Tails
        <4>10. \A w \in Consumer : w = c \/ pc[w] \notin Waiting => behind'[w] = Null
          BY Zenon, <2>1, <4>1, <4>3 DEF Waits
        <4>11. QED
          BY Zenon, <2>1, <2>2, <3>3, <3>4, <4>5, <4>6, <4>9, <4>10, <1>WokenGoes
      <3>7. QED
        BY Zenon, <3>5, <3>6
    <2>5. QED
      BY Zenon, <2>3, <2>4
  <1>1. QED
    BY Zenon, <1>WakeLockKeepsWaiters, <1>WakeItemKeepsWaiters

(* unlock_waiting(): the waiters for the lock become those of the thread. *)
LEMMA UnlockWaitingKeepsWaiters ==
  ASSUME Inv, WaiterInv, NEW c \in Consumer, UnlockWaiting(c)
  PROVE  WaiterInv'
  <1>1. /\ OneHolder(Contents) /\ AreLists(behind) /\ Tails /\ WaiterTypes /\ Types
        /\ \A w \in Consumer : Waits(w) /\ Serves(w)
        /\ pending \in [Consumer -> MaybeConsumer] /\ last \in [Consumer -> MaybeConsumer]
    BY Zenon, StepFacts DEF WaiterInv, WaiterTypes, Types
  <1>2. /\ pc[c] = "unlock_waiting" /\ head' = node[c] /\ pending' = [pending EXCEPT ![c] = Waiter(head)]
        /\ last' = [last EXCEPT ![c] = IF IsWaiter(head) THEN FindLast(head) ELSE Null]
        /\ pc' = [pc EXCEPT ![c] = "item_wait"] /\ next' = next /\ live' = live
        /\ wakes' = wakes /\ own' = own /\ permits' = permits /\ behind' = behind
    BY Zenon DEF UnlockWaiting, Goto, Pend, producerVars
  <1>3. pc[c] \in Holding /\ pc[c] \in Waiting /\ pc[c] \in ServesNone
    BY Zenon, <1>2 DEF Holding, Waiting, ServesNone
  <1>4. head' \notin Consumer /\ pending[c] = Null
    BY SMTT(30), <1>1, <1>2, <1>3, StepFacts, DistinctNames DEF Serves
  <1>5. "item_wait" \in Waiting /\ "item_wait" \notin ServesNone /\ "item_wait" \notin ServesSome
    BY Zenon DEF Waiting, ServesNone, ServesSome
  <1>6. /\ pending'[c] = Waiter(head) /\ \A e \in Consumer : e # c => pending'[e] = pending[e]
    BY SMTT(30), <1>1, <1>2
  <1>7. /\ pc'[c] = "item_wait" /\ \A e \in Consumer : e # c => pc'[e] = pc[e]
        /\ \A e \in Consumer : Serves(e)'
    BY Zenon, <1>1, <1>2, <1>5, <1>6, ConsumerGoes
  <1>8. OneHolder(Contents') /\ \A w \in Consumer : Held(Contents', w) <=> Held(Contents, w)
    <2>1. AtHead \in Place /\ AtPending(c) \in Place /\ AtHead # AtPending(c)
      BY Zenon, Places, PlacesDiffer
    <2>2. \A x \in Place : x # AtHead /\ x # AtPending(c) => Contents'[x] = Contents[x]
      BY SMTT(30), <1>2, <1>6, Places, ContentsAre, ContentsWillBe DEF Reads
    <2>3. /\ Contents[AtPending(c)] = Null /\ Contents'[AtPending(c)] = Waiter(head)
          /\ Contents'[AtHead] \notin Consumer /\ Contents[AtHead] = head
      BY Zenon, <1>4, <1>6, ContentsAre, ContentsWillBe DEF Reads
    <2>4. CASE IsWaiter(head)
      BY SMTT(30), <1>1, <2>1, <2>2, <2>3, <2>4, Moved, DistinctNames DEF Waiter
    <2>5. CASE ~IsWaiter(head)
      <3>1. head \notin Consumer /\ Waiter(head) \notin Consumer
        BY Zenon, <2>5, DistinctNames DEF Waiter, IsWaiter
      <3>2. \A x \in Place : Contents'[x] = Contents[x] \/ (Contents'[x] \notin Consumer /\ Contents[x] \notin Consumer)
        BY Zenon, <2>2, <2>3, <3>1, DistinctNames
      <3>3. QED
        BY Zenon, <1>1, <3>2, Stayed
    <2>6. QED
      BY Zenon, <2>4, <2>5
  <1>9. last' \in [Consumer -> MaybeConsumer] /\ Tails'
    <2>1. CASE IsWaiter(head)
      <3>1. IsLast(behind, head, FindLast(head)) /\ Waiter(head) = head
        BY Zenon, <1>1, <2>1, FindLastFinds DEF IsWaiter, Waiter
      <3>2. last' = [last EXCEPT ![c] = FindLast(head)] /\ FindLast(head) \in MaybeConsumer
        BY Zenon, <1>2, <2>1, <3>1 DEF IsLast, MaybeConsumer
      <3>3. /\ last' \in [Consumer -> MaybeConsumer] /\ last'[c] = FindLast(head)
            /\ \A e \in Consumer : e # c => last'[e] = last[e]
        BY SMTT(30), <1>1, <3>2
      <3>4. QED
        BY Zenon, <1>1, <1>2, <1>6, <3>1, <3>3 DEF Tails
    <2>2. CASE ~IsWaiter(head)
      <3>1. last' = [last EXCEPT ![c] = Null] /\ Null \in MaybeConsumer /\ Waiter(head) = Null
        BY Zenon, <1>2, <2>2 DEF MaybeConsumer, Waiter
      <3>2. last' \in [Consumer -> MaybeConsumer] /\ \A e \in Consumer : e # c => last'[e] = last[e]
        BY SMTT(30), <1>1, <3>1
      <3>3. QED
        BY Zenon, <1>1, <1>2, <1>6, <3>1, <3>2 DEF Tails
    <2>3. QED
      BY Zenon, <2>1, <2>2
  <1>10. \A w \in Consumer : pc'[w] \in Waiting <=> pc[w] \in Waiting
    BY Zenon, <1>3, <1>5, <1>7
  <1>11. \A w \in Consumer : pc[w] \notin Waiting => behind'[w] = Null
    BY Zenon, <1>1, <1>2 DEF Waits
  <1>12. \A w \in Consumer : Waits(w)'
    BY Zenon, <1>2, <1>8, <1>10, <1>11, WaitersKeepWaiting
  <1>13. WaiterTypes' /\ AreLists(behind')
    BY Zenon, <1>1, <1>2, <1>9 DEF WaiterTypes
  <1>14. QED
    BY Zenon, <1>7, <1>8, <1>9, <1>12, <1>13 DEF WaiterInv

(* What was taken from head_ is in pending, in front of what was there. *)
LEMMA TakesKeepWaiters ==
  \A c \in Consumer : Inv /\ WaiterInv /\ (Exchange(c) \/ Grab(c) \/ GrabMore(c)) => WaiterInv'
  (* The waiters in head_ go in front of those in pending. *)
  <1>Prepends. ASSUME Types, WaiterInv, NEW c \in Consumer, head \in Consumer, head' \notin Consumer,
                      Prepend(c, head), next' = next, wakes' = wakes
               PROVE  /\ OneHolder(Contents') /\ \A w \in Consumer : Held(Contents', w) <=> Held(Contents, w)
                      /\ AreLists(behind') /\ Tails' /\ last' \in [Consumer -> MaybeConsumer]
                      /\ \A w \in Consumer : pc[w] \notin Waiting => behind'[w] = Null
                      /\ pending'[c] = head /\ \A e \in Consumer : e # c => pending'[e] = pending[e]
    <2> USE <1>Prepends
    <2> DEFINE l == FindLast(head)
               p == pending[c]
               h == head
    <2>1. /\ OneHolder(Contents) /\ AreLists(behind) /\ Tails /\ WaiterTypes
          /\ \A w \in Consumer : Waits(w)
          /\ behind \in [Consumer -> MaybeConsumer] /\ pending \in [Consumer -> MaybeConsumer]
          /\ last \in [Consumer -> MaybeConsumer] /\ h \in Consumer
      BY Zenon DEF WaiterInv, WaiterTypes, Types
    <2>2. IsFirst(behind, h) /\ IsLast(behind, h, l) /\ l \in Consumer /\ behind[l] = Null
      <3>1. IsLast(behind, h, l)
        BY Zenon, <2>1, FindLastFinds
      <3>2. QED
        BY Zenon, <2>1, <3>1, Firsts DEF IsLast
    <2> HIDE DEF l
    <2>3. /\ pending' = [pending EXCEPT ![c] = h] /\ behind' = [behind EXCEPT ![l] = p]
          /\ p = Null => last' = [last EXCEPT ![c] = l]
          /\ p # Null => last' = last
      <3>1. CASE p = Null
        <4>1. pending' = [pending EXCEPT ![c] = h] /\ last' = [last EXCEPT ![c] = l] /\ behind' = behind
          BY Zenon, <3>1 DEF Prepend, Pend, l
        <4>2. [behind EXCEPT ![l] = behind[l]] = behind
          BY Zenon, <2>1, <2>2, SameValue
        <4>3. QED
          BY Zenon, <2>2, <3>1, <4>1, <4>2
      <3>2. CASE p # Null
        BY Zenon, <3>2 DEF Prepend, l
      <3>3. QED
        BY Zenon, <3>1, <3>2
    <2>4. /\ pending'[c] = h /\ \A e \in Consumer : e # c => pending'[e] = pending[e]
          /\ behind'[l] = p /\ \A e \in Consumer : e # l => behind'[e] = behind[e]
      BY SMTT(30), <2>1, <2>2, <2>3
    <2> HIDE DEF p, h
    <2>5. OneHolder(Contents') /\ \A w \in Consumer : Held(Contents', w) <=> Held(Contents, w)
      <3>1. /\ AtHead \in Place /\ AtPending(c) \in Place /\ AtBehind(l) \in Place
            /\ AtHead # AtPending(c) /\ AtHead # AtBehind(l) /\ AtPending(c) # AtBehind(l)
        BY Zenon, <2>2, Places, PlacesDiffer
      <3>2. /\ Contents[AtBehind(l)] \notin Consumer /\ Contents'[AtBehind(l)] = Contents[AtPending(c)]
            /\ Contents'[AtPending(c)] = Contents[AtHead] /\ Contents'[AtHead] \notin Consumer
        BY SMTT(30), <2>2, <2>4, ContentsAre, ContentsWillBe, DistinctNames DEF Reads, p, h
      <3>3. \A x \in Place : x # AtHead /\ x # AtPending(c) /\ x # AtBehind(l) => Contents'[x] = Contents[x]
        BY SMTT(30), <2>4, Places, ContentsAre, ContentsWillBe DEF Reads
      <3>4. QED
        BY SMTT(30), <2>1, <3>1, <3>2, <3>3, Shifted
    <2>6. \A w \in Consumer : pc[w] \notin Waiting => behind'[w] = Null
      <3>1. Held(Contents, h)
        BY Zenon, Places, ContentsAre DEF Reads, Held, h
      <3>2. pc[l] \in Waiting
        BY Zenon, <2>1, <2>2, <3>1, AllInListWait DEF IsLast
      <3>3. QED
        BY Zenon, <2>1, <2>4, <3>2 DEF Waits
    <2>7. AreLists(behind') /\ Tails' /\ last' \in [Consumer -> MaybeConsumer]
      <3>1. CASE p = Null
        <4>1. behind' = behind
          <5>1. [behind EXCEPT ![l] = behind[l]] = behind
            BY Zenon, <2>1, <2>2, SameValue
          <5>2. QED
            BY Zenon, <2>2, <2>3, <3>1, <5>1
        <4>2. last'[c] = l /\ \A e \in Consumer : e # c => last'[e] = last[e]
          BY SMTT(30), <2>1, <2>3, <3>1
        <4>3. last' \in [Consumer -> MaybeConsumer]
          BY SMTT(30), <2>1, <2>2, <2>3, <3>1 DEF MaybeConsumer
        <4>4. Tails'
          BY SMTT(30), <2>1, <2>2, <2>4, <4>1, <4>2 DEF Tails
        <4>5. QED
          BY Zenon, <2>1, <4>1, <4>3, <4>4
      <3>2. CASE p # Null
        <4>1. p \in Consumer /\ IsFirst(behind, p) /\ h # p /\ IsLast(behind, p, last[c]) /\ last' = last
          <5>1. p \in Consumer
            BY SMTT(30), <2>1, <3>2 DEF MaybeConsumer, p
          <5>2. QED
            BY Zenon, <2>1, <2>3, <3>2, <5>1, Firsts, FirstsDiffer DEF Tails, p, h
        <4>2. /\ AreLists([behind EXCEPT ![l] = p])
              /\ \A z : IsLast(behind, p, z) => IsLast([behind EXCEPT ![l] = p], h, z)
              /\ \A g, z : IsFirst(behind, g) /\ g # h /\ IsLast(behind, g, z) =>
                   IsLast([behind EXCEPT ![l] = p], g, z)
          BY Zenon, <2>1, <2>2, <4>1, Linking
        <4>3. ASSUME NEW e \in Consumer, e # c, pending[e] # Null
              PROVE  IsFirst(behind, pending[e]) /\ pending[e] # h /\ IsLast(behind, pending[e], last[e])
          <5>1. pending[e] \in Consumer
            BY SMTT(30), <2>1, <4>3 DEF MaybeConsumer
          <5>2. QED
            BY Zenon, <2>1, <4>3, <5>1, Firsts, FirstsDiffer DEF Tails, h
        <4>4. Tails'
          <5>1. ASSUME NEW e \in Consumer, e # c, pending[e] # Null
                PROVE  IsLast([behind EXCEPT ![l] = p], pending[e], last[e])
            BY Zenon, <4>2, <4>3, <5>1
          <5>2. IsLast([behind EXCEPT ![l] = p], h, last[c])
            BY Zenon, <4>1, <4>2
          <5>3. IsLast(behind', h, last'[c]) /\ pending'[c] = h
            BY Zenon, <2>3, <2>4, <4>1, <5>2
          <5>4. \A e \in Consumer : e # c /\ pending'[e] # Null => IsLast(behind', pending'[e], last'[e])
            BY Zenon, <2>3, <2>4, <4>1, <5>1
          <5>5. QED
            BY Zenon, <5>3, <5>4 DEF Tails
        <4>5. QED
          BY Zenon, <2>1, <2>3, <4>1, <4>2, <4>4
      <3>3. QED
        BY Zenon, <3>1, <3>2
    <2>8. QED
      BY Zenon, <2>4, <2>5, <2>6, <2>7 DEF h
  (* Waiters taken from head_ are in pending. *)
  <1>PrependKeepsWaiters. ASSUME Types, WaiterInv, NEW c \in Consumer, NEW l, head \in Consumer, head' = Null,
                                 Prepend(c, head), pc' = [pc EXCEPT ![c] = l], pc[c] \notin Waiting, l \notin Waiting,
                                 l \notin ServesNone, UNCHANGED <<next, live, own, wakes, permits>>
                          PROVE  WaiterInv'
    <2> USE <1>PrependKeepsWaiters
    <2>1. head' \notin Consumer /\ head # Null
      BY Zenon, DistinctNames
    <2>2. /\ next' = next /\ wakes' = wakes /\ own' = own /\ permits' = permits /\ live' = live
      OBVIOUS
    <2>3. /\ OneHolder(Contents') /\ \A w \in Consumer : Held(Contents', w) <=> Held(Contents, w)
          /\ AreLists(behind') /\ Tails' /\ last' \in [Consumer -> MaybeConsumer]
          /\ \A w \in Consumer : pc[w] \notin Waiting => behind'[w] = Null
          /\ pending'[c] = head /\ \A e \in Consumer : e # c => pending'[e] = pending[e]
      BY Zenon, <2>1, <2>2, <1>Prepends
    <2>4. /\ pc'[c] = l /\ \A e \in Consumer : e # c => pc'[e] = pc[e]
          /\ \A e \in Consumer : Serves(e)'
      BY Zenon, <2>1, <2>3, ConsumerGoes
    <2>5. \A w \in Consumer : pc'[w] \in Waiting <=> pc[w] \in Waiting
      BY Zenon, <2>4
    <2>6. \A w \in Consumer : Waits(w)'
      BY Zenon, <2>2, <2>3, <2>5, WaitersKeepWaiting
    <2>7. WaiterTypes'
      BY Zenon, <2>2, <2>3 DEF WaiterInv, WaiterTypes
    <2>8. QED
      BY Zenon, <2>3, <2>4, <2>6, <2>7 DEF WaiterInv
  (* Taking what is in head_. *)
  <1>TakesHead. ASSUME Inv, WaiterInv, NEW c \in Consumer, Exchange(c) \/ Grab(c) \/ GrabMore(c)
                PROVE  WaiterInv'
    <2> USE <1>TakesHead
    <2>1. Types /\ Serves(c) /\ head' = Null /\ next' = next /\ live' = live
      BY Zenon, StepFacts DEF WaiterInv, Exchange, Grab, GrabMore
    <2>2. UNCHANGED <<producerVars, permits>> /\ UNCHANGED <<next, live, own, wakes, permits>>
      BY Zenon DEF Exchange, Grab, GrabMore, producerVars
    <2>3. CASE IsWaiter(head)
      <3>1. PICK l \in {"install", "load_next", "no_item_install", "release"} : pc' = [pc EXCEPT ![c] = l]
        BY Zenon, <2>3, DistinctNames DEF Exchange, Grab, GrabMore, Goto, IsWaiter, IsNode
      <3>2. Prepend(c, head)
        BY SMTT(30), <2>3, DistinctNames DEF Exchange, Grab, GrabMore, IsWaiter, IsNode
      <3>3. pc[c] \in {"top", "grab", "no_item_grab", "grab_more"}
        BY Zenon DEF Exchange, Grab, GrabMore
      <3>4. l \notin Waiting /\ pc[c] \notin Waiting /\ l \notin ServesNone
        BY Zenon, <3>3 DEF Waiting, ServesNone
      <3>5. QED
        BY Zenon, <2>1, <2>2, <2>3, <3>1, <3>2, <3>4, <1>PrependKeepsWaiters DEF IsWaiter
    <2>4. CASE ~IsWaiter(head)
      <3>1. head' \notin Consumer /\ head \notin Consumer
        BY Zenon, <2>1, <2>4, DistinctNames DEF IsWaiter
      <3>2. UNCHANGED listVars
        BY Zenon, <2>4 DEF Exchange, Grab, GrabMore
      <3>3. UNCHANGED <<listVars, producerVars, permits>>
        BY Zenon, <2>2, <3>2
      <3>4. CASE Exchange(c)
        <4>1. PICK l \in {"next", "install"} : pc' = [pc EXCEPT ![c] = l]
          BY Zenon, <3>4 DEF Exchange, Goto
        <4>2. pc[c] \notin Waiting /\ l \notin Waiting /\ l \notin ServesNone /\ l \notin ServesSome
          BY Zenon, <3>4 DEF Exchange, Waiting, ServesNone, ServesSome
        <4>3. QED
          BY Zenon, <2>1, <3>1, <3>3, <4>1, <4>2, NothingMoves
      <3>5. CASE Grab(c)
        <4>1. PICK l \in {"free", "no_item"} : pc' = [pc EXCEPT ![c] = l]
          BY Zenon, <2>4, <3>5 DEF Grab, Goto
        <4>2. pc[c] \in {"grab", "no_item_grab"}
          BY Zenon, <3>5 DEF Grab
        <4>3. pc[c] \notin Waiting /\ l \notin Waiting /\ pending[c] = Null /\ l \notin ServesSome
          BY Zenon, <2>1, <4>2 DEF Waiting, Serves, ServesNone, ServesSome
        <4>4. QED
          BY Zenon, <2>1, <3>1, <3>3, <4>1, <4>3, NothingMoves
      <3>6. CASE GrabMore(c)
        <4>1. pc[c] = "grab_more" /\ pc' = [pc EXCEPT ![c] = "release"]
          BY Zenon, <3>6 DEF GrabMore, Goto
        <4>2. pc[c] \notin Waiting /\ "release" \notin Waiting /\ pending[c] # Null /\ "release" \notin ServesNone
          BY Zenon, <2>1, <4>1 DEF Waiting, Serves, ServesNone, ServesSome
        <4>3. QED
          BY Zenon, <2>1, <3>1, <3>3, <4>1, <4>2, NothingMoves
      <3>7. QED
        BY Zenon, <3>4, <3>5, <3>6
    <2>5. QED
      BY Zenon, <2>3, <2>4
  <1>1. QED
    BY Zenon, <1>TakesHead

(* Leaving pop(): unlocking when nobody waits, or waking up the first of   *)
(* those the thread serves.                                                *)
LEMMA LeavesKeepWaiters ==
  \A c \in Consumer : Inv /\ WaiterInv /\ (Free(c) \/ Notify(c)) => WaiterInv'
  (* The freed node is nobody's place. *)
  <1>ReturnFrees. ASSUME Inv, WaiterInv, NEW c \in Consumer, Return(c)
                  PROVE  /\ pc' = [pc EXCEPT ![c] = "idle"]
                         /\ \A n \in Node : n \notin live' => next'[n] = Null
                         /\ \A n \in Node : next'[n] = next[n] \/ (next'[n] \notin Consumer /\ next[n] \notin Consumer)
    <2> USE <1>ReturnFrees
    <2>1. /\ live' = live \ {old[c]} /\ next' = [n \in Node |-> IF n = old[c] THEN Null ELSE next[n]]
          /\ pc' = [pc EXCEPT ![c] = "idle"]
      BY Zenon DEF Return, Goto
    <2>2. \A n \in Node : next'[n] = IF n = old[c] THEN Null ELSE next[n]
      BY Zenon, <2>1
    <2>3. \A n \in Node : n \notin live => next[n] = Null
      BY Zenon DEF WaiterInv, WaiterTypes
    <2>4. \A n \in Node : n \notin live' => next'[n] = Null
      BY SMTT(30), <2>1, <2>2, <2>3
    <2>5. \A n \in Node : n = old[c] => next[n] \in Node
      BY Zenon, StepFacts, DistinctNames
    <2>6. QED
      BY Zenon, <2>1, <2>2, <2>4, <2>5, DistinctNames
  (* Unlocking when there are no waiters. *)
  <1>FreeKeepsWaiters. ASSUME Inv, WaiterInv, NEW c \in Consumer, Free(c)
                       PROVE  WaiterInv'
    <2> USE <1>FreeKeepsWaiters
    <2>1. Types /\ Serves(c)
      BY Zenon, StepFacts DEF WaiterInv
    <2>2. pc[c] \in {"free", "no_item"} /\ UNCHANGED <<listVars, producerVars, permits>>
      BY Zenon DEF Free
    <2>3. pc[c] \notin Waiting /\ pending[c] = Null /\ pc[c] \in Holding
      BY Zenon, <2>1, <2>2 DEF Waiting, Serves, ServesNone, Holding
    <2>4. CASE head = Null
      <3>1. head' = node[c] /\ Return(c)
        BY Zenon, <2>4 DEF Free
      <3>2. /\ pc' = [pc EXCEPT ![c] = "idle"]
            /\ \A n \in Node : n \notin live' => next'[n] = Null
            /\ \A n \in Node : next'[n] = next[n] \/ (next'[n] \notin Consumer /\ next[n] \notin Consumer)
        BY Zenon, <3>1, <1>ReturnFrees
      <3>3. head' \notin Consumer /\ head \notin Consumer
        BY Zenon, <2>3, <2>4, <3>1, StepFacts, DistinctNames
      <3>4. "idle" \notin Waiting /\ "idle" \notin ServesSome
        BY Zenon DEF Waiting, ServesSome
      <3>5. UNCHANGED <<listVars, permits, wakes, own>>
        BY Zenon, <2>2 DEF producerVars
      <3>6. QED
        BY Zenon, <2>1, <2>3, <3>2, <3>3, <3>4, <3>5, WaitersStay
    <2>5. CASE head # Null
      <3>1. PICK l \in {"grab", "no_item_grab"} : pc' = [pc EXCEPT ![c] = l]
        BY Zenon, <2>5 DEF Free, Goto
      <3>2. head' = head /\ next' = next /\ live' = live
        BY Zenon, <2>5 DEF Free
      <3>3. l \notin Waiting /\ l \notin ServesSome
        BY Zenon DEF Waiting, ServesSome
      <3>4. QED
        BY Zenon, <2>1, <2>2, <2>3, <3>1, <3>2, <3>3, NothingMoves
    <2>6. QED
      BY Zenon, <2>4, <2>5
  (* The first waiter in pending is woken up and takes care of the others. *)
  <1>NotifyKeepsWaiters. ASSUME Inv, WaiterInv, NEW c \in Consumer, Notify(c)
                         PROVE  WaiterInv'
    <2> USE <1>NotifyKeepsWaiters
    <2> DEFINE w == pending[c]
    <2>1. /\ OneHolder(Contents) /\ AreLists(behind) /\ Tails /\ WaiterTypes /\ Types /\ Serves(c)
          /\ pending \in [Consumer -> MaybeConsumer] /\ last \in [Consumer -> MaybeConsumer]
      BY Zenon, StepFacts DEF WaiterInv, WaiterTypes, Types
    <2>2. /\ pc[c] = "notify" /\ permits' = [permits EXCEPT ![w] = @ + 1] /\ Return(c)
          /\ pending' = [pending EXCEPT ![c] = Null] /\ last' = [last EXCEPT ![c] = Null]
          /\ head' = head /\ behind' = behind /\ wakes' = wakes /\ own' = own
      BY Zenon DEF Notify, Pend, producerVars
    <2>3. pc[c] \notin Waiting /\ w # Null
      BY Zenon, <2>1, <2>2 DEF Waiting, Serves, ServesSome
    <2>4. w \in Consumer
      BY SMTT(30), <2>1, <2>3 DEF MaybeConsumer
    <2>5. /\ pending'[c] = Null /\ \A e \in Consumer : e # c => pending'[e] = pending[e]
          /\ \A e \in Consumer : e # c => last'[e] = last[e]
      BY SMTT(30), <2>1, <2>2
    <2>6. last' \in [Consumer -> MaybeConsumer]
      BY SMTT(30), <2>1, <2>2 DEF MaybeConsumer
    <2> HIDE DEF w
    <2>7. /\ pc' = [pc EXCEPT ![c] = "idle"]
          /\ \A n \in Node : n \notin live' => next'[n] = Null
          /\ \A n \in Node : next'[n] = next[n] \/ (next'[n] \notin Consumer /\ next[n] \notin Consumer)
      BY Zenon, <2>2, <1>ReturnFrees
    <2>8. "idle" \notin Waiting /\ "idle" \notin ServesSome
      BY Zenon DEF Waiting, ServesSome
    <2>9. /\ pc'[c] = "idle" /\ \A e \in Consumer : e # c => pc'[e] = pc[e]
          /\ \A e \in Consumer : Serves(e)'
      BY Zenon, <2>1, <2>5, <2>7, <2>8, ConsumerGoes
    <2>10. AtPending(c) \in Place /\ Contents[AtPending(c)] = w /\ Contents'[AtPending(c)] = Null
      BY Zenon, <2>5, Places, ContentsAre, ContentsWillBe DEF Reads, w
    <2>11. Held(Contents, w)
      BY Zenon, <2>10 DEF Held
    <2>12. OneHolder(Contents') /\ \A e \in Consumer : Held(Contents', e) <=> Held(Contents, e) /\ e # w
      <3>1. \A x \in Place : x # AtPending(c) => 
              Contents'[x] = Contents[x] \/ (Contents'[x] \notin Consumer /\ Contents[x] \notin Consumer)
        BY SMTT(30), <2>2, <2>5, <2>7, Places, ContentsAre, ContentsWillBe DEF Reads
      <3>2. Contents[AtPending(c)] \in Consumer /\ Contents'[AtPending(c)] \notin Consumer
        BY Zenon, <2>4, <2>10, DistinctNames
      <3>3. /\ OneHolder(Contents')
            /\ \A e \in Consumer : Held(Contents', e) <=> Held(Contents, e) /\ e # Contents[AtPending(c)]
        BY SMTT(30), <2>1, <2>10, <3>1, <3>2, Dropped
      <3>4. QED
        BY Zenon, <2>10, <3>3
    <2>13. \A e \in Consumer : pc'[e] \in Waiting <=> pc[e] \in Waiting
      BY Zenon, <2>3, <2>8, <2>9
    <2>14. (\A e \in Consumer : Waits(e)') /\ permits' \in [Consumer -> {0, 1}]
      BY Zenon, <2>2, <2>4, <2>11, <2>12, <2>13, WaiterIsNotified
    <2>15. WaiterTypes' /\ Tails' /\ AreLists(behind')
      BY Zenon, <2>1, <2>2, <2>5, <2>6, <2>7, <2>14 DEF WaiterTypes, Tails
    <2>16. QED
      BY Zenon, <2>9, <2>12, <2>14, <2>15 DEF WaiterInv
  <1>1. QED
    BY Zenon, <1>FreeKeepsWaiters, <1>NotifyKeepsWaiters

(* Waiting for the lock. *)
LEMMA InstallKeepsWaiters ==
  ASSUME Inv, WaiterInv, NEW c \in Consumer, Install(c)
  PROVE  WaiterInv'
  <1>1. /\ OneHolder(Contents) /\ AreLists(behind) /\ Tails /\ WaiterTypes /\ Types
        /\ \A w \in Consumer : Waits(w)
    BY Zenon, StepFacts DEF WaiterInv
  <1>2. /\ pc[c] \in {"install", "top"} /\ next' = next /\ live' = live
        /\ UNCHANGED <<listVars, producerVars, permits>>
    BY Zenon DEF Install
  <1>3. pc[c] \notin Waiting
    BY Zenon, <1>2 DEF Waiting
  <1>4. CASE head = Null
    <2>1. head' = c /\ pc' = [pc EXCEPT ![c] = "lock_wait"]
      BY Zenon, <1>4 DEF Install, Goto
    <2>2. /\ behind' = behind /\ pending' = pending /\ last' = last /\ wakes' = wakes /\ own' = own
          /\ permits' = permits
      BY Zenon, <1>2 DEF listVars, producerVars
    <2>3. "lock_wait" \in Waiting /\ "lock_wait" \notin ServesNone /\ "lock_wait" \notin ServesSome
      BY Zenon DEF Waiting, ServesNone, ServesSome
    <2>4. /\ pc'[c] = "lock_wait" /\ \A e \in Consumer : e # c => pc'[e] = pc[e]
          /\ \A e \in Consumer : Serves(e)'
      BY Zenon, <1>1, <2>1, <2>2, <2>3, ConsumerGoes
    <2>5. OneHolder(Contents') /\ \A w \in Consumer : Held(Contents', w) <=> Held(Contents, w) \/ w = c
      <3>1. AtHead \in Place /\ Contents[AtHead] \notin Consumer /\ Contents'[AtHead] = c
        BY Zenon, <1>4, <2>1, Places, ContentsAre, ContentsWillBe, DistinctNames DEF Reads
      <3>2. \A x \in Place : x # AtHead => Contents'[x] = Contents[x]
        BY SMTT(30), <1>2, <2>2, Places, ContentsAre, ContentsWillBe DEF Reads
      <3>3. ~Held(Contents, Contents'[AtHead])
        BY Zenon, <1>1, <1>3, <3>1 DEF Waits
      <3>4. /\ OneHolder(Contents')
            /\ \A w \in Consumer : Held(Contents', w) <=> Held(Contents, w) \/ w = Contents'[AtHead]
        BY SMTT(30), <1>1, <3>1, <3>2, <3>3, Added
      <3>5. QED
        BY Zenon, <3>1, <3>4
    <2>6. \A w \in Consumer : w # c /\ pc[w] \notin Waiting => behind'[w] = Null
      BY Zenon, <1>1, <2>2 DEF Waits
    <2>7. \A w \in Consumer : Waits(w)'
      BY Zenon, <1>3, <2>2, <2>3, <2>4, <2>5, <2>6, WaiterStarts
    <2>8. WaiterTypes' /\ Tails' /\ AreLists(behind')
      BY Zenon, <1>1, <1>2, <2>2 DEF WaiterTypes, Tails
    <2>9. QED
      BY Zenon, <2>4, <2>5, <2>7, <2>8 DEF WaiterInv
  <1>5. CASE head # Null
    <2>1. head' = head /\ pc' = [pc EXCEPT ![c] = "top"]
      BY Zenon, <1>5 DEF Install, Goto
    <2>2. "top" \notin Waiting /\ "top" \notin ServesNone /\ "top" \notin ServesSome
      BY Zenon DEF Waiting, ServesNone, ServesSome
    <2>3. QED
      BY Zenon, <1>1, <1>2, <1>3, <2>1, <2>2, NothingMoves
  <1>6. QED
    BY Zenon, <1>4, <1>5

(* Looking at head_ and at the next pointer. *)
LEMMA LooksKeepWaiters ==
  ASSUME Inv, WaiterInv, NEW c \in Consumer,
         \/ Call(c, "load") \/ Call(c, "try") \/ LoadHead(c) \/ Spin(c) \/ TryLoad(c) \/ TryLock(c)
         \/ LoadNext(c) \/ LoadMore(c) \/ Release(c)
  PROVE  WaiterInv'
  <1>1. Types /\ Serves(c) /\ Knows(c)
    BY Zenon, StepFacts DEF WaiterInv, Inv, Locks
  <1>2. CASE Call(c, "load") \/ Call(c, "try")
    <2>1. PICK l \in {"load", "try"} : Call(c, l)
      BY Zenon, <1>2
    <2>2. /\ pc' = [pc EXCEPT ![c] = l] /\ next' = next /\ live' = live /\ head' = head
          /\ UNCHANGED <<listVars, producerVars, permits>> /\ pc[c] = "idle"
      BY Zenon, <2>1 DEF Call, Goto
    <2>3. l \notin Waiting /\ pc[c] \notin Waiting /\ pending[c] = Null /\ l \notin ServesSome
      BY Zenon, <1>1, <2>2 DEF Waiting, Serves, ServesNone, ServesSome
    <2>4. QED
      BY Zenon, <1>1, <2>2, <2>3, NothingMoves
  <1>3. CASE LoadHead(c) \/ Spin(c)
    <2>1. /\ pc' = [pc EXCEPT ![c] = "top"] /\ next' = next /\ live' = live /\ head' = head
          /\ UNCHANGED <<listVars, producerVars, permits>> /\ pc[c] \in {"load", "top"}
      <3>1. CASE LoadHead(c)
        BY Zenon, <3>1 DEF LoadHead, Goto
      <3>2. CASE Spin(c)
        <4>1. pc[c] = "top" /\ pc' = pc
          BY Zenon, <3>2 DEF Spin
        <4>2. pc' = [pc EXCEPT ![c] = "top"]
          BY SMTT(30), <1>1, <4>1 DEF Types
        <4>3. QED
          BY Zenon, <3>2, <4>1, <4>2 DEF Spin
      <3>3. QED
        BY Zenon, <1>3, <3>1, <3>2
    <2>2. "top" \notin Waiting /\ pc[c] \notin Waiting /\ "top" \notin ServesNone /\ "top" \notin ServesSome
      BY Zenon, <2>1 DEF Waiting, ServesNone, ServesSome
    <2>3. QED
      BY Zenon, <1>1, <2>1, <2>2, NothingMoves
  <1>4. CASE TryLoad(c)
    <2>1. PICK l \in {"try_lock", "idle"} : pc' = [pc EXCEPT ![c] = l]
      BY Zenon, <1>4 DEF TryLoad, Goto
    <2>2. /\ next' = next /\ live' = live /\ head' = head
          /\ UNCHANGED <<listVars, producerVars, permits>> /\ pc[c] = "try"
      BY Zenon, <1>4 DEF TryLoad
    <2>3. l \notin Waiting /\ pc[c] \notin Waiting /\ pending[c] = Null /\ l \notin ServesSome
      BY Zenon, <1>1, <2>2 DEF Waiting, Serves, ServesNone, ServesSome
    <2>4. QED
      BY Zenon, <1>1, <2>1, <2>2, <2>3, NothingMoves
  <1>5. CASE TryLock(c)
    <2>1. PICK l \in {"try_next", "try_lock", "idle"} : pc' = [pc EXCEPT ![c] = l]
      BY Zenon, <1>5 DEF TryLock, Goto
    <2>2. /\ next' = next /\ live' = live /\ (head' = head \/ (head' = Null /\ head = word[c]))
          /\ UNCHANGED <<listVars, producerVars, permits>> /\ pc[c] = "try_lock"
      BY Zenon, <1>5 DEF TryLock
    <2>3. head' = head \/ (head' \notin Consumer /\ head \notin Consumer)
      BY Zenon, <1>1, <2>2, DistinctNames DEF Knows, IsNode
    <2>4. l \notin Waiting /\ pc[c] \notin Waiting /\ pending[c] = Null /\ l \notin ServesSome
      BY Zenon, <1>1, <2>2 DEF Waiting, Serves, ServesNone, ServesSome
    <2>5. QED
      BY Zenon, <1>1, <2>1, <2>2, <2>3, <2>4, NothingMoves
  <1>6. CASE LoadNext(c)
    <2>1. /\ pc[c] \in {"next", "try_next"} /\ next' = next /\ live' = live /\ head' = head
          /\ UNCHANGED <<listVars, producerVars, permits>>
      BY Zenon, <1>6 DEF LoadNext
    <2>2. \/ pc' = [pc EXCEPT ![c] = IF pending[c] = Null THEN "free" ELSE "load_next"]
          \/ pc' = [pc EXCEPT ![c] = IF pc[c] = "next" THEN "install_next" ELSE "no_item"]
      BY Zenon, <1>6 DEF LoadNext, Take, Goto
    <2>3. pc[c] = "try_next" => pending[c] = Null
      BY Zenon, <1>1 DEF Serves, ServesNone
    <2>4. PICK l : /\ pc' = [pc EXCEPT ![c] = l] /\ l \in {"free", "load_next", "install_next", "no_item"}
                   /\ l \in {"free", "no_item"} => pending[c] = Null
                   /\ l = "load_next" => pending[c] # Null
      BY Zenon, <2>1, <2>2, <2>3
    <2>5. /\ l \notin Waiting /\ pc[c] \notin Waiting /\ (l \in ServesNone => pending[c] = Null)
          /\ (l \in ServesSome => pending[c] # Null)
      BY Zenon, <2>1, <2>4 DEF Waiting, ServesNone, ServesSome
    <2>6. QED
      BY Zenon, <1>1, <2>1, <2>4, <2>5, NothingMoves
  <1>7. CASE LoadMore(c)
    <2>1. PICK l \in {"release", "hand_over"} : pc' = [pc EXCEPT ![c] = l]
      BY Zenon, <1>7 DEF LoadMore, Goto
    <2>2. /\ next' = next /\ live' = live /\ head' = head
          /\ UNCHANGED <<listVars, producerVars, permits>> /\ pc[c] = "load_next"
      BY Zenon, <1>7 DEF LoadMore
    <2>3. l \notin Waiting /\ pc[c] \notin Waiting /\ pending[c] # Null /\ l \notin ServesNone
      BY Zenon, <1>1, <2>2 DEF Waiting, Serves, ServesNone, ServesSome
    <2>4. QED
      BY Zenon, <1>1, <2>1, <2>2, <2>3, NothingMoves
  <1>8. CASE Release(c)
    <2>1. PICK l \in {"notify", "grab_more"} : pc' = [pc EXCEPT ![c] = l]
      BY Zenon, <1>8 DEF Release, Goto
    <2>2. /\ next' = next /\ live' = live /\ (head' = head \/ (head' = node[c] /\ head = Null))
          /\ UNCHANGED <<listVars, producerVars, permits>> /\ pc[c] = "release"
      BY Zenon, <1>8 DEF Release
    <2>3. /\ l \notin Waiting /\ pc[c] \notin Waiting /\ pending[c] # Null /\ l \notin ServesNone
          /\ pc[c] \in Holding
      BY Zenon, <1>1, <2>2 DEF Waiting, Serves, ServesNone, ServesSome, Holding
    <2>4. head' = head \/ (head' \notin Consumer /\ head \notin Consumer)
      BY Zenon, <2>2, <2>3, StepFacts, DistinctNames
    <2>5. QED
      BY Zenon, <1>1, <2>1, <2>2, <2>3, <2>4, NothingMoves
  <1>9. QED
    BY Zenon, <1>2, <1>3, <1>4, <1>5, <1>6, <1>7, <1>8

(* At first nobody waits. *)
LEMMA InitWaiters ==
  ASSUME Init
  PROVE  WaiterInv
  <1>1. /\ head = Stub /\ behind = [c \in Consumer |-> Null] /\ pending = behind /\ last = behind
        /\ next = [n \in Node |-> Null] /\ wakes = [p \in Producer |-> Null] /\ own = wakes
        /\ permits = [c \in Consumer |-> 0] /\ pc = [c \in Consumer |-> "idle"]
    BY Zenon DEF Init, NoOne
  <1>2. /\ \A n \in Node : next[n] = Null
        /\ \A c \in Consumer : behind[c] = Null /\ pending[c] = Null /\ permits[c] = 0 /\ pc[c] = "idle"
        /\ \A p \in Producer : wakes[p] = Null /\ own[p] = Null
    BY Zenon, <1>1
  <1>3. \A x \in Place : Contents[x] \notin Consumer
    BY SMTT(30), <1>1, <1>2, Places, ContentsAre, DistinctNames DEF Reads
  <1>4. OneHolder(Contents) /\ \A w \in Consumer : ~Held(Contents, w)
    BY Zenon, <1>3 DEF OneHolder, Held
  <1>5. "idle" \notin Waiting /\ "idle" \notin ServesSome
    BY Zenon DEF Waiting, ServesSome
  <1>6. \A c \in Consumer : Waits(c) /\ Serves(c)
    BY Zenon, <1>2, <1>4, <1>5 DEF Waits, Serves
  <1>7. behind \in [Consumer -> MaybeConsumer] /\ wakes \in [Producer -> MaybeConsumer]
    BY SMTT(30), <1>1 DEF MaybeConsumer
  <1>8. permits \in [Consumer -> {0, 1}]
    BY SMTT(30), <1>1
  <1>9. WaiterTypes
    BY Zenon, <1>1, <1>2, <1>7, <1>8 DEF WaiterTypes
  <1>10. AreLists(behind) /\ Tails
    BY Zenon, <1>2, <1>7 DEF AreLists, IsLast, Reach, Tails
  <1>11. QED
    BY Zenon, <1>4, <1>6, <1>9, <1>10 DEF WaiterInv

(* Every step of every push and pop keeps the waiters in their places. *)
LEMMA NextWaiters ==
  ASSUME Inv, WaiterInv, [Next]_vars
  PROVE  WaiterInv'
  <1>1. CASE UNCHANGED vars
    <2>1. UNCHANGED <<head, next, live, own, wakes, behind, pending, last, permits, pc>>
      BY Zenon, <1>1 DEF vars
    <2>2. \A x \in Place : Contents'[x] = Contents[x]
      BY SMTT(30), <2>1, Places, ContentsAre, ContentsWillBe DEF Reads
    <2>3. /\ OneHolder(Contents) /\ AreLists(behind) /\ Tails /\ WaiterTypes
          /\ \A c \in Consumer : Waits(c) /\ Serves(c)
      BY Zenon DEF WaiterInv
    <2>4. OneHolder(Contents') /\ \A w \in Consumer : Held(Contents', w) <=> Held(Contents, w)
      BY Zenon, <2>2, <2>3, Stayed
    <2>5. WaiterTypes' /\ Tails' /\ AreLists(behind')
      BY Zenon, <2>1, <2>3 DEF WaiterTypes, Tails
    <2>6. \A c \in Consumer : Waits(c)' /\ Serves(c)'
      BY Zenon, <2>1, <2>3, <2>4 DEF Waits, Serves
    <2>7. QED
      BY Zenon, <2>4, <2>5, <2>6 DEF WaiterInv
  <1>2. ASSUME NEW p \in Producer, ProducerStep(p) \/ \E n \in Node : PushTail(p, n)
        PROVE  WaiterInv'
    BY Zenon, <1>2, PushKeepsWaiters
  <1>3. ASSUME NEW c \in Consumer,
               Call(c, "load") \/ Call(c, "try") \/ Spin(c) \/ ConsumerStep(c)
        PROVE  WaiterInv'
    BY ZenonT(40), <1>3, LooksKeepWaiters, TakesKeepWaiters, InstallKeepsWaiters, WakesKeepWaiters,
       UnlockWaitingKeepsWaiters, LeavesKeepWaiters, NextKeepsWaiters
    DEF ConsumerStep, UnlockStep
  <1>4. QED
    BY Zenon, <1>1, <1>2, <1>3 DEF Next

(* The places a waiter is pointed to from are those that hold it. *)
LEMMA RefsAre ==
  ASSUME Types, WaiterInv, NEW w \in Consumer
  PROVE  \A x : x \in Refs(w) <=> x \in Place /\ Contents[x] = w
  <1>1. /\ \A n \in Node : n \notin live => next[n] = Null
        /\ \A c \in Consumer : pc[c] = "idle" => pending[c] = Null
        /\ live \subseteq Node /\ w # Null
    BY Zenon, DistinctNames DEF WaiterInv, WaiterTypes, Serves, ServesNone, Types
  <1>2. ASSUME NEW x PROVE x \in Refs(w) <=>
          \/ x = AtHead /\ head = w
          \/ \E n \in live : x = AtNext(n) /\ next[n] = w
          \/ \E c \in Consumer : x = AtPending(c) /\ pc[c] # "idle" /\ pending[c] = w
          \/ \E c \in Consumer : x = AtBehind(c) /\ behind[c] = w
          \/ \E p \in Producer : x = AtWakes(p) /\ wakes[p] = w
    BY SMTT(30) DEF Refs, AtHead, AtNext, AtPending, AtBehind, AtWakes
  <1>3. ASSUME NEW x, x \in Refs(w) PROVE x \in Place /\ Contents[x] = w
    <2>1. \/ x = AtHead /\ head = w
          \/ \E n \in live : x = AtNext(n) /\ next[n] = w
          \/ \E c \in Consumer : x = AtPending(c) /\ pc[c] # "idle" /\ pending[c] = w
          \/ \E c \in Consumer : x = AtBehind(c) /\ behind[c] = w
          \/ \E p \in Producer : x = AtWakes(p) /\ wakes[p] = w
      BY Zenon, <1>2, <1>3
    <2>2. QED
      BY SMTT(30), <1>1, <2>1, Places, ContentsAre DEF Reads
  <1>4. ASSUME NEW x \in Place, Contents[x] = w PROVE x \in Refs(w)
    <2>1. CASE x = AtHead
      BY Zenon, <1>2, <1>4, <2>1, ContentsAre DEF Reads
    <2>2. ASSUME NEW n \in Node, x = AtNext(n) PROVE x \in Refs(w)
      BY Zenon, <1>1, <1>2, <1>4, <2>2, ContentsAre DEF Reads
    <2>3. ASSUME NEW c \in Consumer, x = AtPending(c) PROVE x \in Refs(w)
      BY Zenon, <1>1, <1>2, <1>4, <2>3, ContentsAre DEF Reads
    <2>4. ASSUME NEW c \in Consumer, x = AtBehind(c) PROVE x \in Refs(w)
      BY Zenon, <1>2, <1>4, <2>4, ContentsAre DEF Reads
    <2>5. ASSUME NEW p \in Producer, x = AtWakes(p) PROVE x \in Refs(w)
      BY Zenon, <1>2, <1>4, <2>5, ContentsAre DEF Reads
    <2>6. QED
      BY Zenon, <2>1, <2>2, <2>3, <2>4, <2>5, Places
  <1>5. QED
    BY Zenon, <1>3, <1>4

(* A waiting thread is in one list, or on its way to be notified, or has   *)
(* been, and a thread that does not wait is in no list: pop() and push()   *)
(* forget nobody, wake nobody twice and put nobody into two lists.         *)
THEOREM WaitersAreHeld == Spec => []WaiterIsHeldOnce
  <1>1. Init => Inv /\ WaiterInv
    BY Zenon, InvSteps, InitWaiters
  <1>2. Inv /\ WaiterInv /\ [Next]_vars => Inv' /\ WaiterInv'
    BY Zenon, InvSteps, NextWaiters
  <1>3. Inv /\ WaiterInv => WaiterIsHeldOnce
    <2> SUFFICES ASSUME Inv, WaiterInv, NEW w \in Consumer
                 PROVE  /\ permits[w] \in (IF pc[w] \in Waiting THEN {0, 1} ELSE {0})
                        /\ IF pc[w] \in Waiting /\ permits[w] = 0
                           THEN \E x \in Refs(w) : Refs(w) = {x}
                           ELSE Refs(w) = {}
      BY Zenon DEF WaiterIsHeldOnce
    <2>1. Waits(w) /\ OneHolder(Contents) /\ Types
      BY Zenon, StepFacts DEF WaiterInv
    <2>2. \A x : x \in Refs(w) <=> x \in Place /\ Contents[x] = w
      BY Zenon, <2>1, RefsAre
    <2>3. permits[w] \in (IF pc[w] \in Waiting THEN {0, 1} ELSE {0})
      BY Zenon, <2>1 DEF Waits
    <2>4. CASE pc[w] \in Waiting /\ permits[w] = 0
      <3>1. PICK x \in Place : Contents[x] = w
        BY Zenon, <2>1, <2>4 DEF Waits, Held
      <3>2. \A y : y \in Refs(w) <=> y = x
        BY Zenon, <2>1, <2>2, <3>1 DEF OneHolder
      <3>3. Refs(w) = {x}
        BY SMTT(30), <3>2
      <3>4. QED
        BY Zenon, <2>3, <2>4, <3>3
    <2>5. CASE ~(pc[w] \in Waiting /\ permits[w] = 0)
      <3>1. ~Held(Contents, w)
        BY Zenon, <2>1, <2>5 DEF Waits
      <3>2. Refs(w) = {}
        BY Zenon, <2>2, <3>1 DEF Held
      <3>3. QED
        BY Zenon, <2>3, <2>5, <3>2
    <2>6. QED
      BY Zenon, <2>4, <2>5
  <1>4. QED
    BY <1>1, <1>2, <1>3, PTL DEF Spec
=============================================================================
