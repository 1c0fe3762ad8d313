-------------------------- MODULE StopStateProofs --------------------------
(***************************************************************************)
(* Proofs about StopState, for any number of threads, callbacks and        *)
(* sources.                                                                *)
(*                                                                         *)
(* Mutex says who holds the lock bit of the word and where the only        *)
(* request_stop() is.  Lives says what is left of a callback: who owns it, *)
(* whether it is in the list, and whether the stop still reaches it.  The  *)
(* refinement of StopSpec follows from both.                               *)
(***************************************************************************)
EXTENDS StopState, SequenceTheorems, TLAPS

(* A callback is in the list at most once. *)
NoDuplicates(s) == \A i, j \in DOMAIN s : s[i] = s[j] => i = j

(* A sequence without its nth element. *)
RemoveAt(s, n) == SubSeq(s, 1, n - 1) \o SubSeq(s, n + 1, Len(s))

(* What it is. *)
LEMMA RemoveAtType ==
  ASSUME NEW S, NEW s \in Seq(S), NEW n \in 1..Len(s)
  PROVE  /\ RemoveAt(s, n) \in Seq(S)
         /\ Len(RemoveAt(s, n)) = Len(s) - 1
         /\ \A i \in 1..(Len(s) - 1) : RemoveAt(s, n)[i] = IF i < n THEN s[i] ELSE s[i + 1]
  <1> DEFINE a == SubSeq(s, 1, n - 1)  b == SubSeq(s, n + 1, Len(s))
  <1>0. Len(s) \in Nat
    OBVIOUS
  <1>1. a \in Seq(S) /\ Len(a) = n - 1 /\ \A i \in 1..(n - 1) : a[i] = s[i]
    BY SMTT(30), <1>0
  <1>2. b \in Seq(S) /\ Len(b) = Len(s) - n /\ \A i \in 1..(Len(s) - n) : b[i] = s[n + i]
    BY SMTT(30), <1>0
  <1>3. RemoveAt(s, n) = a \o b
    BY Zenon DEF RemoveAt
  <1> HIDE DEF a, b
  <1>4. /\ a \o b \in Seq(S) /\ Len(a \o b) = Len(s) - 1
        /\ \A i \in 1..(Len(s) - 1) : (a \o b)[i] = IF i <= n - 1 THEN a[i] ELSE b[i - (n - 1)]
    <2>1. /\ a \o b \in Seq(S) /\ Len(a \o b) = Len(a) + Len(b)
          /\ \A i \in 1..(Len(a) + Len(b)) : (a \o b)[i] = IF i <= Len(a) THEN a[i] ELSE b[i - Len(a)]
      BY Zenon, <1>1, <1>2, ConcatProperties
    <2>2. Len(a) + Len(b) = Len(s) - 1
      BY SMTT(30), <1>0, <1>1, <1>2
    <2>3. QED
      BY Zenon, <1>1, <2>1, <2>2
  <1>5. ASSUME NEW i \in 1..(Len(s) - 1)
        PROVE  (a \o b)[i] = IF i < n THEN s[i] ELSE s[i + 1]
    <2>1. CASE i < n
      BY SMTT(30), <1>0, <1>1, <1>4, <2>1
    <2>2. CASE ~(i < n)
      <3>1. (a \o b)[i] = b[i - (n - 1)] /\ i - (n - 1) \in 1..(Len(s) - n)
        <4>1. ~(i <= n - 1) /\ i - (n - 1) \in 1..(Len(s) - n)
          BY SMTT(30), <1>0, <2>2
        <4>2. QED
          BY Zenon, <1>4, <4>1
      <3>2. b[i - (n - 1)] = s[n + (i - (n - 1))]
        BY Zenon, <1>2, <3>1
      <3>3. n + (i - (n - 1)) = i + 1
        BY SMTT(30), <1>0
      <3>4. QED
        BY Zenon, <2>2, <3>1, <3>2, <3>3
    <2>3. QED
      BY Zenon, <2>1, <2>2
  <1>6. QED
    BY Zenon, <1>3, <1>4, <1>5

(* Without duplicates, Unlinked removes the only place of c. *)
LEMMA UnlinkedIsRemoved ==
  ASSUME NEW S, NEW s \in Seq(S), NEW c, NEW n \in 1..Len(s), s[n] = c, NoDuplicates(s)
  PROVE  Unlinked(s, c) = RemoveAt(s, n)
  <1>1. {i \in DOMAIN s : s[i] = c} = {n}
    BY SMTT(30) DEF NoDuplicates
  <1>2. QED
    BY Zenon, <1>1 DEF Unlinked, RemoveAt

(* remove_callback_locked unlinks the callback and nothing else. *)
LEMMA UnlinkKeepsOthers ==
  ASSUME NEW S, NEW s \in Seq(S), NEW c, NoDuplicates(s)
  PROVE  /\ Unlinked(s, c) \in Seq(S)
         /\ NoDuplicates(Unlinked(s, c))
         /\ \A i \in DOMAIN Unlinked(s, c) :
              Unlinked(s, c)[i] # c /\ \E j \in DOMAIN s : Unlinked(s, c)[i] = s[j]
         /\ \A j \in DOMAIN s : s[j] # c => \E i \in DOMAIN Unlinked(s, c) :
              Unlinked(s, c)[i] = s[j]
         /\ (\A i \in DOMAIN s : s[i] # c) => Unlinked(s, c) = s
  <1>0. Len(s) \in Nat /\ DOMAIN s = 1..Len(s)
    OBVIOUS
  <1>1. CASE \A i \in DOMAIN s : s[i] # c
    <2>1. Unlinked(s, c) = s
      BY Zenon, <1>0, <1>1 DEF Unlinked
    <2>2. QED
      BY Zenon, <1>0, <1>1, <2>1
  <1>2. CASE ~ \A i \in DOMAIN s : s[i] # c
    <2>1. PICK n \in 1..Len(s) : s[n] = c
      BY Zenon, <1>0, <1>2
    <2> DEFINE r == Unlinked(s, c)
    <2>2. /\ r \in Seq(S) /\ Len(r) = Len(s) - 1 /\ DOMAIN r = 1..(Len(s) - 1)
          /\ \A i \in 1..(Len(s) - 1) : r[i] = IF i < n THEN s[i] ELSE s[i + 1]
      <3>1. r = RemoveAt(s, n)
        BY Zenon, <2>1, UnlinkedIsRemoved
      <3>2. RemoveAt(s, n) \in Seq(S) /\ Len(RemoveAt(s, n)) = Len(s) - 1
        BY Zenon, RemoveAtType
      <3>3. DOMAIN RemoveAt(s, n) = 1..(Len(s) - 1)
        BY SMTT(30), <3>2
      <3>4. QED
        BY Zenon, <3>1, <3>2, <3>3, RemoveAtType
    <2> HIDE DEF r
    <2>3. NoDuplicates(r)
      <3> SUFFICES ASSUME NEW i \in 1..(Len(s) - 1), NEW j \in 1..(Len(s) - 1), r[i] = r[j]
                   PROVE  i = j
        BY Zenon, <2>2 DEF NoDuplicates
      <3> DEFINE Old(k) == IF k < n THEN k ELSE k + 1
      <3>1. Old(i) \in DOMAIN s /\ Old(j) \in DOMAIN s /\ r[i] = s[Old(i)] /\ r[j] = s[Old(j)]
        BY SMTT(30), <1>0, <2>2
      <3>2. Old(i) = Old(j)
        BY Zenon, <3>1 DEF NoDuplicates
      <3>3. QED
        BY SMTT(30), <1>0, <3>2
    <2>4. ASSUME NEW i \in DOMAIN r PROVE r[i] # c /\ \E j \in DOMAIN s : r[i] = s[j]
      BY SMTT(30), <1>0, <2>1, <2>2 DEF NoDuplicates
    <2>5. ASSUME NEW j \in DOMAIN s, s[j] # c PROVE \E i \in DOMAIN r : r[i] = s[j]
      <3>1. CASE j < n
        BY SMTT(30), <1>0, <2>1, <2>2, <3>1
      <3>2. CASE j > n
        <4>1. j - 1 \in DOMAIN r /\ r[j - 1] = s[j]
          BY SMTT(30), <1>0, <2>1, <2>2, <3>2
        <4>2. QED
          BY Zenon, <4>1
      <3>3. QED
        BY SMTT(30), <1>0, <2>1, <2>5, <3>1, <3>2
    <2>6. QED
      BY Zenon, <1>2, <2>2, <2>3, <2>4, <2>5 DEF r
  <1>3. QED
    BY Zenon, <1>1, <1>2

(***************************************************************************)
(* The mutex, and who is inside request_stop().                            *)
(***************************************************************************)

PC == {"idle", "load", "try", "wait", "asleep", "notify_all", "locked", "unlock", "notify_one",
       "unlocked", "invoking"}

Types ==
  /\ word \in Word /\ seen \in [Thread -> Word] /\ pc \in [Thread -> PC]
  /\ op \in [Thread -> {"add", "remove", "stop", "relock"}]
  /\ cb \in [Thread -> Callback \union {Null}]

Busy(t) == pc[t] \notin {"idle", "invoking"}

(* Thread t has set the stopped flag and is not done with the callbacks. *)
Stopper(t) ==
  \/ op[t] = "stop" /\ pc[t] \in {"notify_all", "locked", "unlock", "notify_one", "unlocked"}
  \/ op[t] = "relock" /\ pc[t] # "idle"
  \/ current # Null /\ runner = t

Stopping ==
  /\ \A t \in Thread : Stopper(t) => word.stopped
  /\ \A t, u \in Thread : Stopper(t) /\ Stopper(u) => t = u
  /\ current # Null => runner \in Thread /\ pc[runner] # "idle"
  /\ \A t \in Thread :
       /\ pc[t] = "notify_all" => op[t] = "stop"
       /\ op[t] = "stop" /\ pc[t] \in {"notify_all", "locked"} => current = Null
       /\ op[t] = "relock" /\ pc[t] # "idle" => current = Null
       /\ pc[t] = "invoking" => current # Null /\ runner = t
       /\ pc[t] = "locked" /\ op[t] = "add" => ~word.stopped
       /\ Busy(t) /\ op[t] \in {"add", "remove"} => cb[t] \in Callback

Mutex == Types /\ LockIsExclusive /\ Stopping

(* A new state satisfies Mutex. *)
LEMMA InitMutex == Init => Mutex
  BY SMTT(30), ConstantTypes DEF Init, Mutex, Types, PC, Word, LockIsExclusive, Stopping, Stopper, Busy

(* The steps that do not touch the word. *)
LEMMA LoadMutex ==
  ASSUME Mutex, NEW t \in Thread, Load(t) \/ GiveUp(t) \/ JoinWaiters(t) \/ Wait(t)
  PROVE  Mutex'
  <1> USE DEF Mutex, Types, PC, LockIsExclusive, Stopping, Stopper, Busy, Goto, stopVars
  <1>1. CASE Load(t)
    BY SMTT(30), <1>1 DEF Load
  <1>2. CASE GiveUp(t)
    BY SMTT(30), <1>2 DEF GiveUp, Base
  <1>3. CASE JoinWaiters(t)
    BY SMTT(30), <1>3 DEF JoinWaiters, MustGoOn
  <1>4. CASE Wait(t)
    BY SMTT(30), <1>4 DEF Wait
  <1>5. QED
    BY Zenon, <1>1, <1>2, <1>3, <1>4

(* The steps that change the word or wake sleepers. *)
LEMMA LockMutex ==
  ASSUME Mutex, NEW t \in Thread,
         TryLock(t) \/ SetWaiting(t) \/ NotifyAll(t) \/ Unlock(t) \/ NotifyOne(t)
  PROVE  Mutex'
  <1> USE DEF Mutex, Types, PC, LockIsExclusive, Stopping, Stopper, Busy, Goto, stopVars
  <1>1. CASE TryLock(t)
    <2>1. CASE word = seen[t]
      <3>1. (op[t] = "stop") \in BOOLEAN
        OBVIOUS
      <3>2. /\ word' \in Word /\ word'.locked /\ ~word.locked /\ ~(op[t] = "add" /\ word.stopped)
            /\ word'.stopped = (word.stopped \/ op[t] = "stop")
        <4>1. word' = [word EXCEPT !.locked = TRUE, !.stopped = @ \/ op[t] = "stop"]
          BY Zenon, <1>1, <2>1 DEF TryLock
        <4>2. word \in Word
          OBVIOUS
        <4> HIDE DEF Mutex, Types, LockIsExclusive, Stopping, Stopper, Busy, PC
        <4>3. /\ word' \in Word /\ word'.locked
              /\ word'.stopped = (word.stopped \/ op[t] = "stop")
          BY Zenon, <3>1, <4>1, <4>2 DEF Word
        <4>4. ~word.locked /\ ~(op[t] = "add" /\ word.stopped)
          BY Zenon, <1>1, <2>1 DEF TryLock, MustGoOn
        <4>5. QED
          BY Zenon, <4>3, <4>4
      <3>3. op[t] = "stop" => ~word.stopped
        BY Zenon, <1>1, <2>1 DEF TryLock, MustGoOn
      <3>4. \A u \in Thread : pc[u] \notin {"notify_all", "locked", "unlock"}
        BY Zenon, <3>2
      <3>5. /\ UNCHANGED <<runner, current, op, cb, seen>>
            /\ pc[t] = "try" /\ pc' \in {[pc EXCEPT ![t] = "locked"], [pc EXCEPT ![t] = "notify_all"]}
            /\ pc'[t] = "notify_all" => op[t] = "stop"
        BY Zenon, <1>1, <2>1 DEF TryLock, MustGoOn
      <3>6. Types'
        BY Zenon, <3>2, <3>5
      <3>7. LockIsExclusive'
        BY SMTT(30), <3>2, <3>4, <3>5
      <3>8. \A u \in Thread : Stopper(u) => word.stopped
        OBVIOUS
      <3>9. \A u \in Thread : Stopper(u)' => Stopper(u) \/ (u = t /\ op[t] = "stop")
        BY SMTT(30), <3>5
      <3>10. Stopping'
        <4>1. \A u \in Thread : Stopper(u)' => word'.stopped
          BY Zenon, <3>2, <3>8, <3>9
        <4>2. \A u, v \in Thread : Stopper(u)' /\ Stopper(v)' => u = v
          <5>1. CASE op[t] = "stop"
            <6>1. \A u \in Thread : Stopper(u)' => u = t
              BY Zenon, <3>3, <3>8, <3>9, <5>1
            <6>2. QED
              BY SMTT(30), <6>1
          <5>2. CASE op[t] # "stop"
            <6>1. \A u \in Thread : Stopper(u)' => Stopper(u)
              BY Zenon, <3>9, <5>2
            <6>2. QED
              BY SMTT(30), <6>1
          <5>3. QED
            BY Zenon, <5>1, <5>2
        <4>3. op[t] = "stop" => current = Null
          BY Zenon, <3>3
        <4>4. current' # Null => runner' \in Thread /\ pc'[runner'] # "idle"
          BY SMTT(30), <3>5
        <4>5. ASSUME NEW u \in Thread
              PROVE  /\ pc'[u] = "notify_all" => op'[u] = "stop"
                     /\ op'[u] = "stop" /\ pc'[u] \in {"notify_all", "locked"} => current' = Null
                     /\ op'[u] = "relock" /\ pc'[u] # "idle" => current' = Null
                     /\ pc'[u] = "invoking" => current' # Null /\ runner' = u
                     /\ pc'[u] = "locked" /\ op'[u] = "add" => ~word'.stopped
                     /\ Busy(u)' /\ op'[u] \in {"add", "remove"} => cb'[u] \in Callback
          <5>1. CASE u = t
            <6>1. pc'[t] \in {"locked", "notify_all"} /\ (pc'[t] = "notify_all" => op[t] = "stop")
              BY ZenonT(40), <3>5
            <6>2. op[t] = "relock" => current = Null
              BY Zenon, <3>5
            <6>3. op[t] \in {"add", "remove"} => cb[t] \in Callback
              BY Zenon, <3>5
            <6>4. op[t] = "add" => ~word'.stopped
              BY Zenon, <3>2
            <6>5. UNCHANGED <<runner, current, op, cb>>
              BY Zenon, <3>5
            <6> HIDE DEF Stopper, Mutex, Types, LockIsExclusive, PC, Stopping
            <6>6. QED
              BY Zenon, <4>3, <5>1, <6>1, <6>2, <6>3, <6>4, <6>5
          <5>2. CASE u # t
            <6>1. pc'[u] = pc[u]
              BY SMTT(30), <3>5, <5>2
            <6>2. QED
              BY ZenonT(40), <3>4, <3>5, <6>1
          <5>3. QED
            BY Zenon, <5>1, <5>2
        <4> HIDE DEF Stopper, Busy, Mutex, Types, LockIsExclusive, PC
        <4>6. QED
          BY Zenon, <4>1, <4>2, <4>4, <4>5
      <3>11. QED
        BY Zenon, <3>6, <3>7, <3>10
    <2>2. CASE word # seen[t]
      BY SMTT(30), <1>1, <2>2 DEF TryLock, MustGoOn
    <2>3. QED
      BY Zenon, <2>1, <2>2
  <1>2. CASE SetWaiting(t)
    <2>1. word' \in Word /\ word'.locked = word.locked /\ word'.stopped = word.stopped
      <3>1. word' = word \/ word' = [word EXCEPT !.waiting = TRUE]
        BY Zenon, <1>2 DEF SetWaiting
      <3>2. word \in Word
        OBVIOUS
      <3> HIDE DEF Mutex, Types, LockIsExclusive, Stopping, Stopper, Busy, PC
      <3>3. QED
        BY Zenon, <3>1, <3>2 DEF Word
    <2>2. QED
      BY SMTT(30), <1>2, <2>1 DEF SetWaiting, MustGoOn
  <1>3. CASE NotifyAll(t)
    BY SMTT(30), <1>3 DEF NotifyAll, Asleep
  <1>4. CASE Unlock(t)
    <2>1. word' \in Word /\ ~word'.locked /\ word'.stopped = word.stopped
      BY Zenon, <1>4 DEF Unlock, Word
    <2>2. QED
      BY SMTT(30), <1>4, <2>1 DEF Unlock
  <1>5. CASE NotifyOne(t)
    BY SMTT(30), <1>5 DEF NotifyOne, Asleep
  <1>6. QED
    BY Zenon, <1>1, <1>2, <1>3, <1>4, <1>5

(* The steps of constructors, destructors and request_stop(). *)
LEMMA UserMutex ==
  ASSUME Mutex, NEW t \in Thread,
         \/ CallbackStep(t) \/ StopStep(t) \/ RequestStop(t)
         \/ \E c \in Callback : AddCallback(t, c) \/ RemoveCallback(t, c)
  PROVE  Mutex'
  <1> USE DEF Mutex, Types, PC, LockIsExclusive, Stopping, Stopper, Busy, Goto, stopVars
  <1>1. CASE CallbackStep(t)
    <2>1. CASE Insert(t)
      BY SMTT(30), <2>1 DEF Insert
    <2>2. CASE Added(t)
      BY SMTT(30), <2>2 DEF Added, Base
    <2>3. CASE RemoveLocked(t)
      <3>1. /\ pc[t] = "locked" /\ op[t] = "remove" /\ pc' = [pc EXCEPT ![t] = "unlock"]
            /\ UNCHANGED <<word, runner, current, op, cb, seen>>
        BY Zenon, <2>3 DEF RemoveLocked
      <3>2. QED
        BY SMTT(30), <3>1
    <2>4. CASE Removed(t)
      <3>1. /\ pc[t] = "unlocked" /\ op[t] = "remove" /\ pc' = [pc EXCEPT ![t] = Base(t)]
            /\ UNCHANGED <<word, runner, current, op, cb, seen>>
        BY Zenon, <2>4 DEF Removed
      <3>2. QED
        BY SMTT(30), <3>1 DEF Base
    <2>5. QED
      BY Zenon, <1>1, <2>1, <2>2, <2>3, <2>4 DEF CallbackStep
  <1>2. CASE TakeFirst(t)
    BY SMTT(30), <1>2 DEF TakeFirst
  <1>3. CASE Invoke(t)
    BY SMTT(30), <1>3 DEF Invoke, Base
  <1>4. CASE Invoked(t)
    BY SMTT(30), <1>4 DEF Invoked
  <1>5. CASE RequestStop(t)
    BY SMTT(30), <1>5 DEF RequestStop, Begin, Base
  <1>6. ASSUME NEW c \in Callback, AddCallback(t, c) \/ RemoveCallback(t, c) PROVE Mutex'
    BY SMTT(30), <1>6 DEF AddCallback, RemoveCallback, Begin, Base
  <1>7. QED
    BY ZenonT(40), <1>1, <1>2, <1>3, <1>4, <1>5, <1>6 DEF StopStep

(* Mutex holds after every step. *)
LEMMA NextMutex == Mutex /\ [Next]_vars => Mutex'
  <1>1. Mutex /\ UNCHANGED vars => Mutex'
    BY SMTT(30) DEF vars, Mutex, Types, LockIsExclusive, Stopping, Stopper, Busy
  <1>2. Mutex /\ RemoveSource => Mutex'
    <2> SUFFICES ASSUME Mutex, RemoveSource PROVE Mutex'
      OBVIOUS
    <2>1. word' \in Word /\ word'.locked = word.locked /\ word'.stopped = word.stopped
      BY SMTT(30), ConstantTypes DEF RemoveSource, Word, Mutex, Types
    <2>2. QED
      BY SMTT(30), <2>1 DEF RemoveSource, Mutex, Types, LockIsExclusive, Stopping, Stopper, Busy, stopVars
  <1>3. QED
    BY Zenon, <1>1, <1>2, LoadMutex, LockMutex, UserMutex DEF Next, ThreadStep, LockStep

(***************************************************************************)
(* The life of a callback.                                                 *)
(***************************************************************************)

Owns(t, c) == Busy(t) /\ op[t] \in {"add", "remove"} /\ cb[t] = c

PreInsert(t) == op[t] = "add" /\ pc[t] \in {"load", "try", "wait", "asleep", "locked"}

PostRemove(t) == op[t] = "remove" /\ pc[t] \in {"unlock", "notify_one", "unlocked"}

PostTake(t) == op[t] = "stop" /\ pc[t] \in {"unlock", "notify_one", "unlocked"}

(* The callback was not in the list yet. *)
Fresh(c) == life[c] = "new" \/ \E t \in Thread : PreInsert(t) /\ cb[t] = c

LifeTypes ==
  /\ callbacks \in Seq(Callback) /\ NoDuplicates(callbacks)
  /\ current \in Callback \union {Null}
  /\ done \in [Callback -> Nat] /\ ran \in [Callback -> Nat]
  /\ life \in [Callback -> {"new", "adding", "added", "inert", "removing", "unlinked", "destroyed"}]

(* One thread at a time constructs or destroys a callback. *)
Owners ==
  /\ \A t \in Thread : Busy(t) /\ op[t] = "add" => life[cb[t]] = "adding"
  /\ \A t \in Thread : Busy(t) /\ op[t] = "remove" => life[cb[t]] \in {"removing", "unlinked"}
  /\ \A t, u \in Thread : \A c \in Callback : Owns(t, c) /\ Owns(u, c) => t = u
  /\ \A t \in Thread : PostRemove(t) => ~IsListed(cb[t])

(* Where a callback is, and what request_stop() did to it there. *)
Places ==
  /\ \A c \in Callback : Fresh(c) => ~IsListed(c) /\ c # current /\ done[c] = 0 /\ ran[c] = 0
  /\ \A c \in Callback : IsListed(c) =>
       life[c] \in {"adding", "added", "removing"} /\ c # current /\ done[c] = 0 /\ ran[c] = 0
  /\ current # Null =>
       /\ life[current] \in {"adding", "added", "removing", "destroyed"}
       /\ done[current] = 0 /\ current \in flagged
       /\ life[current] = "destroyed" => removed

(* The stop is under way until the list is empty, and whoever was in the   *)
(* list has run or is about to.                                            *)
Reached ==
  /\ word.stopped /\ callbacks # <<>> => \E t \in Thread : Stopper(t)
  /\ \A t \in Thread : PostTake(t) /\ current = Null => callbacks = <<>>
  /\ current # Null /\ empty => callbacks = <<>>
  /\ \A t \in Thread : PostTake(t) /\ current # Null => ran[current] = 0
  /\ \A c \in Callback : life[c] \in {"adding", "added"} /\ ~Fresh(c) =>
       IsListed(c) \/ ran[c] = 1 \/ (c = current /\ PostTake(runner))

Lives == LifeTypes /\ Owners /\ Places /\ Reached

(* A new state satisfies Lives. *)
LEMMA InitLives == Init => Lives
  <1> SUFFICES ASSUME Init PROVE Lives
    OBVIOUS
  <1>1. LifeTypes
    BY SMTT(30) DEF Init, LifeTypes, NoDuplicates
  <1>2. Owners
    BY Zenon DEF Init, Owners, Busy, Owns, PostRemove
  <1>3. Places
    BY SMTT(30), ConstantTypes DEF Init, Places, Fresh, IsListed, PreInsert
  <1>4. Reached
    BY Zenon DEF Init, Reached, PostTake, Fresh
  <1>5. QED
    BY Zenon, <1>1, <1>2, <1>3, <1>4 DEF Lives

(* Steps that leave the list, the callbacks and the operations alone. *)
LEMMA QuietLives ==
  ASSUME Lives, UNCHANGED <<callbacks, runner, current, empty, removed, flagged, done, life, ran>>,
         \A t \in Thread :
           /\ Busy(t)' /\ op'[t] \in {"add", "remove"} => Busy(t) /\ op'[t] = op[t] /\ cb'[t] = cb[t]
           /\ PreInsert(t)' <=> PreInsert(t)
           /\ PreInsert(t) => cb'[t] = cb[t]
           /\ PostRemove(t)' => PostRemove(t) /\ cb'[t] = cb[t]
           /\ PostTake(t)' <=> PostTake(t),
         word'.stopped /\ callbacks # <<>> => \E t \in Thread : Stopper(t)',
         current # Null => runner \in Thread
  PROVE  Lives'
  <1>1. LifeTypes'
    BY Zenon DEF Lives, LifeTypes
  <1>2. Owners'
    BY ZenonT(40) DEF Lives, Owners, Owns, IsListed
  <1>3. \A c : Fresh(c)' <=> Fresh(c)
    BY Zenon DEF Fresh
  <1>4. \A c : IsListed(c)' <=> IsListed(c)
    BY Zenon DEF IsListed
  <1>5. Places'
    BY Zenon, <1>3, <1>4 DEF Lives, Places
  <1>6. Reached'
    BY Zenon, <1>3, <1>4, ConstantTypes DEF Lives, Reached, LifeTypes
  <1>7. QED
    BY Zenon, <1>1, <1>2, <1>5, <1>6 DEF Lives

(* Steps of a constructor or destructor that leave the list alone. *)
LEMMA KeepReached ==
  ASSUME Mutex, LifeTypes, Reached, UNCHANGED <<word, callbacks, runner, current, empty>>,
         \A t \in Thread : (PostTake(t)' <=> PostTake(t)) /\ (Stopper(t) => Stopper(t)'),
         \A c \in Callback : life'[c] \in {"adding", "added"} /\ ~Fresh(c)' =>
           life[c] \in {"adding", "added"} /\ ~Fresh(c) /\ ran'[c] = ran[c],
         current # Null => ran'[current] = ran[current]
  PROVE  Reached'
  <1>1. word'.stopped /\ callbacks' # <<>> => \E t \in Thread : Stopper(t)'
    BY Zenon DEF Reached
  <1>2. \A t \in Thread : PostTake(t)' /\ current' = Null => callbacks' = <<>>
    BY Zenon DEF Reached
  <1>3. current' # Null /\ empty' => callbacks' = <<>>
    BY Zenon DEF Reached
  <1>4. \A t \in Thread : PostTake(t)' /\ current' # Null => ran'[current'] = 0
    BY Zenon DEF Reached
  <1>5. ASSUME NEW c \in Callback, life'[c] \in {"adding", "added"} /\ ~Fresh(c)'
        PROVE  IsListed(c)' \/ ran'[c] = 1 \/ (c = current' /\ PostTake(runner)')
    <2>1. IsListed(c) \/ ran[c] = 1 \/ (c = current /\ PostTake(runner))
      BY Zenon, <1>5 DEF Reached
    <2>2. c = current => runner \in Thread
      BY Zenon, ConstantTypes DEF Mutex, Stopping
    <2>3. QED
      BY Zenon, <1>5, <2>1, <2>2 DEF IsListed
  <1>6. QED
    BY Zenon, <1>1, <1>2, <1>3, <1>4, <1>5 DEF Reached

(* A constructor or destructor returns. *)
LEMMA LeaveOwners ==
  ASSUME Mutex, Owners, NEW t \in Thread, cb[t] \in Callback, Owns(t, cb[t]),
         UNCHANGED <<callbacks, op, cb>>,
         \A d \in Callback : d # cb[t] => life'[d] = life[d],
         \A u \in Thread : (Busy(u)' <=> Busy(u) /\ u # t) /\ (PostRemove(u)' => PostRemove(u) /\ u # t)
  PROVE  Owners'
  <1>1. ASSUME NEW u \in Thread, u # t, Busy(u), op[u] \in {"add", "remove"}
        PROVE  cb[u] \in Callback /\ cb[u] # cb[t]
    BY Zenon, <1>1 DEF Owners, Owns, Mutex, Stopping
  <1>2. \A u \in Thread : PostRemove(u)' => ~IsListed(cb[u])'
    BY Zenon DEF Owners, IsListed
  <1>3. \A u \in Thread : Busy(u)' /\ op'[u] = "add" => life'[cb'[u]] = "adding"
    BY Zenon, <1>1 DEF Owners
  <1>4. \A u \in Thread : Busy(u)' /\ op'[u] = "remove" => life'[cb'[u]] \in {"removing", "unlinked"}
    BY Zenon, <1>1 DEF Owners
  <1>5. \A u, v \in Thread : \A c \in Callback : Owns(u, c)' /\ Owns(v, c)' => u = v
    BY Zenon DEF Owners, Owns
  <1>6. QED
    BY Zenon, <1>2, <1>3, <1>4, <1>5 DEF Owners

(* The lock steps are quiet, except for giving up. *)
LEMMA LockLives ==
  ASSUME Mutex, Mutex', Lives, NEW t \in Thread,
         \/ Load(t) \/ TryLock(t) \/ SetWaiting(t) \/ JoinWaiters(t) \/ Wait(t)
         \/ NotifyAll(t) \/ Unlock(t) \/ NotifyOne(t)
  PROVE  Lives'
  <1>1. /\ UNCHANGED <<callbacks, runner, current, empty, removed, flagged, done, life, ran, op, cb>>
        /\ current # Null => runner \in Thread
    BY Zenon DEF Load, TryLock, SetWaiting, JoinWaiters, Wait, NotifyAll, Unlock, NotifyOne, stopVars,
           Mutex, Stopping
  <1>2. ASSUME NEW u \in Thread
        PROVE  \/ pc'[u] = pc[u]
               \/ pc[u] \in {"load", "try", "wait", "asleep"} /\ pc'[u] \in {"load", "try", "wait", "asleep"}
               \/ pc[u] = "try" /\ pc'[u] = "locked"
               \/ pc[u] = "try" /\ pc'[u] = "notify_all" /\ op[u] = "stop"
               \/ pc[u] = "notify_all" /\ pc'[u] = "locked"
               \/ pc[u] = "unlock" /\ pc'[u] \in {"notify_one", "unlocked"}
               \/ pc[u] = "notify_one" /\ pc'[u] = "unlocked"
    BY SMTT(30) DEF Load, TryLock, SetWaiting, JoinWaiters, Wait, NotifyAll, Unlock, NotifyOne, MustGoOn,
           Goto, Asleep, Mutex, Types
  <1>3. ASSUME NEW u \in Thread
        PROVE  /\ Busy(u)' <=> Busy(u)
               /\ PreInsert(u)' <=> PreInsert(u)
               /\ PostRemove(u)' <=> PostRemove(u)
               /\ PostTake(u)' <=> PostTake(u)
               /\ Stopper(u) => Stopper(u)'
    <2>1. op'[u] = op[u] /\ (pc[u] = "notify_all" => op[u] = "stop")
      BY Zenon, <1>1 DEF Mutex, Stopping
    <2>2. QED
      BY Zenon, <1>1, <1>2, <2>1 DEF Busy, PreInsert, PostRemove, PostTake, Stopper
  <1>4. word'.stopped /\ callbacks # <<>> => \E u \in Thread : Stopper(u)'
    <2>1. CASE word.stopped
      BY Zenon, <1>3, <2>1 DEF Lives, Reached
    <2>2. CASE ~word.stopped /\ word'.stopped
      <3>1. word' = [word EXCEPT !.locked = TRUE, !.stopped = @ \/ op[t] = "stop"] /\ TryLock(t)
        BY Zenon, <2>2 DEF Load, TryLock, SetWaiting, JoinWaiters, Wait, NotifyAll, Unlock, NotifyOne,
          Mutex, Types, Word
      <3>2. op[t] = "stop"
        BY Zenon, <2>2, <3>1 DEF Mutex, Types, Word
      <3>3. pc'[t] \in {"locked", "notify_all"}
        BY Zenon, <2>2, <3>1 DEF TryLock, Goto, Mutex, Types
      <3>4. Stopper(t)'
        BY Zenon, <1>1, <3>2, <3>3 DEF Stopper
      <3>5. QED
        BY Zenon, <3>4
    <2>3. QED
      BY Zenon, <2>1, <2>2
  <1>5. QED
    BY Zenon, <1>1, <1>3, <1>4, QuietLives

(* Dropping a source, and entering a request_stop(). *)
LEMMA StopLives ==
  ASSUME Mutex, Mutex', Lives, RemoveSource \/ \E t \in Thread : RequestStop(t)
  PROVE  Lives'
  <1>0. current # Null => runner \in Thread
    BY Zenon DEF Mutex, Stopping
  <1>1. CASE RemoveSource
    <2>1. /\ UNCHANGED <<callbacks, runner, current, empty, removed, flagged, done, life, ran, pc, op, cb>>
          /\ word'.stopped = word.stopped
      BY Zenon, <1>1 DEF RemoveSource, stopVars, Mutex, Types, Word
    <2>2. QED
      BY Zenon, <1>0, <2>1, QuietLives
      DEF Lives, Reached, Busy, PreInsert, PostRemove, PostTake, Stopper
  <1>2. ASSUME NEW t \in Thread, RequestStop(t) PROVE Lives'
    <2>1. /\ UNCHANGED <<word, callbacks, runner, current, empty, removed, flagged, done, life, ran>>
          /\ pc[t] \in {"idle", "invoking"} /\ pc' = [pc EXCEPT ![t] = "load"]
          /\ op' = [op EXCEPT ![t] = "stop"] /\ cb' = [cb EXCEPT ![t] = Null]
          /\ pc[t] = "invoking" => current # Null /\ runner = t
          /\ pc[t] = "idle" => ~(current # Null /\ runner = t)
      BY ZenonT(40), <1>2 DEF RequestStop, Begin, Base, Goto, stopVars, Mutex, Stopping
    <2>2. ASSUME NEW u \in Thread
          PROVE  /\ Busy(u)' /\ op'[u] \in {"add", "remove"} => Busy(u) /\ op'[u] = op[u] /\ cb'[u] = cb[u]
                 /\ PreInsert(u)' <=> PreInsert(u)
                 /\ PreInsert(u) => cb'[u] = cb[u]
                 /\ PostRemove(u)' => PostRemove(u) /\ cb'[u] = cb[u]
                 /\ PostTake(u)' <=> PostTake(u)
                 /\ Stopper(u) => Stopper(u)'
      BY SMTT(30), <2>1 DEF Busy, PreInsert, PostRemove, PostTake, Stopper, Mutex, Types, Stopping
    <2>3. word'.stopped /\ callbacks # <<>> => \E u \in Thread : Stopper(u)'
      BY Zenon, <2>1, <2>2 DEF Lives, Reached
    <2>4. QED
      BY Zenon, <1>0, <2>1, <2>2, <2>3, QuietLives
  <1>3. QED
    BY Zenon, <1>1, <1>2

(* A constructor or a nested request_stop() that finds the stop requested. *)
LEMMA GiveUpLives ==
  ASSUME Mutex, Mutex', Lives, NEW t \in Thread, GiveUp(t)
  PROVE  Lives'
  <1> DEFINE c == cb[t]
  <1>1. /\ UNCHANGED <<word, callbacks, runner, current, empty, removed, flagged, done, op, cb>>
        /\ pc[t] = "try" /\ pc' = [pc EXCEPT ![t] = Base(t)] /\ Base(t) \in {"idle", "invoking"}
        /\ op[t] \in {"add", "stop"} /\ (current # Null /\ runner = t => Base(t) = "invoking")
    BY Zenon DEF GiveUp, Goto, Base, stopVars
  <1>2. ASSUME NEW u \in Thread
        PROVE  /\ Busy(u)' <=> Busy(u) /\ u # t
               /\ PreInsert(u)' <=> PreInsert(u) /\ u # t
               /\ PostRemove(u)' <=> PostRemove(u)
               /\ PostTake(u)' <=> PostTake(u)
               /\ Stopper(u) => Stopper(u)'
    BY Zenon, <1>1 DEF Busy, PreInsert, PostRemove, PostTake, Stopper, Mutex, Types
  <1>3. \A d : IsListed(d)' <=> IsListed(d)
    BY Zenon, <1>1 DEF IsListed
  <1>4. CASE op[t] = "add"
    <2>1. /\ c \in Callback /\ life[c] = "adding" /\ Fresh(c) /\ ran \in [Callback -> Nat]
          /\ life' = [life EXCEPT ![c] = "inert"] /\ (ran' = ran \/ ran' = [ran EXCEPT ![c] = @ + 1])
      BY Zenon, <1>1, <1>4
      DEF GiveUp, Lives, LifeTypes, Owners, Mutex, Stopping, Busy, PreInsert, Fresh
    <2>2. ~IsListed(c) /\ c # current
      BY Zenon, <2>1 DEF Lives, Places
    <2>3. \A u \in Thread : Busy(u)' /\ op[u] \in {"add", "remove"} => cb[u] # c
      <3>1. Owns(t, c)
        BY Zenon, <1>1, <1>4 DEF Owns, Busy
      <3>2. ASSUME NEW u \in Thread, Busy(u)', op[u] \in {"add", "remove"}, cb[u] = c PROVE FALSE
        <4>1. Owns(u, c) /\ u # t
          BY Zenon, <1>2, <3>2 DEF Owns
        <4>2. QED
          BY Zenon, <2>1, <3>1, <4>1 DEF Lives, Owners
      <3>3. QED
        BY Zenon, <3>2
    <2>4. LifeTypes'
      <3>1. ran' \in [Callback -> Nat]
        BY SMTT(30), <2>1
      <3>2. life' \in [Callback -> {"new", "adding", "added", "inert", "removing", "unlinked", "destroyed"}]
        BY Zenon, <2>1 DEF Lives, LifeTypes
      <3>3. QED
        BY Zenon, <1>1, <3>1, <3>2 DEF Lives, LifeTypes
    <2>5. Owners'
      BY ZenonT(40), <1>1, <1>2, <1>3, <2>1, <2>3 DEF Lives, Owners, Owns, LifeTypes, Mutex, Stopping
    <2>6. \A d \in Callback : d # c => (Fresh(d)' <=> Fresh(d)) /\ life'[d] = life[d] /\ ran'[d] = ran[d]
      BY Zenon, <1>1, <1>2, <2>1 DEF Fresh, Lives, LifeTypes
    <2>7. ~Fresh(c)' /\ life'[c] = "inert"
      BY Zenon, <1>1, <1>2, <2>1, <2>3 DEF Fresh, Lives, LifeTypes, PreInsert, Busy
    <2>8. Places'
      BY SMTT(30), <1>1, <1>3, <2>2, <2>6, <2>7 DEF Lives, Places, LifeTypes
    <2>9. Reached'
      <3>1. current # Null => ran'[current] = ran[current]
        BY Zenon, <2>2, <2>6 DEF Lives, LifeTypes
      <3>2. \A d \in Callback : life'[d] \in {"adding", "added"} /\ ~Fresh(d)' =>
              life[d] \in {"adding", "added"} /\ ~Fresh(d) /\ ran'[d] = ran[d]
        BY Zenon, <2>6, <2>7
      <3>3. QED
        BY Zenon, <1>1, <1>2, <3>1, <3>2, KeepReached DEF Lives
    <2>10. QED
      BY Zenon, <2>4, <2>5, <2>8, <2>9 DEF Lives
  <1>5. CASE op[t] = "stop"
    <2>1. UNCHANGED <<life, ran>>
      BY Zenon, <1>5 DEF GiveUp
    <2>2. ASSUME NEW u \in Thread
          PROVE  /\ Busy(u)' /\ op'[u] \in {"add", "remove"} => Busy(u) /\ op'[u] = op[u] /\ cb'[u] = cb[u]
                 /\ PreInsert(u)' <=> PreInsert(u)
      BY Zenon, <1>1, <1>2, <1>5 DEF PreInsert
    <2>3. QED
      BY Zenon, <1>1, <1>2, <2>1, <2>2, QuietLives DEF Lives, Reached, Mutex, Stopping
  <1>6. QED
    BY Zenon, <1>1, <1>4, <1>5

(* A constructor or destructor begins. *)
LEMMA BeginLives ==
  ASSUME Mutex, Mutex', Lives, NEW t \in Thread, NEW c \in Callback,
         AddCallback(t, c) \/ RemoveCallback(t, c)
  PROVE  Lives'
  <1>1. /\ UNCHANGED <<word, callbacks, runner, current, empty, removed, flagged, done, ran>>
        /\ pc[t] \in {"idle", "invoking"} /\ pc' = [pc EXCEPT ![t] = "load"]
        /\ cb' = [cb EXCEPT ![t] = c]
        /\ \/ life[c] = "new" /\ life' = [life EXCEPT ![c] = "adding"] /\ op' = [op EXCEPT ![t] = "add"]
           \/ life[c] = "added" /\ life' = [life EXCEPT ![c] = "removing"] /\ op' = [op EXCEPT ![t] = "remove"]
        /\ pc[t] = "invoking" => current # Null /\ runner = t
        /\ pc[t] = "idle" => ~(current # Null /\ runner = t)
    BY ZenonT(40) DEF AddCallback, RemoveCallback, Begin, Base, Goto, stopVars, Mutex, Stopping
  <1>2. ASSUME NEW u \in Thread
        PROVE  /\ u # t => /\ (Busy(u)' <=> Busy(u)) /\ (PreInsert(u)' <=> PreInsert(u))
                           /\ (PostRemove(u)' <=> PostRemove(u)) /\ op'[u] = op[u] /\ cb'[u] = cb[u]
               /\ PostTake(u)' <=> PostTake(u)
               /\ Stopper(u) => Stopper(u)'
    <2>1. CASE u # t
      <3>1. pc'[u] = pc[u] /\ op'[u] = op[u] /\ cb'[u] = cb[u] /\ UNCHANGED <<current, runner>>
        BY Zenon, <1>1, <2>1 DEF Mutex, Types
      <3>2. QED
        BY ZenonT(40), <2>1, <3>1 DEF Busy, PreInsert, PostRemove, PostTake, Stopper
    <2>2. CASE u = t
      <3>1. pc'[t] = "load" /\ op'[t] \in {"add", "remove"} /\ UNCHANGED <<current, runner>>
        BY Zenon, <1>1 DEF Mutex, Types
      <3>2. ~PostTake(t)' /\ ~PostTake(t)
        BY Zenon, <1>1, <3>1 DEF PostTake
      <3>3. Stopper(t) => current # Null /\ runner = t
        BY Zenon, <1>1 DEF Stopper
      <3>4. QED
        BY Zenon, <2>2, <3>1, <3>2, <3>3 DEF Stopper
    <2>3. QED
      BY Zenon, <2>1, <2>2
  <1>3. /\ Busy(t)' /\ ~Busy(t) /\ ~PostRemove(t)' /\ ~PreInsert(t) /\ cb'[t] = c
        /\ PreInsert(t)' <=> op'[t] = "add"
    BY Zenon, <1>1 DEF Busy, PreInsert, PostRemove, Mutex, Types
  <1>4. \A d : IsListed(d)' <=> IsListed(d)
    BY Zenon, <1>1 DEF IsListed
  <1>5. \A u \in Thread : Busy(u) /\ op[u] \in {"add", "remove"} => cb[u] # c
    BY Zenon, <1>1 DEF Lives, Owners
  <1>6. LifeTypes'
    BY Zenon, <1>1 DEF Lives, LifeTypes
  <1>7. Owners'
    <2>1. ASSUME NEW u \in Thread, u # t
          PROVE  /\ Busy(u)' /\ op'[u] = "add" => life'[cb'[u]] = "adding"
                 /\ Busy(u)' /\ op'[u] = "remove" => life'[cb'[u]] \in {"removing", "unlinked"}
                 /\ PostRemove(u)' => ~IsListed(cb[u])'
      <3>1. /\ Busy(u) /\ op[u] \in {"add", "remove"} => cb[u] \in Callback /\ cb[u] # c
            /\ PostRemove(u) => Busy(u) /\ op[u] = "remove"
        BY Zenon, <1>5 DEF Mutex, Stopping, PostRemove, Busy
      <3>2. \A d \in Callback : d # c => life'[d] = life[d]
        BY Zenon, <1>1 DEF Lives, LifeTypes
      <3>3. QED
        BY SMTT(30), <1>2, <1>4, <2>1, <3>1, <3>2 DEF Lives, Owners
    <2>2. /\ op'[t] = "add" => life'[cb'[t]] = "adding"
          /\ op'[t] = "remove" => life'[cb'[t]] \in {"removing", "unlinked"}
          /\ ~PostRemove(t)'
      BY ZenonT(40), <1>1, <1>3 DEF Lives, LifeTypes, Mutex, Types
    <2>3. ASSUME NEW u \in Thread, NEW v \in Thread, NEW d \in Callback, Owns(u, d)', Owns(v, d)'
          PROVE  u = v
      BY Zenon, <1>2, <1>3, <1>5, <2>3 DEF Lives, Owners, Owns
    <2>4. QED
      BY ZenonT(40), <2>1, <2>2, <2>3 DEF Owners
  <1>8. \A d \in Callback : d # c => (Fresh(d)' <=> Fresh(d)) /\ life'[d] = life[d]
    BY ZenonT(40), <1>1, <1>2, <1>3 DEF Fresh, Lives, LifeTypes
  <1>9. \/ Fresh(c) /\ Fresh(c)' /\ life'[c] = "adding"
        \/ ~Fresh(c)' /\ life[c] = "added" /\ life'[c] = "removing"
    BY SMTT(30), <1>1, <1>2, <1>3, <1>5 DEF Fresh, Lives, LifeTypes, PreInsert, Busy, Mutex, Types
  <1>10. Places'
    BY ZenonT(40), <1>1, <1>4, <1>8, <1>9 DEF Lives, Places, LifeTypes
  <1>11. Reached'
    <2>1. current # Null => ran'[current] = ran[current]
      BY Zenon, <1>1
    <2>2. \A d \in Callback : life'[d] \in {"adding", "added"} /\ ~Fresh(d)' =>
            life[d] \in {"adding", "added"} /\ ~Fresh(d) /\ ran'[d] = ran[d]
      BY Zenon, <1>1, <1>8, <1>9
    <2>3. QED
      BY Zenon, <1>1, <1>2, <2>1, <2>2, KeepReached DEF Lives
  <1>12. QED
    BY Zenon, <1>6, <1>7, <1>10, <1>11 DEF Lives

(* The callback enters the list. *)
LEMMA InsertLives ==
  ASSUME Mutex, Mutex', Lives, NEW t \in Thread, Insert(t)
  PROVE  Lives'
  <1> DEFINE c == cb[t]
  <1>1. /\ UNCHANGED <<word, runner, current, empty, removed, flagged, done, life, ran, op, cb>>
        /\ pc[t] = "locked" /\ op[t] = "add" /\ pc' = [pc EXCEPT ![t] = "unlock"]
        /\ callbacks' = <<c>> \o callbacks
    BY Zenon DEF Insert, Goto, stopVars
  <1>2. /\ c \in Callback /\ life[c] = "adding" /\ Fresh(c) /\ ~word.stopped /\ Owns(t, c)
        /\ callbacks \in Seq(Callback)
    BY Zenon, <1>1 DEF Lives, LifeTypes, Owners, Owns, Mutex, Stopping, Busy, PreInsert, Fresh
  <1>3. ~IsListed(c) /\ c # current /\ done[c] = 0 /\ ran[c] = 0
    BY Zenon, <1>2 DEF Lives, Places
  <1>4. /\ callbacks' \in Seq(Callback) /\ NoDuplicates(callbacks')
        /\ \A d : IsListed(d)' <=> IsListed(d) \/ d = c
    <2>1. /\ callbacks' \in Seq(Callback) /\ Len(callbacks') = Len(callbacks) + 1
          /\ \A i \in 1..(Len(callbacks) + 1) :
               callbacks'[i] = IF i = 1 THEN c ELSE callbacks[i - 1]
      BY SMTT(30), <1>1, <1>2
    <2>2. /\ Len(callbacks) \in Nat /\ DOMAIN callbacks = 1..Len(callbacks)
          /\ DOMAIN callbacks' = 1..(Len(callbacks) + 1)
      BY SMTT(30), <1>2, <2>1
    <2>3. NoDuplicates(callbacks')
      <3> SUFFICES ASSUME NEW i \in 1..(Len(callbacks) + 1), NEW j \in 1..(Len(callbacks) + 1),
                          callbacks'[i] = callbacks'[j]
                   PROVE  i = j
        BY Zenon, <2>2 DEF NoDuplicates
      <3>1. \A k \in 1..(Len(callbacks) + 1) : k # 1 =>
              k - 1 \in DOMAIN callbacks /\ callbacks'[k] = callbacks[k - 1] /\ callbacks'[k] # c
        BY SMTT(30), <1>3, <2>1, <2>2 DEF IsListed
      <3>2. callbacks'[1] = c
        BY SMTT(30), <2>1, <2>2
      <3>3. CASE i = 1 \/ j = 1
        BY Zenon, <3>1, <3>2, <3>3
      <3>4. CASE i # 1 /\ j # 1
        <4>1. i - 1 = j - 1
          BY Zenon, <3>1, <3>4 DEF Lives, LifeTypes, NoDuplicates
        <4>2. QED
          BY SMTT(30), <2>2, <4>1
      <3>5. QED
        BY Zenon, <3>3, <3>4
    <2>4. ASSUME NEW d PROVE IsListed(d)' => IsListed(d) \/ d = c
      BY SMTT(30), <2>1, <2>2 DEF IsListed
    <2>5. ASSUME NEW d, NEW i \in DOMAIN callbacks, callbacks[i] = d PROVE IsListed(d)'
      <3>1. i + 1 \in DOMAIN callbacks' /\ callbacks'[i + 1] = d
        BY SMTT(30), <2>1, <2>2, <2>5
      <3>2. QED
        BY Zenon, <3>1 DEF IsListed
    <2>6. \E i \in DOMAIN callbacks' : callbacks'[i] = c
      <3>1. 1 \in DOMAIN callbacks' /\ callbacks'[1] = c
        BY SMTT(30), <2>1, <2>2
      <3>2. QED
        BY Zenon, <3>1
    <2>7. ASSUME NEW d PROVE IsListed(d)' <=> IsListed(d) \/ d = c
      <3>1. IsListed(d) => IsListed(d)'
        BY Zenon, <2>5 DEF IsListed
      <3>2. d = c => IsListed(d)'
        BY ZenonT(40), <2>6 DEF IsListed
      <3>3. QED
        BY Zenon, <2>4, <3>1, <3>2
    <2>8. QED
      BY Zenon, <2>1, <2>3, <2>7
  <1>5. ASSUME NEW u \in Thread
        PROVE  /\ Busy(u)' <=> Busy(u)
               /\ PreInsert(u)' <=> PreInsert(u) /\ u # t
               /\ PostRemove(u)' <=> PostRemove(u)
               /\ PostTake(u)' <=> PostTake(u)
               /\ ~PostTake(u) /\ ~Stopper(u)
    BY SMTT(30), <1>1, <1>2 DEF Busy, PreInsert, PostRemove, PostTake, Stopper, Mutex, Types, Stopping
  <1>6. current = Null
    BY Zenon, <1>5 DEF Stopper, Mutex, Stopping
  <1>7. \A u \in Thread : u # t /\ Busy(u) /\ op[u] \in {"add", "remove"} => cb[u] # c
    BY ZenonT(40), <1>2 DEF Lives, Owners, Owns
  <1>8. ASSUME NEW d \in Callback PROVE Fresh(d)' <=> Fresh(d) /\ d # c
    BY ZenonT(40), <1>1, <1>2, <1>5, <1>7 DEF Fresh, PreInsert, Busy
  <1>9. LifeTypes'
    BY Zenon, <1>1, <1>4 DEF Lives, LifeTypes
  <1>10. Owners'
    <2>1. ASSUME NEW u \in Thread, PostRemove(u)' PROVE ~IsListed(cb[u])'
      <3>1. u # t /\ Busy(u) /\ op[u] = "remove" /\ ~IsListed(cb[u])
        BY Zenon, <1>1, <1>5, <2>1 DEF PostRemove, Busy, Lives, Owners
      <3>2. QED
        BY Zenon, <1>1, <1>4, <1>7, <3>1
    <2>2. QED
      BY Zenon, <1>1, <1>5, <2>1 DEF Lives, Owners, Owns
  <1>11. Places'
    BY Zenon, <1>1, <1>2, <1>3, <1>4, <1>6, <1>8 DEF Lives, Places
  <1>12. Reached'
    <2>1. ASSUME NEW d \in Callback, life[d] \in {"adding", "added"} /\ ~Fresh(d)'
          PROVE  IsListed(d)' \/ ran[d] = 1
      BY Zenon, <1>4, <1>6, <1>8, <2>1, ConstantTypes DEF Lives, Reached
    <2>2. QED
      BY Zenon, <1>1, <1>2, <1>5, <1>6, <2>1 DEF Reached
  <1>13. QED
    BY Zenon, <1>9, <1>10, <1>11, <1>12 DEF Lives

(* The constructor returns. *)
LEMMA AddedLives ==
  ASSUME Mutex, Mutex', Lives, NEW t \in Thread, Added(t)
  PROVE  Lives'
  <1> DEFINE c == cb[t]
  <1>1. /\ UNCHANGED <<word, callbacks, runner, current, empty, removed, flagged, done, ran, op, cb>>
        /\ pc[t] = "unlocked" /\ op[t] = "add" /\ life' = [life EXCEPT ![c] = "added"]
        /\ pc' = [pc EXCEPT ![t] = Base(t)] /\ Base(t) \in {"idle", "invoking"}
    BY Zenon DEF Added, Goto, Base, stopVars
  <1>2. c \in Callback /\ life[c] = "adding" /\ Owns(t, c)
    BY Zenon, <1>1 DEF Lives, Owners, Owns, Mutex, Stopping, Busy
  <1>3. ASSUME NEW u \in Thread
        PROVE  /\ Busy(u)' <=> Busy(u) /\ u # t
               /\ PreInsert(u)' <=> PreInsert(u)
               /\ PostRemove(u)' <=> PostRemove(u)
               /\ PostTake(u)' <=> PostTake(u)
               /\ Stopper(u) => Stopper(u)'
    BY Zenon, <1>1 DEF Busy, PreInsert, PostRemove, PostTake, Stopper, Mutex, Types
  <1>4. \A u \in Thread : u # t /\ Busy(u) /\ op[u] \in {"add", "remove"} => cb[u] # c
    BY Zenon, <1>2 DEF Lives, Owners, Owns
  <1>5. \A d : IsListed(d)' <=> IsListed(d)
    BY Zenon, <1>1 DEF IsListed
  <1>6. ASSUME NEW d \in Callback
        PROVE  /\ Fresh(d)' <=> Fresh(d)
               /\ life'[d] = IF d = c THEN "added" ELSE life[d]
    BY Zenon, <1>1, <1>2, <1>3 DEF Fresh, Lives, LifeTypes
  <1>7. LifeTypes'
    BY Zenon, <1>1 DEF Lives, LifeTypes
  <1>8. Owners'
    <2>1. \A u \in Thread : PostRemove(u)' => PostRemove(u) /\ u # t
      BY Zenon, <1>1, <1>3 DEF PostRemove
    <2>2. QED
      BY Zenon, <1>1, <1>2, <1>3, <1>6, <2>1, LeaveOwners DEF Lives
  <1>9. Places'
    BY Zenon, <1>1, <1>2, <1>5, <1>6 DEF Lives, Places, LifeTypes
  <1>10. Reached'
    BY Zenon, <1>1, <1>2, <1>3, <1>6, KeepReached DEF Lives
  <1>11. QED
    BY Zenon, <1>7, <1>8, <1>9, <1>10 DEF Lives

(* The callback leaves the list, if it is there. *)
LEMMA RemoveLockedLives ==
  ASSUME Mutex, Mutex', Lives, NEW t \in Thread, RemoveLocked(t)
  PROVE  Lives'
  <1> DEFINE c == cb[t]
  <1>1. /\ UNCHANGED <<word, runner, current, empty, removed, flagged, done, ran, op, cb>>
        /\ pc[t] = "locked" /\ op[t] = "remove" /\ pc' = [pc EXCEPT ![t] = "unlock"]
        /\ callbacks' = Unlinked(callbacks, c)
        /\ life' = IF IsListed(c) THEN [life EXCEPT ![c] = "unlinked"] ELSE life
    BY Zenon DEF RemoveLocked, Goto, stopVars
  <1>2. /\ c \in Callback /\ life[c] \in {"removing", "unlinked"} /\ Owns(t, c)
        /\ callbacks \in Seq(Callback) /\ NoDuplicates(callbacks)
    BY Zenon, <1>1 DEF Lives, LifeTypes, Owners, Owns, Mutex, Stopping, Busy
  <1>3. /\ callbacks' \in Seq(Callback) /\ NoDuplicates(callbacks')
        /\ \A d : IsListed(d)' <=> IsListed(d) /\ d # c
        /\ callbacks = <<>> => callbacks' = <<>>
    <2>1. /\ callbacks' \in Seq(Callback) /\ NoDuplicates(callbacks')
          /\ \A i \in DOMAIN callbacks' :
               callbacks'[i] # c /\ \E j \in DOMAIN callbacks : callbacks'[i] = callbacks[j]
          /\ \A j \in DOMAIN callbacks : callbacks[j] # c =>
               \E i \in DOMAIN callbacks' : callbacks'[i] = callbacks[j]
          /\ (\A i \in DOMAIN callbacks : callbacks[i] # c) => callbacks' = callbacks
      BY SMTT(30), <1>1, <1>2, UnlinkKeepsOthers
    <2>2. ASSUME NEW d PROVE IsListed(d)' <=> IsListed(d) /\ d # c
      <3>1. ASSUME IsListed(d)' PROVE IsListed(d) /\ d # c
        <4>1. PICK i \in DOMAIN callbacks' : callbacks'[i] = d
          BY Zenon, <3>1 DEF IsListed
        <4>2. d # c /\ \E j \in DOMAIN callbacks : callbacks[j] = d
          BY Zenon, <2>1, <4>1
        <4>3. QED
          BY Zenon, <4>2 DEF IsListed
      <3>2. ASSUME IsListed(d), d # c PROVE IsListed(d)'
        <4>1. PICK j \in DOMAIN callbacks : callbacks[j] = d
          BY Zenon, <3>2 DEF IsListed
        <4>2. \E i \in DOMAIN callbacks' : callbacks'[i] = d
          BY Zenon, <2>1, <3>2, <4>1
        <4>3. QED
          BY Zenon, <4>2 DEF IsListed
      <3>3. QED
        BY Zenon, <3>1, <3>2
    <2>3. callbacks = <<>> => DOMAIN callbacks = {}
      OBVIOUS
    <2>4. QED
      BY ZenonT(40), <2>1, <2>2, <2>3
  <1>4. ASSUME NEW u \in Thread
        PROVE  /\ Busy(u)' <=> Busy(u)
               /\ PreInsert(u)' <=> PreInsert(u)
               /\ PostRemove(u)' <=> PostRemove(u) \/ u = t
               /\ PostTake(u)' <=> PostTake(u)
               /\ Stopper(u) => Stopper(u)'
    BY Zenon, <1>1 DEF Busy, PreInsert, PostRemove, PostTake, Stopper, Mutex, Types
  <1>5. \A u \in Thread : u # t /\ Busy(u) /\ op[u] \in {"add", "remove"} => cb[u] # c
    BY Zenon, <1>2 DEF Lives, Owners, Owns
  <1>6. ASSUME NEW d \in Callback
        PROVE  /\ Fresh(d)' <=> Fresh(d)
               /\ life'[d] = IF d = c /\ IsListed(c) THEN "unlinked" ELSE life[d]
    BY Zenon, <1>1, <1>2, <1>4 DEF Fresh, Lives, LifeTypes
  <1>7. LifeTypes'
    BY Zenon, <1>1, <1>3 DEF Lives, LifeTypes
  <1>8. Owners'
    <2>1. ASSUME NEW u \in Thread, PostRemove(u)' PROVE ~IsListed(cb[u])'
      BY Zenon, <1>1, <1>3, <1>4, <2>1 DEF Lives, Owners
    <2>2. ASSUME NEW u \in Thread, Busy(u)'
          PROVE  /\ op'[u] = "add" => life'[cb'[u]] = "adding"
                 /\ op'[u] = "remove" => life'[cb'[u]] \in {"removing", "unlinked"}
      <3>1. op[u] \in {"add", "remove"} => cb[u] \in Callback
        BY Zenon, <1>4, <2>2 DEF Mutex, Stopping
      <3>2. CASE u = t
        BY ZenonT(40), <1>1, <1>2, <1>6, <3>2
      <3>3. CASE u # t
        BY ZenonT(40), <1>1, <1>4, <1>5, <1>6, <2>2, <3>1, <3>3 DEF Lives, Owners
      <3>4. QED
        BY Zenon, <3>2, <3>3
    <2>3. \A u, v \in Thread : \A d \in Callback : Owns(u, d)' /\ Owns(v, d)' => u = v
      BY Zenon, <1>1, <1>4 DEF Lives, Owners, Owns
    <2>4. QED
      BY Zenon, <2>1, <2>2, <2>3 DEF Owners
  <1>9. Places'
    BY Zenon, <1>1, <1>2, <1>3, <1>6 DEF Lives, Places, LifeTypes
  <1>10. Reached'
    <2>1. word'.stopped /\ callbacks' # <<>> => \E u \in Thread : Stopper(u)'
      BY Zenon, <1>1, <1>3, <1>4 DEF Lives, Reached
    <2>2. ASSUME NEW d \in Callback, life'[d] \in {"adding", "added"} /\ ~Fresh(d)'
          PROVE  IsListed(d)' \/ ran'[d] = 1 \/ (d = current' /\ PostTake(runner)')
      <3>1. d # c /\ life[d] \in {"adding", "added"} /\ ~Fresh(d)
        BY Zenon, <1>2, <1>6, <2>2
      <3>2. IsListed(d) \/ ran[d] = 1 \/ (d = current /\ PostTake(runner))
        BY Zenon, <3>1 DEF Lives, Reached
      <3>3. d = current => runner \in Thread
        BY Zenon, ConstantTypes DEF Mutex, Stopping
      <3>4. QED
        BY Zenon, <1>1, <1>3, <1>4, <3>1, <3>2, <3>3
    <2>3. QED
      BY Zenon, <1>1, <1>3, <1>4, <2>1, <2>2 DEF Lives, Reached
  <1>11. QED
    BY Zenon, <1>7, <1>8, <1>9, <1>10 DEF Lives

(* The destructor returns. *)
LEMMA RemovedLives ==
  ASSUME Mutex, Mutex', Lives, NEW t \in Thread, Removed(t)
  PROVE  Lives'
  <1> DEFINE c == cb[t]
  <1>1. /\ UNCHANGED <<word, callbacks, runner, current, empty, flagged, ran, op, cb>>
        /\ pc[t] = "unlocked" /\ op[t] = "remove" /\ life' = [life EXCEPT ![c] = "destroyed"]
        /\ pc' = [pc EXCEPT ![t] = Base(t)] /\ Base(t) \in {"idle", "invoking"}
    BY Zenon DEF Removed, Goto, Base, stopVars
  <1>2. c \in Callback /\ life[c] \in {"removing", "unlinked"} /\ Owns(t, c) /\ ~IsListed(c)
    BY Zenon, <1>1 DEF Lives, Owners, Owns, Mutex, Stopping, Busy, PostRemove
  <1>3. /\ removed => removed'
        /\ c = current => removed'
        /\ done' \in [Callback -> Nat] /\ \A d \in Callback : done[d] = 0 => done'[d] = 0
    <2>1. current # Null => current \in flagged /\ done[current] = 0 /\ life[current] # "unlinked"
      BY Zenon DEF Lives, Places
    <2>2. c = current => current # Null
      BY Zenon, <1>2, ConstantTypes
    <2>3. done \in [Callback -> Nat]
      BY Zenon DEF Lives, LifeTypes
    <2>4. CASE life[c] = "unlinked"
      BY Zenon, <2>1, <2>2, <2>3, <2>4 DEF Removed
    <2>5. CASE life[c] # "unlinked" /\ runner = t
      BY ZenonT(40), <2>1, <2>2, <2>3, <2>5 DEF Removed
    <2>6. CASE life[c] # "unlinked" /\ runner # t
      <3>1. done[c] > 0 /\ done' = [done EXCEPT ![c] = @ - 1] /\ removed' = removed
        BY Zenon, <2>6 DEF Removed
      <3>2. QED
        BY SMTT(30), <1>2, <2>1, <2>2, <2>3, <3>1
    <2>7. QED
      BY Zenon, <2>4, <2>5, <2>6
  <1>4. ASSUME NEW u \in Thread
        PROVE  /\ Busy(u)' <=> Busy(u) /\ u # t
               /\ PreInsert(u)' <=> PreInsert(u)
               /\ PostRemove(u)' <=> PostRemove(u) /\ u # t
               /\ PostTake(u)' <=> PostTake(u)
               /\ Stopper(u) => Stopper(u)'
    BY Zenon, <1>1 DEF Busy, PreInsert, PostRemove, PostTake, Stopper, Mutex, Types
  <1>5. \A d : IsListed(d)' <=> IsListed(d)
    BY Zenon, <1>1 DEF IsListed
  <1>6. ASSUME NEW d \in Callback
        PROVE  /\ Fresh(d)' <=> Fresh(d)
               /\ life'[d] = IF d = c THEN "destroyed" ELSE life[d]
    BY Zenon, <1>1, <1>2, <1>4 DEF Fresh, Lives, LifeTypes
  <1>7. LifeTypes'
    BY Zenon, <1>1, <1>3 DEF Lives, LifeTypes
  <1>8. Owners'
    BY Zenon, <1>1, <1>2, <1>4, <1>6, LeaveOwners DEF Lives
  <1>9. Places'
    BY ZenonT(40), <1>1, <1>2, <1>3, <1>5, <1>6 DEF Lives, Places, LifeTypes
  <1>10. Reached'
    <2>1. \A u \in Thread : (PostTake(u)' <=> PostTake(u)) /\ (Stopper(u) => Stopper(u)')
      BY Zenon, <1>4
    <2>2. ASSUME NEW d \in Callback, life'[d] \in {"adding", "added"}, ~Fresh(d)'
          PROVE  life[d] \in {"adding", "added"} /\ ~Fresh(d) /\ ran'[d] = ran[d]
      <3>1. d # c
        BY Zenon, <1>6, <2>2
      <3>2. QED
        BY Zenon, <1>1, <1>6, <2>2, <3>1
    <2>3. QED
      BY Zenon, <1>1, <2>1, <2>2, KeepReached DEF Lives
  <1>11. QED
    BY Zenon, <1>7, <1>8, <1>9, <1>10 DEF Lives

(* request_stop() takes a callback from the list, or finds it empty. *)
LEMMA TakeFirstLives ==
  ASSUME Mutex, Mutex', Lives, NEW t \in Thread, TakeFirst(t)
  PROVE  Lives'
  <1> DEFINE c == Head(callbacks)
  <1>1. /\ UNCHANGED <<word, done, life, ran, cb>>
        /\ pc[t] = "locked" /\ op[t] \in {"stop", "relock"}
        /\ pc' = [pc EXCEPT ![t] = "unlock"] /\ op' = [op EXCEPT ![t] = "stop"]
    BY Zenon DEF TakeFirst, Goto
  <1>2. ASSUME NEW u \in Thread
        PROVE  /\ Busy(u)' <=> Busy(u)
               /\ op'[u] \in {"add", "remove"} => op'[u] = op[u]
               /\ op[u] \in {"add", "remove"} => op'[u] = op[u]
               /\ PreInsert(u)' <=> PreInsert(u)
               /\ PostRemove(u)' <=> PostRemove(u)
               /\ PostTake(u)' <=> u = t
               /\ Stopper(u) <=> u = t
    <2>1. Stopper(t)
      BY Zenon, <1>1 DEF Stopper
    <2>2. \A v \in Thread : Stopper(v) => v = t
      BY Zenon, <2>1 DEF Mutex, Stopping
    <2>3. PostTake(u) => Stopper(u)
      BY Zenon DEF PostTake, Stopper
    <2>4. pc[t] = "locked" => ~PostTake(t)
      BY Zenon DEF PostTake
    <2>5. QED
      BY Zenon, <1>1, <2>1, <2>2, <2>3, <2>4 DEF Busy, PreInsert, PostRemove, PostTake, Mutex, Types
  <1>3. \A d : Fresh(d)' <=> Fresh(d)
    BY Zenon, <1>1, <1>2 DEF Fresh
  <1>4. current = Null /\ PostTake(t)' /\ Stopper(t)'
    BY Zenon, <1>1, <1>2 DEF Mutex, Stopping, PostTake, Stopper, Types
  <1>5. callbacks \in Seq(Callback) /\ NoDuplicates(callbacks)
    BY Zenon DEF Lives, LifeTypes
  <1>6. CASE callbacks = <<>>
    <2>1. UNCHANGED <<callbacks, runner, current, empty, removed, flagged>>
      BY Zenon, <1>6 DEF TakeFirst, stopVars
    <2>2. \A d : IsListed(d)' <=> IsListed(d)
      BY Zenon, <2>1 DEF IsListed
    <2>3. LifeTypes'
      BY ZenonT(40), <1>1, <2>1 DEF Lives, LifeTypes
    <2>4. Owners'
      BY ZenonT(40), <1>1, <1>2, <2>2 DEF Lives, Owners, Owns
    <2>5. Places'
      BY Zenon, <1>1, <1>3, <2>1, <2>2 DEF Lives, Places
    <2>6. Reached'
      BY Zenon, <1>1, <1>3, <1>4, <1>6, <2>1, <2>2, ConstantTypes DEF Lives, Reached
    <2>7. QED
      BY Zenon, <2>3, <2>4, <2>5, <2>6 DEF Lives
  <1>7. CASE callbacks # <<>>
    <2>1. /\ runner' = t /\ current' = c /\ callbacks' = Tail(callbacks) /\ removed' = FALSE
          /\ (empty' <=> callbacks' = <<>>) /\ flagged' = flagged \union {c}
      BY Zenon, <1>7 DEF TakeFirst
    <2>2. /\ callbacks' \in Seq(Callback) /\ Len(callbacks') = Len(callbacks) - 1
          /\ \A i \in 1..(Len(callbacks) - 1) : callbacks'[i] = callbacks[i + 1]
          /\ c \in Callback /\ c = callbacks[1] /\ Len(callbacks) \in Nat /\ Len(callbacks) > 0
          /\ DOMAIN callbacks = 1..Len(callbacks) /\ DOMAIN callbacks' = 1..(Len(callbacks) - 1)
      <3>1. /\ Tail(callbacks) \in Seq(Callback) /\ Len(Tail(callbacks)) = Len(callbacks) - 1
            /\ \A i \in 1..(Len(callbacks) - 1) : Tail(callbacks)[i] = callbacks[i + 1]
        BY Zenon, <1>5, <1>7, HeadTailProperties
      <3>2. /\ c \in Callback /\ c = callbacks[1] /\ Len(callbacks) \in Nat /\ Len(callbacks) > 0
            /\ DOMAIN callbacks = 1..Len(callbacks)
        BY SMTT(30), <1>5, <1>7
      <3>3. DOMAIN Tail(callbacks) = 1..(Len(callbacks) - 1)
        BY SMTT(30), <3>1
      <3>4. QED
        BY Zenon, <2>1, <3>1, <3>2, <3>3
    <2> HIDE DEF c
    <2>3. NoDuplicates(callbacks')
      <3> SUFFICES ASSUME NEW i \in 1..(Len(callbacks) - 1), NEW j \in 1..(Len(callbacks) - 1),
                          callbacks'[i] = callbacks'[j]
                   PROVE  i = j
        BY Zenon, <2>2 DEF NoDuplicates
      <3>1. i + 1 = j + 1
        <4>1. i + 1 \in DOMAIN callbacks /\ j + 1 \in DOMAIN callbacks
          BY SMTT(30), <2>2
        <4>2. callbacks[i + 1] = callbacks[j + 1]
          BY Zenon, <2>2
        <4>3. QED
          BY Zenon, <1>5, <4>1, <4>2 DEF NoDuplicates
      <3>2. QED
        BY SMTT(30), <2>2, <3>1
    <2>4. ASSUME NEW d PROVE IsListed(d)' <=> IsListed(d) /\ d # c
      <3>1. ASSUME IsListed(d)' PROVE IsListed(d) /\ d # c
        <4>1. PICK i \in 1..(Len(callbacks) - 1) : callbacks[i + 1] = d
          BY Zenon, <2>2, <3>1 DEF IsListed
        <4>2. i + 1 \in DOMAIN callbacks /\ 1 \in DOMAIN callbacks /\ i + 1 # 1
          BY SMTT(30), <2>2
        <4>3. d # callbacks[1]
          BY Zenon, <1>5, <4>1, <4>2 DEF NoDuplicates
        <4>4. QED
          BY Zenon, <2>2, <4>1, <4>2, <4>3 DEF IsListed
      <3>2. ASSUME IsListed(d), d # c PROVE IsListed(d)'
        <4>1. PICK i \in DOMAIN callbacks : callbacks[i] = d
          BY Zenon, <3>2 DEF IsListed
        <4>2. i - 1 \in 1..(Len(callbacks) - 1) /\ (i - 1) + 1 = i
          BY SMTT(30), <2>2, <3>2, <4>1
        <4>3. i - 1 \in DOMAIN callbacks' /\ callbacks'[i - 1] = d
          BY Zenon, <2>2, <4>1, <4>2
        <4>4. QED
          BY Zenon, <4>3 DEF IsListed
      <3>3. QED
        BY Zenon, <3>1, <3>2
    <2>5. IsListed(c) /\ c # Null
      <3>1. 1 \in DOMAIN callbacks
        BY SMTT(30), <2>2
      <3>2. QED
        BY Zenon, <2>2, <3>1, ConstantTypes DEF IsListed
    <2>6. life[c] \in {"adding", "added", "removing"} /\ done[c] = 0 /\ ran[c] = 0 /\ ~Fresh(c)
      BY Zenon, <2>2, <2>5 DEF Lives, Places
    <2>7. LifeTypes'
      BY ZenonT(40), <1>1, <2>1, <2>2, <2>3 DEF Lives, LifeTypes
    <2>8. Owners'
      BY ZenonT(40), <1>1, <1>2, <2>4 DEF Lives, Owners, Owns
    <2>9. Places'
      BY Zenon, <1>1, <1>3, <2>1, <2>4, <2>6 DEF Lives, Places
    <2>10. Reached'
      <3>1. ASSUME NEW d \in Callback, life'[d] \in {"adding", "added"} /\ ~Fresh(d)'
            PROVE  IsListed(d)' \/ ran'[d] = 1 \/ (d = current' /\ PostTake(runner)')
        <4>1. IsListed(d) \/ ran[d] = 1
          BY Zenon, <1>1, <1>3, <1>4, <3>1, ConstantTypes DEF Lives, Reached
        <4>2. PostTake(runner)'
          BY Zenon, <1>4, <2>1 DEF PostTake
        <4>3. QED
          BY Zenon, <1>1, <2>1, <2>4, <4>1, <4>2
      <3>2. QED
        BY Zenon, <1>1, <1>4, <2>1, <2>5, <2>6, <3>1 DEF Reached
    <2>11. QED
      BY Zenon, <2>7, <2>8, <2>9, <2>10 DEF Lives
  <1>8. QED
    BY Zenon, <1>6, <1>7

(* request_stop() calls the callback it took, or returns. *)
LEMMA InvokeLives ==
  ASSUME Mutex, Mutex', Lives, NEW t \in Thread, Invoke(t)
  PROVE  Lives'
  <1>1. /\ UNCHANGED <<word, callbacks, runner, current, empty, removed, flagged, done, life, op, cb>>
        /\ pc[t] = "unlocked" /\ op[t] = "stop" /\ PostTake(t) /\ Stopper(t)
        /\ pc' = [pc EXCEPT ![t] = Base(t)] /\ Base(t) \in {"idle", "invoking"}
        /\ ran' = IF current = Null THEN ran ELSE [ran EXCEPT ![current] = @ + 1]
    BY Zenon DEF Invoke, Goto, Base, stopVars, PostTake, Stopper
  <1>2. current # Null => runner = t
    BY Zenon, <1>1 DEF Mutex, Stopping, Stopper
  <1>3. \A u \in Thread : PostTake(u) => u = t
    BY Zenon, <1>1 DEF Mutex, Stopping, Stopper, PostTake
  <1>4. ASSUME NEW u \in Thread
        PROVE  /\ Busy(u)' /\ op'[u] \in {"add", "remove"} <=> Busy(u) /\ op[u] \in {"add", "remove"}
               /\ PreInsert(u)' <=> PreInsert(u)
               /\ PostRemove(u)' <=> PostRemove(u)
               /\ ~PostTake(u)'
    BY Zenon, <1>1, <1>3 DEF Busy, PreInsert, PostRemove, PostTake, Mutex, Types
  <1>5. \A d : (IsListed(d)' <=> IsListed(d)) /\ (Fresh(d)' <=> Fresh(d))
    BY Zenon, <1>1, <1>4 DEF IsListed, Fresh
  <1>6. current # Null => current \in Callback /\ ran[current] = 0 /\ ran'[current] = 1
    BY SMTT(30), <1>1 DEF Lives, LifeTypes, Reached
  <1>7. \A d \in Callback : d # current => ran'[d] = ran[d]
    BY Zenon, <1>1 DEF Lives, LifeTypes
  <1>8. LifeTypes'
    BY SMTT(30), <1>1, <1>6 DEF Lives, LifeTypes
  <1>9. Owners'
    BY Zenon, <1>1, <1>4, <1>5 DEF Lives, Owners, Owns
  <1>10. Places'
    BY Zenon, <1>1, <1>5, <1>7 DEF Lives, Places
  <1>11. Reached'
    <2>1. word'.stopped /\ callbacks' # <<>> => \E u \in Thread : Stopper(u)'
      <3>1. CASE current = Null
        BY Zenon, <1>1, <3>1 DEF Lives, Reached
      <3>2. CASE current # Null
        <4>1. Stopper(t)'
          BY Zenon, <1>1, <1>2, <3>2 DEF Stopper
        <4>2. QED
          BY Zenon, <4>1
      <3>3. QED
        BY Zenon, <3>1, <3>2
    <2>2. ASSUME NEW d \in Callback, life'[d] \in {"adding", "added"} /\ ~Fresh(d)'
          PROVE  IsListed(d)' \/ ran'[d] = 1
      <3>1. CASE d = current
        BY Zenon, <1>6, <3>1, ConstantTypes
      <3>2. CASE d # current
        BY Zenon, <1>1, <1>5, <1>7, <2>2, <3>2 DEF Lives, Reached
      <3>3. QED
        BY Zenon, <3>1, <3>2
    <2>3. QED
      BY Zenon, <1>1, <1>4, <2>1, <2>2 DEF Lives, Reached
  <1>12. QED
    BY Zenon, <1>8, <1>9, <1>10, <1>11 DEF Lives

(* The callback returned to request_stop(). *)
LEMMA InvokedLives ==
  ASSUME Mutex, Mutex', Lives, NEW t \in Thread, Invoked(t)
  PROVE  Lives'
  <1>1. /\ UNCHANGED <<word, callbacks, runner, empty, removed, life, ran, cb>>
        /\ pc[t] = "invoking" /\ current' = Null /\ op' = [op EXCEPT ![t] = "relock"]
        /\ pc' = [pc EXCEPT ![t] = IF empty THEN "idle" ELSE "load"]
        /\ done' = done \/ done' = [done EXCEPT ![current] = @ + 1]
        /\ current # Null /\ runner = t
    BY Zenon DEF Invoked, Goto, Mutex, Stopping
  <1>2. \A u \in Thread : PostTake(u) => u = t
    BY Zenon, <1>1 DEF Mutex, Stopping, Stopper, PostTake
  <1>3. ASSUME NEW u \in Thread
        PROVE  /\ Busy(u)' /\ op'[u] \in {"add", "remove"} <=> Busy(u) /\ op[u] \in {"add", "remove"}
               /\ op'[u] \in {"add", "remove"} => op'[u] = op[u]
               /\ PreInsert(u)' <=> PreInsert(u)
               /\ PostRemove(u)' <=> PostRemove(u)
               /\ ~PostTake(u)' /\ ~PostTake(u)
    BY Zenon, <1>1, <1>2 DEF Busy, PreInsert, PostRemove, PostTake, Mutex, Types
  <1>4. \A d : (IsListed(d)' <=> IsListed(d)) /\ (Fresh(d)' <=> Fresh(d))
    BY Zenon, <1>1, <1>3 DEF IsListed, Fresh
  <1>5. /\ current \in Callback /\ ~IsListed(current) /\ ~Fresh(current)
        /\ \A d \in Callback : d # current => done'[d] = done[d]
    BY Zenon, <1>1 DEF Lives, LifeTypes, Places
  <1>6. LifeTypes'
    BY SMTT(30), <1>1, <1>5 DEF Lives, LifeTypes
  <1>7. Owners'
    <2>1. ASSUME NEW u \in Thread, Busy(u)', op'[u] \in {"add", "remove"}
          PROVE  Busy(u) /\ op'[u] = op[u]
      BY Zenon, <1>3, <2>1
    <2>2. \A u \in Thread : Busy(u)' /\ op'[u] = "add" => life'[cb'[u]] = "adding"
      BY Zenon, <1>1, <2>1 DEF Lives, Owners
    <2>3. \A u \in Thread : Busy(u)' /\ op'[u] = "remove" => life'[cb'[u]] \in {"removing", "unlinked"}
      BY Zenon, <1>1, <2>1 DEF Lives, Owners
    <2>4. \A u \in Thread, d \in Callback : Owns(u, d)' => Owns(u, d)
      BY Zenon, <1>1, <2>1 DEF Owns
    <2>5. \A u \in Thread : PostRemove(u)' => ~IsListed(cb[u])'
      BY Zenon, <1>1, <1>3, <1>4 DEF Lives, Owners
    <2>6. QED
      BY Zenon, <2>2, <2>3, <2>4, <2>5 DEF Lives, Owners
  <1>8. Places'
    <2>1. ASSUME NEW d \in Callback, Fresh(d) \/ IsListed(d) PROVE d # current /\ done'[d] = done[d]
      BY Zenon, <1>5, <2>1
    <2>2. ASSUME NEW d \in Callback PROVE d # current'
      BY Zenon, <1>1, ConstantTypes
    <2>3. QED
      BY Zenon, <1>1, <1>4, <2>1, <2>2 DEF Lives, Places
  <1>9. Reached'
    <2>1. word'.stopped /\ callbacks' # <<>> => \E u \in Thread : Stopper(u)'
      <3>1. CASE empty
        BY Zenon, <1>1, <3>1 DEF Lives, Reached
      <3>2. CASE ~empty
        <4>1. Stopper(t)'
          BY Zenon, <1>1, <3>2 DEF Stopper, Mutex, Types
        <4>2. QED
          BY Zenon, <4>1
      <3>3. QED
        BY Zenon, <3>1, <3>2
    <2>2. ASSUME NEW d \in Callback, life'[d] \in {"adding", "added"} /\ ~Fresh(d)'
          PROVE  IsListed(d)' \/ ran'[d] = 1
      BY Zenon, <1>1, <1>3, <1>4, <2>2 DEF Lives, Reached
    <2>3. QED
      BY Zenon, <1>1, <1>3, <2>1, <2>2 DEF Reached
  <1>10. QED
    BY Zenon, <1>6, <1>7, <1>8, <1>9 DEF Lives

(***************************************************************************)
(* The theorems.                                                           *)
(***************************************************************************)

Inv == Mutex /\ Lives

(* A new state satisfies Inv. *)
LEMMA InitInv == Init => Inv
  BY Zenon, InitMutex, InitLives DEF Inv

(* Every step keeps Inv. *)
LEMMA NextInv == Inv /\ [Next]_vars => Inv'
  <1> SUFFICES ASSUME Mutex, Lives, [Next]_vars PROVE Mutex' /\ Lives'
    BY Zenon DEF Inv
  <1>1. Mutex'
    BY Zenon, NextMutex
  <1>2. CASE UNCHANGED vars
    <2>1. UNCHANGED <<word, callbacks, runner, current, empty, removed, flagged, done, life, ran, pc, op, cb>>
      BY Zenon, <1>2 DEF vars
    <2>2. LifeTypes'
      BY Zenon, <2>1 DEF Lives, LifeTypes
    <2>3. Owners'
      BY Zenon, <2>1 DEF Lives, Owners, Busy, Owns, IsListed, PostRemove
    <2>4. Places'
      BY Zenon, <2>1 DEF Lives, Places, Fresh, PreInsert, IsListed
    <2>5. Reached'
      <3>1. \A t \in Thread : (PostTake(t)' <=> PostTake(t)) /\ (Stopper(t) => Stopper(t)')
        BY Zenon, <2>1 DEF PostTake, Stopper
      <3>2. \A c \in Callback : Fresh(c)' <=> Fresh(c)
        BY Zenon, <2>1 DEF Fresh, PreInsert
      <3>3. QED
        BY Zenon, <2>1, <3>1, <3>2, KeepReached DEF Lives
    <2>6. QED
      BY Zenon, <1>1, <2>2, <2>3, <2>4, <2>5 DEF Lives
  <1>3. CASE RemoveSource \/ \E t \in Thread : RequestStop(t)
    BY Zenon, <1>1, <1>3, StopLives
  <1>4. ASSUME NEW t \in Thread, ThreadStep(t) PROVE Lives'
    BY Zenon, <1>1, <1>4, LockLives, GiveUpLives, InsertLives, AddedLives, RemoveLockedLives, RemovedLives,
       TakeFirstLives, InvokeLives, InvokedLives
    DEF ThreadStep, LockStep, CallbackStep, StopStep
  <1>5. ASSUME NEW t \in Thread, NEW c \in Callback, AddCallback(t, c) \/ RemoveCallback(t, c)
        PROVE  Lives'
    BY Zenon, <1>1, <1>5, BeginLives
  <1>6. QED
    BY Zenon, <1>1, <1>2, <1>3, <1>4, <1>5 DEF Next

(* Inv holds in every state. *)
THEOREM InvHolds == Spec => []Inv
  BY InitInv, NextInv, PTL DEF Spec

(* The word is a mutex: one thread at a time has the list. *)
THEOREM ListIsLocked == Spec => []LockIsExclusive
  <1>1. Inv => LockIsExclusive
    BY Zenon DEF Inv, Mutex
  <1>2. QED
    BY <1>1, InvHolds, PTL

(* A destructor that returned has taken its callback out of the reach of   *)
(* request_stop(), for any number of threads and callbacks.                *)
THEOREM DestructorIsSafe == Spec => []DestroyedIsNotTouched
  <1>1. Inv => DestroyedIsNotTouched
    <2> SUFFICES ASSUME Inv PROVE DestroyedIsNotTouched
      OBVIOUS
    <2>1. ASSUME NEW i \in DOMAIN callbacks PROVE life[callbacks[i]] # "destroyed"
      <3>1. callbacks[i] \in Callback /\ IsListed(callbacks[i])
        BY SMTT(30), <2>1 DEF Inv, Lives, LifeTypes, IsListed
      <3>2. QED
        BY Zenon, <3>1 DEF Inv, Lives, Places
    <2>2. QED
      BY Zenon, <2>1 DEF Inv, Lives, Places, DestroyedIsNotTouched
  <1>2. QED
    BY <1>1, InvHolds, PTL

(* When no request_stop() is under way after a stop, the list is empty and *)
(* every callback that is still there has run once.                        *)
THEOREM StopIsComplete == Spec => []StopReachesAll
  <1>1. Inv => StopReachesAll
    <2> SUFFICES ASSUME Inv, word.stopped, \A t \in Thread : ~InRequestStop(t)
                 PROVE  callbacks = <<>> /\ \A c \in Callback : life[c] = "added" => ran[c] = 1
      BY Zenon DEF StopReachesAll
    <2>1. ASSUME NEW t \in Thread PROVE ~Stopper(t)
      BY Zenon DEF Inv, Mutex, Stopping, Stopper, InRequestStop
    <2>2. callbacks = <<>> /\ current = Null
      BY Zenon, <2>1 DEF Inv, Lives, Reached, Mutex, Stopping, Stopper
    <2>3. ASSUME NEW c \in Callback, life[c] = "added" PROVE ran[c] = 1
      <3>1. ~IsListed(c) /\ c # current
        BY SMTT(30), <2>2, ConstantTypes DEF IsListed
      <3>2. ~Fresh(c)
        BY Zenon, <2>3 DEF Fresh, PreInsert, Busy, Inv, Lives, Owners
      <3>3. QED
        BY Zenon, <2>3, <3>1, <3>2 DEF Inv, Lives, Reached
    <2>4. QED
      BY Zenon, <2>2, <2>3
  <1>2. QED
    BY <1>1, InvHolds, PTL

(* A state of StopSpec. *)
StopRecord(a, l, r, b) == [stopped |-> a, listed |-> l, running |-> r, by |-> b]

(* Updates of the fields of a stop state. *)
LEMMA StateUpdates ==
  ASSUME NEW a, NEW l, NEW r, NEW b, NEW x, NEW s, s = StopRecord(a, l, r, b)
  PROVE  /\ s.stopped = a /\ s.listed = l /\ s.running = r /\ s.by = b
         /\ [s EXCEPT !.stopped = x] = StopRecord(x, l, r, b)
         /\ [s EXCEPT !.listed = x] = StopRecord(a, x, r, b)
         /\ [s EXCEPT !.running = x] = StopRecord(a, l, x, b)
         /\ [s EXCEPT !.by = x] = StopRecord(a, l, r, x)
  <1>1. s.stopped = a /\ s.listed = l /\ s.running = r /\ s.by = b
    BY Zenon DEF StopRecord
  <1>2. [s EXCEPT !.stopped = x] = StopRecord(x, l, r, b)
    BY SMTT(30) DEF StopRecord
  <1>3. [s EXCEPT !.listed = x] = StopRecord(a, x, r, b)
    BY SMTT(30) DEF StopRecord
  <1>4. [s EXCEPT !.running = x] = StopRecord(a, l, x, b)
    BY SMTT(30) DEF StopRecord
  <1>5. [s EXCEPT !.by = x] = StopRecord(a, l, r, x)
    BY SMTT(30) DEF StopRecord
  <1>6. QED
    BY <1>1, <1>2, <1>3, <1>4, <1>5, Zenon

(* StopSpec removes from the list as the polyfill does. *)
LEMMA SameUnlinked ==
  ASSUME NEW l, NEW c PROVE Abstract!Unlinked(l, c) = Unlinked(l, c)
  BY Zenon DEF Abstract!Unlinked, Unlinked

(* The operations of StopOps on such a state. *)
LEMMA AddedUpdates ==
  ASSUME NEW a, NEW l, NEW r, NEW b, NEW c
  PROVE  Abstract!Listed(StopRecord(a, l, r, b), c) = StopRecord(a, <<c>> \o l, r, b)
  <1> DEFINE s == StopRecord(a, l, r, b)
  <1>1. s.listed = l
    BY SMTT(30), StateUpdates
  <1>2. ASSUME NEW x PROVE [s EXCEPT !.listed = x] = StopRecord(a, x, r, b)
    BY SMTT(30), StateUpdates
  <1> HIDE DEF s
  <1>3. Abstract!Listed(s, c) = StopRecord(a, <<c>> \o l, r, b)
    BY <1>1, <1>2, Zenon DEF Abstract!Listed
  <1>4. QED
    BY Zenon, <1>3 DEF s

(* ... and those of request_stop(). *)
LEMMA RunningUpdates ==
  ASSUME NEW a, NEW l, NEW r, NEW b, NEW t
  PROVE  /\ Abstract!Taken(StopRecord(a, l, r, b), t) = StopRecord(a, Tail(l), Head(l), t)
         /\ Abstract!Returned(StopRecord(a, l, r, b), t) = StopRecord(a, l, t, t)
  <1> DEFINE s == StopRecord(a, l, r, b)
  <1>1. s.listed = l
    BY SMTT(30), StateUpdates
  <1>2. ASSUME NEW x, NEW y, NEW z
        PROVE  /\ [s EXCEPT !.listed = x] = StopRecord(a, x, r, b)
               /\ [StopRecord(a, x, r, b) EXCEPT !.running = y] = StopRecord(a, x, y, b)
               /\ [StopRecord(a, x, y, b) EXCEPT !.by = z] = StopRecord(a, x, y, z)
    BY SMTT(30), StateUpdates
  <1>3. Abstract!Taken(s, t) = [[[s EXCEPT !.listed = Tail(l)] EXCEPT !.running = Head(l)] EXCEPT !.by = t]
    BY <1>1, Zenon DEF Abstract!Taken
  <1>4. Abstract!Returned(s, t) = [[s EXCEPT !.running = t] EXCEPT !.by = t]
    BY Zenon DEF Abstract!Returned
  <1>5. Abstract!Taken(s, t) = StopRecord(a, Tail(l), Head(l), t)
    <2>1. [s EXCEPT !.listed = Tail(l)] = StopRecord(a, Tail(l), r, b)
      BY Zenon, <1>2
    <2>2. [StopRecord(a, Tail(l), r, b) EXCEPT !.running = Head(l)] = StopRecord(a, Tail(l), Head(l), b)
      BY Zenon, <1>2
    <2>3. [StopRecord(a, Tail(l), Head(l), b) EXCEPT !.by = t] = StopRecord(a, Tail(l), Head(l), t)
      BY SMTT(30), <1>2
    <2>4. QED
      BY <1>3, <2>1, <2>2, <2>3, Zenon
  <1>6. Abstract!Returned(s, t) = StopRecord(a, l, t, t)
    <2>1. [s EXCEPT !.running = t] = StopRecord(a, l, t, b)
      BY SMTT(30), StateUpdates
    <2>2. [StopRecord(a, l, t, b) EXCEPT !.by = t] = StopRecord(a, l, t, t)
      BY SMTT(30), <1>2
    <2>3. QED
      BY <1>4, <2>1, <2>2, Zenon
  <1>7. QED
    BY Zenon, <1>5, <1>6

(* A new state is a new state of StopSpec. *)
LEMMA InitRefines == Init => Abstract!Init
  BY SMTT(30) DEF Init, Abstract!Init, Abstract!NewStop

(* Every step is a step of StopSpec or leaves its state alone. *)
LEMMA NextRefines ==
  Inv /\ Inv' /\ [Next]_vars =>
    [Abstract!Next]_([stopped |-> word.stopped, listed |-> callbacks, running |-> current,
                      by |-> IF current = Null THEN Null ELSE runner])
  <1> DEFINE runBy == IF current = Null THEN Null ELSE runner
             st == StopRecord(word.stopped, callbacks, current, runBy)
  <1> SUFFICES ASSUME Inv, Inv', [Next]_vars, st' # st PROVE Abstract!Next
    BY Zenon DEF StopRecord
  <1>0. word \in Word /\ word' \in Word
    BY Zenon DEF Inv, Mutex, Types
  <1>1. ASSUME UNCHANGED <<callbacks, current, runner>>, word'.stopped = word.stopped PROVE FALSE
    BY Zenon, <1>1
  <1>2. ASSUME NEW t \in Thread, TryLock(t) PROVE Abstract!Next
    <2>1. UNCHANGED <<callbacks, current, runner>>
      BY Zenon, <1>2 DEF TryLock, stopVars
    <2>2. word'.stopped # word.stopped
      BY Zenon, <1>1, <2>1
    <2>3. ~word.stopped /\ word'.stopped = TRUE
      BY Zenon, <1>0, <1>2, <2>2 DEF TryLock, MustGoOn, Word
    <2>4. Abstract!Stop
      <3>1. Abstract!StopRequested(st) = StopRecord(word'.stopped, callbacks, current, runBy)
        <4>1. [st EXCEPT !.stopped = word'.stopped] = StopRecord(word'.stopped, callbacks, current, runBy)
          BY ONLY SMTT(30), StateUpdates
        <4> HIDE DEF st
        <4>2. [st EXCEPT !.stopped = word'.stopped] = [st EXCEPT !.stopped = TRUE]
          BY <2>3, Zenon
        <4>3. QED
          BY <4>1, <4>2, Zenon DEF Abstract!StopRequested
      <3>2. Abstract!StopRequested(st) = st'
        BY <2>1, <3>1, Zenon
      <3>3. QED
        BY <2>3, <3>2, Zenon DEF Abstract!Stop, StopRecord
    <2>5. QED
      BY Zenon, <2>4 DEF Abstract!Next
  <1>3. ASSUME NEW t \in Thread, Insert(t) PROVE Abstract!Next
    <2>1. /\ callbacks' = <<cb[t]>> \o callbacks /\ UNCHANGED <<word, current, runner>>
          /\ cb[t] \in Callback /\ ~word.stopped /\ Fresh(cb[t])
      BY Zenon, <1>3 DEF Insert, stopVars, Inv, Mutex, Stopping, Busy, PreInsert, Fresh
    <2>2. ~IsListed(cb[t])
      BY Zenon, <2>1 DEF Inv, Lives, Places
    <2>3. Abstract!Add(cb[t])
      <3>1. Abstract!Listed(st, cb[t]) = st'
        BY SMTT(30), <2>1, AddedUpdates
      <3>2. QED
        BY Zenon, <2>1, <2>2, <3>1 DEF Abstract!Add, Abstract!IsListed, IsListed, StopRecord
    <2>4. QED
      BY Zenon, <2>1, <2>3 DEF Abstract!Next
  <1>4. ASSUME NEW t \in Thread, RemoveLocked(t) PROVE Abstract!Next
    <2>1. /\ callbacks' = Unlinked(callbacks, cb[t]) /\ UNCHANGED <<word, current, runner>>
          /\ cb[t] \in Callback
      BY Zenon, <1>4 DEF RemoveLocked, stopVars, Inv, Mutex, Stopping, Busy
    <2>2. IsListed(cb[t])
      <3>1. callbacks \in Seq(Callback) /\ NoDuplicates(callbacks)
        BY ZenonT(40) DEF Inv, Lives, LifeTypes
      <3>2. (\A i \in DOMAIN callbacks : callbacks[i] # cb[t]) => callbacks' = callbacks
        BY SMTT(30), <2>1, <3>1, UnlinkKeepsOthers
      <3>3. QED
        BY Zenon, <1>1, <2>1, <3>2 DEF IsListed
    <2>3. Abstract!Delete(cb[t])
      <3>1. Abstract!Deleted(st, cb[t]) = StopRecord(word.stopped, Unlinked(callbacks, cb[t]), current, runBy)
        <4>1. /\ st.listed = callbacks
              /\ [st EXCEPT !.listed = Unlinked(callbacks, cb[t])]
                   = StopRecord(word.stopped, Unlinked(callbacks, cb[t]), current, runBy)
          BY SMTT(30), StateUpdates
        <4> HIDE DEF st
        <4>2. QED
          BY <4>1, SameUnlinked, Zenon DEF Abstract!Deleted
      <3>2. st' = StopRecord(word.stopped, Unlinked(callbacks, cb[t]), current, runBy)
        BY <2>1, Zenon
      <3>3. QED
        BY Zenon, <2>2, <3>1, <3>2 DEF Abstract!Delete, Abstract!IsListed, IsListed, StopRecord
    <2>4. QED
      BY Zenon, <2>1, <2>3 DEF Abstract!Next
  <1>5. ASSUME NEW t \in Thread, TakeFirst(t) PROVE Abstract!Next
    <2>1. callbacks # <<>>
      BY Zenon, <1>1, <1>5 DEF TakeFirst, stopVars
    <2>2. /\ word' = word /\ current' = Head(callbacks) /\ callbacks' = Tail(callbacks) /\ runner' = t
          /\ word.stopped /\ current = Null
      BY Zenon, <1>5, <2>1 DEF TakeFirst, Inv, Mutex, Stopping, Stopper
    <2>3. current' # Null
      BY SMTT(30), <2>1, <2>2, ConstantTypes DEF Inv, Lives, LifeTypes
    <2>4. Abstract!Take(t)
      <3>1. Abstract!Taken(st, t) = StopRecord(word.stopped, Tail(callbacks), Head(callbacks), t)
        BY SMTT(30), RunningUpdates
      <3>3. runBy' = t
        BY Zenon, <2>2, <2>3
      <3>4. st' = StopRecord(word.stopped, Tail(callbacks), Head(callbacks), t)
        BY <2>2, <3>3, Zenon
      <3>2. QED
        BY ZenonT(40), <2>1, <2>2, <3>1, <3>4 DEF Abstract!Take, StopRecord
    <2>5. QED
      BY Zenon, <2>4 DEF Abstract!Next
  <1>6. ASSUME NEW t \in Thread, Invoked(t) PROVE Abstract!Next
    <2>1. UNCHANGED <<word, callbacks>> /\ current' = Null /\ current # Null
      BY Zenon, <1>6 DEF Invoked, Inv, Mutex, Stopping
    <2>2. Abstract!Return
      <3>1. Abstract!Returned(st, Null) = st'
        BY SMTT(30), <2>1, RunningUpdates
      <3>2. QED
        BY Zenon, <2>1, <3>1 DEF Abstract!Return, StopRecord
    <2>3. QED
      BY Zenon, <2>2 DEF Abstract!Next
  <1>7. ASSUME NEW t \in Thread,
               \/ Load(t) \/ GiveUp(t) \/ SetWaiting(t) \/ JoinWaiters(t) \/ Wait(t) \/ NotifyAll(t)
               \/ Unlock(t) \/ NotifyOne(t) \/ Added(t) \/ Removed(t) \/ Invoke(t) \/ RequestStop(t)
               \/ \E c \in Callback : AddCallback(t, c) \/ RemoveCallback(t, c)
        PROVE  FALSE
    <2>1. UNCHANGED <<callbacks, current, runner>>
      BY Zenon, <1>7 DEF Load, GiveUp, SetWaiting, JoinWaiters, Wait, NotifyAll, Unlock, NotifyOne, Added,
        Removed, Invoke, RequestStop, AddCallback, RemoveCallback, stopVars
    <2>2. word'.stopped = word.stopped
      BY Zenon, <1>0, <1>7 DEF Load, GiveUp, SetWaiting, JoinWaiters, Wait, NotifyAll, Unlock, NotifyOne, Added,
        Removed, Invoke, RequestStop, AddCallback, RemoveCallback, Word
    <2>3. QED
      BY Zenon, <1>1, <2>1, <2>2
  <1>8. CASE RemoveSource
    <2>1. UNCHANGED <<callbacks, current, runner>> /\ word'.stopped = word.stopped
      BY Zenon, <1>0, <1>8 DEF RemoveSource, stopVars, Word
    <2>2. QED
      BY Zenon, <1>1, <2>1
  <1>9. CASE UNCHANGED vars
    BY Zenon, <1>1, <1>9 DEF vars
  <1>10. QED
    BY ZenonT(40), <1>2, <1>3, <1>4, <1>5, <1>6, <1>7, <1>8, <1>9
    DEF Next, ThreadStep, LockStep, CallbackStep, StopStep

(* The polyfill implements StopSpec, for any number of threads and         *)
(* callbacks: nobody is added after the stop, what runs was in the list,   *)
(* newest first, one at a time.                                            *)
THEOREM Refinement == Spec => ImplementsStop
  BY InitRefines, NextRefines, InvHolds, PTL DEF Spec, ImplementsStop, Abstract!Spec
=============================================================================
