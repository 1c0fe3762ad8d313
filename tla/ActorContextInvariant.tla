----------------------- MODULE ActorContextInvariant -----------------------
(***************************************************************************)
(* The inductive invariant of ActorContext, for any contexts, schedulers,  *)
(* threads and runnables and any depth of nesting, and the proof that the  *)
(* steps with which a task starts, changes its context, suspends, resumes  *)
(* and finishes preserve it.  The steps of the calls that these begin, and *)
(* the theorems, are in ActorContextProofs.                                *)
(***************************************************************************)
EXTENDS ActorContext, SequenceTheorems, TLAPS

(***************************************************************************)
(* Sequences and mailboxes.                                                *)
(***************************************************************************)

NoDuplicates(q) == \A i, j \in DOMAIN q : q[i] = q[j] => i = j

IsIn(q, r) == \E i \in DOMAIN q : q[i] = r

MailboxType == [queue : Seq(Runnable), inflight : SUBSET Runnable, locked : BOOLEAN]

(* What Append does to the set of runnables in a queue. *)
LEMMA AppendIsIn ==
  ASSUME NEW q \in Seq(Runnable), NEW x \in Runnable
  PROVE  /\ Append(q, x) \in Seq(Runnable)
         /\ \A r : IsIn(Append(q, x), r) <=> IsIn(q, r) \/ r = x
         /\ NoDuplicates(q) /\ ~IsIn(q, x) => NoDuplicates(Append(q, x))
  <1> DEFINE a == Append(q, x)  n == Len(q)
  <1>1. /\ a \in Seq(Runnable) /\ n \in Nat /\ DOMAIN q = 1..n /\ DOMAIN a = 1..(n + 1)
        /\ \A i \in 1..n : a[i] = q[i]
        /\ a[n + 1] = x
    OBVIOUS
  <1> HIDE DEF a, n
  <1>2. \A r : IsIn(a, r) <=> IsIn(q, r) \/ r = x
    BY SMTT(30), <1>1 DEF IsIn
  <1>3. ASSUME NoDuplicates(q), ~IsIn(q, x) PROVE NoDuplicates(a)
    BY SMTT(30), <1>1, <1>3 DEF NoDuplicates, IsIn
  <1>4. QED
    BY Zenon, <1>1, <1>2, <1>3 DEF a

(* What Tail does to the set of runnables in a queue. *)
LEMMA TailIsIn ==
  ASSUME NEW q \in Seq(Runnable), q # <<>>, NoDuplicates(q)
  PROVE  /\ Tail(q) \in Seq(Runnable) /\ Head(q) \in Runnable
         /\ IsIn(q, Head(q))
         /\ \A r : IsIn(Tail(q), r) <=> IsIn(q, r) /\ r # Head(q)
         /\ NoDuplicates(Tail(q))
  <1> DEFINE a == Tail(q)  n == Len(q)
  <1>1. /\ a \in Seq(Runnable) /\ n \in Nat \ {0} /\ DOMAIN q = 1..n /\ DOMAIN a = 1..(n - 1)
        /\ \A i \in 1..(n - 1) : a[i] = q[i + 1]
        /\ Head(q) = q[1] /\ q[1] \in Runnable
    OBVIOUS
  <1> HIDE DEF a, n
  <1>2. ASSUME NEW r PROVE IsIn(a, r) <=> IsIn(q, r) /\ r # q[1]
    <2>1. ASSUME NEW i \in 1..(n - 1), a[i] = r PROVE IsIn(q, r) /\ r # q[1]
      <3>1. i + 1 \in 1..n /\ q[i + 1] = r /\ i + 1 # 1
        BY SMTT(30), <1>1, <2>1
      <3>2. QED
        BY SMTT(30), <1>1, <3>1 DEF IsIn, NoDuplicates
    <2>2. ASSUME NEW i \in 1..n, q[i] = r, r # q[1] PROVE IsIn(a, r)
      <3>1. i - 1 \in 1..(n - 1) /\ a[i - 1] = r
        BY SMTT(30), <1>1, <2>2
      <3>2. QED
        BY Zenon, <1>1, <3>1 DEF IsIn
    <2>3. QED
      BY Zenon, <1>1, <2>1, <2>2 DEF IsIn
  <1>3. NoDuplicates(a)
    <2>1. ASSUME NEW i \in 1..(n - 1), NEW j \in 1..(n - 1), a[i] = a[j] PROVE i = j
      <3>1. i + 1 \in 1..n /\ j + 1 \in 1..n /\ q[i + 1] = q[j + 1]
        BY SMTT(30), <1>1, <2>1
      <3>2. i + 1 = j + 1
        BY Zenon, <1>1, <3>1 DEF NoDuplicates
      <3>3. QED
        BY SMTT(30), <3>2
    <2>2. QED
      BY Zenon, <1>1, <2>1 DEF NoDuplicates
  <1>4. IsIn(q, q[1])
    BY SMTT(30), <1>1 DEF IsIn
  <1>5. QED
    BY Zenon, <1>1, <1>2, <1>3, <1>4 DEF a

(* push_prepare. *)
LEMMA PreparedFields ==
  ASSUME NEW mb \in MailboxType, NEW x \in Runnable
  PROVE  /\ Prepared(mb, x) \in MailboxType
         /\ Prepared(mb, x).queue = Append(mb.queue, x)
         /\ Prepared(mb, x).inflight = mb.inflight \union {x}
         /\ Prepared(mb, x).locked <=> mb.locked
         /\ IsWakeable(Prepared(mb, x))
  <1>1. Append(mb.queue, x) \in Seq(Runnable)
    BY SMTT(30) DEF MailboxType
  <1>2. Prepared(mb, x) \in MailboxType
    BY Zenon, <1>1 DEF MailboxType, Prepared
  <1>3. /\ Prepared(mb, x).queue = Append(mb.queue, x)
        /\ Prepared(mb, x).inflight = mb.inflight \union {x}
    BY Zenon DEF MailboxType, Prepared
  <1>4. Prepared(mb, x).locked <=> mb.locked
    BY Zenon DEF MailboxType, Prepared
  <1>5. QED
    BY Zenon, <1>2, <1>3, <1>4 DEF IsWakeable

(* push_publish. *)
LEMMA PublishedFields ==
  ASSUME NEW mb \in MailboxType, NEW x \in Runnable, NEW m \in Published(mb, x)
  PROVE  /\ m \in MailboxType /\ m.queue = mb.queue /\ m.inflight = mb.inflight \ {x}
         /\ mb.locked => m.locked
         /\ IsWakeable(m)
  BY ZenonT(60) DEF MailboxType, Published

(* next_runnable: the oldest runnable, or the lock is given up. *)
LEMMA PopFields ==
  ASSUME NEW mb \in MailboxType, NEW o \in PopOutcomes(mb)
  PROVE  /\ o.mb \in MailboxType /\ mb.locked /\ IsWakeable(o.mb)
         /\ o.mb.inflight = mb.inflight
         /\ o.next # Null =>
              /\ mb.queue # <<>> /\ o.next = Head(mb.queue) /\ o.next \notin mb.inflight
              /\ o.mb.queue = Tail(mb.queue) /\ o.mb.locked
         /\ o.next = Null => o.mb.queue = mb.queue /\ ~o.mb.locked
  <1>1. CASE CanRemove(mb) /\ o = [mb |-> Removed(mb), next |-> Head(mb.queue)]
    <2>1. Head(mb.queue) \in Runnable
      BY SMTT(30), <1>1 DEF CanRemove, MailboxType
    <2>2. /\ Removed(mb) \in MailboxType /\ Removed(mb).queue = Tail(mb.queue)
          /\ Removed(mb).inflight = mb.inflight /\ Removed(mb).locked
      <3>1. Tail(mb.queue) \in Seq(Runnable)
        BY SMTT(30), <1>1 DEF CanRemove, MailboxType
      <3>2. QED
        BY Zenon, <1>1, <3>1 DEF CanRemove, MailboxType, Removed
    <2>3. QED
      BY Zenon, <1>1, <2>1, <2>2, ConstantTypes DEF CanRemove, IsWakeable
  <1>2. CASE CanUnlock(mb) /\ o = [mb |-> Released(mb), next |-> Null]
    <2>1. /\ Released(mb) \in MailboxType /\ Released(mb).queue = mb.queue
          /\ Released(mb).inflight = mb.inflight /\ ~Released(mb).locked
      BY Zenon, <1>2 DEF CanUnlock, MailboxType, Released
    <2>2. QED
      BY Zenon, <1>2, <2>1 DEF CanUnlock, IsWakeable
  <1>3. QED
    BY Zenon, <1>1, <1>2 DEF PopOutcomes

-----------------------------------------------------------------------------
(* What a call in progress relies on.  One that may continue on its thread *)
(* without asking the scheduler was made by a task that ran alone there.   *)
FrameOK(t) ==
  LET f == call[t] IN
  /\ f.step = "none" => f = NoCall
  /\ f.step # "none" => f.r \in Runnable /\ f.to \in Context /\ f.from # f.to
  /\ f.step = "prepare" \/ f.inline => context[f.r] = f.to
  /\ f.step = "publish" => f.r \in mailbox[f.to].inflight
  /\ f.step = "more" => f.more # Null
  /\ f.more # Null => f.from \in Context /\ context[f.more] = f.from
  /\ f.inline => f.step = "more" /\ AtHome(t, f.to) /\ ~HasCurrent(stack[t])
  /\ f.step # "none" /\ ~AsksPreempt(f) =>
       AtHome(t, f.from) /\ ~HasCurrent(stack[t])

Frames == \A t \in Thread : FrameOK(t)

(* A push in flight is one thread's. *)
Publishing(t, c, r) == call[t].step = "publish" /\ call[t].to = c /\ call[t].r = r

Pushes ==
  /\ \A t, u \in Thread :
       call[t].step = "publish" /\ call[u].step = "publish" /\ call[t].r = call[u].r => t = u
  /\ \A c \in Context : \A r \in mailbox[c].inflight :
       IsIn(mailbox[c].queue, r) /\ \E t \in Thread : Publishing(t, c, r)

(* A runnable waits in the mailbox of its context, once. *)
Queues ==
  \A c \in Context :
    /\ NoDuplicates(mailbox[c].queue)
    /\ \A r \in Runnable : IsIn(mailbox[c].queue, r) => context[r] = c
    /\ IsWakeable(mailbox[c])

(* A runnable is scheduled by the scheduler of its context. *)
Readies ==
  \A s \in Scheduler : \A r \in ready[s] : context[r] \in Context /\ SchedulerOf[context[r]] = s

(* A coroutine that runs in a context, or is about to go on in it, runs on *)
(* a thread where its scheduler allows it, and on top of no other task.    *)
Stacks ==
  \A t \in Thread : \A i \in DOMAIN stack[t] :
    LET e == stack[t][i] IN
    e.kind # "leave" /\ EntryContext(e) # None =>
      /\ AtHome(t, EntryContext(e))
      /\ \A j \in 1..(i - 1) : stack[t][j].kind # "task"

LocalInv == TypeOK /\ Frames /\ Pushes /\ Queues /\ Readies /\ Stacks

(* Where runnable r is: every way to be in Places. *)
OnStack(r, x, i) == x \in Thread /\ i \in DOMAIN stack[x] /\ Carries(stack[x][i], r)

Placed(r, k, x, i) ==
  \/ k = "fresh" /\ x = Null /\ i = 0 /\ r \in fresh
  \/ k = "waiting" /\ x = Null /\ i = 0 /\ r \in waiting
  \/ k = "ready" /\ x \in Scheduler /\ i = 0 /\ r \in ready[x]
  \/ k = "queue" /\ x \in Context /\ i = 0 /\ IsIn(mailbox[x].queue, r)
  \/ k = "entry" /\ OnStack(r, x, i)
  \/ k = "call" /\ x \in Thread /\ i = 0 /\ InHand(call[x], r)

(* Who keeps the lock of context c: every way to be in Holders. *)
KeepsEntry(c, x, i) == x \in Thread /\ i \in DOMAIN stack[x] /\ EntryContext(stack[x][i]) = c

Keeps(c, k, x, i) ==
  \/ k = "entry" /\ KeepsEntry(c, x, i)
  \/ k = "ready" /\ i = 0 /\ context[x] = c /\ \E s \in Scheduler : x \in ready[s]
  \/ k = "call" /\ i = 0 /\ x \in Thread /\ c \in FrameContexts(call[x])

OnceAt(r) ==
  /\ \E k, x, i : Placed(r, k, x, i)
  /\ \A k, x, i, l, y, j : Placed(r, k, x, i) /\ Placed(r, l, y, j) => k = l /\ x = y /\ i = j

Once == \A r \in Runnable : OnceAt(r)

KeptOnce(c) ==
  /\ \E k, x, i : Keeps(c, k, x, i)
  /\ \A k, x, i, l, y, j : Keeps(c, k, x, i) /\ Keeps(c, l, y, j) => k = l /\ x = y /\ i = j

NotKept(c) == \A k, x, i : ~Keeps(c, k, x, i)

(* A locked mailbox has one keeper, an unlocked one none. *)
Held ==
  \A c \in Context : IF mailbox[c].locked THEN KeptOnce(c) ELSE NotKept(c)

Inv == LocalInv /\ Once /\ Held

-----------------------------------------------------------------------------
(***************************************************************************)
(* Steps on a stack.                                                       *)
(***************************************************************************)

(* The stack without its top. *)
LEMMA BelowTop ==
  ASSUME TypeOK, NEW t \in Thread, stack[t] # <<>>
  PROVE  /\ Len(stack[t]) \in Nat \ {0} /\ DOMAIN stack[t] = 1..Len(stack[t])
         /\ Top(t) \in Entry /\ Below(t) \in Seq(Entry) /\ Len(Below(t)) = Len(stack[t]) - 1
         /\ \A i \in 1..(Len(stack[t]) - 1) : Below(t)[i] = stack[t][i]
  <1> DEFINE s == stack[t]  n == Len(s)
  <1>1. s \in Seq(Entry) /\ n \in Nat \ {0} /\ DOMAIN s = 1..n
    BY SMTT(30) DEF TypeOK
  <1>2. Top(t) \in Entry
    BY SMTT(30), <1>1 DEF Top
  <1>3. /\ SubSeq(s, 1, n - 1) \in Seq(Entry) /\ Len(SubSeq(s, 1, n - 1)) = n - 1
        /\ \A i \in 1..(n - 1) : SubSeq(s, 1, n - 1)[i] = s[i]
    <2> HIDE DEF s
    <2>1. QED
      BY SMTT(30), <1>1
  <1>4. QED
    BY Zenon, <1>1, <1>2, <1>3 DEF Below

(* A part st of the stack of t is left, and the context of r may change,   *)
(* who is not in what is left.                                             *)
LEMMA StackKeeps ==
  ASSUME TypeOK, NEW t \in Thread, NEW st \in Seq(Entry), NEW r,
         Len(st) <= Len(stack[t]), \A i \in 1..Len(st) : st[i] = stack[t][i],
         stack' = [stack EXCEPT ![t] = st],
         \A q \in Runnable \ {r} : context'[q] = context[q],
         \A x, i : OnStack(r, x, i) => x = t /\ i > Len(st)
  PROVE  /\ stack' \in [Thread -> Seq(Entry)]
         /\ \A q, x, i : OnStack(q, x, i)' <=> OnStack(q, x, i) /\ (x = t => i <= Len(st))
         /\ \A c, x, i : KeepsEntry(c, x, i)' <=> KeepsEntry(c, x, i) /\ (x = t => i <= Len(st))
         /\ Stacks => Stacks'
         /\ \A u \in Thread \ {t} : stack'[u] = stack[u]
         /\ HasCurrent(st) => HasCurrent(stack[t])
  <1> DEFINE m == Len(st)  n == Len(stack[t])
  <1>1. /\ m \in Nat /\ n \in Nat /\ m <= n /\ DOMAIN st = 1..m /\ DOMAIN stack[t] = 1..n
        /\ stack \in [Thread -> Seq(Entry)]
    BY SMTT(30) DEF TypeOK
  <1>2. stack' \in [Thread -> Seq(Entry)] /\ stack'[t] = st /\ \A u \in Thread \ {t} : stack'[u] = stack[u]
    BY Zenon, <1>1
  <1>3. \A i \in 1..m : st[i] = stack[t][i] /\ i \in 1..n
    BY SMTT(30), <1>1
  <1>4. \A x \in Thread : \A i : i \in DOMAIN stack'[x] <=> i \in DOMAIN stack[x] /\ (x = t => i <= m)
    BY SMTT(30), <1>1, <1>2
  <1>5. \A x \in Thread : \A i \in DOMAIN stack'[x] : stack'[x][i] = stack[x][i] /\ i \in DOMAIN stack[x]
    BY Zenon, <1>1, <1>2, <1>3
  <1> HIDE DEF m, n
  <1>6. ASSUME NEW x \in Thread, NEW i \in DOMAIN stack'[x]
        PROVE  EntryContext(stack[x][i])' = EntryContext(stack[x][i])
    <2>1. stack[x][i] \in Entry /\ stack'[x][i] = stack[x][i] /\ i \in DOMAIN stack[x] /\ (x = t => i <= m)
      BY SMTT(30), <1>1, <1>4, <1>5
    <2>2. stack[x][i].kind = "task" => stack[x][i].r # r
      BY SMTT(30), <2>1, <1>1, <1>4 DEF OnStack, Carries, m
    <2>3. QED
      BY SMTT(30), <2>1, <2>2 DEF EntryContext, Entry
  <1>7. \A q, x, i : OnStack(q, x, i)' <=> OnStack(q, x, i) /\ (x = t => i <= m)
    BY SMTT(30), <1>4, <1>5 DEF OnStack, Carries
  <1>8. \A c, x, i : KeepsEntry(c, x, i)' <=> KeepsEntry(c, x, i) /\ (x = t => i <= m)
    BY SMTT(30), <1>4, <1>5, <1>6 DEF KeepsEntry
  <1>9. ASSUME Stacks PROVE Stacks'
    <2>1. ASSUME NEW x \in Thread, NEW i \in DOMAIN stack'[x], NEW j \in 1..(i - 1)
          PROVE  stack'[x][j] = stack[x][j]
      <3>1. j \in DOMAIN stack'[x]
        BY SMTT(30), <1>2, <2>1
      <3>2. QED
        BY Zenon, <1>5, <3>1
    <2>2. QED
      BY SMTT(30), <1>5, <1>6, <1>9, <2>1 DEF Stacks
  <1>10. HasCurrent(st) => HasCurrent(stack[t])
    BY Zenon, <1>1, <1>3 DEF HasCurrent
  <1>11. QED
    BY Zenon, <1>2, <1>7, <1>8, <1>9, <1>10 DEF m

(* The same, and entry e is the new top. *)
LEMMA StackAdds ==
  ASSUME TypeOK, NEW t \in Thread, NEW st \in Seq(Entry), NEW r, NEW e \in Entry,
         Len(st) <= Len(stack[t]), \A i \in 1..Len(st) : st[i] = stack[t][i],
         stack' = [stack EXCEPT ![t] = Append(st, e)],
         \A q \in Runnable \ {r} : context'[q] = context[q],
         \A x, i : OnStack(r, x, i) => x = t /\ i > Len(st)
  PROVE  /\ stack' \in [Thread -> Seq(Entry)]
         /\ \A q, x, i : OnStack(q, x, i)' <=>
              \/ OnStack(q, x, i) /\ (x = t => i <= Len(st))
              \/ x = t /\ i = Len(st) + 1 /\ Carries(e, q)
         /\ \A c, x, i : KeepsEntry(c, x, i)' <=>
              \/ KeepsEntry(c, x, i) /\ (x = t => i <= Len(st))
              \/ x = t /\ i = Len(st) + 1 /\ EntryContext(e)' = c
         /\ /\ Stacks
            /\ e.kind # "leave" /\ EntryContext(e)' # None =>
                 AtHome(t, EntryContext(e)') /\ ~HasCurrent(st)
            => Stacks'
         /\ \A u \in Thread \ {t} : stack'[u] = stack[u]
  <1> DEFINE m == Len(st)  n == Len(stack[t])  s == Append(st, e)
  <1>1. /\ m \in Nat /\ n \in Nat /\ m <= n /\ DOMAIN st = 1..m /\ DOMAIN stack[t] = 1..n
        /\ stack \in [Thread -> Seq(Entry)]
    BY SMTT(30) DEF TypeOK
  <1>2. /\ s \in Seq(Entry) /\ DOMAIN s = 1..(m + 1) /\ s[m + 1] = e
        /\ \A i \in 1..m : s[i] = st[i]
    OBVIOUS
  <1> HIDE DEF s
  <1>3. stack' \in [Thread -> Seq(Entry)] /\ stack'[t] = s /\ \A u \in Thread \ {t} : stack'[u] = stack[u]
    BY Zenon, <1>1, <1>2 DEF s
  <1>4. \A i \in 1..m : s[i] = stack[t][i] /\ i \in 1..n
    BY SMTT(30), <1>1, <1>2
  <1>5. \A x \in Thread : \A i : i \in DOMAIN stack'[x] <=>
          (i \in DOMAIN stack[x] /\ (x = t => i <= m)) \/ (x = t /\ i = m + 1)
    BY SMTT(30), <1>1, <1>2, <1>3
  <1>6. \A x \in Thread : \A i \in DOMAIN stack[x] : (x = t => i <= m) => stack'[x][i] = stack[x][i]
    BY SMTT(30), <1>1, <1>3, <1>4
  <1>7. stack'[t][m + 1] = e /\ \A i \in DOMAIN stack[t] : i <= m => i # m + 1
    BY SMTT(30), <1>1, <1>2, <1>3
  <1> HIDE DEF m, n
  <1>8. ASSUME NEW x \in Thread, NEW i \in DOMAIN stack[x], x = t => i <= m
        PROVE  EntryContext(stack[x][i])' = EntryContext(stack[x][i])
    <2>1. stack[x][i] \in Entry /\ stack'[x][i] = stack[x][i]
      BY SMTT(30), <1>1, <1>6, <1>8
    <2>2. stack[x][i].kind = "task" => stack[x][i].r # r
      BY SMTT(30), <2>1, <1>1, <1>8 DEF OnStack, Carries, m
    <2>3. stack[x][i].kind = "task" => context'[stack[x][i].r] = context[stack[x][i].r]
      BY Zenon, <2>1, <2>2 DEF Entry
    <2>4. QED
      BY ONLY Zenon, <2>1, <2>3 DEF EntryContext
  <1>9. EntryContext(stack[t][m + 1])' = EntryContext(e)'
    BY SMTT(30), <1>7 DEF EntryContext, m
  <1>10. \A q, x, i : OnStack(q, x, i)' <=>
           (OnStack(q, x, i) /\ (x = t => i <= m)) \/ (x = t /\ i = m + 1 /\ Carries(e, q))
    BY SMTT(30), <1>5, <1>6, <1>7 DEF OnStack, Carries
  <1>11. \A c, x, i : KeepsEntry(c, x, i)' <=>
           (KeepsEntry(c, x, i) /\ (x = t => i <= m)) \/ (x = t /\ i = m + 1 /\ EntryContext(e)' = c)
    BY SMTT(30), <1>5, <1>7, <1>8, <1>9 DEF KeepsEntry
  <1>12. ASSUME Stacks,
                e.kind # "leave" /\ EntryContext(e)' # None =>
                  AtHome(t, EntryContext(e)') /\ ~HasCurrent(st)
         PROVE  Stacks'
    <2>1. ASSUME NEW x \in Thread, NEW i \in DOMAIN stack[x], x = t => i <= m, NEW j \in 1..(i - 1)
          PROVE  stack'[x][j] = stack[x][j]
      <3>1. j \in DOMAIN stack[x] /\ (x = t => j <= m)
        BY SMTT(30), <1>1, <2>1
      <3>2. QED
        BY Zenon, <1>6, <3>1
    <2>2. ASSUME ~HasCurrent(st), NEW j \in 1..m PROVE stack'[t][j].kind # "task"
      BY ZenonT(40), <1>1, <1>2, <1>3, <2>2 DEF HasCurrent
    <2>3. \A j : j \in 1..((m + 1) - 1) => j \in 1..m
      BY SMTT(30), <1>1
    <2>4. ASSUME NEW x \in Thread, NEW i \in DOMAIN stack[x], x = t => i <= m,
                 stack'[x][i].kind # "leave", EntryContext(stack[x][i])' # None
          PROVE  /\ AtHome(x, EntryContext(stack[x][i])')
                 /\ \A j \in 1..(i - 1) : stack'[x][j].kind # "task"
      BY ONLY SMTT(30), <1>6, <1>8, <1>12, <2>1, <2>4, x \in Thread, i \in DOMAIN stack[x] DEF Stacks
    <2>5. ASSUME stack'[t][m + 1].kind # "leave", EntryContext(e)' # None
          PROVE  /\ AtHome(t, EntryContext(e)')
                 /\ \A j \in 1..((m + 1) - 1) : stack'[t][j].kind # "task"
      BY Zenon, <1>7, <1>12, <2>2, <2>3, <2>5
    <2>6. QED
      BY ONLY Zenon, <1>5, <1>9, <2>4, <2>5, t \in Thread DEF Stacks, AtHome
  <1>13. QED
    BY Zenon, <1>3, <1>10, <1>11, <1>12 DEF m

-----------------------------------------------------------------------------
(***************************************************************************)
(* One place for each runnable, one keeper for each lock.                  *)
(***************************************************************************)

NotQueued(r) == \A c \in Context : ~IsIn(mailbox[c].queue, r)

NotReady(r) == \A s \in Scheduler : r \notin ready[s]

NotInHand(r) == \A u \in Thread : ~InHand(call[u], r)

NotOnStack(r) == \A x, i : ~OnStack(r, x, i)

NotAtRest(r) == r \notin fresh /\ r \notin waiting

(* The ways to be somewhere, by kind. *)
LEMMA PlacedBy ==
  ASSUME NEW r
  PROVE  /\ r \in fresh => Placed(r, "fresh", Null, 0)
         /\ r \in waiting => Placed(r, "waiting", Null, 0)
         /\ \A s \in Scheduler : r \in ready[s] => Placed(r, "ready", s, 0)
         /\ \A c \in Context : IsIn(mailbox[c].queue, r) => Placed(r, "queue", c, 0)
         /\ \A x, i : OnStack(r, x, i) => Placed(r, "entry", x, i)
         /\ \A u \in Thread : InHand(call[u], r) => Placed(r, "call", u, 0)
  BY Zenon DEF Placed

(* A runnable on a stack is nowhere else. *)
LEMMA OnlyOnStack ==
  ASSUME Once, NEW r \in Runnable, NEW x, NEW i, OnStack(r, x, i)
  PROVE  /\ NotQueued(r) /\ NotReady(r) /\ NotInHand(r) /\ NotAtRest(r)
         /\ \A y, j : OnStack(r, y, j) => y = x /\ j = i
  <1>1. Placed(r, "entry", x, i)
    BY Zenon DEF Placed
  <1>2. \A l, y, j : Placed(r, l, y, j) => l = "entry" /\ y = x /\ j = i
    BY Zenon, <1>1 DEF Once, OnceAt
  <1>3. \A l, y, j : Placed(r, l, y, j) => l = "entry"
    BY Zenon, <1>2
  <1>4. NotQueued(r) /\ NotReady(r) /\ NotInHand(r) /\ NotAtRest(r)
    BY ONLY Zenon, <1>3, PlacedBy, r \in Runnable DEF NotQueued, NotReady, NotInHand, NotAtRest
  <1>5. QED
    BY SMTT(30), <1>2, <1>4, PlacedBy

(* So is one that is not started, or suspended in an awaiter. *)
LEMMA OnlyAtRest ==
  ASSUME Once, NEW r \in Runnable, r \in fresh \/ r \in waiting
  PROVE  /\ NotQueued(r) /\ NotReady(r) /\ NotInHand(r) /\ NotOnStack(r)
         /\ ~(r \in fresh /\ r \in waiting)
  <1>1. CASE r \in fresh
    <2>1. \A l, y, j : Placed(r, l, y, j) => l = "fresh"
      BY Zenon, <1>1, PlacedBy DEF Once, OnceAt
    <2>2. QED
      BY Zenon, <2>1, PlacedBy DEF NotQueued, NotReady, NotInHand, NotOnStack
  <1>2. CASE r \in waiting
    <2>1. \A l, y, j : Placed(r, l, y, j) => l = "waiting"
      BY Zenon, <1>2, PlacedBy DEF Once, OnceAt
    <2>2. QED
      BY Zenon, <2>1, PlacedBy DEF NotQueued, NotReady, NotInHand, NotOnStack
  <1>3. QED
    BY Zenon, <1>1, <1>2

(* So is one that is scheduled. *)
LEMMA OnlyReady ==
  ASSUME Once, NEW r \in Runnable, NEW s \in Scheduler, r \in ready[s]
  PROVE  /\ NotQueued(r) /\ NotInHand(r) /\ NotOnStack(r) /\ NotAtRest(r)
         /\ \A x \in Scheduler : r \in ready[x] => x = s
  <1>1. Placed(r, "ready", s, 0)
    BY Zenon DEF Placed
  <1>2. \A l, y, j : Placed(r, l, y, j) => l = "ready" /\ y = s /\ j = 0
    BY Zenon, <1>1 DEF Once, OnceAt
  <1>3. \A l, y, j : Placed(r, l, y, j) => l = "ready"
    BY Zenon, <1>2
  <1>4. NotQueued(r) /\ NotInHand(r) /\ NotOnStack(r) /\ NotAtRest(r)
    BY ONLY Zenon, <1>3, PlacedBy, r \in Runnable DEF NotQueued, NotInHand, NotOnStack, NotAtRest
  <1>5. QED
    BY SMTT(30), <1>2, <1>4, PlacedBy

(* So is one in a mailbox. *)
LEMMA OnlyQueued ==
  ASSUME Once, NEW r \in Runnable, NEW c \in Context, IsIn(mailbox[c].queue, r)
  PROVE  /\ NotReady(r) /\ NotInHand(r) /\ NotOnStack(r) /\ NotAtRest(r)
         /\ \A x \in Context : IsIn(mailbox[x].queue, r) => x = c
  <1>1. Placed(r, "queue", c, 0)
    BY Zenon DEF Placed
  <1>2. \A l, y, j : Placed(r, l, y, j) => l = "queue" /\ y = c /\ j = 0
    BY Zenon, <1>1 DEF Once, OnceAt
  <1>3. \A l, y, j : Placed(r, l, y, j) => l = "queue"
    BY Zenon, <1>2
  <1>4. NotReady(r) /\ NotInHand(r) /\ NotOnStack(r) /\ NotAtRest(r)
    BY ONLY Zenon, <1>3, PlacedBy, r \in Runnable DEF NotReady, NotInHand, NotOnStack, NotAtRest
  <1>5. QED
    BY SMTT(30), <1>2, <1>4, PlacedBy

(* So is one that a call has taken. *)
LEMMA OnlyInHand ==
  ASSUME Once, NEW r \in Runnable, NEW t \in Thread, InHand(call[t], r)
  PROVE  /\ NotQueued(r) /\ NotReady(r) /\ NotOnStack(r) /\ NotAtRest(r)
         /\ \A u \in Thread : InHand(call[u], r) => u = t
  <1>1. Placed(r, "call", t, 0)
    BY Zenon DEF Placed
  <1>2. \A l, y, j : Placed(r, l, y, j) => l = "call" /\ y = t /\ j = 0
    BY Zenon, <1>1 DEF Once, OnceAt
  <1>3. \A l, y, j : Placed(r, l, y, j) => l = "call"
    BY Zenon, <1>2
  <1>4. NotQueued(r) /\ NotReady(r) /\ NotOnStack(r) /\ NotAtRest(r)
    BY ONLY Zenon, <1>3, PlacedBy, r \in Runnable DEF NotQueued, NotReady, NotOnStack, NotAtRest
  <1>5. QED
    BY SMTT(30), <1>2, <1>4, PlacedBy

(* A runnable that is in one place only. *)
OnlyAt(r, l, y, j) == \A k, x, i : Placed(r, k, x, i) <=> k = l /\ x = y /\ i = j

(* A runnable with one new place is in one place after the step. *)
LEMMA NewPlace ==
  ASSUME NEW r, NEW l, NEW y, NEW j, OnlyAt(r, l, y, j)'
  PROVE  OnceAt(r)'
  <1>1. Placed(r, l, y, j)'
    BY Zenon DEF OnlyAt
  <1>2. QED
    BY SMTT(30), <1>1 DEF OnceAt, OnlyAt

(* Once is kept when every runnable stays where it is or has one new place. *)
LEMMA OnceStep ==
  ASSUME Once,
         \A q \in Runnable :
           OnceAt(q)' \/ \A k, x, i : Placed(q, k, x, i)' <=> Placed(q, k, x, i)
  PROVE  Once'
  BY SMTT(30) DEF Once, OnceAt

(* A lock that has one keeper only. *)
OnlyKeeper(c, l, y, j) == \A k, x, i : Keeps(c, k, x, i) <=> k = l /\ x = y /\ i = j

(* A lock with one new keeper has one keeper after the step. *)
LEMMA NewKeeper ==
  ASSUME NEW c, NEW l, NEW y, NEW j, OnlyKeeper(c, l, y, j)'
  PROVE  KeptOnce(c)'
  <1>1. Keeps(c, l, y, j)'
    BY Zenon DEF OnlyKeeper
  <1>2. QED
    BY SMTT(30), <1>1 DEF KeptOnce, OnlyKeeper

(* Held is kept when every lock keeps its keeper, gets one, or is released. *)
LEMMA HeldStep ==
  ASSUME Held,
         \A c \in Context :
           \/ /\ mailbox'[c].locked <=> mailbox[c].locked
              /\ \A k, x, i : Keeps(c, k, x, i)' <=> Keeps(c, k, x, i)
           \/ mailbox'[c].locked /\ KeptOnce(c)'
           \/ ~mailbox'[c].locked /\ NotKept(c)'
  PROVE  Held'
  <1> SUFFICES ASSUME NEW c \in Context
               PROVE  IF mailbox'[c].locked THEN KeptOnce(c)' ELSE NotKept(c)'
    BY Zenon DEF Held
  <1>1. CASE /\ mailbox'[c].locked <=> mailbox[c].locked
             /\ \A k, x, i : Keeps(c, k, x, i)' <=> Keeps(c, k, x, i)
    <2>1. IF mailbox[c].locked THEN KeptOnce(c) ELSE NotKept(c)
      BY Zenon DEF Held
    <2>2. KeptOnce(c) => KeptOnce(c)'
      BY SMTT(30), <1>1 DEF KeptOnce
    <2>3. NotKept(c) => NotKept(c)'
      BY Zenon, <1>1 DEF NotKept
    <2>4. QED
      BY Zenon, <1>1, <2>1, <2>2, <2>3
  <1>2. QED
    BY Zenon, <1>1

-----------------------------------------------------------------------------
(***************************************************************************)
(* A task that takes a step leaves its place: it was the top of its        *)
(* thread's stack and kept the lock of `from`, or it was at rest.          *)
(***************************************************************************)

Departs(t, r, from, st) ==
  /\ t \in Thread /\ r \in Runnable /\ from \in MaybeContext /\ st \in Seq(Entry)
  /\ call[t] = NoCall
  /\ Len(st) <= Len(stack[t]) /\ \A i \in 1..Len(st) : st[i] = stack[t][i]
  /\ NotQueued(r) /\ NotReady(r) /\ NotInHand(r)
  /\ \A q, x, i : OnStack(q, x, i) /\ (x = t => i <= Len(st)) <=> OnStack(q, x, i) /\ q # r
  /\ \A c \in Context : \A x, i :
       KeepsEntry(c, x, i) /\ (x = t => i <= Len(st)) <=> KeepsEntry(c, x, i) /\ c # from
  /\ from # None =>
       /\ AtHome(t, from) /\ ~HasCurrent(st)
       /\ mailbox[from].locked
       /\ \A k, x, i : Keeps(from, k, x, i) => k = "entry"

(* The task moves to context `to`. *)
Rebinds(r, to) ==
  /\ to \in MaybeContext
  /\ context' = [context EXCEPT ![r] = to]

(* The same, and it is not at rest any more. *)
Moves(r, to) ==
  /\ Rebinds(r, to)
  /\ scheduled' \in [Runnable -> BOOLEAN]
  /\ fresh' = fresh \ {r} /\ waiting' = waiting \ {r}

(* The ways to keep a lock, by kind. *)
LEMMA KeepsBy ==
  ASSUME NEW c
  PROVE  /\ \A x, i : KeepsEntry(c, x, i) => Keeps(c, "entry", x, i)
         /\ \A s \in Scheduler : \A x \in ready[s] : context[x] = c => Keeps(c, "ready", x, 0)
         /\ \A u \in Thread : c \in FrameContexts(call[u]) => Keeps(c, "call", u, 0)
  BY Zenon DEF Keeps

(* A task at rest departs from no context. *)
LEMMA RestDeparts ==
  ASSUME Inv, NEW t \in Thread, NEW r \in Runnable, call[t] = NoCall,
         r \in fresh \/ r \in waiting
  PROVE  Departs(t, r, None, stack[t])
  <1>1. NotQueued(r) /\ NotReady(r) /\ NotInHand(r) /\ NotOnStack(r)
    BY Zenon, OnlyAtRest DEF Inv
  <1>2. /\ stack[t] \in Seq(Entry) /\ Len(stack[t]) \in Nat
        /\ DOMAIN stack[t] = 1..Len(stack[t])
    BY SMTT(30) DEF Inv, LocalInv, TypeOK
  <1>3. \A q, x, i : OnStack(q, x, i) => q # r /\ (x = t => i <= Len(stack[t]))
    BY SMTT(30), <1>1, <1>2 DEF NotOnStack, OnStack
  <1>4. \A c \in Context : \A x, i : KeepsEntry(c, x, i) => c # None /\ (x = t => i <= Len(stack[t]))
    BY SMTT(30), <1>2, ConstantTypes DEF KeepsEntry
  <1>5. QED
    BY SMTT(30), <1>1, <1>2, <1>3, <1>4 DEF Departs, MaybeContext

(* The top entry of a stack, unless it only waits to leave. *)
LEMMA TopDeparts ==
  ASSUME Inv, NEW t \in Thread, call[t] = NoCall, stack[t] # <<>>, Top(t).kind # "leave"
  PROVE  /\ Departs(t, Top(t).r, EntryContext(Top(t)), Below(t))
         /\ NotAtRest(Top(t).r)
  <1> DEFINE n == Len(stack[t])  e == Top(t)  r == e.r  from == EntryContext(e)
  <1> USE DEF Inv, LocalInv
  <1>1. /\ n \in Nat \ {0} /\ DOMAIN stack[t] = 1..n
        /\ e \in Entry /\ Below(t) \in Seq(Entry) /\ Len(Below(t)) = n - 1
        /\ \A i \in 1..(n - 1) : Below(t)[i] = stack[t][i]
    BY Zenon, BelowTop
  <1>2. e = stack[t][n]
    BY Zenon DEF Top
  <1> HIDE DEF n, e
  <1>3. r \in Runnable /\ from \in MaybeContext
    BY Zenon, <1>1 DEF Entry, EntryContext, TypeOK
  <1>4. OnStack(r, t, n) /\ KeepsEntry(from, t, n)
    BY SMTT(30), <1>1, <1>2, Top(t).kind # "leave" DEF OnStack, KeepsEntry, Carries, e
  <1>5. /\ NotQueued(r) /\ NotReady(r) /\ NotInHand(r) /\ NotAtRest(r)
        /\ \A x, i : OnStack(r, x, i) => x = t /\ i = n
    BY Zenon, <1>3, <1>4, OnlyOnStack
  <1>6. \A q, i : OnStack(q, t, i) => i \in 1..n /\ (i = n => q = r)
    BY Zenon, <1>1, <1>2 DEF OnStack, Carries
  <1>7. \A q, x, i : OnStack(q, x, i) /\ (x = t => i <= n - 1) <=> OnStack(q, x, i) /\ q # r
    BY SMTT(30), <1>1, <1>5, <1>6
  <1>8. \A c, i : KeepsEntry(c, t, i) => i \in 1..n /\ (i = n => c = from)
    BY Zenon, <1>1, <1>2 DEF KeepsEntry
  <1>9. ASSUME from # None
        PROVE  /\ mailbox[from].locked
               /\ \A k, x, i : Keeps(from, k, x, i) => k = "entry" /\ x = t /\ i = n
    <2>1. from \in Context
      BY Zenon, <1>3, <1>9 DEF MaybeContext
    <2>2. Keeps(from, "entry", t, n)
      BY Zenon, <1>4, KeepsBy
    <2>3. QED
      BY Zenon, <2>1, <2>2 DEF Held, KeptOnce, NotKept
  <1>10. \A c \in Context : \A x, i :
           KeepsEntry(c, x, i) /\ (x = t => i <= n - 1) <=> KeepsEntry(c, x, i) /\ c # from
    <2>1. ASSUME from # None, NEW x, NEW i, KeepsEntry(from, x, i) PROVE x = t /\ i = n
      <3>1. Keeps(from, "entry", x, i)
        BY Zenon, <2>1 DEF Keeps
      <3>2. QED
        BY SMTT(30), <1>9, <2>1, <3>1
    <2>2. QED
      BY SMTT(30), <1>1, <1>8, <2>1, ConstantTypes
  <1>11. ASSUME from # None PROVE AtHome(t, from) /\ ~HasCurrent(Below(t))
    <2>1. n \in DOMAIN stack[t] /\ stack[t][n].kind # "leave" /\ EntryContext(stack[t][n]) # None
      BY SMTT(30), <1>1, <1>2, <1>11, Top(t).kind # "leave" DEF e
    <2>2. /\ AtHome(t, EntryContext(stack[t][n]))
          /\ \A j \in 1..(n - 1) : stack[t][j].kind # "task"
      BY Zenon, <2>1 DEF Stacks
    <2>3. DOMAIN Below(t) = 1..(n - 1)
      BY SMTT(30), <1>1
    <2>4. QED
      BY Zenon, <1>1, <1>2, <2>2, <2>3 DEF HasCurrent
  <1>12. /\ Len(Below(t)) <= Len(stack[t])
         /\ \A i \in 1..Len(Below(t)) : Below(t)[i] = stack[t][i]
    BY SMTT(30), <1>1 DEF n
  <1>13. Departs(t, r, from, Below(t))
    BY SMTT(30), <1>1, <1>3, <1>5, <1>7, <1>9, <1>10, <1>11, <1>12 DEF Departs
  <1>14. QED
    BY Zenon, <1>5, <1>13 DEF e

(* The stacks once the task has departed. *)
Dropped(t, r, from) ==
  /\ stack' \in [Thread -> Seq(Entry)] /\ Stacks'
  /\ \A u \in Thread \ {t} : stack'[u] = stack[u]
  /\ \A q, x, i : OnStack(q, x, i)' <=> OnStack(q, x, i) /\ q # r
  /\ \A c \in Context : \A x, i : KeepsEntry(c, x, i)' <=> KeepsEntry(c, x, i) /\ c # from

(* What the stacks carry and keep once the task has departed. *)
LEMMA DepartsKeeps ==
  ASSUME Inv, NEW t, NEW r, NEW from, NEW to, NEW st,
         Departs(t, r, from, st), Rebinds(r, to), stack' = [stack EXCEPT ![t] = st]
  PROVE  Dropped(t, r, from)
  <1>1. /\ \A q \in Runnable \ {r} : context'[q] = context[q]
        /\ st \in Seq(Entry) /\ Len(st) \in Nat /\ Len(st) <= Len(stack[t])
        /\ \A i \in 1..Len(st) : st[i] = stack[t][i]
        /\ t \in Thread /\ DOMAIN stack[t] = 1..Len(stack[t]) /\ Len(stack[t]) \in Nat
    BY SMTT(30) DEF Inv, LocalInv, TypeOK, Departs, Rebinds
  <1>2. ASSUME NEW x, NEW i, OnStack(r, x, i) PROVE x = t /\ i > Len(st)
    <2>1. x = t /\ ~(i <= Len(st))
      <3>1. \A q, y, j : OnStack(q, y, j) /\ (y = t => j <= Len(st)) <=> OnStack(q, y, j) /\ q # r
        BY Zenon DEF Departs
      <3>2. QED
        BY ONLY Zenon, <1>2, <3>1
    <2>2. i \in 1..Len(stack[t])
      BY Zenon, <1>1, <1>2, <2>1 DEF OnStack
    <2>3. QED
      BY SMTT(30), <1>1, <2>1, <2>2
  <1>3. /\ stack' \in [Thread -> Seq(Entry)] /\ Stacks'
        /\ \A u \in Thread \ {t} : stack'[u] = stack[u]
        /\ \A q, x, i : OnStack(q, x, i)' <=> OnStack(q, x, i) /\ (x = t => i <= Len(st))
        /\ \A c, x, i : KeepsEntry(c, x, i)' <=> KeepsEntry(c, x, i) /\ (x = t => i <= Len(st))
    BY Zenon, <1>1, <1>2, StackKeeps DEF Inv, LocalInv
  <1>4. QED
    BY Zenon, <1>3 DEF Departs, Dropped

(* The stacks once it is on top again. *)
Stacked(t, r, from, to, n) ==
  /\ stack' \in [Thread -> Seq(Entry)] /\ Stacks'
  /\ \A u \in Thread \ {t} : stack'[u] = stack[u]
  /\ \A q, x, i : OnStack(q, x, i)' <=> (OnStack(q, x, i) /\ q # r) \/ (q = r /\ x = t /\ i = n)
  /\ \A c \in Context : \A x, i :
       KeepsEntry(c, x, i)' <=> (KeepsEntry(c, x, i) /\ c # from) \/ (c = to /\ x = t /\ i = n)

(* The task goes on in its new context, on its thread. *)
GoesOn(t, r, to, st) ==
  /\ stack' = [stack EXCEPT ![t] = Append(st, Task(r))]
  /\ to # None => AtHome(t, to) /\ ~HasCurrent(st)

(* What the stacks carry and keep when the task goes on at once. *)
LEMMA DepartsAdds ==
  ASSUME Inv, NEW t, NEW r, NEW from, NEW to, NEW st,
         Departs(t, r, from, st), Moves(r, to), GoesOn(t, r, to, st)
  PROVE  Stacked(t, r, from, to, Len(st) + 1)
  <1>1. /\ \A q \in Runnable \ {r} : context'[q] = context[q]
        /\ st \in Seq(Entry) /\ Len(st) \in Nat /\ Len(st) <= Len(stack[t])
        /\ \A i \in 1..Len(st) : st[i] = stack[t][i]
        /\ t \in Thread /\ DOMAIN stack[t] = 1..Len(stack[t]) /\ Len(stack[t]) \in Nat
    BY SMTT(30) DEF Inv, LocalInv, TypeOK, Departs, Moves, Rebinds
  <1>2. ASSUME NEW x, NEW i, OnStack(r, x, i) PROVE x = t /\ i > Len(st)
    <2>1. x = t /\ ~(i <= Len(st))
      <3>1. \A q, y, j : OnStack(q, y, j) /\ (y = t => j <= Len(st)) <=> OnStack(q, y, j) /\ q # r
        BY Zenon DEF Departs
      <3>2. QED
        BY ONLY Zenon, <1>2, <3>1
    <2>2. i \in 1..Len(stack[t])
      BY Zenon, <1>1, <1>2, <2>1 DEF OnStack
    <2>3. QED
      BY SMTT(30), <1>1, <2>1, <2>2
  <1> DEFINE e == Task(r)
  <1>3. e \in Entry /\ e.kind = "task" /\ e.r = r
    BY Zenon DEF Task, Entry, MaybeContext, Departs
  <1>4. context'[r] = to
    BY Zenon DEF Moves, Rebinds, Departs, Inv, LocalInv, TypeOK
  <1>5. EntryContext(e)' = to /\ \A q : Carries(e, q) <=> q = r
    BY Zenon, <1>3, <1>4 DEF EntryContext, Carries, Task
  <1>6. stack' = [stack EXCEPT ![t] = Append(st, e)] /\ Stacks /\ TypeOK
    BY Zenon DEF Inv, LocalInv, GoesOn
  <1> HIDE DEF e
  <1>7. /\ stack' \in [Thread -> Seq(Entry)]
        /\ \A q, x, i : OnStack(q, x, i)' <=>
             \/ OnStack(q, x, i) /\ (x = t => i <= Len(st))
             \/ x = t /\ i = Len(st) + 1 /\ Carries(e, q)
        /\ \A c, x, i : KeepsEntry(c, x, i)' <=>
             \/ KeepsEntry(c, x, i) /\ (x = t => i <= Len(st))
             \/ x = t /\ i = Len(st) + 1 /\ EntryContext(e)' = c
        /\ /\ Stacks
           /\ e.kind # "leave" /\ EntryContext(e)' # None =>
                AtHome(t, EntryContext(e)') /\ ~HasCurrent(st)
           => Stacks'
        /\ \A u \in Thread \ {t} : stack'[u] = stack[u]
    BY ONLY Zenon, <1>1, <1>2, <1>3, <1>6, StackAdds
  <1>8. Stacks'
    BY ONLY ZenonT(40), <1>5, <1>6, <1>7, GoesOn(t, r, to, st) DEF GoesOn
  <1>9. \A q, x, i : OnStack(q, x, i)' <=>
          (OnStack(q, x, i) /\ q # r) \/ (q = r /\ x = t /\ i = Len(st) + 1)
    <2>1. \A q, x, i : OnStack(q, x, i) /\ (x = t => i <= Len(st)) <=> OnStack(q, x, i) /\ q # r
      BY ONLY Zenon, Departs(t, r, from, st) DEF Departs
    <2>2. QED
      BY ONLY SMTT(30), <1>5, <1>7, <2>1
  <1>10. \A c \in Context : \A x, i : KeepsEntry(c, x, i)' <=>
           (KeepsEntry(c, x, i) /\ c # from) \/ (c = to /\ x = t /\ i = Len(st) + 1)
    <2>1. \A c \in Context : \A x, i :
            KeepsEntry(c, x, i) /\ (x = t => i <= Len(st)) <=> KeepsEntry(c, x, i) /\ c # from
      BY ONLY Zenon, Departs(t, r, from, st) DEF Departs
    <2>2. QED
      BY ONLY ZenonT(40), <1>5, <1>7, <2>1
  <1>11. QED
    BY ONLY Zenon, <1>7, <1>8, <1>9, <1>10 DEF Stacked

(* The calls of the other threads do not notice a step of t. *)
LEMMA OtherFrames ==
  ASSUME TypeOK, Frames, NEW u \in Thread, call'[u] = call[u], stack'[u] = stack[u],
         \A q \in Runnable : InHand(call[u], q) => context'[q] = context[q],
         \A c \in Context : \A q \in mailbox[c].inflight :
           Publishing(u, c, q) => q \in mailbox'[c].inflight
  PROVE  FrameOK(u)'
  <1> DEFINE f == call[u]
  <1>1. f \in Frame /\ FrameOK(u)
    BY Zenon DEF TypeOK, Frames
  <1>2. f.more # Null => f.more \in Runnable /\ context'[f.more] = context[f.more]
    BY Zenon, <1>1 DEF Frame, InHand, MaybeRunnable
  <1>3. f.step = "prepare" \/ f.inline => context'[f.r] = context[f.r]
    BY Zenon, <1>1 DEF Frame, InHand, FrameOK
  <1>4. f.step = "publish" => f.r \in mailbox'[f.to].inflight
    BY Zenon, <1>1 DEF FrameOK, Publishing
  <1>5. QED
    BY Zenon, <1>1, <1>2, <1>3, <1>4, call'[u] = call[u], stack'[u] = stack[u] DEF FrameOK

(* The calls in progress after a step of a thread that was in none. *)
LEMMA DepartsFrames ==
  ASSUME Inv, NEW t, NEW r, NEW from, NEW to, NEW st,
         Departs(t, r, from, st), Rebinds(r, to), FrameOK(t)',
         \A u \in Thread \ {t} : call'[u] = call[u] /\ stack'[u] = stack[u],
         \A c \in Context : mailbox[c].inflight \subseteq mailbox'[c].inflight
  PROVE  Frames'
  <1> SUFFICES ASSUME NEW u \in Thread, u # t PROVE FrameOK(u)'
    BY Zenon DEF Frames
  <1>1. \A q \in Runnable : InHand(call[u], q) => context'[q] = context[q]
    BY Zenon DEF Departs, NotInHand, Rebinds, Inv, LocalInv, TypeOK
  <1>2. QED
    BY Zenon, <1>1, OtherFrames DEF Inv, LocalInv

(* Thread t is in no call afterwards. *)
LEMMA NoFrame ==
  ASSUME NEW t, call'[t] = NoCall
  PROVE  FrameOK(t)'
  <1>1. /\ NoCall.step = "none" /\ NoCall.more = Null /\ NoCall.inline = FALSE
    BY Zenon DEF NoCall
  <1>2. QED
    BY Zenon, <1>1 DEF FrameOK

(* A thread in no call has nothing in hand and keeps no lock with it. *)
LEMMA NoCallHoldsNothing ==
  /\ \A q \in Runnable : ~InHand(NoCall, q)
  /\ FrameContexts(NoCall) = {}
  /\ NoCall \in Frame
  BY Zenon, ConstantTypes DEF NoCall, InHand, FrameContexts, Frame, MaybeRunnable, MaybeContext

(* When neither mailboxes nor calls change. *)
LEMMA DepartsQuietly ==
  ASSUME Inv, NEW t, NEW r, NEW from, NEW to, NEW st,
         Departs(t, r, from, st), Rebinds(r, to), mailbox' = mailbox, call' = call,
         \A u \in Thread \ {t} : stack'[u] = stack[u]
  PROVE  Frames' /\ Pushes' /\ Queues'
  <1>1. Frames'
    <2>1. t \in Thread /\ call'[t] = NoCall
      BY Zenon DEF Departs
    <2>2. FrameOK(t)'
      BY ONLY Zenon, <2>1, NoFrame
    <2>3. /\ \A u \in Thread \ {t} : call'[u] = call[u] /\ stack'[u] = stack[u]
          /\ \A c \in Context : mailbox[c].inflight \subseteq mailbox'[c].inflight
      BY Zenon
    <2>4. QED
      BY ONLY Zenon, Inv, Departs(t, r, from, st), Rebinds(r, to), <2>2, <2>3, DepartsFrames
  <1>2. Pushes'
    BY SMTT(30) DEF Pushes, Publishing, Inv, LocalInv
  <1>3. \A c \in Context : \A q \in Runnable : IsIn(mailbox[c].queue, q) => context'[q] = context[q]
    BY Zenon DEF Departs, NotQueued, Rebinds, Inv, LocalInv, TypeOK
  <1>4. Queues'
    BY Zenon, <1>3 DEF Queues, Inv, LocalInv
  <1>5. QED
    BY Zenon, <1>1, <1>2, <1>4

(* What a task that departs leaves behind. *)
Moved(r, to) ==
  /\ context' \in [Runnable -> MaybeContext] /\ context'[r] = to
  /\ \A q \in Runnable \ {r} : context'[q] = context[q]
  /\ fresh' \subseteq Runnable /\ waiting' \subseteq Runnable
  /\ scheduled' \in [Runnable -> BOOLEAN]
  /\ r \notin fresh' /\ r \notin waiting'
  /\ \A q \in Runnable \ {r} : (q \in fresh' <=> q \in fresh) /\ (q \in waiting' <=> q \in waiting)
  /\ \A s \in Scheduler : \A q \in ready[s] : q \in Runnable /\ q # r /\ context'[q] = context[q]

(* Rebinding the task changes the context of no other. *)
LEMMA DepartsOthers ==
  ASSUME Inv, NEW t, NEW r, NEW from, NEW to, NEW st, Departs(t, r, from, st), Moves(r, to)
  PROVE  Moved(r, to)
  BY Zenon DEF Departs, NotReady, Moves, Rebinds, Inv, LocalInv, TypeOK, Moved

(* The task goes on in the context it had. *)
LEMMA ContinueInv ==
  ASSUME Inv, NEW t, NEW r, NEW to, NEW st, Departs(t, r, to, st), Moves(r, to),
         stack' = [stack EXCEPT ![t] = Append(st, Task(r))], UNCHANGED <<mailbox, ready, call>>
  PROVE  Inv'
  <1>1. Stacked(t, r, to, to, Len(st) + 1)
    <2>1. GoesOn(t, r, to, st)
      BY Zenon DEF Departs, GoesOn
    <2>2. QED
      BY ONLY Zenon, Inv, Departs(t, r, to, st), Moves(r, to), <2>1, DepartsAdds
  <1>2. Frames' /\ Pushes' /\ Queues'
    BY Zenon, <1>1, DepartsQuietly DEF Stacked, Moves
  <1>3. Moved(r, to)
    BY Zenon, DepartsOthers
  <1>4. TypeOK'
    BY Zenon, <1>1, <1>3 DEF Stacked, Moved, TypeOK, Inv, LocalInv
  <1>5. Readies'
    BY Zenon, <1>3 DEF Moved, Readies, Inv, LocalInv
  <1>6. Once'
    <2>1. ASSUME NEW q \in Runnable, q # r, NEW k, NEW x, NEW i
          PROVE  Placed(q, k, x, i)' <=> Placed(q, k, x, i)
      BY ZenonT(40), <1>1, <1>3, <2>1 DEF Stacked, Moved, Placed
    <2>2. OnlyAt(r, "entry", t, Len(st) + 1)'
      BY SMTT(30), <1>1, <1>3
      DEF Placed, Departs, NotQueued, NotReady, NotInHand, OnlyAt, Stacked, Moved
    <2>3. OnceAt(r)'
      BY ONLY Zenon, <2>2, NewPlace
    <2>4. QED
      BY ONLY Zenon, <2>1, <2>3, Inv, OnceStep DEF Inv
  <1>7. Held'
    <2>1. ASSUME NEW c \in Context, c # to, NEW k, NEW x, NEW i
          PROVE  Keeps(c, k, x, i)' <=> Keeps(c, k, x, i)
      BY Zenon, <1>1, <1>3, <2>1 DEF Stacked, Moved, Keeps
    <2>2. ASSUME to \in Context PROVE OnlyKeeper(to, "entry", t, Len(st) + 1)'
      <3>1. \A l, y, j : Keeps(to, l, y, j) => l = "entry"
        BY Zenon, <2>2, ConstantTypes DEF Departs
      <3>2. \A y, j : ~Keeps(to, "ready", y, j) /\ ~Keeps(to, "call", y, j)
        BY Zenon, <3>1
      <3>3. QED
        BY ZenonT(40), <1>1, <1>3, <2>2, <3>2 DEF Stacked, Moved, Keeps, OnlyKeeper
    <2>3. to \in Context => mailbox[to].locked
      BY Zenon, ConstantTypes DEF Departs
    <2>4. to \in Context => KeptOnce(to)'
      BY ONLY Zenon, <2>2, NewKeeper
    <2>5. QED
      BY ONLY Zenon, <2>1, <2>3, <2>4, Inv, mailbox' = mailbox, HeldStep DEF Inv
  <1>8. QED
    BY Zenon, <1>1, <1>2, <1>4, <1>5, <1>6, <1>7 DEF Stacked, Inv, LocalInv

(* What scheduling does to the schedulers. *)
LEMMA ScheduleAdds ==
  ASSUME TypeOK, NEW c \in Context, NEW x \in Runnable, ready' = Schedule(c, x)
  PROVE  /\ ready' \in [Scheduler -> SUBSET Runnable]
         /\ \A s \in Scheduler : \A q :
              q \in ready'[s] <=> q \in ready[s] \/ (q = x /\ s = SchedulerOf[c])
  BY Zenon, ConstantTypes DEF TypeOK, Schedule

(* The task is scheduled in the context it had. *)
LEMMA RescheduleInv ==
  ASSUME Inv, NEW t, NEW r, NEW to \in Context, NEW st, Departs(t, r, to, st), Moves(r, to),
         stack' = [stack EXCEPT ![t] = st], ready' = Schedule(to, r), UNCHANGED <<mailbox, call>>
  PROVE  Inv'
  <1>1. Dropped(t, r, to)
    BY Zenon, DepartsKeeps DEF Moves
  <1>2. Frames' /\ Pushes' /\ Queues'
    BY Zenon, <1>1, DepartsQuietly DEF Dropped, Moves
  <1>3. Moved(r, to)
    BY Zenon, DepartsOthers
  <1>4. /\ ready' \in [Scheduler -> SUBSET Runnable]
        /\ \A s \in Scheduler : \A q :
             q \in ready'[s] <=> q \in ready[s] \/ (q = r /\ s = SchedulerOf[to])
    BY Zenon, ScheduleAdds DEF Departs, Inv, LocalInv
  <1>5. TypeOK'
    BY Zenon, <1>1, <1>3, <1>4 DEF Dropped, Moved, TypeOK, Inv, LocalInv
  <1>6. Readies'
    BY SMTT(30), <1>3, <1>4 DEF Moved, Readies, Inv, LocalInv
  <1>7. SchedulerOf[to] \in Scheduler
    BY Zenon, ConstantTypes
  <1>8. Once'
    <2>1. ASSUME NEW q \in Runnable, q # r, NEW k, NEW x, NEW i
          PROVE  Placed(q, k, x, i)' <=> Placed(q, k, x, i)
      BY ZenonT(40), <1>1, <1>3, <1>4, <2>1 DEF Dropped, Moved, Placed
    <2>2. OnlyAt(r, "ready", SchedulerOf[to], 0)'
      BY ZenonT(40), <1>1, <1>3, <1>4, <1>7
      DEF Dropped, Moved, Placed, Departs, NotQueued, NotReady, NotInHand, OnlyAt
    <2>3. OnceAt(r)'
      BY ONLY Zenon, <2>2, NewPlace
    <2>4. QED
      BY ONLY Zenon, <2>1, <2>3, Inv, OnceStep DEF Inv
  <1>9. Held'
    <2>1. ASSUME NEW c \in Context, c # to, NEW k, NEW x, NEW i
          PROVE  Keeps(c, k, x, i)' <=> Keeps(c, k, x, i)
      BY Zenon, <1>1, <1>3, <1>4, <2>1 DEF Dropped, Moved, Keeps
    <2>2. OnlyKeeper(to, "ready", r, 0)'
      <3>1. \A l, y, j : Keeps(to, l, y, j) => l = "entry"
        BY Zenon, ConstantTypes DEF Departs
      <3>2. \A y, j : ~Keeps(to, "ready", y, j) /\ ~Keeps(to, "call", y, j)
        BY Zenon, <3>1
      <3>3. QED
        BY SMTT(30), <1>1, <1>3, <1>4, <1>7, <3>2 DEF Dropped, Moved, Keeps, OnlyKeeper
    <2>3. mailbox[to].locked
      BY Zenon, ConstantTypes DEF Departs
    <2>4. KeptOnce(to)'
      BY ONLY Zenon, <2>2, NewKeeper
    <2>5. QED
      BY ONLY Zenon, <2>1, <2>3, <2>4, Inv, mailbox' = mailbox, HeldStep DEF Inv
  <1>10. QED
    BY Zenon, <1>1, <1>2, <1>5, <1>6, <1>8, <1>9 DEF Dropped, Inv, LocalInv

-----------------------------------------------------------------------------
(***************************************************************************)
(* Leaving a context: the next runnable is taken out of its mailbox, or    *)
(* the mailbox is unlocked.                                                *)
(***************************************************************************)

Popped(c, nx) ==
  /\ mailbox' \in [Context -> MailboxType]
  /\ nx \in MaybeRunnable
  /\ nx # Null => IsIn(mailbox[c].queue, nx) /\ context[nx] = c
  /\ \A x \in Context : /\ mailbox'[x].inflight = mailbox[x].inflight
                        /\ nx \notin mailbox[x].inflight
                        /\ NoDuplicates(mailbox'[x].queue) /\ IsWakeable(mailbox'[x])
  /\ \A x \in Context : \A q \in Runnable :
       IsIn(mailbox'[x].queue, q) <=> IsIn(mailbox[x].queue, q) /\ q # nx
  /\ mailbox[c].locked
  /\ mailbox'[c].locked <=> nx # Null
  /\ \A x \in Context \ {c} : mailbox'[x].locked <=> mailbox[x].locked

(* What next_runnable() does to the mailboxes. *)
LEMMA PopStep ==
  ASSUME Inv, NEW c \in Context, NEW o \in PopOutcomes(mailbox[c]),
         mailbox' = [mailbox EXCEPT ![c] = o.mb]
  PROVE  Popped(c, o.next)
  <1> DEFINE mb == mailbox[c]  nx == o.next
  <1>1. /\ mailbox \in [Context -> MailboxType] /\ mb \in MailboxType
        /\ mb.queue \in Seq(Runnable) /\ mb.inflight \subseteq Runnable
        /\ NoDuplicates(mb.queue) /\ \A q \in Runnable : IsIn(mb.queue, q) => context[q] = c
    BY Zenon DEF Inv, LocalInv, TypeOK, MailboxType, Queues
  <1>2. /\ o.mb \in MailboxType /\ mb.locked /\ IsWakeable(o.mb)
        /\ o.mb.inflight = mb.inflight
        /\ nx # Null =>
             /\ mb.queue # <<>> /\ nx = Head(mb.queue) /\ nx \notin mb.inflight
             /\ o.mb.queue = Tail(mb.queue) /\ o.mb.locked
        /\ nx = Null => o.mb.queue = mb.queue /\ ~o.mb.locked
    BY Zenon, <1>1, PopFields
  <1>3. /\ mailbox'[c] = o.mb /\ \A x \in Context \ {c} : mailbox'[x] = mailbox[x]
        /\ mailbox' \in [Context -> MailboxType]
    BY Zenon, <1>1, <1>2
  <1> HIDE DEF nx
  <1>4. ASSUME nx # Null
        PROVE  /\ nx \in Runnable /\ IsIn(mb.queue, nx) /\ NoDuplicates(o.mb.queue)
               /\ \A q : IsIn(o.mb.queue, q) <=> IsIn(mb.queue, q) /\ q # nx
    BY SMTT(30), <1>1, <1>2, <1>4, TailIsIn
  <1>5. ASSUME nx = Null
        PROVE  /\ NoDuplicates(o.mb.queue) /\ nx \notin Runnable
               /\ \A q : IsIn(o.mb.queue, q) <=> IsIn(mb.queue, q)
    BY Zenon, <1>1, <1>2, <1>5, ConstantTypes
  <1>6. \A x \in Context \ {c} : nx # Null => ~IsIn(mailbox[x].queue, nx)
    BY Zenon, <1>4, OnlyQueued DEF Inv
  <1>7. ASSUME NEW x \in Context
        PROVE  nx \notin mailbox[x].inflight
    <2>1. mailbox[x].inflight \subseteq Runnable /\ \A q \in mailbox[x].inflight : IsIn(mailbox[x].queue, q)
      BY Zenon DEF Inv, LocalInv, Pushes, TypeOK
    <2>2. QED
      BY Zenon, <1>2, <1>5, <1>6, <2>1
  <1>8. \A x \in Context : /\ mailbox'[x].inflight = mailbox[x].inflight
                           /\ NoDuplicates(mailbox'[x].queue) /\ IsWakeable(mailbox'[x])
    BY Zenon, <1>2, <1>3, <1>4, <1>5 DEF Inv, LocalInv, Queues
  <1>9. \A x \in Context : \A q \in Runnable :
          IsIn(mailbox'[x].queue, q) <=> IsIn(mailbox[x].queue, q) /\ q # nx
    BY Zenon, <1>3, <1>4, <1>5, <1>6
  <1>10. /\ mailbox[c].locked
         /\ mailbox'[c].locked <=> nx # Null
         /\ \A x \in Context \ {c} : mailbox'[x].locked <=> mailbox[x].locked
    BY Zenon, <1>2, <1>3
  <1>11. nx \in MaybeRunnable /\ (nx # Null => IsIn(mailbox[c].queue, nx) /\ context[nx] = c)
    BY Zenon, <1>1, <1>4 DEF MaybeRunnable
  <1>12. Popped(c, nx)
    BY Zenon, <1>3, <1>7, <1>8, <1>9, <1>10, <1>11 DEF Popped
  <1>13. QED
    BY Zenon, <1>12 DEF nx

(* Who is not in any mailbox, nor scheduled, nor in a call's hand. *)
Apart(q) == NotQueued(q) /\ NotReady(q) /\ NotInHand(q)

(* A pop disturbs no push in flight. *)
LEMMA PopPushes ==
  ASSUME Inv, NEW c \in Context, NEW nx, Popped(c, nx),
         \A u \in Thread : \A x \in Context : \A q : Publishing(u, x, q)' <=> Publishing(u, x, q),
         \A u \in Thread : call'[u].step = "publish" => call[u].step = "publish" /\ call'[u].r = call[u].r
  PROVE  Pushes'
  <1>1. \A t, u \in Thread : call[t].step = "publish" /\ call[u].step = "publish" /\ call[t].r = call[u].r => t = u
    BY Zenon DEF Inv, LocalInv, Pushes
  <1>2. \A t, u \in Thread :
          call'[t].step = "publish" /\ call'[u].step = "publish" /\ call'[t].r = call'[u].r => t = u
    BY Zenon, <1>1
  <1>3. \A x \in Context : \A q \in mailbox[x].inflight :
          q \in Runnable /\ IsIn(mailbox[x].queue, q) /\ \E t \in Thread : Publishing(t, x, q)
    BY Zenon DEF Inv, LocalInv, Pushes, TypeOK
  <1>4. \A x \in Context : \A q \in mailbox'[x].inflight : IsIn(mailbox'[x].queue, q)
    BY Zenon, <1>3 DEF Popped
  <1>5. \A x \in Context : \A q \in mailbox'[x].inflight : \E t \in Thread : Publishing(t, x, q)'
    BY Zenon, <1>3 DEF Popped
  <1>6. QED
    BY Zenon, <1>2, <1>4, <1>5 DEF Pushes

(* Nor does it mix queues. *)
LEMMA PopQueues ==
  ASSUME Inv, NEW c \in Context, NEW nx, Popped(c, nx),
         \A q \in Runnable : context'[q] = context[q] \/ Apart(q)
  PROVE  Queues'
  BY Zenon DEF Inv, LocalInv, Popped, Queues, Apart, NotQueued

(* do_leave: what it pops is scheduled. *)
Left(c, nx) ==
  /\ Popped(c, nx)
  /\ ready' \in [Scheduler -> SUBSET Runnable]
  /\ \A s \in Scheduler : \A q \in Runnable :
       q \in ready'[s] <=> q \in ready[s] \/ (q = nx /\ s = SchedulerOf[c])

(* do_leave() of a context other than none. *)
LEMMA LeaveStep ==
  ASSUME Inv, NEW c \in Context, DoLeave(c)
  PROVE  \E nx : Left(c, nx)
  <1>1. c # None
    BY Zenon, ConstantTypes
  <1>2. PICK o \in PopOutcomes(mailbox[c]) :
          /\ mailbox' = [mailbox EXCEPT ![c] = o.mb]
          /\ ready' = IF o.next = Null THEN ready ELSE Schedule(c, o.next)
    BY Zenon, <1>1 DEF DoLeave
  <1>3. Popped(c, o.next)
    BY Zenon, <1>2, PopStep
  <1>4. CASE o.next = Null
    <2>1. ready' = ready /\ ready \in [Scheduler -> SUBSET Runnable]
      BY Zenon, <1>2, <1>4 DEF Inv, LocalInv, TypeOK
    <2>2. Left(c, o.next)
      BY Zenon, <1>3, <1>4, <2>1, ConstantTypes DEF Left
    <2>3. QED
      BY Zenon, <2>2
  <1>5. CASE o.next # Null
    <2>1. o.next \in Runnable /\ ready' = Schedule(c, o.next)
      BY Zenon, <1>2, <1>3, <1>5 DEF Popped, MaybeRunnable
    <2>2. Left(c, o.next)
      BY Zenon, <1>3, <2>1, ScheduleAdds DEF Left, Inv, LocalInv
    <2>3. QED
      BY Zenon, <2>2
  <1>6. QED
    BY Zenon, <1>4, <1>5

(* The keeper of the lock of c was an entry of a stack, and is gone. *)
Unkept(c) ==
  /\ \A k, x, i : Keeps(c, k, x, i) => k = "entry"
  /\ \A d \in Context : \A x, i : KeepsEntry(d, x, i)' <=> KeepsEntry(d, x, i) /\ d # c

(* What leaving c preserves, whatever becomes of the task that leaves. *)
LEMMA LeaveKeeps ==
  ASSUME Inv, NEW c \in Context, NEW nx, Left(c, nx), Unkept(c), call' = call,
         NEW t \in Thread, call[t] = NoCall, \A u \in Thread \ {t} : stack'[u] = stack[u],
         \A q \in Runnable : context'[q] = context[q] \/ Apart(q)
  PROVE  Frames' /\ Pushes' /\ Queues' /\ Readies' /\ Held'
  <1>1. Popped(c, nx)
    BY Zenon DEF Left
  <1>2. Pushes'
    BY Zenon, <1>1, PopPushes DEF Publishing
  <1>3. Queues'
    BY Zenon, <1>1, PopQueues
  <1>4. Frames'
    <2>1. ASSUME NEW u \in Thread, u # t PROVE FrameOK(u)'
      <3>1. \A q \in Runnable : InHand(call[u], q) => context'[q] = context[q]
        BY Zenon DEF Apart, NotInHand
      <3>2. \A x \in Context : \A q \in mailbox[x].inflight : Publishing(u, x, q) => q \in mailbox'[x].inflight
        BY Zenon, <1>1 DEF Popped
      <3>3. QED
        BY Zenon, <2>1, <3>1, <3>2, OtherFrames DEF Inv, LocalInv
    <2>2. FrameOK(t)'
      BY Zenon, NoFrame
    <2>3. QED
      BY Zenon, <2>1, <2>2 DEF Frames
  <1>5. ASSUME nx # Null
        PROVE  nx \in Runnable /\ context[nx] = c /\ context'[nx] = c /\ SchedulerOf[c] \in Scheduler
    <2>1. nx \in Runnable /\ IsIn(mailbox[c].queue, nx) /\ context[nx] = c
      BY Zenon, <1>1, <1>5 DEF Popped, MaybeRunnable
    <2>2. QED
      BY Zenon, <2>1, ConstantTypes DEF Apart, NotQueued
  <1>6. ready \in [Scheduler -> SUBSET Runnable]
    BY Zenon DEF Inv, LocalInv, TypeOK
  <1>7. \A s \in Scheduler : \A q \in ready[s] : q \in Runnable /\ context'[q] = context[q]
    BY Zenon, <1>6 DEF Apart, NotReady
  <1>8. Readies'
    <2>1. ASSUME NEW s \in Scheduler, NEW q \in ready'[s]
          PROVE  context'[q] \in Context /\ SchedulerOf[context'[q]] = s
      <3>1. q \in Runnable /\ (q \in ready[s] \/ (q = nx /\ s = SchedulerOf[c]))
        BY Zenon DEF Left
      <3>2. CASE q \in ready[s]
        BY Zenon, <1>7, <3>2 DEF Inv, LocalInv, Readies
      <3>3. CASE q = nx /\ s = SchedulerOf[c]
        BY Zenon, <1>5, <3>1, <3>3, ConstantTypes
      <3>4. QED
        BY Zenon, <3>1, <3>2, <3>3
    <2>2. QED
      BY Zenon, <2>1 DEF Readies
  <1>9. \A q : (\E s \in Scheduler : q \in ready'[s]) <=> (\E s \in Scheduler : q \in ready[s]) \/ (nx # Null /\ q = nx)
    BY SMTT(30), <1>5, <1>6, ConstantTypes DEF Left
  <1>10. ASSUME NEW d \in Context, d # c, NEW k, NEW x, NEW i
         PROVE  Keeps(d, k, x, i)' <=> Keeps(d, k, x, i)
    BY Zenon, <1>5, <1>7, <1>9, <1>10 DEF Keeps, Unkept
  <1>11. \A y, j : ~Keeps(c, "ready", y, j) /\ ~Keeps(c, "call", y, j)
    BY Zenon DEF Unkept
  <1>12. ASSUME nx # Null PROVE KeptOnce(c)'
    <2>1. OnlyKeeper(c, "ready", nx, 0)'
      BY Zenon, <1>5, <1>7, <1>9, <1>11, <1>12 DEF Keeps, Unkept, OnlyKeeper
    <2>2. QED
      BY ONLY Zenon, <2>1, NewKeeper
  <1>13. ASSUME nx = Null PROVE NotKept(c)'
    BY SMTT(30), <1>7, <1>9, <1>11, <1>13 DEF Keeps, Unkept, NotKept
  <1>14. \A d \in Context \ {c} : mailbox'[d].locked <=> mailbox[d].locked
    BY Zenon, <1>1 DEF Popped
  <1>15. mailbox'[c].locked <=> nx # Null
    BY Zenon, <1>1 DEF Popped
  <1>16. Held
    BY Zenon DEF Inv
  <1>17. Held'
    BY ONLY Zenon, <1>10, <1>12, <1>13, <1>14, <1>15, <1>16, HeldStep
  <1>18. QED
    BY Zenon, <1>2, <1>3, <1>4, <1>8, <1>17

(* Everyone but the task that leaves stays where they are, except the next *)
(* runnable of the context, which is scheduled.                            *)
LEMMA LeaveOnce ==
  ASSUME Inv, NEW c \in Context, NEW nx, Left(c, nx), call' = call, NEW r,
         \A q \in Runnable \ {r} : \A x, i : OnStack(q, x, i)' <=> OnStack(q, x, i),
         \A q \in Runnable \ {r} : (q \in fresh' <=> q \in fresh) /\ (q \in waiting' <=> q \in waiting),
         r \in Runnable => OnceAt(r)'
  PROVE  Once'
  <1>1. \A x \in Context : \A q \in Runnable :
          IsIn(mailbox'[x].queue, q) <=> IsIn(mailbox[x].queue, q) /\ q # nx
    BY Zenon DEF Left, Popped
  <1>2. \A s \in Scheduler : \A q \in Runnable :
          q \in ready'[s] <=> q \in ready[s] \/ (q = nx /\ s = SchedulerOf[c])
    BY Zenon DEF Left
  <1>3. ASSUME NEW q \in Runnable, q # r, q # nx, NEW k, NEW x, NEW i
        PROVE  Placed(q, k, x, i)' <=> Placed(q, k, x, i)
    BY Zenon, <1>1, <1>2, <1>3 DEF Placed
  <1>4. ASSUME nx \in Runnable, nx # r PROVE OnceAt(nx)'
    <2>1. nx # Null /\ SchedulerOf[c] \in Scheduler
      BY Zenon, <1>4, ConstantTypes
    <2>2. IsIn(mailbox[c].queue, nx)
      BY Zenon, <2>1 DEF Left, Popped
    <2>3. NotReady(nx) /\ NotInHand(nx) /\ NotOnStack(nx) /\ NotAtRest(nx)
      BY Zenon, <1>4, <2>2, OnlyQueued DEF Inv
    <2>4. OnlyAt(nx, "ready", SchedulerOf[c], 0)'
      BY SMTT(30), <1>1, <1>2, <1>4, <2>1, <2>3
         DEF Placed, OnlyAt, NotReady, NotInHand, NotOnStack, NotAtRest
    <2>5. QED
      BY ONLY Zenon, <2>4, NewPlace
  <1>5. QED
    BY ONLY Zenon, <1>3, <1>4, r \in Runnable => OnceAt(r)', Inv, OnceStep DEF Inv

(* The task leaves its context for none, and goes on. *)
LEMMA LeaveContinueInv ==
  ASSUME Inv, NEW t, NEW r, NEW from \in Context, NEW st, Departs(t, r, from, st), Moves(r, None),
         stack' = [stack EXCEPT ![t] = Append(st, Task(r))], DoLeave(from), call' = call
  PROVE  Inv'
  <1>1. PICK nx : Left(from, nx)
    BY Zenon, LeaveStep
  <1>2. Stacked(t, r, from, None, Len(st) + 1)
    <2>1. GoesOn(t, r, None, st)
      BY Zenon DEF GoesOn
    <2>2. QED
      BY ONLY Zenon, Inv, Departs(t, r, from, st), Moves(r, None), <2>1, DepartsAdds
  <1>3. Moved(r, None)
    BY Zenon, DepartsOthers
  <1>4. Unkept(from)
    BY Zenon, <1>2, ConstantTypes DEF Departs, Stacked, Unkept
  <1>5. \A q \in Runnable : context'[q] = context[q] \/ Apart(q)
    BY Zenon, <1>3 DEF Moved, Departs, Apart
  <1>6. t \in Thread /\ call[t] = NoCall /\ \A u \in Thread \ {t} : stack'[u] = stack[u]
    BY Zenon, <1>2 DEF Departs, Stacked
  <1>7. Frames' /\ Pushes' /\ Queues' /\ Readies' /\ Held'
    BY Zenon, <1>1, <1>4, <1>5, <1>6, LeaveKeeps
  <1>8. TypeOK'
    BY Zenon, <1>1, <1>2, <1>3 DEF Left, Popped, MailboxType, Stacked, Moved, TypeOK, Inv, LocalInv
  <1>9. Once'
    <2>1. OnlyAt(r, "entry", t, Len(st) + 1)'
      <3>1. r \in Runnable /\ NotQueued(r) /\ NotReady(r) /\ NotInHand(r) /\ t \in Thread
        BY Zenon DEF Departs
      <3>2. r # nx
        BY ZenonT(40), <1>1, <3>1, ConstantTypes DEF Left, Popped, NotQueued
      <3>3. \A x \in Context : ~IsIn(mailbox'[x].queue, r)
        BY Zenon, <1>1, <3>1 DEF Left, Popped, NotQueued
      <3>4. \A s \in Scheduler : r \notin ready'[s]
        BY Zenon, <1>1, <3>1, <3>2 DEF Left, NotReady
      <3>5. QED
        BY SMTT(30), <1>2, <1>3, <3>1, <3>3, <3>4 DEF Placed, OnlyAt, Stacked, Moved, NotInHand
    <2>2. OnceAt(r)'
      BY ONLY Zenon, <2>1, NewPlace
    <2>3. /\ \A q \in Runnable \ {r} : \A x, i : OnStack(q, x, i)' <=> OnStack(q, x, i)
          /\ \A q \in Runnable \ {r} : (q \in fresh' <=> q \in fresh) /\ (q \in waiting' <=> q \in waiting)
      BY ZenonT(40), <1>2, <1>3 DEF Stacked, Moved
    <2>4. QED
      BY ZenonT(40), <1>1, <2>2, <2>3, LeaveOnce
  <1>10. QED
    BY Zenon, <1>2, <1>7, <1>8, <1>9 DEF Stacked, Inv, LocalInv

(* What Runs says of the top of the stack. *)
LEMMA RunsTop ==
  ASSUME Inv, NEW t \in Thread, NEW r \in Runnable, Runs(t, r)
  PROVE  /\ Departs(t, r, context[r], Below(t)) /\ NotAtRest(r) /\ context[r] \in MaybeContext
         /\ call[t] = NoCall
  <1>1. Top(t).kind = "task" /\ Top(t).r = r /\ call[t] = NoCall /\ stack[t] # <<>>
    BY SMTT(30) DEF Runs, Task
  <1>2. EntryContext(Top(t)) = context[r]
    BY Zenon, <1>1 DEF EntryContext
  <1>3. Departs(t, Top(t).r, EntryContext(Top(t)), Below(t)) /\ NotAtRest(Top(t).r)
    BY Zenon, <1>1, TopDeparts
  <1>4. Departs(t, r, context[r], Below(t)) /\ NotAtRest(r)
    BY Zenon, <1>1, <1>2, <1>3
  <1>5. context[r] \in MaybeContext
    BY Zenon, <1>4 DEF Departs
  <1>6. QED
    BY Zenon, <1>1, <1>4, <1>5

(* final_suspend of a function with a task of its own. *)
LEMMA FinishInv ==
  ASSUME Inv, NEW t \in Thread, NEW r \in Runnable, Finish(t, r)
  PROVE  Inv'
  <1> DEFINE c == context[r]  st == Below(t)
  <1>1. Departs(t, r, c, st) /\ NotAtRest(r) /\ c \in MaybeContext /\ call[t] = NoCall
    BY Zenon, RunsTop DEF Finish
  <1>2. /\ DoLeave(c) /\ stack' = [stack EXCEPT ![t] = st] /\ fresh' = fresh \union {r}
        /\ context' = [context EXCEPT ![r] = None] /\ call' = call /\ scheduled' = scheduled
        /\ waiting' = waiting
    BY Zenon DEF Finish
  <1> HIDE DEF c, st
  <1>3. Rebinds(r, None)
    BY Zenon, <1>2 DEF Rebinds, MaybeContext
  <1>4. Dropped(t, r, c)
    BY Zenon, <1>1, <1>2, <1>3, DepartsKeeps
  <1>5. /\ context' \in [Runnable -> MaybeContext]
        /\ \A q \in Runnable \ {r} : context'[q] = context[q]
        /\ fresh' \subseteq Runnable /\ waiting' \subseteq Runnable
        /\ scheduled' \in [Runnable -> BOOLEAN]
    BY Zenon, <1>2 DEF Inv, LocalInv, TypeOK, MaybeContext
  <1>6. /\ r \in fresh' /\ r \notin waiting'
        /\ \A q \in Runnable \ {r} : (q \in fresh' <=> q \in fresh) /\ (q \in waiting' <=> q \in waiting)
    BY Zenon, <1>1, <1>2 DEF NotAtRest
  <1>7. CASE c = None
    <2>1. mailbox' = mailbox /\ ready' = ready
      BY Zenon, <1>2, <1>7 DEF DoLeave
    <2>2. Frames' /\ Pushes' /\ Queues'
      BY Zenon, <1>1, <1>2, <1>3, <1>4, <2>1, DepartsQuietly DEF Dropped
    <2>3. TypeOK'
      BY Zenon, <1>2, <1>4, <1>5, <2>1 DEF Dropped, Inv, LocalInv, TypeOK
    <2>4. \A s \in Scheduler : \A q \in ready[s] : q \in Runnable /\ q # r /\ context'[q] = context[q]
      BY Zenon, <1>1, <1>5 DEF Departs, NotReady, Inv, LocalInv, TypeOK
    <2>5. Readies'
      BY Zenon, <2>1, <2>4 DEF Readies, Inv, LocalInv
    <2>6. Once'
      <3>1. ASSUME NEW q \in Runnable, q # r, NEW k, NEW x, NEW i
            PROVE  Placed(q, k, x, i)' <=> Placed(q, k, x, i)
        BY ZenonT(40), <1>2, <1>4, <1>6, <2>1, <3>1 DEF Dropped, Placed
      <3>2. OnlyAt(r, "fresh", Null, 0)'
        BY ZenonT(40), <1>1, <1>2, <1>4, <1>6, <2>1
           DEF Dropped, Placed, Departs, NotQueued, NotReady, NotInHand, OnlyAt
      <3>3. OnceAt(r)'
        BY ONLY Zenon, <3>2, NewPlace
      <3>4. QED
        BY ONLY Zenon, <3>1, <3>3, Inv, OnceStep DEF Inv
    <2>7. Held'
      <3>1. ASSUME NEW d \in Context, NEW k, NEW x, NEW i
            PROVE  Keeps(d, k, x, i)' <=> Keeps(d, k, x, i)
        BY Zenon, <1>2, <1>4, <1>7, <2>1, <2>4, ConstantTypes DEF Dropped, Keeps
      <3>2. QED
        BY ONLY Zenon, <3>1, <2>1, Inv, HeldStep DEF Inv
    <2>8. QED
      BY Zenon, <1>4, <2>2, <2>3, <2>5, <2>6, <2>7 DEF Dropped, Inv, LocalInv
  <1>8. CASE c \in Context
    <2>1. PICK nx : Left(c, nx)
      BY Zenon, <1>2, <1>8, LeaveStep
    <2>2. Unkept(c)
      BY Zenon, <1>1, <1>4, <1>8, ConstantTypes DEF Departs, Dropped, Unkept
    <2>3. \A q \in Runnable : context'[q] = context[q] \/ Apart(q)
      BY Zenon, <1>1, <1>5 DEF Departs, Apart
    <2>4. \A u \in Thread \ {t} : stack'[u] = stack[u]
      BY Zenon, <1>4 DEF Dropped
    <2>5. Frames' /\ Pushes' /\ Queues' /\ Readies' /\ Held'
      BY Zenon, <1>1, <1>2, <1>8, <2>1, <2>2, <2>3, <2>4, LeaveKeeps
    <2>6. TypeOK'
      BY Zenon, <1>2, <1>4, <1>5, <2>1 DEF Left, Popped, MailboxType, Dropped, TypeOK, Inv, LocalInv
    <2>7. OnceAt(r)'
      <3>1. NotQueued(r) /\ NotReady(r) /\ NotInHand(r)
        BY Zenon, <1>1 DEF Departs
      <3>2. r # nx
        BY SMTT(30), <1>8, <2>1, <3>1, ConstantTypes DEF Left, Popped, NotQueued
      <3>3. \A x \in Context : ~IsIn(mailbox'[x].queue, r)
        BY Zenon, <2>1, <3>1 DEF Left, Popped, NotQueued
      <3>4. \A s \in Scheduler : r \notin ready'[s]
        BY Zenon, <2>1, <3>1, <3>2 DEF Left, NotReady
      <3>5. OnlyAt(r, "fresh", Null, 0)'
        BY SMTT(30), <1>2, <1>4, <1>6, <3>1, <3>3, <3>4 DEF Placed, OnlyAt, Dropped, NotInHand
      <3>6. QED
        BY ONLY Zenon, <3>5, NewPlace
    <2>8. \A q \in Runnable \ {r} : \A x, i : OnStack(q, x, i)' <=> OnStack(q, x, i)
      BY Zenon, <1>4 DEF Dropped
    <2>9. Once'
      BY Zenon, <1>2, <1>6, <1>8, <2>1, <2>7, <2>8, LeaveOnce
    <2>10. QED
      BY Zenon, <1>4, <2>5, <2>6, <2>9 DEF Dropped, Inv, LocalInv
  <1>9. QED
    BY Zenon, <1>1, <1>7, <1>8 DEF MaybeContext

(* The awaiter of a suspended task returns, and the context is left. *)
LEMMA LeaveSuspendedInv ==
  ASSUME Inv, NEW t \in Thread, LeaveSuspended(t)
  PROVE  Inv'
  <1> DEFINE n == Len(stack[t])  e == Top(t)  c == e.c  st == Below(t)
  <1>1. /\ call[t] = NoCall /\ stack[t] # <<>> /\ e.kind = "leave" /\ DoLeave(c)
        /\ stack' = [stack EXCEPT ![t] = st]
        /\ UNCHANGED <<call, context, scheduled, fresh, waiting>>
    BY Zenon DEF LeaveSuspended
  <1>2. /\ n \in Nat \ {0} /\ DOMAIN stack[t] = 1..n
        /\ e \in Entry /\ st \in Seq(Entry) /\ Len(st) = n - 1
        /\ \A i \in 1..(n - 1) : st[i] = stack[t][i]
    BY Zenon, <1>1, BelowTop DEF Inv, LocalInv
  <1>3. e = stack[t][n]
    BY Zenon DEF Top
  <1> HIDE DEF n, e, st
  <1>4. c \in MaybeContext /\ EntryContext(e) = c
    BY Zenon, <1>1, <1>2 DEF Entry, EntryContext
  <1>5. /\ stack' \in [Thread -> Seq(Entry)] /\ Stacks'
        /\ \A u \in Thread \ {t} : stack'[u] = stack[u]
        /\ \A q, x, i : OnStack(q, x, i)' <=> OnStack(q, x, i) /\ (x = t => i <= Len(st))
        /\ \A d, x, i : KeepsEntry(d, x, i)' <=> KeepsEntry(d, x, i) /\ (x = t => i <= Len(st))
    <2>1. \A x, i : ~OnStack(Null, x, i)
      <3>1. \A x \in Thread : \A i \in DOMAIN stack[x] : stack[x][i].r \in Runnable
        <4>1. \A x \in Thread : \A i \in DOMAIN stack[x] : stack[x][i] \in Entry
          BY SMTT(30) DEF Inv, LocalInv, TypeOK
        <4>2. QED
          BY ONLY Zenon, <4>1 DEF Entry
      <3>2. QED
        BY SMTT(30), <3>1, ConstantTypes DEF OnStack, Carries
    <2>2. Len(st) <= Len(stack[t]) /\ \A i \in 1..Len(st) : st[i] = stack[t][i]
      BY SMTT(30), <1>2 DEF n
    <2>3. TypeOK /\ Stacks /\ \A q \in Runnable \ {Null} : context'[q] = context[q]
      BY Zenon, <1>1 DEF Inv, LocalInv
    <2>4. stack' = [stack EXCEPT ![t] = st] /\ st \in Seq(Entry)
      BY Zenon, <1>1, <1>2
    <2>5. QED
      BY ONLY ZenonT(60), <2>1, <2>2, <2>3, <2>4, t \in Thread, StackKeeps
  <1>6. \A q, x, i : OnStack(q, x, i)' <=> OnStack(q, x, i)
    <2>1. \A q, i : OnStack(q, t, i) => i \in 1..n /\ i # n
      BY Zenon, <1>1, <1>2, <1>3 DEF OnStack, Carries
    <2>2. QED
      BY SMTT(30), <1>2, <1>5, <2>1
  <1>7. ASSUME c \in Context
        PROVE  /\ Keeps(c, "entry", t, n)
               /\ \A k, x, i : Keeps(c, k, x, i) => k = "entry" /\ x = t /\ i = n
    <2>1. Keeps(c, "entry", t, n)
      BY SMTT(30), <1>2, <1>3, <1>4 DEF Keeps, KeepsEntry
    <2>2. QED
      BY Zenon, <1>7, <2>1 DEF Inv, Held, KeptOnce, NotKept
  <1>8. \A d \in Context : \A x, i : KeepsEntry(d, x, i)' <=> KeepsEntry(d, x, i) /\ d # c
    <2>1. \A d, i : KeepsEntry(d, t, i) => i \in 1..n /\ (i = n => d = c)
      BY Zenon, <1>2, <1>3, <1>4 DEF KeepsEntry
    <2>2. ASSUME c \in Context, NEW x, NEW i, KeepsEntry(c, x, i) PROVE x = t /\ i = n
      <3>1. Keeps(c, "entry", x, i)
        BY Zenon, <2>2 DEF Keeps
      <3>2. QED
        BY SMTT(30), <1>7, <2>2, <3>1
    <2>3. QED
      BY SMTT(30), <1>2, <1>5, <2>1, <2>2
  <1>9. TypeOK
    BY Zenon DEF Inv, LocalInv
  <1>10. CASE c = None
    <2>1. mailbox' = mailbox /\ ready' = ready
      BY Zenon, <1>1, <1>10 DEF DoLeave
    <2>2. Frames'
      <3>1. ASSUME NEW u \in Thread, u # t PROVE FrameOK(u)'
        BY Zenon, <1>1, <1>5, <1>9, <2>1, <3>1, OtherFrames DEF Inv, LocalInv
      <3>2. FrameOK(t)'
        BY Zenon, <1>1, NoFrame
      <3>3. QED
        BY Zenon, <3>1, <3>2 DEF Frames
    <2>3. Pushes' /\ Queues' /\ Readies'
      BY SMTT(30), <1>1, <2>1 DEF Pushes, Publishing, Queues, Readies, Inv, LocalInv
    <2>4. TypeOK'
      BY Zenon, <1>1, <1>5, <1>9, <2>1 DEF TypeOK
    <2>5. Once'
      <3>1. ASSUME NEW q \in Runnable, NEW k, NEW x, NEW i
            PROVE  Placed(q, k, x, i)' <=> Placed(q, k, x, i)
        BY Zenon, <1>1, <1>6, <2>1 DEF Placed
      <3>2. QED
        BY ONLY Zenon, <3>1, Inv, OnceStep DEF Inv
    <2>6. Held'
      <3>1. ASSUME NEW d \in Context, NEW k, NEW x, NEW i
            PROVE  Keeps(d, k, x, i)' <=> Keeps(d, k, x, i)
        BY Zenon, <1>1, <1>8, <1>10, <2>1, ConstantTypes DEF Keeps
      <3>2. QED
        BY ONLY Zenon, <3>1, <2>1, Inv, HeldStep DEF Inv
    <2>7. QED
      BY Zenon, <1>5, <2>2, <2>3, <2>4, <2>5, <2>6 DEF Inv, LocalInv
  <1>11. CASE c \in Context
    <2>1. PICK nx : Left(c, nx)
      BY Zenon, <1>1, <1>11, LeaveStep
    <2>2. Unkept(c)
      BY Zenon, <1>7, <1>8, <1>11 DEF Unkept
    <2>3. Frames' /\ Pushes' /\ Queues' /\ Readies' /\ Held'
      BY Zenon, <1>1, <1>5, <1>11, <2>1, <2>2, LeaveKeeps
    <2>4. TypeOK'
      BY Zenon, <1>1, <1>5, <1>9, <2>1 DEF Left, Popped, MailboxType, TypeOK
    <2>5. Once'
      BY Zenon, <1>1, <1>6, <1>11, <2>1, ConstantTypes, LeaveOnce
    <2>6. QED
      BY Zenon, <1>5, <2>3, <2>4, <2>5 DEF Inv, LocalInv
  <1>12. QED
    BY Zenon, <1>4, <1>10, <1>11 DEF MaybeContext
-----------------------------------------------------------------------------
(***************************************************************************)
(* Entering a context: push_prepare and push_publish.                      *)
(***************************************************************************)

Prepped(c, r) ==
  /\ mailbox' \in [Context -> MailboxType]
  /\ \A x \in Context : \A q :
       /\ IsIn(mailbox'[x].queue, q) <=> IsIn(mailbox[x].queue, q) \/ (q = r /\ x = c)
       /\ q \in mailbox'[x].inflight <=> q \in mailbox[x].inflight \/ (q = r /\ x = c)
  /\ \A x \in Context : /\ NoDuplicates(mailbox'[x].queue) /\ IsWakeable(mailbox'[x])
                        /\ mailbox'[x].locked <=> mailbox[x].locked

(* What push_prepare() does to the mailboxes. *)
LEMMA PrepareStep ==
  ASSUME Inv, NEW c \in Context, NEW r \in Runnable, NotQueued(r),
         mailbox' = [mailbox EXCEPT ![c] = Prepared(@, r)]
  PROVE  Prepped(c, r)
  <1> DEFINE mb == mailbox[c]  m == Prepared(mb, r)
  <1>1. /\ mailbox \in [Context -> MailboxType] /\ mb \in MailboxType
        /\ mb.queue \in Seq(Runnable) /\ NoDuplicates(mb.queue) /\ ~IsIn(mb.queue, r)
    BY Zenon DEF Inv, LocalInv, TypeOK, MailboxType, Queues, NotQueued
  <1>2. /\ m \in MailboxType /\ m.queue = Append(mb.queue, r)
        /\ m.inflight = mb.inflight \union {r}
        /\ m.locked <=> mb.locked
        /\ IsWakeable(m)
    BY Zenon, <1>1, PreparedFields
  <1> HIDE DEF m
  <1>3. (\A q : IsIn(m.queue, q) <=> IsIn(mb.queue, q) \/ q = r) /\ NoDuplicates(m.queue)
    BY SMTT(30), <1>1, <1>2, AppendIsIn
  <1>4. /\ mailbox'[c] = m /\ \A x \in Context \ {c} : mailbox'[x] = mailbox[x]
        /\ mailbox' \in [Context -> MailboxType]
    BY Zenon, <1>1, <1>2 DEF m
  <1>5. \A x \in Context : NoDuplicates(mailbox[x].queue) /\ IsWakeable(mailbox[x])
    BY Zenon DEF Inv, LocalInv, Queues
  <1>6. \A x \in Context : \A q :
          /\ IsIn(mailbox'[x].queue, q) <=> IsIn(mailbox[x].queue, q) \/ (q = r /\ x = c)
          /\ q \in mailbox'[x].inflight <=> q \in mailbox[x].inflight \/ (q = r /\ x = c)
    BY ONLY Zenon, <1>2, <1>3, <1>4
  <1>7. \A x \in Context : /\ NoDuplicates(mailbox'[x].queue) /\ IsWakeable(mailbox'[x])
                           /\ mailbox'[x].locked <=> mailbox[x].locked
    BY ONLY Zenon, <1>2, <1>3, <1>4, <1>5
  <1>8. QED
    BY Zenon, <1>4, <1>6, <1>7 DEF Prepped

(* The push in flight is the thread's own. *)
LEMMA PreparePushes ==
  ASSUME Inv, NEW c \in Context, NEW r \in Runnable, NotQueued(r), Prepped(c, r),
         NEW t \in Thread, \A u \in Thread \ {t} : call'[u] = call[u],
         call[t].step # "publish", Publishing(t, c, r)'
  PROVE  Pushes'
  <1>1. \A x \in Context : \A q \in mailbox[x].inflight :
          IsIn(mailbox[x].queue, q) /\ \E u \in Thread : Publishing(u, x, q)
    BY Zenon DEF Inv, LocalInv, Pushes
  <1>2. \A u \in Thread : call[u].step = "publish" => call[u].r # r
    <2>1. \A u \in Thread : call[u].step = "publish" => call[u].to \in Context /\ call[u].r \in mailbox[call[u].to].inflight
      BY Zenon DEF Inv, LocalInv, Frames, FrameOK
    <2>2. QED
      BY Zenon, <1>1, <2>1 DEF NotQueued
  <1>3. \A x, u \in Thread :
          call'[x].step = "publish" /\ call'[u].step = "publish" /\ call'[x].r = call'[u].r => x = u
    <2>1. \A x, u \in Thread : call[x].step = "publish" /\ call[u].step = "publish" /\ call[x].r = call[u].r => x = u
      BY Zenon DEF Inv, LocalInv, Pushes
    <2>2. QED
      BY SMTT(30), <1>2, <2>1 DEF Publishing
  <1>4. \A x \in Context : \A q \in mailbox'[x].inflight : IsIn(mailbox'[x].queue, q)
    BY Zenon, <1>1 DEF Prepped
  <1>5. ASSUME NEW x \in Context, NEW q \in mailbox'[x].inflight PROVE \E u \in Thread : Publishing(u, x, q)'
    <2>1. CASE q = r /\ x = c
      BY Zenon, <2>1
    <2>2. CASE q \in mailbox[x].inflight
      <3>1. PICK u \in Thread : Publishing(u, x, q)
        BY Zenon, <1>1, <2>2
      <3>2. u # t
        BY Zenon, <3>1 DEF Publishing
      <3>3. QED
        BY Zenon, <3>1, <3>2 DEF Publishing
    <2>3. QED
      BY Zenon, <2>1, <2>2 DEF Prepped
  <1>6. QED
    BY Zenon, <1>3, <1>4, <1>5 DEF Pushes

(* A runnable enters the mailbox of its context. *)
LEMMA PrepareQueues ==
  ASSUME Inv, NEW c \in Context, NEW r \in Runnable, NotQueued(r), Prepped(c, r),
         context'[r] = c, \A q \in Runnable \ {r} : context'[q] = context[q]
  PROVE  Queues'
  BY SMTT(30) DEF Inv, LocalInv, Prepped, Queues, NotQueued

(* The frame of enter(). *)
EnterFrame(r, c, initial) ==
  [NoCall EXCEPT !.step = "publish", !.r = r, !.to = c, !.initial = initial]

(* The frame of enter() is one, and its fields. *)
LEMMA EnterFrameFields ==
  ASSUME NEW r \in Runnable, NEW c \in Context, NEW b \in BOOLEAN
  PROVE  /\ EnterFrame(r, c, b) \in Frame
         /\ EnterFrame(r, c, b).step = "publish" /\ EnterFrame(r, c, b).r = r
         /\ EnterFrame(r, c, b).to = c /\ EnterFrame(r, c, b).from = None
         /\ EnterFrame(r, c, b).more = Null /\ ~EnterFrame(r, c, b).inline
  BY Zenon DEF EnterFrame, NoCall, Frame, MaybeRunnable, MaybeContext

(* The task enters a context from none. *)
LEMMA EnterInv ==
  ASSUME Inv, NEW t, NEW r, NEW c \in Context, NEW st, NEW b \in BOOLEAN,
         Departs(t, r, None, st), Moves(r, c), DoEnter(t, r, c, b, st)
  PROVE  Inv'
  <1> DEFINE f == EnterFrame(r, c, b)
  <1>1. /\ ready' = ready /\ mailbox' = [mailbox EXCEPT ![c] = Prepared(@, r)]
        /\ call' = [call EXCEPT ![t] = f] /\ stack' = [stack EXCEPT ![t] = st]
    BY Zenon, ConstantTypes DEF DoEnter, EnterFrame
  <1>2. /\ t \in Thread /\ r \in Runnable /\ call[t] = NoCall
        /\ NotQueued(r) /\ NotReady(r) /\ NotInHand(r)
    BY Zenon DEF Departs
  <1>3. /\ f \in Frame /\ f.step = "publish" /\ f.r = r /\ f.to = c /\ f.from = None
        /\ f.more = Null /\ ~f.inline
    BY ONLY SMTT(30), <1>2, c \in Context, b \in BOOLEAN, EnterFrameFields
  <1> HIDE DEF f
  <1>4. /\ call' \in [Thread -> Frame] /\ call'[t] = f
        /\ \A u \in Thread \ {t} : call'[u] = call[u]
    BY Zenon, <1>1, <1>2, <1>3 DEF Inv, LocalInv, TypeOK
  <1>5. Prepped(c, r)
    BY Zenon, <1>1, <1>2, PrepareStep
  <1>6. Dropped(t, r, None)
    BY Zenon, <1>1, DepartsKeeps DEF Moves
  <1>7. Moved(r, c)
    BY Zenon, DepartsOthers
  <1>8. TypeOK'
    BY Zenon, <1>1, <1>4, <1>5, <1>6, <1>7
    DEF Prepped, MailboxType, Dropped, Moved, TypeOK, Inv, LocalInv
  <1>9. Pushes'
    <2>1. Publishing(t, c, r)' /\ call[t].step # "publish"
      BY SMTT(30), <1>2, <1>3, <1>4 DEF Publishing, NoCall
    <2>2. QED
      BY Zenon, <1>2, <1>4, <1>5, <2>1, PreparePushes
  <1>10. Queues'
    BY Zenon, <1>2, <1>5, <1>7, PrepareQueues DEF Moved
  <1>11. Frames'
    <2>1. FrameOK(t)'
      <3>1. r \in mailbox'[c].inflight
        BY Zenon, <1>5 DEF Prepped
      <3>2. QED
        BY Zenon, <1>2, <1>3, <1>4, <3>1, ConstantTypes DEF FrameOK, AsksPreempt
    <2>2. \A x \in Context : mailbox[x].inflight \subseteq mailbox'[x].inflight
      BY Zenon, <1>5 DEF Prepped
    <2>3. QED
      BY Zenon, <1>4, <1>6, <2>1, <2>2, DepartsFrames DEF Dropped, Moves
  <1>12. Readies'
    BY Zenon, <1>1, <1>7 DEF Moved, Readies, Inv, LocalInv
  <1>13. \A q \in Runnable : ~InHand(f, q) /\ ~InHand(NoCall, q)
    BY Zenon, <1>3, NoCallHoldsNothing, ConstantTypes DEF InHand
  <1>14. \A u \in Thread : \A q \in Runnable : InHand(call'[u], q) <=> InHand(call[u], q)
    BY Zenon, <1>2, <1>4, <1>13
  <1>15. \A u \in Thread : FrameContexts(call'[u]) = FrameContexts(call[u])
    <2>1. FrameContexts(f) = {}
      BY Zenon, <1>3 DEF FrameContexts
    <2>2. QED
      BY Zenon, <1>2, <1>4, <2>1, NoCallHoldsNothing
  <1>16. Once'
    <2>1. ASSUME NEW q \in Runnable, q # r, NEW k, NEW x, NEW i
          PROVE  Placed(q, k, x, i)' <=> Placed(q, k, x, i)
      BY Zenon, <1>1, <1>5, <1>6, <1>7, <1>14, <2>1 DEF Prepped, Dropped, Moved, Placed
    <2>2. OnlyAt(r, "queue", c, 0)'
      <3>1. \A x \in Context : IsIn(mailbox'[x].queue, r) <=> x = c
        BY Zenon, <1>2, <1>5 DEF Prepped, NotQueued
      <3>2. /\ \A s \in Scheduler : r \notin ready'[s]
            /\ \A u \in Thread : ~InHand(call'[u], r)
            /\ r \notin fresh' /\ r \notin waiting'
            /\ \A x, i : ~OnStack(r, x, i)'
        BY Zenon, <1>1, <1>2, <1>6, <1>7, <1>14 DEF Dropped, Moved, NotReady, NotInHand
      <3>3. QED
        BY ONLY Zenon, <3>1, <3>2, c \in Context DEF Placed, OnlyAt
    <2>3. OnceAt(r)'
      BY ONLY Zenon, <2>2, NewPlace
    <2>4. QED
      BY ONLY Zenon, <2>1, <2>3, Inv, OnceStep DEF Inv
  <1>17. Held'
    <2>1. ASSUME NEW d \in Context, NEW k, NEW x, NEW i
          PROVE  Keeps(d, k, x, i)' <=> Keeps(d, k, x, i)
      BY Zenon, <1>1, <1>6, <1>7, <1>15, ConstantTypes DEF Dropped, Moved, Keeps
    <2>2. \A d \in Context : mailbox'[d].locked <=> mailbox[d].locked
      BY Zenon, <1>5 DEF Prepped
    <2>3. QED
      BY ONLY Zenon, <2>1, <2>2, Inv, HeldStep DEF Inv
  <1>18. QED
    BY Zenon, <1>6, <1>8, <1>9, <1>10, <1>11, <1>12, <1>16, <1>17 DEF Dropped, Inv, LocalInv

(* The frame of transfer(), once it has popped the old context. *)
MoveFrame(r, from, to, returning, nx) ==
  [NoCall EXCEPT !.step = "prepare", !.r = r, !.from = from, !.to = to,
                 !.returning = returning, !.more = nx]

(* The frame of transfer() is one, and its fields. *)
LEMMA MoveFrameFields ==
  ASSUME NEW r \in Runnable, NEW from \in Context, NEW to \in Context, NEW b \in BOOLEAN,
         NEW nx \in MaybeRunnable
  PROVE  LET f == MoveFrame(r, from, to, b, nx) IN
         /\ f \in Frame /\ f.step = "prepare" /\ f.r = r /\ f.from = from /\ f.to = to
         /\ f.more = nx /\ ~f.inline
  BY Zenon DEF MoveFrame, NoCall, Frame, MaybeRunnable, MaybeContext

(* The task leaves one context for another: transfer(), up to the first pop. *)
LEMMA MoveInv ==
  ASSUME Inv, NEW t, NEW r, NEW from \in Context, NEW to \in Context, NEW b \in BOOLEAN, NEW st,
         from # to, Departs(t, r, from, st), Moves(r, to), ready' = ready,
         stack' = [stack EXCEPT ![t] = st],
         NEW o \in PopOutcomes(mailbox[from]), mailbox' = [mailbox EXCEPT ![from] = o.mb],
         call' = [call EXCEPT ![t] = MoveFrame(r, from, to, b, o.next)]
  PROVE  Inv'
  <1> DEFINE nx == o.next  f == MoveFrame(r, from, to, b, nx)
  <1>1. Popped(from, nx)
    BY Zenon, PopStep
  <1>2. /\ t \in Thread /\ r \in Runnable /\ call[t] = NoCall
        /\ NotQueued(r) /\ NotReady(r) /\ NotInHand(r)
    BY Zenon DEF Departs
  <1>3. /\ f \in Frame /\ f.step = "prepare" /\ f.r = r /\ f.from = from /\ f.to = to
        /\ f.more = nx /\ ~f.inline
    <2>1. nx \in MaybeRunnable
      BY Zenon, <1>1 DEF Popped
    <2>2. QED
      BY ONLY SMTT(30), <1>2, <2>1, from \in Context, to \in Context, b \in BOOLEAN, MoveFrameFields
  <1>4. /\ call' \in [Thread -> Frame] /\ call'[t] = f
        /\ \A u \in Thread \ {t} : call'[u] = call[u]
    <2>1. call' = [call EXCEPT ![t] = f]
      OBVIOUS
    <2> HIDE DEF f
    <2>2. QED
      BY SMTT(30), <1>2, <1>3, <2>1 DEF Inv, LocalInv, TypeOK
  <1> HIDE DEF f, nx
  <1>5. Dropped(t, r, from)
    BY Zenon, DepartsKeeps DEF Moves
  <1>6. Moved(r, to)
    BY Zenon, DepartsOthers
  <1>7. \A q \in Runnable : context'[q] = context[q] \/ Apart(q)
    BY Zenon, <1>2, <1>6 DEF Moved, Apart
  <1>8. TypeOK'
    BY Zenon, <1>1, <1>4, <1>5, <1>6 DEF Popped, MailboxType, Dropped, Moved, TypeOK, Inv, LocalInv
  <1>9. Pushes'
    <2>1. call[t].step # "publish" /\ call'[t].step # "publish"
      BY SMTT(30), <1>2, <1>3, <1>4 DEF NoCall
    <2>2. \A u \in Thread : \A x \in Context : \A q : Publishing(u, x, q)' <=> Publishing(u, x, q)
      BY Zenon, <1>2, <1>4, <2>1 DEF Publishing
    <2>3. \A u \in Thread : call'[u].step = "publish" => call[u].step = "publish" /\ call'[u].r = call[u].r
      BY Zenon, <1>2, <1>4, <2>1
    <2>4. QED
      BY Zenon, <1>1, <2>2, <2>3, PopPushes
  <1>10. Queues'
    BY Zenon, <1>1, <1>7, PopQueues
  <1>11. ASSUME nx # Null PROVE nx \in Runnable /\ nx # r /\ IsIn(mailbox[from].queue, nx) /\ context'[nx] = from
    BY SMTT(30), <1>1, <1>2, <1>6, <1>11 DEF Popped, MaybeRunnable, NotQueued, Moved
  <1>12. Frames'
    <2>1. stack'[t] = st /\ (from # None => AtHome(t, from) /\ ~HasCurrent(st))
      BY Zenon, <1>2 DEF Departs, Inv, LocalInv, TypeOK
    <2>2. FrameOK(t)'
      BY ZenonT(60), <1>2, <1>3, <1>4, <1>6, <1>11, <2>1, ConstantTypes DEF FrameOK, AsksPreempt, Moved
    <2>3. \A x \in Context : mailbox[x].inflight \subseteq mailbox'[x].inflight
      BY Zenon, <1>1 DEF Popped
    <2>4. QED
      BY Zenon, <1>4, <1>5, <2>2, <2>3, DepartsFrames DEF Dropped, Moves
  <1>13. Readies'
    BY SMTT(30), <1>6 DEF Moved, Readies, Inv, LocalInv
  <1>14. \A q \in Runnable : InHand(f, q) <=> q = r \/ q = nx
    BY Zenon, <1>3 DEF InHand
  <1>15. \A q \in Runnable : ~InHand(NoCall, q)
    BY Zenon, NoCallHoldsNothing
  <1>16. Once'
    <2>1. \A x \in Context : \A q \in Runnable :
            IsIn(mailbox'[x].queue, q) <=> IsIn(mailbox[x].queue, q) /\ q # nx
      BY Zenon, <1>1 DEF Popped
    <2>2. \A u \in Thread : \A q \in Runnable : InHand(call'[u], q) <=> InHand(call[u], q) \/ (u = t /\ (q = r \/ q = nx))
      BY Zenon, <1>2, <1>4, <1>14, <1>15
    <2>3. ASSUME NEW q \in Runnable, q # r, q # nx, NEW k, NEW x, NEW i
          PROVE  Placed(q, k, x, i)' <=> Placed(q, k, x, i)
      BY Zenon, <1>5, <1>6, <2>1, <2>2, <2>3 DEF Dropped, Moved, Placed
    <2>4. OnlyAt(r, "call", t, 0)'
      <3>1. /\ \A x \in Context : ~IsIn(mailbox'[x].queue, r)
            /\ \A s \in Scheduler : r \notin ready'[s]
            /\ r \notin fresh' /\ r \notin waiting'
            /\ \A x, i : ~OnStack(r, x, i)'
        BY Zenon, <1>2, <1>5, <1>6, <2>1 DEF Dropped, Moved, NotReady, NotQueued
      <3>2. \A u \in Thread : InHand(call'[u], r) <=> u = t
        BY Zenon, <1>2, <2>2 DEF NotInHand
      <3>3. QED
        BY ONLY SMTT(30), <1>2, <3>1, <3>2 DEF Placed, OnlyAt
    <2>5. ASSUME nx \in Runnable PROVE OnceAt(nx)'
      <3>1. nx # Null
        BY Zenon, <2>5, ConstantTypes
      <3>2. NotReady(nx) /\ NotInHand(nx) /\ NotOnStack(nx) /\ NotAtRest(nx)
        BY Zenon, <1>11, <3>1, OnlyQueued DEF Inv
      <3>3. /\ \A x \in Context : ~IsIn(mailbox'[x].queue, nx)
            /\ \A s \in Scheduler : nx \notin ready'[s]
            /\ nx \notin fresh' /\ nx \notin waiting'
            /\ \A x, i : ~OnStack(nx, x, i)'
        BY Zenon, <1>5, <1>6, <1>11, <2>1, <3>1, <3>2
        DEF Dropped, Moved, NotReady, NotOnStack, NotAtRest
      <3>4. \A u \in Thread : InHand(call'[u], nx) <=> u = t
        BY Zenon, <1>2, <2>2, <2>5, <3>2 DEF NotInHand
      <3>5. OnlyAt(nx, "call", t, 0)'
        BY ONLY SMTT(30), <1>2, <3>3, <3>4 DEF Placed, OnlyAt
      <3>6. QED
        BY ONLY Zenon, <3>5, NewPlace
    <2>6. OnceAt(r)'
      BY ONLY Zenon, <2>4, NewPlace
    <2>7. QED
      BY ONLY Zenon, <2>3, <2>5, <2>6, Inv, OnceStep DEF Inv
  <1>17. Held'
    <2>1. FrameContexts(f) = (IF nx # Null THEN {from} ELSE {})
      BY Zenon, <1>3 DEF FrameContexts
    <2>2. \A u \in Thread : \A d \in Context :
            d \in FrameContexts(call'[u]) <=> d \in FrameContexts(call[u]) \/ (u = t /\ d = from /\ nx # Null)
      BY Zenon, <1>2, <1>4, <2>1, NoCallHoldsNothing
    <2>3. ASSUME NEW d \in Context, d # from, NEW k, NEW x, NEW i
          PROVE  Keeps(d, k, x, i)' <=> Keeps(d, k, x, i)
      BY SMTT(30), <1>5, <1>6, <2>2, <2>3 DEF Dropped, Moved, Keeps
    <2>4. \A l, y, j : Keeps(from, l, y, j) => l = "entry"
      BY Zenon, ConstantTypes DEF Departs
    <2>5. \A y, j : ~Keeps(from, "ready", y, j) /\ ~Keeps(from, "call", y, j)
      BY Zenon, <2>4
    <2>6. ASSUME nx # Null PROVE KeptOnce(from)'
      <3>1. OnlyKeeper(from, "call", t, 0)'
        BY Zenon, <1>2, <1>5, <1>6, <2>2, <2>5, <2>6 DEF Dropped, Moved, Keeps, OnlyKeeper
      <3>2. QED
        BY ONLY Zenon, <3>1, NewKeeper
    <2>7. ASSUME nx = Null PROVE NotKept(from)'
      BY Zenon, <1>5, <1>6, <2>2, <2>5, <2>7 DEF Dropped, Moved, Keeps, NotKept
    <2>8. \A d \in Context \ {from} : mailbox'[d].locked <=> mailbox[d].locked
      BY Zenon, <1>1 DEF Popped
    <2>9. mailbox'[from].locked <=> nx # Null
      BY Zenon, <1>1 DEF Popped
    <2>10. Held
      BY Zenon DEF Inv
    <2>11. QED
      BY ONLY Zenon, <2>3, <2>6, <2>7, <2>8, <2>9, <2>10, HeldStep
  <1>18. QED
    BY Zenon, <1>5, <1>8, <1>9, <1>10, <1>12, <1>13, <1>16, <1>17 DEF Dropped, Inv, LocalInv

(* enter(), up to its push. *)
LEMMA DoEnterInv ==
  ASSUME Inv, NEW t, NEW r, NEW c, NEW st, NEW b \in BOOLEAN,
         Departs(t, r, None, st), Moves(r, c), DoEnter(t, r, c, b, st)
  PROVE  Inv'
  <1>1. CASE c = None
    <2>1. stack' = [stack EXCEPT ![t] = Append(st, Task(r))] /\ UNCHANGED <<mailbox, ready, call>>
      BY Zenon, <1>1 DEF DoEnter
    <2>2. Departs(t, r, c, st)
      BY Zenon, <1>1
    <2>3. QED
      BY ONLY Zenon, Inv, <2>1, <2>2, Moves(r, c), ContinueInv
  <1>2. CASE c \in Context
    BY Zenon, <1>2, EnterInv
  <1>3. QED
    BY Zenon, <1>1, <1>2 DEF Moves, Rebinds, MaybeContext

(* transfer(), up to its first step on a mailbox or a scheduler. *)
LEMMA TransferInv ==
  ASSUME Inv, NEW t, NEW r, NEW from, NEW to, NEW b \in BOOLEAN, NEW st,
         Departs(t, r, from, st), Moves(r, to), DoTransfer(t, r, from, to, b, st)
  PROVE  Inv'
  <1>1. /\ from \in MaybeContext /\ to \in MaybeContext
        /\ \A c \in MaybeContext : c # None => c \in Context
    BY Zenon DEF Departs, Moves, Rebinds, MaybeContext
  <1>2. CASE from = to
    <2>1. PICK preempt \in MaybePreempt(t, to, st) :
            IF b /\ preempt
            THEN /\ ready' = Schedule(to, r)
                 /\ stack' = [stack EXCEPT ![t] = st]
            ELSE /\ stack' = [stack EXCEPT ![t] = Append(st, Task(r))]
                 /\ UNCHANGED ready
      BY Zenon, <1>2 DEF DoTransfer
    <2>2. UNCHANGED <<mailbox, call>>
      BY Zenon, <1>2 DEF DoTransfer
    <2>3. Departs(t, r, to, st)
      BY Zenon, <1>2
    <2>4. CASE b /\ preempt
      <3>1. to \in Context
        BY Zenon, <1>1, <2>1, <2>4 DEF MaybePreempt
      <3>2. ready' = Schedule(to, r) /\ stack' = [stack EXCEPT ![t] = st]
        BY Zenon, <2>1, <2>4
      <3>3. QED
        BY ONLY Zenon, Inv, <3>1, <3>2, <2>2, <2>3, Moves(r, to), RescheduleInv
    <2>5. CASE ~(b /\ preempt)
      <3>1. stack' = [stack EXCEPT ![t] = Append(st, Task(r))] /\ UNCHANGED <<mailbox, ready, call>>
        BY Zenon, <2>1, <2>2, <2>5
      <3>2. QED
        BY ONLY Zenon, Inv, <3>1, <2>3, Moves(r, to), ContinueInv
    <2>6. QED
      BY Zenon, <2>4, <2>5
  <1>3. CASE from # to /\ to = None
    <2>1. /\ DoLeave(from) /\ stack' = [stack EXCEPT ![t] = Append(st, Task(r))] /\ call' = call
          /\ from \in Context /\ Moves(r, None)
      BY Zenon, <1>1, <1>3 DEF DoTransfer
    <2>2. QED
      BY ONLY Zenon, Inv, <2>1, Departs(t, r, from, st), LeaveContinueInv
  <1>4. CASE from = None /\ to # None
    <2>1. DoEnter(t, r, to, FALSE, st)
      BY Zenon, <1>4 DEF DoTransfer
    <2>2. Departs(t, r, None, st)
      BY Zenon, <1>4
    <2>3. QED
      BY ONLY Zenon, Inv, <2>1, <2>2, FALSE \in BOOLEAN, Moves(r, to), DoEnterInv
  <1>5. CASE from # to /\ from # None /\ to # None
    <2>1. PICK o \in PopOutcomes(mailbox[from]) :
            /\ mailbox' = [mailbox EXCEPT ![from] = o.mb]
            /\ call' = [call EXCEPT ![t] = [NoCall EXCEPT
                          !.step = "prepare", !.r = r, !.from = from, !.to = to,
                          !.returning = b, !.more = o.next]]
      BY Zenon, <1>5 DEF DoTransfer
    <2>2. stack' = [stack EXCEPT ![t] = st] /\ ready' = ready
      BY Zenon, <1>5 DEF DoTransfer
    <2>3. call' = [call EXCEPT ![t] = MoveFrame(r, from, to, b, o.next)]
      BY ONLY Zenon, <2>1 DEF MoveFrame
    <2>4. from \in Context /\ to \in Context /\ from # to /\ mailbox' = [mailbox EXCEPT ![from] = o.mb]
      BY Zenon, <1>1, <1>5, <2>1
    <2>5. QED
      BY ONLY Zenon, Inv, b \in BOOLEAN, Departs(t, r, from, st), Moves(r, to), <2>2, <2>3, <2>4,
              o \in PopOutcomes(mailbox[from]), MoveInv
  <1>6. QED
    BY Zenon, <1>2, <1>3, <1>4, <1>5

(* What changes when a task that is not at rest rebinds. *)
LEMMA RunningMoves ==
  ASSUME Inv, NEW r \in Runnable, NEW c \in MaybeContext, NotAtRest(r),
         context' = [context EXCEPT ![r] = c], UNCHANGED <<scheduled, fresh, waiting>>
  PROVE  Moves(r, c)
  BY Zenon DEF Moves, Rebinds, NotAtRest, Inv, LocalInv, TypeOK

(* Starting an async<T> with a task of its own. *)
LEMMA StartInv ==
  ASSUME Inv, NEW t \in Thread, NEW r \in Runnable, Start(t, r)
  PROVE  Inv'
  <1>1. Departs(t, r, None, stack[t])
    BY Zenon, RestDeparts DEF Start, CanNest
  <1>2. r \notin waiting
    BY Zenon, OnlyAtRest DEF Start, Inv
  <1>3. Moves(r, None)
    BY Zenon, <1>2 DEF Start, Moves, Rebinds, MaybeContext, Inv, LocalInv, TypeOK
  <1>4. stack' = [stack EXCEPT ![t] = Append(stack[t], Task(r))] /\ UNCHANGED <<mailbox, ready, call>>
    BY Zenon DEF Start
  <1>5. QED
    BY ONLY Zenon, Inv, <1>1, <1>3, <1>4, ContinueInv

(* async_restore_task_callback: the continuation is resumed. *)
LEMMA ResumeInv ==
  ASSUME Inv, NEW t \in Thread, NEW r \in Runnable, Resume(t, r)
  PROVE  Inv'
  <1>1. Departs(t, r, None, stack[t])
    BY Zenon, RestDeparts DEF Resume, CanNest
  <1>2. r \notin fresh
    BY Zenon, OnlyAtRest DEF Resume, Inv
  <1>3. Moves(r, context[r])
    BY Zenon, <1>2 DEF Resume, Moves, Rebinds, Inv, LocalInv, TypeOK
  <1>4. DoEnter(t, r, context[r], FALSE, stack[t])
    BY Zenon DEF Resume
  <1>5. QED
    BY ONLY Zenon, Inv, <1>1, <1>3, <1>4, FALSE \in BOOLEAN, DoEnterInv

(* switch_context_awaiter: co_await context(). *)
LEMMA BindContextInv ==
  ASSUME Inv, NEW t \in Thread, NEW r \in Runnable, NEW c \in MaybeContext, NEW b \in BOOLEAN,
         BindContext(t, r, c, b)
  PROVE  Inv'
  <1>1. Departs(t, r, context[r], Below(t)) /\ NotAtRest(r)
    BY Zenon, RunsTop DEF BindContext
  <1>2. Moves(r, c)
    BY Zenon, <1>1, RunningMoves DEF BindContext
  <1>3. CASE context[r] = None
    <2>1. DoEnter(t, r, c, ~scheduled[r], Below(t)) /\ Departs(t, r, None, Below(t))
      BY Zenon, <1>1, <1>3 DEF BindContext
    <2>2. (~scheduled[r]) \in BOOLEAN
      OBVIOUS
    <2>3. QED
      BY ONLY Zenon, Inv, <1>2, <2>1, <2>2, DoEnterInv
  <1>4. CASE context[r] # None
    <2>1. DoTransfer(t, r, context[r], c, b, Below(t))
      BY Zenon, <1>4 DEF BindContext
    <2>2. QED
      BY ONLY Zenon, Inv, b \in BOOLEAN, <1>1, <1>2, <2>1, TransferInv
  <1>5. QED
    BY Zenon, <1>3, <1>4

(* final_suspend of an inherited task: back to the caller's context. *)
LEMMA ReturnToInv ==
  ASSUME Inv, NEW t \in Thread, NEW r \in Runnable, NEW c \in MaybeContext, ReturnTo(t, r, c)
  PROVE  Inv'
  <1>1. Departs(t, r, context[r], Below(t)) /\ NotAtRest(r)
    BY Zenon, RunsTop DEF ReturnTo
  <1>2. Moves(r, c)
    BY Zenon, <1>1, RunningMoves DEF ReturnTo
  <1>3. DoTransfer(t, r, context[r], c, TRUE, Below(t))
    BY Zenon DEF ReturnTo
  <1>4. QED
    BY ONLY Zenon, Inv, TRUE \in BOOLEAN, <1>1, <1>2, <1>3, TransferInv

(* co_await actor_context::preempt. *)
LEMMA PreemptContextInv ==
  ASSUME Inv, NEW t \in Thread, NEW r \in Runnable, PreemptContext(t, r)
  PROVE  Inv'
  <1>1. Departs(t, r, context[r], Below(t)) /\ NotAtRest(r) /\ context[r] \in Context
    BY Zenon, RunsTop DEF PreemptContext, MaybeContext
  <1>2. context' = [context EXCEPT ![r] = context[r]] /\ context[r] \in MaybeContext
    BY Zenon DEF PreemptContext, Inv, LocalInv, TypeOK
  <1>3. Moves(r, context[r])
    BY Zenon, <1>1, <1>2, RunningMoves DEF PreemptContext
  <1>4. /\ stack' = [stack EXCEPT ![t] = Below(t)] /\ ready' = Schedule(context[r], r)
        /\ UNCHANGED <<mailbox, call>>
    BY Zenon DEF PreemptContext
  <1>5. QED
    BY ONLY Zenon, Inv, <1>1, <1>3, <1>4, RescheduleInv

(* await_suspend did not suspend: the task goes on. *)
LEMMA KeepRunningInv ==
  ASSUME Inv, NEW t \in Thread, KeepRunning(t)
  PROVE  Inv'
  <1> DEFINE e == Top(t)  r == e.r
  <1>1. call[t] = NoCall /\ stack[t] # <<>> /\ e.kind = "hold"
    BY Zenon DEF KeepRunning
  <1>2. EntryContext(e) = e.c
    BY Zenon, <1>1 DEF EntryContext
  <1>3. Departs(t, r, e.c, Below(t)) /\ NotAtRest(r)
    BY Zenon, <1>1, <1>2, TopDeparts
  <1>4. r \in Runnable /\ e.c \in MaybeContext /\ context[r] \in MaybeContext
    BY Zenon, <1>3 DEF Departs, Inv, LocalInv, TypeOK
  <1>5. UNCHANGED <<scheduled, fresh, waiting>>
    BY Zenon DEF KeepRunning
  <1>6. CASE /\ stack' = [stack EXCEPT ![t] = Append(Below(t), Task(r))]
             /\ context' = [context EXCEPT ![r] = e.c]
             /\ UNCHANGED <<mailbox, ready, call>>
    <2>1. Moves(r, e.c)
      BY ONLY Zenon, Inv, <1>3, <1>4, <1>5, <1>6, RunningMoves
    <2>2. QED
      BY ONLY Zenon, Inv, <1>3, <1>6, <2>1, ContinueInv
  <1>7. CASE DoTransfer(t, r, e.c, context[r], TRUE, Below(t)) /\ UNCHANGED context
    <2>1. context' = [context EXCEPT ![r] = context[r]]
      BY Zenon, <1>4, <1>7 DEF Inv, LocalInv, TypeOK
    <2>2. Moves(r, context[r])
      BY ONLY Zenon, Inv, <1>3, <1>4, <1>5, <2>1, RunningMoves
    <2>3. QED
      BY ONLY Zenon, Inv, TRUE \in BOOLEAN, <1>3, <1>7, <2>2, TransferInv
  <1>8. QED
    BY Zenon, <1>6, <1>7 DEF KeepRunning

(* The task hands its continuation to an awaiter, or may yet keep it. *)
LEMMA SuspendStep ==
  ASSUME Inv, NEW t \in Thread, NEW r \in Runnable, NEW c \in MaybeContext, NEW b \in BOOLEAN,
         NEW from, NEW st, NEW e \in Entry, Departs(t, r, from, st), NotAtRest(r),
         e.kind # "task", e.r = r, e.c = from, (e.kind = "leave") <=> b,
         context' = [context EXCEPT ![r] = c], stack' = [stack EXCEPT ![t] = Append(st, e)],
         waiting' = IF b THEN waiting \union {r} ELSE waiting,
         UNCHANGED <<mailbox, ready, call, scheduled, fresh>>
  PROVE  Inv'
  <1> DEFINE n == Len(st) + 1
  <1>1. Departs(t, r, from, st) /\ NotAtRest(r) /\ from \in MaybeContext /\ call[t] = NoCall
    BY Zenon DEF Departs
  <1>2. /\ context' = [context EXCEPT ![r] = c]
        /\ stack' = [stack EXCEPT ![t] = Append(st, e)]
        /\ waiting' = IF b THEN waiting \union {r} ELSE waiting
        /\ UNCHANGED <<mailbox, ready, call, scheduled, fresh>>
    OBVIOUS
  <1>3. e \in Entry
    OBVIOUS
  <1>4. EntryContext(e)' = from /\ \A q : Carries(e, q) <=> q = r /\ ~b
    BY Zenon DEF EntryContext, Carries
  <1>5. Rebinds(r, c)
    BY Zenon, <1>2 DEF Rebinds
  <1>6. /\ context' \in [Runnable -> MaybeContext]
        /\ \A q \in Runnable \ {r} : context'[q] = context[q]
        /\ TypeOK /\ Stacks
    <2>1. TypeOK /\ Stacks /\ context \in [Runnable -> MaybeContext]
      BY Zenon DEF Inv, LocalInv, TypeOK
    <2>2. QED
      BY ONLY SMTT(30), <1>2, <2>1, c \in MaybeContext
  <1>7. /\ st \in Seq(Entry) /\ Len(st) \in Nat /\ Len(st) <= Len(stack[t])
        /\ \A i \in 1..Len(st) : st[i] = stack[t][i]
        /\ DOMAIN stack[t] = 1..Len(stack[t]) /\ Len(stack[t]) \in Nat
    <2>1. /\ st \in Seq(Entry) /\ Len(st) <= Len(stack[t])
          /\ \A i \in 1..Len(st) : st[i] = stack[t][i]
      BY Zenon, <1>1 DEF Departs
    <2>2. stack[t] \in Seq(Entry)
      BY Zenon, <1>6 DEF TypeOK
    <2>3. QED
      BY ONLY SMTT(30), <2>1, <2>2
  <1>8. ASSUME NEW x, NEW i, OnStack(r, x, i) PROVE x = t /\ i > Len(st)
    <2>1. x = t /\ ~(i <= Len(st))
      BY Zenon, <1>1, <1>8 DEF Departs
    <2>2. i \in 1..Len(stack[t])
      BY Zenon, <1>7, <1>8, <2>1 DEF OnStack
    <2>3. QED
      BY SMTT(30), <1>7, <2>1, <2>2
  <1>9. /\ stack' \in [Thread -> Seq(Entry)]
        /\ \A q, x, i : OnStack(q, x, i)' <=>
             \/ OnStack(q, x, i) /\ (x = t => i <= Len(st))
             \/ x = t /\ i = n /\ Carries(e, q)
        /\ \A d, x, i : KeepsEntry(d, x, i)' <=>
             \/ KeepsEntry(d, x, i) /\ (x = t => i <= Len(st))
             \/ x = t /\ i = n /\ EntryContext(e)' = d
        /\ /\ Stacks
           /\ e.kind # "leave" /\ EntryContext(e)' # None =>
                AtHome(t, EntryContext(e)') /\ ~HasCurrent(st)
           => Stacks'
        /\ \A u \in Thread \ {t} : stack'[u] = stack[u]
    <2>1. stack' = [stack EXCEPT ![t] = Append(st, e)]
      BY Zenon, <1>2
    <2>2. QED
      BY ONLY Zenon, <1>3, <1>6, <1>7, <1>8, <2>1, t \in Thread, StackAdds
  <1>10. Stacks'
    BY Zenon, <1>1, <1>4, <1>6, <1>9 DEF Departs
  <1>11. \A q, x, i : OnStack(q, x, i)' <=> (OnStack(q, x, i) /\ q # r) \/ (q = r /\ x = t /\ i = n /\ ~b)
    <2>1. \A q, x, i : OnStack(q, x, i) /\ (x = t => i <= Len(st)) <=> OnStack(q, x, i) /\ q # r
      BY Zenon, <1>1 DEF Departs
    <2> HIDE DEF n
    <2>2. QED
      BY ONLY Zenon, <1>4, <1>9, <2>1
  <1>12. \A d \in Context : \A x, i :
           KeepsEntry(d, x, i)' <=> (KeepsEntry(d, x, i) /\ d # from) \/ (d = from /\ x = t /\ i = n)
    <2>1. \A d \in Context : \A x, i :
            KeepsEntry(d, x, i) /\ (x = t => i <= Len(st)) <=> KeepsEntry(d, x, i) /\ d # from
      BY Zenon, <1>1 DEF Departs
    <2> HIDE DEF n
    <2>2. QED
      BY ONLY Zenon, <1>4, <1>9, <2>1
  <1> HIDE DEF n
  <1>13. Frames' /\ Pushes' /\ Queues'
    <2>1. mailbox' = mailbox /\ call' = call /\ \A u \in Thread \ {t} : stack'[u] = stack[u]
      BY Zenon, <1>2, <1>9
    <2>2. QED
      BY ONLY Zenon, Inv, <1>1, <1>5, <2>1, DepartsQuietly
  <1>14. TypeOK'
    BY Zenon, <1>2, <1>6, <1>9 DEF TypeOK
  <1>15. \A s \in Scheduler : \A q \in ready[s] : q \in Runnable /\ q # r /\ context'[q] = context[q]
    <2>1. NotReady(r) /\ ready \in [Scheduler -> SUBSET Runnable]
      BY Zenon, <1>1, <1>6 DEF Departs, TypeOK
    <2>2. QED
      BY ONLY SMTT(30), <1>6, <2>1 DEF NotReady
  <1>16. Readies'
    <2>1. Readies /\ ready' = ready
      BY Zenon, <1>2 DEF Inv, LocalInv
    <2>2. QED
      BY ONLY Zenon, <1>15, <2>1 DEF Readies
  <1>17. /\ r \notin fresh'
         /\ (r \in waiting') <=> b
         /\ \A q \in Runnable \ {r} : (q \in fresh' <=> q \in fresh) /\ (q \in waiting' <=> q \in waiting)
    BY Zenon, <1>1, <1>2 DEF NotAtRest
  <1>18. /\ \A x \in Context : ~IsIn(mailbox'[x].queue, r)
         /\ \A s \in Scheduler : r \notin ready'[s]
         /\ \A u \in Thread : ~InHand(call'[u], r)
    BY Zenon, <1>1, <1>2 DEF Departs, NotQueued, NotReady, NotInHand
  <1>19. OnceAt(r)'
    <2>1. CASE b
      <3>1. OnlyAt(r, "waiting", Null, 0)'
        BY ONLY Zenon, <1>11, <1>17, <1>18, <2>1 DEF Placed, OnlyAt
      <3>2. QED
        BY ONLY Zenon, <3>1, NewPlace
    <2>2. CASE ~b
      <3>1. OnlyAt(r, "entry", t, n)'
        BY ONLY SMTT(30), <1>11, <1>17, <1>18, <2>2 DEF Placed, OnlyAt
      <3>2. QED
        BY ONLY Zenon, <3>1, NewPlace
    <2>3. QED
      BY Zenon, <2>1, <2>2
  <1>20. Once'
    <2>1. ASSUME NEW q \in Runnable, q # r, NEW k, NEW x, NEW i
          PROVE  Placed(q, k, x, i)' <=> Placed(q, k, x, i)
      BY Zenon, <1>2, <1>11, <1>17, <2>1 DEF Placed
    <2>2. QED
      BY ONLY Zenon, <1>19, <2>1, Inv, OnceStep DEF Inv
  <1>21. Held'
    <2>1. ASSUME NEW d \in Context, d # from, NEW k, NEW x, NEW i
          PROVE  Keeps(d, k, x, i)' <=> Keeps(d, k, x, i)
      BY Zenon, <1>2, <1>12, <1>15, <2>1 DEF Keeps
    <2>2. ASSUME from \in Context PROVE KeptOnce(from)' /\ mailbox[from].locked
      <3>1. (\A l, y, j : Keeps(from, l, y, j) => l = "entry") /\ mailbox[from].locked
        BY Zenon, <1>1, <2>2, ConstantTypes DEF Departs
      <3>2. \A y, j : ~Keeps(from, "ready", y, j) /\ ~Keeps(from, "call", y, j)
        BY Zenon, <3>1
      <3>3. \A y, j : ~Keeps(from, "ready", y, j)' /\ ~Keeps(from, "call", y, j)'
        BY Zenon, <1>2, <1>15, <3>2 DEF Keeps
      <3>4. OnlyKeeper(from, "entry", t, n)'
        BY Zenon, <1>12, <2>2, <3>3 DEF Keeps, OnlyKeeper
      <3>5. QED
        BY ONLY Zenon, <3>1, <3>4, NewKeeper
    <2>3. mailbox' = mailbox
      BY Zenon, <1>2
    <2>4. QED
      BY ONLY Zenon, <2>1, <2>2, <2>3, Inv, HeldStep DEF Inv
  <1>22. QED
    BY Zenon, <1>10, <1>13, <1>14, <1>16, <1>20, <1>21 DEF Inv, LocalInv

(* await_suspend is called: the task leaves the stack. *)
LEMMA SuspendInv ==
  ASSUME Inv, NEW t \in Thread, NEW r \in Runnable, NEW c \in MaybeContext, NEW b \in BOOLEAN,
         Suspend(t, r, c, b)
  PROVE  Inv'
  <1> DEFINE e == [kind |-> IF b THEN "leave" ELSE "hold", r |-> r, c |-> context[r]]
  <1>1. Departs(t, r, context[r], Below(t)) /\ NotAtRest(r) /\ context[r] \in MaybeContext
    BY Zenon, RunsTop DEF Suspend
  <1>2. /\ context' = [context EXCEPT ![r] = c]
        /\ stack' = [stack EXCEPT ![t] = Append(Below(t), e)]
        /\ waiting' = IF b THEN waiting \union {r} ELSE waiting
        /\ UNCHANGED <<mailbox, ready, call, scheduled, fresh>>
    BY Zenon DEF Suspend
  <1>3. /\ e \in Entry /\ e.kind # "task" /\ e.r = r /\ e.c = context[r]
        /\ (e.kind = "leave") <=> b
    BY Zenon, <1>1 DEF Entry
  <1> HIDE DEF e
  <1>4. QED
    BY ONLY Zenon, Inv, t \in Thread, r \in Runnable, c \in MaybeContext, b \in BOOLEAN,
            <1>1, <1>2, <1>3, SuspendStep

(* A scheduler runs what was posted to it. *)
LEMMA RunStep ==
  ASSUME Inv, NEW t \in Thread, NEW r \in Runnable, NEW c, c = context[r], Run(t, r)
  PROVE  Inv'
  <1> DEFINE s == ThreadOf[t]  e == Task(r)
  <1>1. /\ call[t] = NoCall /\ stack[t] = <<>> /\ r \in ready[s]
        /\ ready' = [ready EXCEPT ![s] = @ \ {r}] /\ stack' = [stack EXCEPT ![t] = <<e>>]
        /\ scheduled' = [scheduled EXCEPT ![r] = TRUE]
        /\ UNCHANGED <<mailbox, call, context, fresh, waiting>>
    BY Zenon DEF Run
  <1>2. TypeOK /\ Stacks /\ s \in Scheduler
    BY Zenon, ConstantTypes DEF Inv, LocalInv
  <1>3. /\ ready' \in [Scheduler -> SUBSET Runnable]
        /\ \A x \in Scheduler : \A q : q \in ready'[x] <=> q \in ready[x] /\ ~(q = r /\ x = s)
    BY Zenon, <1>1, <1>2 DEF TypeOK
  <1>4. /\ NotQueued(r) /\ NotInHand(r) /\ NotOnStack(r) /\ NotAtRest(r)
        /\ \A x \in Scheduler : r \in ready[x] => x = s
    BY Zenon, <1>1, <1>2, OnlyReady DEF Inv
  <1>5. c \in Context /\ AtHome(t, c)
    BY Zenon, <1>1, <1>2 DEF Inv, LocalInv, Readies, AtHome
  <1>6. \A x \in Scheduler : \A q : q \in ready'[x] <=> q \in ready[x] /\ q # r
    BY Zenon, <1>3, <1>4
  <1>7. e \in Entry /\ e.kind = "task" /\ e.r = r /\ \A q : Carries(e, q) <=> q = r
    BY Zenon DEF Task, Entry, MaybeContext, Carries
  <1>8. EntryContext(e)' = c
    BY Zenon, <1>1, <1>7 DEF EntryContext
  <1>9. /\ <<>> \in Seq(Entry) /\ Len(<<>>) = 0 /\ Append(<<>>, e) = <<e>> /\ ~HasCurrent(<<>>)
    BY SMTT(30), <1>7 DEF HasCurrent
  <1> HIDE DEF e
  <1>10. /\ stack' \in [Thread -> Seq(Entry)]
         /\ \A q, x, i : OnStack(q, x, i)' <=>
              \/ OnStack(q, x, i) /\ (x = t => i <= Len(<<>>))
              \/ x = t /\ i = Len(<<>>) + 1 /\ Carries(e, q)
         /\ \A d, x, i : KeepsEntry(d, x, i)' <=>
              \/ KeepsEntry(d, x, i) /\ (x = t => i <= Len(<<>>))
              \/ x = t /\ i = Len(<<>>) + 1 /\ EntryContext(e)' = d
         /\ /\ Stacks
            /\ e.kind # "leave" /\ EntryContext(e)' # None =>
                 AtHome(t, EntryContext(e)') /\ ~HasCurrent(<<>>)
            => Stacks'
         /\ \A u \in Thread \ {t} : stack'[u] = stack[u]
    <2>1. /\ Len(<<>>) <= Len(stack[t]) /\ \A i \in 1..Len(<<>>) : <<>>[i] = stack[t][i]
      BY SMTT(30), <1>1
    <2>2. stack' = [stack EXCEPT ![t] = Append(<<>>, e)]
      BY Zenon, <1>1, <1>9
    <2>3. /\ \A q \in Runnable \ {r} : context'[q] = context[q]
          /\ \A x, i : OnStack(r, x, i) => x = t /\ i > Len(<<>>)
      BY Zenon, <1>1, <1>4 DEF NotOnStack
    <2>4. QED
      BY ONLY Zenon, <1>2, <1>7, <1>9, <2>1, <2>2, <2>3, t \in Thread, StackAdds
  <1>11. Stacks'
    BY Zenon, <1>2, <1>5, <1>8, <1>9, <1>10
  <1>12. /\ \A q, x, i : OnStack(q, x, i) => x # t
         /\ \A d, x, i : KeepsEntry(d, x, i) => x # t
         /\ Len(<<>>) + 1 = 1
    BY SMTT(30), <1>1 DEF OnStack, KeepsEntry
  <1>13. \A q, x, i : OnStack(q, x, i)' <=> OnStack(q, x, i) \/ (q = r /\ x = t /\ i = 1)
    BY Zenon, <1>7, <1>9, <1>10, <1>12
  <1>14. \A d, x, i : KeepsEntry(d, x, i)' <=> KeepsEntry(d, x, i) \/ (d = c /\ x = t /\ i = 1)
    BY Zenon, <1>8, <1>9, <1>10, <1>12
  <1>15. scheduled' \in [Runnable -> BOOLEAN]
    BY Zenon, <1>1, <1>2 DEF TypeOK
  <1>16. TypeOK'
    BY Zenon, <1>1, <1>2, <1>3, <1>10, <1>15 DEF TypeOK
  <1>17. Frames'
    <2>1. ASSUME NEW u \in Thread, u # t PROVE FrameOK(u)'
      BY Zenon, <1>1, <1>2, <1>10, <2>1, OtherFrames DEF Inv, LocalInv
    <2>2. FrameOK(t)'
      BY Zenon, <1>1, NoFrame
    <2>3. QED
      BY Zenon, <2>1, <2>2 DEF Frames
  <1>18. Pushes' /\ Queues'
    BY SMTT(30), <1>1 DEF Pushes, Publishing, Queues, Inv, LocalInv
  <1>19. Readies'
    BY Zenon, <1>1, <1>6 DEF Readies, Inv, LocalInv
  <1>20. Once'
    <2>1. ASSUME NEW q \in Runnable, q # r, NEW k, NEW x, NEW i
          PROVE  Placed(q, k, x, i)' <=> Placed(q, k, x, i)
      BY Zenon, <1>1, <1>6, <1>13, <2>1 DEF Placed
    <2>2. /\ \A x \in Context : ~IsIn(mailbox'[x].queue, r)
          /\ \A x \in Scheduler : r \notin ready'[x]
          /\ \A u \in Thread : ~InHand(call'[u], r)
          /\ r \notin fresh' /\ r \notin waiting'
          /\ \A x, i : OnStack(r, x, i)' <=> x = t /\ i = 1
      BY Zenon, <1>1, <1>4, <1>6, <1>13 DEF NotQueued, NotInHand, NotOnStack, NotAtRest
    <2>3. OnlyAt(r, "entry", t, 1)'
      BY ONLY SMTT(30), <2>2 DEF Placed, OnlyAt
    <2>4. OnceAt(r)'
      BY ONLY Zenon, <2>3, NewPlace
    <2>5. QED
      BY ONLY Zenon, <2>1, <2>4, Inv, OnceStep DEF Inv
  <1>21. Held'
    <2>1. ASSUME NEW d \in Context, d # c, NEW k, NEW x, NEW i
          PROVE  Keeps(d, k, x, i)' <=> Keeps(d, k, x, i)
      BY Zenon, <1>1, <1>6, <1>14, <2>1 DEF Keeps
    <2>2. Keeps(c, "ready", r, 0)
      BY Zenon, <1>1, <1>2, c = context[r] DEF Keeps
    <2>3. mailbox[c].locked /\ \A k, x, i : Keeps(c, k, x, i) => k = "ready" /\ x = r
      BY Zenon, <1>5, <2>2 DEF Inv, Held, KeptOnce, NotKept
    <2>4. \A x, i : ~Keeps(c, "entry", x, i) /\ ~Keeps(c, "call", x, i) /\ (Keeps(c, "ready", x, i) => x = r)
      BY Zenon, <2>3
    <2>5. \A x, i : ~Keeps(c, "ready", x, i)' /\ ~Keeps(c, "call", x, i)' /\ ~KeepsEntry(c, x, i)
      BY Zenon, <1>1, <1>6, <2>4 DEF Keeps
    <2>6. OnlyKeeper(c, "entry", t, 1)'
      BY Zenon, <1>14, <2>5 DEF Keeps, OnlyKeeper
    <2>7. KeptOnce(c)'
      BY ONLY Zenon, <2>6, NewKeeper
    <2>8. mailbox' = mailbox
      BY Zenon, <1>1
    <2>9. QED
      BY ONLY Zenon, <2>1, <2>3, <2>7, <2>8, Inv, HeldStep DEF Inv
  <1>22. QED
    BY Zenon, <1>11, <1>16, <1>17, <1>18, <1>19, <1>20, <1>21 DEF Inv, LocalInv

(* A scheduler's thread runs a posted runnable. *)
LEMMA RunInv ==
  ASSUME Inv, NEW t \in Thread, NEW r \in Runnable, Run(t, r)
  PROVE  Inv'
  BY Zenon, RunStep
=============================================================================
