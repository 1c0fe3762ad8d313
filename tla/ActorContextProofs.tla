------------------------- MODULE ActorContextProofs -------------------------
(***************************************************************************)
(* The safety properties of ActorContext, for any contexts, schedulers,    *)
(* threads and runnables, and any depth of nesting.  The inductive         *)
(* invariant is in ActorContextInvariant.                                  *)
(***************************************************************************)
EXTENDS ActorContextInvariant

(***************************************************************************)
(* The steps inside enter() and transfer().                                *)
(***************************************************************************)

(* Frame g is frame f at another step. *)
FrameLike(g, f) ==
  /\ g \in Frame
  /\ g.r = f.r /\ g.from = f.from /\ g.to = f.to /\ g.more = f.more
  /\ g.returning <=> f.returning

(* A call takes its next step. *)
LEMMA CallSteps ==
  ASSUME TypeOK, NEW t \in Thread, NEW s \in {"none", "prepare", "publish", "pop", "more"},
         call' = [call EXCEPT ![t].step = s]
  PROVE  /\ call' \in [Thread -> Frame] /\ \A u \in Thread \ {t} : call'[u] = call[u]
         /\ FrameLike(call'[t], call[t]) /\ call'[t].step = s
         /\ call'[t].inline <=> call[t].inline
  <1>1. call \in [Thread -> Frame] /\ call[t] \in Frame
    BY Zenon DEF TypeOK
  <1>2. call'[t] = [call[t] EXCEPT !.step = s] /\ \A u \in Thread \ {t} : call'[u] = call[u]
    BY Zenon, <1>1
  <1>3. [call[t] EXCEPT !.step = s] \in Frame
    BY Zenon, <1>1 DEF Frame
  <1>4. /\ FrameLike([call[t] EXCEPT !.step = s], call[t]) /\ [call[t] EXCEPT !.step = s].step = s
        /\ [call[t] EXCEPT !.step = s].inline <=> call[t].inline
    BY Zenon, <1>1, <1>3 DEF FrameLike, Frame
  <1>5. call' \in [Thread -> Frame]
    BY Zenon, <1>1, <1>3
  <1>6. QED
    BY Zenon, <1>2, <1>4, <1>5

(* The call goes on to post what it took. *)
LEMMA CallPosts ==
  ASSUME TypeOK, NEW t \in Thread, NEW b \in BOOLEAN,
         call' = [call EXCEPT ![t].step = "more", ![t].inline = b]
  PROVE  /\ call' \in [Thread -> Frame] /\ \A u \in Thread \ {t} : call'[u] = call[u]
         /\ FrameLike(call'[t], call[t]) /\ call'[t].step = "more"
         /\ call'[t].inline <=> b
  <1> DEFINE g == [call[t] EXCEPT !.step = "more", !.inline = b]
  <1>1. call \in [Thread -> Frame] /\ call[t] \in Frame
    BY Zenon DEF TypeOK
  <1>2. call'[t] = g /\ \A u \in Thread \ {t} : call'[u] = call[u]
    BY Zenon, <1>1
  <1>3. g \in Frame
    BY Zenon, <1>1 DEF Frame
  <1>4. /\ FrameLike(g, call[t]) /\ g.step = "more"
        /\ g.inline <=> b
    BY Zenon, <1>1, <1>3 DEF FrameLike, Frame
  <1>5. call' \in [Thread -> Frame]
    BY Zenon, <1>1, <1>2, <1>3
  <1>6. QED
    BY Zenon, <1>2, <1>4, <1>5

(* What a call in progress knows of its own frame. *)
LEMMA InCallFacts ==
  ASSUME Inv, NEW t \in Thread, call[t].step # "none"
  PROVE  /\ call[t].r \in Runnable /\ call[t].to \in Context /\ call[t].from # call[t].to
         /\ call[t].more \in MaybeRunnable
         /\ call[t].more # Null =>
              call[t].from \in Context /\ context[call[t].more] = call[t].from
         /\ call[t].inline => call[t].step = "more"
         /\ FrameOK(t) /\ call[t] \in Frame
  <1>1. FrameOK(t) /\ call[t] \in Frame
    BY Zenon DEF Inv, LocalInv, Frames, TypeOK
  <1>2. call[t].more \in MaybeRunnable
    BY Zenon, <1>1 DEF Frame
  <1>3. QED
    BY Zenon, <1>1, <1>2 DEF FrameOK

(* The calls of the other threads, after a step that changes no context. *)
LEMMA CallFrames ==
  ASSUME Inv, NEW t \in Thread, context' = context, FrameOK(t)',
         \A u \in Thread \ {t} : call'[u] = call[u] /\ stack'[u] = stack[u],
         \A u \in Thread \ {t} : \A c \in Context : \A q \in mailbox[c].inflight :
           Publishing(u, c, q) => q \in mailbox'[c].inflight
  PROVE  Frames'
  <1> SUFFICES ASSUME NEW u \in Thread, u # t PROVE FrameOK(u)'
    BY Zenon DEF Frames
  <1>1. QED
    BY Zenon, OtherFrames DEF Inv, LocalInv

(* push_prepare of transfer(). *)
LEMMA PrepareInv ==
  ASSUME Inv, NEW t \in Thread, Prepare(t), NEW r, NEW c, r = call[t].r, c = call[t].to
  PROVE  Inv'
  <1> DEFINE f == call[t]  g == call'[t]
  <1>1. /\ f.step = "prepare" /\ mailbox' = [mailbox EXCEPT ![c] = Prepared(@, r)]
        /\ call' = [call EXCEPT ![t].step = "publish"]
        /\ UNCHANGED <<ready, stack, context, scheduled, fresh, waiting>>
    BY Zenon DEF Prepare
  <1>2. /\ r \in Runnable /\ c \in Context /\ f.from # c /\ context[r] = c /\ ~f.inline
        /\ f.more \in MaybeRunnable
        /\ f.more # Null => f.from \in Context /\ context[f.more] = f.from
        /\ FrameOK(t)
    BY Zenon, <1>1, InCallFacts DEF FrameOK
  <1>3. /\ call' \in [Thread -> Frame] /\ \A u \in Thread \ {t} : call'[u] = call[u]
        /\ FrameLike(g, f) /\ g.step = "publish" /\ ~g.inline
    BY Zenon, <1>1, <1>2, CallSteps DEF Inv, LocalInv
  <1> HIDE DEF g
  <1>4. f.more # r
    BY Zenon, <1>2, ConstantTypes
  <1>5. InHand(f, r)
    BY Zenon, <1>1 DEF InHand
  <1>6. /\ NotQueued(r) /\ NotReady(r) /\ NotOnStack(r) /\ NotAtRest(r)
        /\ \A u \in Thread : InHand(call[u], r) => u = t
    BY Zenon, <1>2, <1>5, OnlyInHand DEF Inv
  <1>7. Prepped(c, r)
    BY Zenon, <1>1, <1>2, <1>6, PrepareStep
  <1>8. TypeOK'
    BY Zenon, <1>1, <1>3, <1>7 DEF TypeOK, Prepped, MailboxType, Inv, LocalInv
  <1>9. Pushes'
    <2>1. Publishing(t, c, r)' /\ call[t].step # "publish"
      BY Zenon, <1>1, <1>3 DEF Publishing, FrameLike, g
    <2>2. QED
      BY Zenon, <1>2, <1>3, <1>6, <1>7, <2>1, PreparePushes
  <1>10. Queues'
    BY Zenon, <1>1, <1>2, <1>6, <1>7, PrepareQueues
  <1>11. Frames'
    <2>1. FrameOK(t)'
      <3>1. r \in mailbox'[c].inflight
        BY Zenon, <1>2, <1>7 DEF Prepped
      <3>2. AsksPreempt(g) <=> AsksPreempt(f)
        BY Zenon, <1>3 DEF AsksPreempt, FrameLike
      <3>3. QED
        BY ZenonT(40), <1>1, <1>2, <1>3, <3>1, <3>2 DEF FrameOK, FrameLike, g
    <2>2. \A x \in Context : mailbox[x].inflight \subseteq mailbox'[x].inflight
      BY Zenon, <1>7 DEF Prepped
    <2>3. QED
      BY Zenon, <1>1, <1>3, <2>1, <2>2, CallFrames
  <1>12. Readies' /\ Stacks'
    BY ZenonT(40), <1>1 DEF Readies, Stacks, EntryContext, Inv, LocalInv
  <1>13. \A q \in Runnable : InHand(g, q) <=> InHand(f, q) /\ q # r
    BY Zenon, <1>1, <1>2, <1>3, <1>4 DEF InHand, FrameLike
  <1>14. \A u \in Thread : \A q \in Runnable : InHand(call'[u], q) <=> InHand(call[u], q) /\ q # r
    BY Zenon, <1>3, <1>6, <1>13 DEF g
  <1>15. \A q, x, i : OnStack(q, x, i)' <=> OnStack(q, x, i)
    BY Zenon, <1>1 DEF OnStack
  <1>16. Once'
    <2>1. ASSUME NEW q \in Runnable, q # r, NEW k, NEW x, NEW i
          PROVE  Placed(q, k, x, i)' <=> Placed(q, k, x, i)
      BY Zenon, <1>1, <1>7, <1>14, <1>15, <2>1 DEF Prepped, Placed
    <2>2. \A x \in Context : IsIn(mailbox'[x].queue, r) <=> x = c
      BY Zenon, <1>6, <1>7 DEF Prepped, NotQueued
    <2>3. \A u \in Thread : ~InHand(call'[u], r)
      BY Zenon, <1>2, <1>14
    <2>4. /\ \A s \in Scheduler : r \notin ready'[s]
          /\ r \notin fresh' /\ r \notin waiting'
          /\ \A x, i : ~OnStack(r, x, i)'
      BY Zenon, <1>1, <1>6, <1>15 DEF NotReady, NotOnStack, NotAtRest
    <2>5. OnlyAt(r, "queue", c, 0)'
      BY ONLY SMTT(30), <1>2, <2>2, <2>3, <2>4 DEF Placed, OnlyAt
    <2>6. OnceAt(r)'
      BY ONLY Zenon, <2>5, NewPlace
    <2>7. QED
      BY ONLY Zenon, <2>1, <2>6, Inv, OnceStep DEF Inv
  <1>17. Held'
    <2>1. FrameContexts(g) = FrameContexts(f)
      BY Zenon, <1>1, <1>2, <1>3 DEF FrameContexts, FrameLike
    <2>2. \A u \in Thread : FrameContexts(call'[u]) = FrameContexts(call[u])
      BY Zenon, <1>3, <2>1 DEF g
    <2>3. \A d, x, i : KeepsEntry(d, x, i)' <=> KeepsEntry(d, x, i)
      BY Zenon, <1>1 DEF KeepsEntry, EntryContext
    <2>4. ASSUME NEW d \in Context, NEW k, NEW x, NEW i
          PROVE  Keeps(d, k, x, i)' <=> Keeps(d, k, x, i)
      BY Zenon, <1>1, <2>2, <2>3 DEF Keeps
    <2>5. \A d \in Context : mailbox'[d].locked <=> mailbox[d].locked
      BY Zenon, <1>7 DEF Prepped
    <2>6. QED
      BY ONLY Zenon, <2>4, <2>5, Inv, HeldStep DEF Inv
  <1>18. QED
    BY Zenon, <1>8, <1>9, <1>10, <1>11, <1>12, <1>16, <1>17 DEF Inv, LocalInv

(* What a call that ends without going on itself leaves: what it took from *)
(* the old context, if anything, remains to be posted.                     *)
Completed(t, more, from) ==
  /\ stack' = stack /\ call' \in [Thread -> Frame]
  /\ \A u \in Thread \ {t} : call'[u] = call[u]
  /\ call'[t].step # "publish"
  /\ \A q \in Runnable : InHand(call'[t], q) <=> q = more
  /\ \A c \in Context : c \in FrameContexts(call'[t]) <=> more # Null /\ c = from
  /\ FrameOK(t)'

(* The end of enter() or transfer() when the task does not go on. *)
LEMMA CompleteStep ==
  ASSUME Inv, NEW t \in Thread, call[t].step # "none", Complete(t, FALSE), context' = context
  PROVE  Completed(t, call[t].more, call[t].from)
  <1> DEFINE f == call[t]  g == call'[t]
  <1>1. /\ f.r \in Runnable /\ f.to \in Context /\ f.from # f.to /\ f.more \in MaybeRunnable
        /\ f.more # Null => f.from \in Context /\ context[f.more] = f.from
        /\ FrameOK(t) /\ f \in Frame
    BY Zenon, InCallFacts
  <1>2. CASE f.more = Null
    <2>1. call' = [call EXCEPT ![t] = NoCall] /\ stack' = stack
      BY Zenon, <1>2 DEF Complete
    <2>2. /\ call' \in [Thread -> Frame] /\ g = NoCall
          /\ \A u \in Thread \ {t} : call'[u] = call[u]
      BY Zenon, <2>1, NoCallHoldsNothing DEF Inv, LocalInv, TypeOK
    <2> HIDE DEF g
    <2>3. FrameOK(t)'
      BY Zenon, <2>2, NoFrame DEF g
    <2>4. g.step # "publish"
      BY Zenon, <2>2 DEF NoCall
    <2>5. \A q \in Runnable : InHand(g, q) <=> q = f.more
      BY Zenon, <1>2, <2>2, NoCallHoldsNothing, ConstantTypes
    <2>6. \A c \in Context : c \in FrameContexts(g) <=> f.more # Null /\ c = f.from
      BY Zenon, <1>2, <2>2, NoCallHoldsNothing
    <2>7. QED
      BY Zenon, <2>1, <2>2, <2>3, <2>4, <2>5, <2>6 DEF Completed, g
  <1>3. CASE f.more # Null
    <2>1. call' = [call EXCEPT ![t].step = "more", ![t].inline = FALSE] /\ stack' = stack
      BY Zenon, <1>3 DEF Complete
    <2>2. /\ call' \in [Thread -> Frame] /\ \A u \in Thread \ {t} : call'[u] = call[u]
          /\ FrameLike(g, f) /\ g.step = "more" /\ ~g.inline
      <3>1. TypeOK
        BY Zenon DEF Inv, LocalInv
      <3>2. QED
        BY ONLY Zenon, <2>1, <3>1, t \in Thread, FALSE \in BOOLEAN, CallPosts
    <2> HIDE DEF g
    <2>3. FrameOK(t)'
      <3>1. AsksPreempt(g) <=> AsksPreempt(f)
        BY Zenon, <2>2 DEF AsksPreempt, FrameLike
      <3>2. QED
        BY Zenon, <1>1, <1>3, <2>1, <2>2, <3>1 DEF FrameOK, FrameLike, g
    <2>4. \A q \in Runnable : InHand(g, q) <=> q = f.more
      BY Zenon, <2>2 DEF InHand, FrameLike
    <2>5. \A c \in Context : c \in FrameContexts(g) <=> f.more # Null /\ c = f.from
      BY Zenon, <2>2 DEF FrameContexts, FrameLike
    <2>6. QED
      BY Zenon, <2>1, <2>2, <2>3, <2>4, <2>5 DEF Completed, g
  <1>4. QED
    BY Zenon, <1>2, <1>3

(* What push_publish() does to the mailboxes. *)
Shown(c, r) ==
  /\ mailbox' \in [Context -> MailboxType]
  /\ \A x \in Context : /\ mailbox'[x].queue = mailbox[x].queue /\ IsWakeable(mailbox'[x])
                        /\ \A q : q \in mailbox'[x].inflight <=> q \in mailbox[x].inflight /\ q # r
  /\ \A x \in Context \ {c} : mailbox'[x].locked <=> mailbox[x].locked
  /\ mailbox[c].locked => mailbox'[c].locked

(* push_publish() on the mailbox of c. *)
LEMMA PublishStep ==
  ASSUME Inv, NEW c \in Context, NEW r \in Runnable, r \in mailbox[c].inflight,
         NEW mb \in Published(mailbox[c], r), mailbox' = [mailbox EXCEPT ![c] = mb]
  PROVE  Shown(c, r) /\ mailbox'[c] = mb
  <1>1. /\ mailbox \in [Context -> MailboxType] /\ mailbox[c] \in MailboxType
        /\ \A x \in Context : IsWakeable(mailbox[x])
        /\ \A x \in Context : \A q \in mailbox[x].inflight : IsIn(mailbox[x].queue, q)
    BY Zenon DEF Inv, LocalInv, TypeOK, MailboxType, Queues, Pushes
  <1>2. /\ mb \in MailboxType /\ mb.queue = mailbox[c].queue /\ mb.inflight = mailbox[c].inflight \ {r}
        /\ mailbox[c].locked => mb.locked
        /\ IsWakeable(mb)
    BY Zenon, <1>1, PublishedFields
  <1>3. /\ mailbox'[c] = mb /\ \A x \in Context \ {c} : mailbox'[x] = mailbox[x]
        /\ mailbox' \in [Context -> MailboxType]
    BY Zenon, <1>1, <1>2
  <1>4. \A x \in Context \ {c} : r \notin mailbox[x].inflight
    BY Zenon, <1>1, OnlyQueued DEF Inv
  <1>5. QED
    BY Zenon, <1>1, <1>2, <1>3, <1>4 DEF Shown

(* push_publish: the call goes on to pop when it took the lock. *)
LEMMA PublishInv ==
  ASSUME Inv, NEW t \in Thread, Publish(t), NEW r, NEW c, r = call[t].r, c = call[t].to
  PROVE  Inv'
  <1> DEFINE f == call[t]  g == call'[t]
  <1>1. f.step = "publish" /\ UNCHANGED <<ready, context, scheduled, fresh, waiting>>
    BY Zenon DEF Publish
  <1>2. PICK mb \in Published(mailbox[c], r) :
          /\ mailbox' = [mailbox EXCEPT ![c] = mb]
          /\ IF mb.locked /\ ~mailbox[c].locked
             THEN call' = [call EXCEPT ![t].step = "pop"] /\ UNCHANGED stack
             ELSE Complete(t, FALSE)
    BY Zenon DEF Publish
  <1> DEFINE took == mb.locked /\ ~mailbox[c].locked
  <1>3. /\ r \in Runnable /\ c \in Context /\ f.from # c /\ ~f.inline
        /\ f.more \in MaybeRunnable
        /\ f.more # Null => f.from \in Context /\ context[f.more] = f.from
        /\ FrameOK(t) /\ r \in mailbox[c].inflight
    BY Zenon, <1>1, InCallFacts DEF FrameOK
  <1>4. Shown(c, r) /\ mailbox'[c] = mb
    BY Zenon, <1>2, <1>3, PublishStep
  <1>5. /\ stack' = stack /\ call' \in [Thread -> Frame]
        /\ \A u \in Thread \ {t} : call'[u] = call[u]
        /\ g.step # "publish" /\ FrameOK(t)'
        /\ \A q \in Runnable : InHand(g, q) <=> q = f.more
        /\ \A d \in Context : d \in FrameContexts(g) <=> (f.more # Null /\ d = f.from) \/ (took /\ d = c)
    <2>1. CASE took
      <3>1. call' = [call EXCEPT ![t].step = "pop"] /\ stack' = stack /\ TypeOK
        BY Zenon, <1>2, <2>1 DEF Inv, LocalInv
      <3>2. /\ call' \in [Thread -> Frame] /\ \A u \in Thread \ {t} : call'[u] = call[u]
            /\ FrameLike(g, f) /\ g.step = "pop" /\ ~g.inline
        BY Zenon, <1>3, <3>1, CallSteps
      <3> HIDE DEF g
      <3>3. FrameOK(t)'
        <4>1. AsksPreempt(g) <=> AsksPreempt(f)
          BY Zenon, <3>2 DEF AsksPreempt, FrameLike
        <4>2. QED
          BY Zenon, <1>1, <1>3, <3>1, <3>2, <4>1 DEF FrameOK, FrameLike, g
      <3>4. \A q \in Runnable : InHand(g, q) <=> q = f.more
        BY Zenon, <3>2 DEF InHand, FrameLike
      <3>5. \A d \in Context : d \in FrameContexts(g) <=> (f.more # Null /\ d = f.from) \/ d = c
        BY Zenon, <3>2 DEF FrameContexts, FrameLike
      <3>6. QED
        BY Zenon, <2>1, <3>1, <3>2, <3>3, <3>4, <3>5 DEF g
    <2>2. CASE ~took
      <3>1. Complete(t, FALSE)
        BY Zenon, <1>2, <2>2
      <3>2. Completed(t, f.more, f.from)
        BY Zenon, <1>1, <3>1, CompleteStep
      <3>3. QED
        BY Zenon, <2>2, <3>2 DEF Completed
    <2>3. QED
      BY Zenon, <2>1, <2>2
  <1> HIDE DEF g, took
  <1>6. TypeOK'
    BY Zenon, <1>1, <1>4, <1>5 DEF Shown, MailboxType, TypeOK, Inv, LocalInv
  <1>7. Pushes'
    <2>1. \A u \in Thread : call'[u].step = "publish" => u # t /\ call[u] = call'[u]
      BY Zenon, <1>5 DEF g
    <2>2. \A x, u \in Thread :
            call'[x].step = "publish" /\ call'[u].step = "publish" /\ call'[x].r = call'[u].r => x = u
      BY Zenon, <2>1 DEF Inv, LocalInv, Pushes
    <2>3. ASSUME NEW x \in Context, NEW q \in mailbox'[x].inflight
          PROVE  IsIn(mailbox'[x].queue, q) /\ \E u \in Thread : Publishing(u, x, q)'
      <3>1. q \in mailbox[x].inflight /\ q # r /\ mailbox'[x].queue = mailbox[x].queue
        BY Zenon, <1>4 DEF Shown
      <3>2. IsIn(mailbox[x].queue, q) /\ \E u \in Thread : Publishing(u, x, q)
        BY Zenon, <3>1 DEF Inv, LocalInv, Pushes
      <3>3. PICK u \in Thread : Publishing(u, x, q)
        BY Zenon, <3>2
      <3>4. u # t
        BY Zenon, <3>1, <3>3, r = call[t].r DEF Publishing
      <3>5. Publishing(u, x, q)'
        BY Zenon, <1>5, <3>3, <3>4 DEF Publishing
      <3>6. QED
        BY Zenon, <3>1, <3>2, <3>5
    <2>4. QED
      BY Zenon, <2>2, <2>3 DEF Pushes
  <1>8. Queues'
    BY Zenon, <1>1, <1>4 DEF Shown, Queues, Inv, LocalInv
  <1>9. Frames'
    <2>1. ASSUME NEW u \in Thread, u # t, NEW x \in Context, NEW q \in mailbox[x].inflight, Publishing(u, x, q)
          PROVE  q \in mailbox'[x].inflight
      <3>1. q # r
        <4>1. call[t].step = "publish" /\ call[u].step = "publish" /\ call[u].r = q
          BY Zenon, <1>1, <2>1 DEF Publishing
        <4>2. Pushes
          BY Zenon DEF Inv, LocalInv
        <4>3. QED
          BY ONLY Zenon, <2>1, <4>1, <4>2, t \in Thread, r = call[t].r DEF Pushes
      <3>2. QED
        BY Zenon, <1>4, <3>1 DEF Shown
    <2>2. QED
      BY Zenon, <1>1, <1>5, <2>1, CallFrames
  <1>10. Readies' /\ Stacks'
    BY SMTT(30), <1>1, <1>5 DEF Readies, Stacks, EntryContext, Inv, LocalInv
  <1>11. \A u \in Thread : \A q \in Runnable : InHand(call'[u], q) <=> InHand(call[u], q)
    <2>1. \A q \in Runnable : InHand(f, q) <=> q = f.more
      BY Zenon, <1>1, <1>3 DEF InHand
    <2>2. QED
      BY Zenon, <1>5, <2>1 DEF g
  <1>12. \A q, x, i : OnStack(q, x, i)' <=> OnStack(q, x, i)
    BY Zenon, <1>5 DEF OnStack
  <1>13. Once'
    <2>1. ASSUME NEW q \in Runnable, NEW k, NEW x, NEW i
          PROVE  Placed(q, k, x, i)' <=> Placed(q, k, x, i)
      BY Zenon, <1>1, <1>4, <1>11, <1>12 DEF Shown, Placed
    <2>2. QED
      BY ONLY Zenon, <2>1, Inv, OnceStep DEF Inv
  <1>14. \A d, x, i : KeepsEntry(d, x, i)' <=> KeepsEntry(d, x, i)
    BY Zenon, <1>1, <1>5 DEF KeepsEntry, EntryContext
  <1>15. \A d \in Context : d \in FrameContexts(f) <=> f.more # Null /\ d = f.from
    BY Zenon, <1>1, <1>3 DEF FrameContexts
  <1>16. \A u \in Thread : \A d \in Context :
           d \in FrameContexts(call'[u]) <=> d \in FrameContexts(call[u]) \/ (u = t /\ took /\ d = c)
    BY Zenon, <1>5, <1>15 DEF g
  <1>17. ASSUME NEW d \in Context, ~took \/ d # c, NEW k, NEW x, NEW i
         PROVE  Keeps(d, k, x, i)' <=> Keeps(d, k, x, i)
    BY Zenon, <1>1, <1>14, <1>16, <1>17 DEF Keeps
  <1>18. ASSUME took PROVE KeptOnce(c)' /\ mailbox'[c].locked
    <2>1. NotKept(c) /\ mailbox'[c].locked
      BY Zenon, <1>3, <1>4, <1>18 DEF Inv, Held, took
    <2>2. OnlyKeeper(c, "call", t, 0)'
      <3>1. \A x, i : ~Keeps(c, "entry", x, i) /\ ~Keeps(c, "ready", x, i) /\ ~Keeps(c, "call", x, i)
        BY Zenon, <2>1 DEF NotKept
      <3>2. QED
        BY Zenon, <1>1, <1>3, <1>14, <1>16, <1>18, <3>1 DEF Keeps, OnlyKeeper
    <2>3. QED
      BY ONLY Zenon, <2>1, <2>2, NewKeeper
  <1>19. \A d \in Context : ~took \/ d # c => (mailbox'[d].locked <=> mailbox[d].locked)
    BY Zenon, <1>4 DEF Shown, took
  <1>20. Held'
    BY ONLY Zenon, <1>17, <1>18, <1>19, Inv, HeldStep DEF Inv
  <1>21. QED
    BY Zenon, <1>6, <1>7, <1>8, <1>9, <1>10, <1>13, <1>20 DEF Inv, LocalInv

(* next_runnable() of the new context found nothing, or something that has *)
(* to be scheduled.                                                        *)
LEMMA PopPostsInv ==
  ASSUME Inv, NEW t \in Thread, call[t].step = "pop", NEW c, c = call[t].to, NEW nx, Left(c, nx),
         NEW more, more = call[t].more, NEW from, from = call[t].from,
         Completed(t, more, from), UNCHANGED <<context, scheduled, fresh, waiting>>
  PROVE  Inv'
  <1> DEFINE f == call[t]
  <1>1. /\ c \in Context /\ from # c /\ ~f.inline
        /\ more \in MaybeRunnable
    BY Zenon, InCallFacts
  <1>2. Popped(c, nx)
    BY Zenon DEF Left
  <1>3. /\ stack' = stack /\ call' \in [Thread -> Frame]
        /\ \A u \in Thread \ {t} : call'[u] = call[u]
        /\ call'[t].step # "publish" /\ FrameOK(t)'
        /\ \A q \in Runnable : InHand(call'[t], q) <=> q = more
        /\ \A d \in Context : d \in FrameContexts(call'[t]) <=> more # Null /\ d = from
    BY Zenon DEF Completed
  <1>4. TypeOK'
    BY Zenon, <1>2, <1>3 DEF Left, Popped, MailboxType, TypeOK, Inv, LocalInv
  <1>5. Pushes'
    <2>1. \A u \in Thread : \A x \in Context : \A q : Publishing(u, x, q)' <=> Publishing(u, x, q)
      BY Zenon, <1>3 DEF Publishing
    <2>2. \A u \in Thread : call'[u].step = "publish" => call[u].step = "publish" /\ call'[u].r = call[u].r
      BY Zenon, <1>3
    <2>3. QED
      BY Zenon, <1>1, <1>2, <2>1, <2>2, PopPushes
  <1>6. Queues'
    BY Zenon, <1>1, <1>2, PopQueues
  <1>7. Frames'
    BY Zenon, <1>2, <1>3, CallFrames DEF Popped
  <1>8. Stacks'
    BY ZenonT(40), <1>3 DEF Stacks, EntryContext, Inv, LocalInv
  <1>9. ready \in [Scheduler -> SUBSET Runnable] /\ ready' \in [Scheduler -> SUBSET Runnable]
    BY Zenon DEF Left, Inv, LocalInv, TypeOK
  <1>10. ASSUME nx # Null
         PROVE  nx \in Runnable /\ IsIn(mailbox[c].queue, nx) /\ context[nx] = c /\ SchedulerOf[c] \in Scheduler
    BY Zenon, <1>1, <1>2, <1>10, ConstantTypes DEF Popped, MaybeRunnable
  <1>11. Readies'
    <2>1. ASSUME NEW s \in Scheduler, NEW q \in ready'[s]
          PROVE  context[q] \in Context /\ SchedulerOf[context[q]] = s
      <3>1. q \in Runnable /\ (q \in ready[s] \/ (q = nx /\ s = SchedulerOf[c]))
        BY Zenon, <1>9 DEF Left
      <3>2. CASE q \in ready[s]
        BY Zenon, <3>2 DEF Inv, LocalInv, Readies
      <3>3. CASE q = nx /\ s = SchedulerOf[c]
        BY Zenon, <1>1, <1>10, <3>1, <3>3, ConstantTypes
      <3>4. QED
        BY Zenon, <3>1, <3>2, <3>3
    <2>2. QED
      BY Zenon, <2>1 DEF Readies
  <1>12. \A q, x, i : OnStack(q, x, i)' <=> OnStack(q, x, i)
    BY Zenon, <1>3 DEF OnStack
  <1>13. \A u \in Thread : \A q \in Runnable : InHand(call'[u], q) <=> InHand(call[u], q)
    <2>1. \A q \in Runnable : InHand(f, q) <=> q = more
      BY Zenon, <1>1 DEF InHand
    <2>2. QED
      BY Zenon, <1>3, <2>1
  <1>14. Once'
    <2>1. \A x \in Context : \A q \in Runnable :
            IsIn(mailbox'[x].queue, q) <=> IsIn(mailbox[x].queue, q) /\ q # nx
      BY Zenon, <1>2 DEF Popped
    <2>2. \A s \in Scheduler : \A q \in Runnable :
            q \in ready'[s] <=> q \in ready[s] \/ (q = nx /\ s = SchedulerOf[c])
      BY Zenon DEF Left
    <2>3. ASSUME NEW q \in Runnable, q # nx, NEW k, NEW x, NEW i
          PROVE  Placed(q, k, x, i)' <=> Placed(q, k, x, i)
      BY Zenon, <1>12, <1>13, <2>1, <2>2, <2>3 DEF Placed
    <2>4. ASSUME nx \in Runnable PROVE OnceAt(nx)'
      <3>1. nx # Null
        BY Zenon, <2>4, ConstantTypes
      <3>2. NotReady(nx) /\ NotInHand(nx) /\ NotOnStack(nx) /\ NotAtRest(nx)
        BY Zenon, <1>1, <1>10, <3>1, OnlyQueued DEF Inv
      <3>3. /\ \A x \in Context : ~IsIn(mailbox'[x].queue, nx)
            /\ \A s \in Scheduler : nx \in ready'[s] <=> s = SchedulerOf[c]
        BY Zenon, <2>1, <2>2, <2>4, <3>2 DEF NotReady
      <3>4. /\ \A u \in Thread : ~InHand(call'[u], nx)
            /\ nx \notin fresh' /\ nx \notin waiting'
            /\ \A x, i : ~OnStack(nx, x, i)'
        BY Zenon, <1>12, <1>13, <2>4, <3>2 DEF NotInHand, NotOnStack, NotAtRest
      <3>5. OnlyAt(nx, "ready", SchedulerOf[c], 0)'
        BY ONLY SMTT(30), <1>10, <3>1, <3>3, <3>4 DEF Placed, OnlyAt
      <3>6. QED
        BY ONLY Zenon, <3>5, NewPlace
    <2>5. QED
      BY ONLY Zenon, <2>3, <2>4, Inv, OnceStep DEF Inv
  <1>15. \A d, x, i : KeepsEntry(d, x, i)' <=> KeepsEntry(d, x, i)
    BY Zenon, <1>3 DEF KeepsEntry, EntryContext
  <1>16. \A u \in Thread : \A d \in Context :
           d \in FrameContexts(call'[u]) <=> d \in FrameContexts(call[u]) /\ ~(u = t /\ d = c)
    <2>1. \A d \in Context : d \in FrameContexts(f) <=> (more # Null /\ d = from) \/ d = c
      BY Zenon, <1>1 DEF FrameContexts
    <2>2. QED
      BY Zenon, <1>1, <1>3, <2>1
  <1>17. \A q : (\E s \in Scheduler : q \in ready'[s]) <=> (\E s \in Scheduler : q \in ready[s]) \/ (nx # Null /\ q = nx)
    BY ZenonT(60), <1>9, <1>10, ConstantTypes DEF Left
  <1>18. ASSUME NEW d \in Context, d # c, NEW k, NEW x, NEW i
         PROVE  Keeps(d, k, x, i)' <=> Keeps(d, k, x, i)
    BY SMTT(30), <1>10, <1>15, <1>16, <1>17, <1>18 DEF Keeps
  <1>19. \A k, x, i : Keeps(c, k, x, i) => k = "call" /\ x = t
    <2>1. c \in FrameContexts(f)
      BY Zenon, <1>1 DEF FrameContexts
    <2>2. Keeps(c, "call", t, 0)
      BY Zenon, <2>1 DEF Keeps
    <2>3. QED
      BY Zenon, <1>1, <2>2 DEF Inv, Held, KeptOnce, NotKept
  <1>20. \A x, i : ~Keeps(c, "entry", x, i) /\ ~Keeps(c, "ready", x, i) /\ (Keeps(c, "call", x, i) => x = t)
    BY Zenon, <1>19
  <1>21. \A x, i : ~Keeps(c, "entry", x, i)' /\ ~Keeps(c, "call", x, i)'
    BY Zenon, <1>1, <1>15, <1>16, <1>20 DEF Keeps
  <1>22. \A x, i : Keeps(c, "ready", x, i)' <=> nx # Null /\ x = nx /\ i = 0
    BY Zenon, <1>10, <1>17, <1>20 DEF Keeps
  <1>23. ASSUME nx # Null PROVE KeptOnce(c)'
    <2>1. OnlyKeeper(c, "ready", nx, 0)'
      BY Zenon, <1>21, <1>22, <1>23 DEF Keeps, OnlyKeeper
    <2>2. QED
      BY ONLY Zenon, <2>1, NewKeeper
  <1>24. ASSUME nx = Null PROVE NotKept(c)'
    BY Zenon, <1>21, <1>22, <1>24 DEF Keeps, NotKept
  <1>25. \A d \in Context \ {c} : mailbox'[d].locked <=> mailbox[d].locked
    BY Zenon, <1>2 DEF Popped
  <1>26. mailbox'[c].locked <=> nx # Null
    BY Zenon, <1>2 DEF Popped
  <1>27. Held
    BY Zenon DEF Inv
  <1>28. Held'
    BY ONLY Zenon, <1>18, <1>23, <1>24, <1>25, <1>26, <1>27, HeldStep
  <1>29. QED
    BY ZenonT(60), <1>4, <1>5, <1>6, <1>7, <1>8, <1>11, <1>14, <1>28 DEF Inv, LocalInv

(* A runnable that was on no stack goes on in its context, on top of t's. *)
PushedOn(t, r, c, n) ==
  /\ stack' \in [Thread -> Seq(Entry)] /\ Stacks'
  /\ \A u \in Thread \ {t} : stack'[u] = stack[u]
  /\ \A q, x, i : OnStack(q, x, i)' <=> OnStack(q, x, i) \/ (q = r /\ x = t /\ i = n)
  /\ \A d, x, i : KeepsEntry(d, x, i)' <=> KeepsEntry(d, x, i) \/ (d = c /\ x = t /\ i = n)

(* The task of a call goes on: it becomes the top of its thread's stack. *)
LEMMA PushOn ==
  ASSUME Inv, NEW t \in Thread, NEW r \in Runnable, NotOnStack(r), NEW c, context[r] = c,
         AtHome(t, c), ~HasCurrent(stack[t]), context' = context,
         stack' = [stack EXCEPT ![t] = Append(@, Task(r))]
  PROVE  PushedOn(t, r, c, Len(stack[t]) + 1)
  <1> DEFINE e == Task(r)  st == stack[t]
  <1>1. TypeOK /\ Stacks /\ st \in Seq(Entry) /\ Len(st) \in Nat /\ DOMAIN st = 1..Len(st)
    BY SMTT(30) DEF Inv, LocalInv, TypeOK
  <1>2. e \in Entry /\ e.kind = "task" /\ e.r = r /\ \A q : Carries(e, q) <=> q = r
    BY Zenon DEF Task, Entry, MaybeContext, Carries
  <1>3. EntryContext(e)' = c
    BY Zenon, <1>2 DEF EntryContext
  <1> HIDE DEF e
  <1>4. /\ stack' \in [Thread -> Seq(Entry)]
        /\ \A q, x, i : OnStack(q, x, i)' <=>
             \/ OnStack(q, x, i) /\ (x = t => i <= Len(st))
             \/ x = t /\ i = Len(st) + 1 /\ Carries(e, q)
        /\ \A d, x, i : KeepsEntry(d, x, i)' <=>
             \/ KeepsEntry(d, x, i) /\ (x = t => i <= Len(st))
             \/ x = t /\ i = Len(st) + 1 /\ EntryContext(e)' = d
        /\ /\ Stacks
           /\ e.kind # "leave" /\ EntryContext(e)' # None =>
                AtHome(t, EntryContext(e)') /\ ~HasCurrent(st)
           => Stacks'
        /\ \A u \in Thread \ {t} : stack'[u] = stack[u]
    <2>1. Len(st) <= Len(stack[t]) /\ \A i \in 1..Len(st) : st[i] = stack[t][i]
      BY SMTT(30), <1>1
    <2>2. stack' = [stack EXCEPT ![t] = Append(st, e)]
      BY Zenon DEF e
    <2>3. /\ \A q \in Runnable \ {r} : context'[q] = context[q]
          /\ \A x, i : OnStack(r, x, i) => x = t /\ i > Len(st)
      BY Zenon DEF NotOnStack
    <2>4. QED
      BY ONLY Zenon, <1>1, <1>2, <2>1, <2>2, <2>3, t \in Thread, StackAdds
  <1>5. Stacks'
    BY Zenon, <1>1, <1>3, <1>4
  <1>6. /\ \A q, i : OnStack(q, t, i) => i <= Len(st)
        /\ \A d, i : KeepsEntry(d, t, i) => i <= Len(st)
    BY SMTT(30), <1>1 DEF OnStack, KeepsEntry
  <1>7. \A q, x, i : OnStack(q, x, i)' <=> OnStack(q, x, i) \/ (q = r /\ x = t /\ i = Len(st) + 1)
    BY SMTT(30), <1>2, <1>4, <1>6
  <1>8. \A d, x, i : KeepsEntry(d, x, i)' <=> KeepsEntry(d, x, i) \/ (d = c /\ x = t /\ i = Len(st) + 1)
    BY SMTT(30), <1>3, <1>4, <1>6
  <1>9. QED
    BY Zenon, <1>4, <1>5, <1>7, <1>8 DEF PushedOn

(* next_runnable() returned the call's own runnable, which may go on. *)
LEMMA PopInlineInv ==
  ASSUME Inv, NEW t \in Thread, call[t].step = "pop", NEW c, c = call[t].to,
         NEW r, r = call[t].r, Popped(c, r), ready' = ready, Complete(t, TRUE), NEW n,
         n = Len(stack[t]) + 1, AtHome(t, c), ~HasCurrent(stack[t]),
         UNCHANGED <<context, scheduled, fresh, waiting>>
  PROVE  Inv'
  <1> DEFINE f == call[t]  g == call'[t]
  <1>1. /\ r \in Runnable /\ c \in Context /\ f.from # c /\ ~f.inline
        /\ f.more \in MaybeRunnable
        /\ f.more # Null => f.from \in Context /\ context[f.more] = f.from
        /\ FrameOK(t)
    BY Zenon, InCallFacts
  <1>2. r # Null /\ IsIn(mailbox[c].queue, r) /\ context[r] = c /\ f.more # r
    BY Zenon, <1>1, ConstantTypes DEF Popped
  <1>3. NotReady(r) /\ NotInHand(r) /\ NotOnStack(r) /\ NotAtRest(r)
    BY Zenon, <1>1, <1>2, OnlyQueued DEF Inv
  <1>4. CASE f.more = Null
    <2>1. call' = [call EXCEPT ![t] = NoCall] /\ stack' = [stack EXCEPT ![t] = Append(@, Task(r))]
      BY Zenon, <1>4 DEF Complete
    <2>2. /\ call' \in [Thread -> Frame] /\ g = NoCall
          /\ \A u \in Thread \ {t} : call'[u] = call[u]
      BY Zenon, <2>1, NoCallHoldsNothing DEF Inv, LocalInv, TypeOK
    <2> HIDE DEF g
    <2>3. PushedOn(t, r, c, n)
      <3>1. context' = context
        OBVIOUS
      <3>2. QED
        BY ONLY ZenonT(60), Inv, t \in Thread, <1>1, <1>2, <1>3, <2>1, <3>1, n = Len(stack[t]) + 1,
                AtHome(t, c), ~HasCurrent(stack[t]), PushOn
    <2>4. /\ stack' \in [Thread -> Seq(Entry)] /\ Stacks'
          /\ \A u \in Thread \ {t} : stack'[u] = stack[u]
          /\ \A q, x, i : OnStack(q, x, i)' <=> OnStack(q, x, i) \/ (q = r /\ x = t /\ i = n)
          /\ \A d, x, i : KeepsEntry(d, x, i)' <=> KeepsEntry(d, x, i) \/ (d = c /\ x = t /\ i = n)
      BY Zenon, <2>3 DEF PushedOn
    <2>5. TypeOK'
      BY Zenon, <2>2, <2>4 DEF Popped, MailboxType, TypeOK, Inv, LocalInv
    <2>6. g.step # "publish"
      BY Zenon, <2>2 DEF NoCall
    <2>7. Pushes'
      <3>1. \A u \in Thread : \A x \in Context : \A q : Publishing(u, x, q)' <=> Publishing(u, x, q)
        BY Zenon, <2>2, <2>6 DEF Publishing, g
      <3>2. \A u \in Thread : call'[u].step = "publish" => call[u].step = "publish" /\ call'[u].r = call[u].r
        BY Zenon, <2>2, <2>6 DEF g
      <3>3. QED
        BY Zenon, <1>1, <3>1, <3>2, PopPushes
    <2>8. Queues' /\ Readies'
      BY Zenon, <1>1, PopQueues DEF Readies, Inv, LocalInv
    <2>9. Frames'
      <3>1. FrameOK(t)'
        BY Zenon, <2>2, NoFrame DEF g
      <3>2. QED
        BY Zenon, <2>2, <2>4, <3>1, CallFrames DEF Popped
    <2>10. \A u \in Thread : \A q \in Runnable : InHand(call'[u], q) <=> InHand(call[u], q)
      <3>1. \A q \in Runnable : ~InHand(f, q)
        BY Zenon, <1>1, <1>4, ConstantTypes DEF InHand
      <3>2. QED
        BY Zenon, <2>2, <3>1, NoCallHoldsNothing DEF g
    <2>11. Once'
      <3>1. \A x \in Context : \A q \in Runnable :
              IsIn(mailbox'[x].queue, q) <=> IsIn(mailbox[x].queue, q) /\ q # r
        BY Zenon DEF Popped
      <3>2. ASSUME NEW q \in Runnable, q # r, NEW k, NEW x, NEW i
            PROVE  Placed(q, k, x, i)' <=> Placed(q, k, x, i)
        BY Zenon, <2>4, <2>10, <3>1, <3>2 DEF Placed
      <3>3. \A x, i : OnStack(r, x, i)' <=> x = t /\ i = n
        BY SMTT(30), <1>3, <2>4 DEF NotOnStack
      <3>4. /\ \A x \in Context : ~IsIn(mailbox'[x].queue, r)
            /\ \A s \in Scheduler : r \notin ready'[s]
            /\ \A u \in Thread : ~InHand(call'[u], r)
            /\ r \notin fresh' /\ r \notin waiting'
        BY Zenon, <1>1, <1>3, <2>10, <3>1 DEF NotReady, NotInHand, NotAtRest
      <3>5. OnlyAt(r, "entry", t, n)'
        BY ONLY SMTT(30), <3>3, <3>4 DEF Placed, OnlyAt
      <3>6. OnceAt(r)'
        BY ONLY Zenon, <3>5, NewPlace
      <3>7. QED
        BY ONLY Zenon, <3>2, <3>6, Inv, OnceStep DEF Inv
    <2>12. Held'
      <3>1. \A d \in Context : d \in FrameContexts(f) <=> d = c
        BY Zenon, <1>1, <1>4 DEF FrameContexts
      <3>2. \A u \in Thread : \A d \in Context :
              d \in FrameContexts(call'[u]) <=> d \in FrameContexts(call[u]) /\ u # t
        BY Zenon, <2>2, NoCallHoldsNothing DEF g
      <3>3. ASSUME NEW d \in Context, d # c, NEW k, NEW x, NEW i
            PROVE  Keeps(d, k, x, i)' <=> Keeps(d, k, x, i)
        BY Zenon, <2>4, <3>1, <3>2, <3>3 DEF Keeps
      <3>4. Keeps(c, "call", t, 0)
        BY Zenon, <1>1, <3>1 DEF Keeps
      <3>5. \A k, x, i : Keeps(c, k, x, i) => k = "call" /\ x = t
        BY Zenon, <1>1, <3>4 DEF Inv, Held, KeptOnce, NotKept
      <3>6. \A x, i : ~Keeps(c, "entry", x, i) /\ ~Keeps(c, "ready", x, i) /\ (Keeps(c, "call", x, i) => x = t)
        BY Zenon, <3>5
      <3>7. \A x, i : ~Keeps(c, "ready", x, i)' /\ ~Keeps(c, "call", x, i)' /\ ~KeepsEntry(c, x, i)
        BY Zenon, <1>1, <3>2, <3>6 DEF Keeps
      <3>8. OnlyKeeper(c, "entry", t, n)'
        BY Zenon, <2>4, <3>7 DEF Keeps, OnlyKeeper
      <3>9. KeptOnce(c)'
        BY ONLY Zenon, <3>8, NewKeeper
      <3>10. mailbox'[c].locked /\ \A d \in Context \ {c} : mailbox'[d].locked <=> mailbox[d].locked
        BY Zenon, <1>2 DEF Popped
      <3>11. QED
        BY ONLY Zenon, <3>3, <3>9, <3>10, Inv, HeldStep DEF Inv
    <2>13. QED
      BY Zenon, <2>4, <2>5, <2>7, <2>8, <2>9, <2>11, <2>12 DEF Inv, LocalInv
  <1>5. CASE f.more # Null
    <2>1. call' = [call EXCEPT ![t].step = "more", ![t].inline = TRUE] /\ stack' = stack
      BY Zenon, <1>5 DEF Complete
    <2>2. /\ call' \in [Thread -> Frame] /\ \A u \in Thread \ {t} : call'[u] = call[u]
          /\ FrameLike(g, f) /\ g.step = "more"
          /\ g.inline <=> TRUE
      <3>1. TypeOK
        BY Zenon DEF Inv, LocalInv
      <3>2. QED
        BY ONLY Zenon, <2>1, <3>1, t \in Thread, TRUE \in BOOLEAN, CallPosts
    <2> HIDE DEF g
    <2>3. TypeOK'
      BY Zenon, <2>1, <2>2 DEF Popped, MailboxType, TypeOK, Inv, LocalInv
    <2>4. Pushes'
      <3>1. \A u \in Thread : \A x \in Context : \A q : Publishing(u, x, q)' <=> Publishing(u, x, q)
        BY Zenon, <2>2 DEF Publishing, g
      <3>2. \A u \in Thread : call'[u].step = "publish" => call[u].step = "publish" /\ call'[u].r = call[u].r
        BY Zenon, <2>2 DEF g
      <3>3. QED
        BY Zenon, <1>1, <3>1, <3>2, PopPushes
    <2>5. Queues' /\ Readies' /\ Stacks'
      BY Zenon, <1>1, <2>1, PopQueues DEF Readies, Stacks, EntryContext, Inv, LocalInv
    <2>6. Frames'
      <3>1. FrameOK(t)'
        <4>1. AsksPreempt(g) <=> AsksPreempt(f)
          BY Zenon, <2>2 DEF AsksPreempt, FrameLike
        <4>2. QED
          BY SMTT(30), <1>1, <1>2, <1>5, <2>1, <2>2, <4>1 DEF FrameOK, FrameLike, g
      <3>2. QED
        BY ZenonT(40), <2>1, <2>2, <3>1, CallFrames DEF Popped
    <2>7. \A u \in Thread : \A q \in Runnable : InHand(call'[u], q) <=> InHand(call[u], q) \/ (u = t /\ q = r)
      <3>1. \A q \in Runnable : InHand(g, q) <=> InHand(f, q) \/ q = r
        BY Zenon, <1>1, <2>2 DEF InHand, FrameLike
      <3>2. QED
        BY Zenon, <2>2, <3>1 DEF g
    <2>8. Once'
      <3>1. \A x \in Context : \A q \in Runnable :
              IsIn(mailbox'[x].queue, q) <=> IsIn(mailbox[x].queue, q) /\ q # r
        BY Zenon DEF Popped
      <3>2. \A q, x, i : OnStack(q, x, i)' <=> OnStack(q, x, i)
        BY Zenon, <2>1 DEF OnStack
      <3>3. ASSUME NEW q \in Runnable, q # r, NEW k, NEW x, NEW i
            PROVE  Placed(q, k, x, i)' <=> Placed(q, k, x, i)
        BY Zenon, <2>7, <3>1, <3>2, <3>3 DEF Placed
      <3>4. \A u \in Thread : InHand(call'[u], r) <=> u = t
        BY Zenon, <1>1, <1>3, <2>7 DEF NotInHand
      <3>5. /\ \A x \in Context : ~IsIn(mailbox'[x].queue, r)
            /\ \A s \in Scheduler : r \notin ready'[s]
            /\ r \notin fresh' /\ r \notin waiting'
            /\ \A x, i : ~OnStack(r, x, i)'
        BY Zenon, <1>1, <1>3, <3>1, <3>2 DEF NotReady, NotOnStack, NotAtRest
      <3>6. OnlyAt(r, "call", t, 0)'
        BY ONLY ZenonT(40), <3>4, <3>5, t \in Thread DEF Placed, OnlyAt
      <3>7. OnceAt(r)'
        BY ONLY Zenon, <3>6, NewPlace
      <3>8. QED
        BY ONLY Zenon, <3>3, <3>7, Inv, OnceStep DEF Inv
    <2>9. Held'
      <3>1. FrameContexts(g) = FrameContexts(f)
        BY Zenon, <1>1, <2>2 DEF FrameContexts, FrameLike
      <3>2. \A u \in Thread : FrameContexts(call'[u]) = FrameContexts(call[u])
        BY Zenon, <2>2, <3>1 DEF g
      <3>3. \A d, x, i : KeepsEntry(d, x, i)' <=> KeepsEntry(d, x, i)
        BY Zenon, <2>1 DEF KeepsEntry, EntryContext
      <3>4. ASSUME NEW d \in Context, NEW k, NEW x, NEW i
            PROVE  Keeps(d, k, x, i)' <=> Keeps(d, k, x, i)
        BY Zenon, <3>2, <3>3 DEF Keeps
      <3>5. \A d \in Context : mailbox'[d].locked <=> mailbox[d].locked
        BY Zenon, <1>2 DEF Popped
      <3>6. QED
        BY ONLY Zenon, <3>4, <3>5, Inv, HeldStep DEF Inv
    <2>10. QED
      BY Zenon, <2>3, <2>4, <2>5, <2>6, <2>8, <2>9 DEF Inv, LocalInv
  <1>6. QED
    BY Zenon, <1>4, <1>5

(* next_runnable() of the new context, and what is done with its answer. *)
LEMMA PopInv ==
  ASSUME Inv, NEW t \in Thread, Pop(t), NEW r, NEW c, r = call[t].r, c = call[t].to,
         NEW more, more = call[t].more, NEW from, from = call[t].from
  PROVE  Inv'
  <1> DEFINE f == call[t]
  <1>1. f.step = "pop" /\ UNCHANGED <<context, scheduled, fresh, waiting>>
    BY Zenon DEF Pop
  <1>2. /\ r \in Runnable /\ c \in Context /\ from # c /\ FrameOK(t) /\ f \in Frame
        /\ r # Null /\ c # None
    BY Zenon, <1>1, InCallFacts, ConstantTypes
  <1>3. PICK o \in PopOutcomes(mailbox[c]), preempt \in MaybePreempt(t, c, stack[t]) :
          /\ mailbox' = [mailbox EXCEPT ![c] = o.mb]
          /\ IF o.next = Null
             THEN Complete(t, FALSE) /\ UNCHANGED ready
             ELSE IF o.next # r \/ MustPost(f) \/ (AsksPreempt(f) /\ preempt)
             THEN Complete(t, FALSE) /\ ready' = Schedule(c, o.next)
             ELSE Complete(t, TRUE) /\ UNCHANGED ready
    BY Zenon DEF Pop
  <1>4. Popped(c, o.next)
    BY Zenon, <1>2, <1>3, PopStep
  <1>5. ASSUME Left(c, o.next), Complete(t, FALSE) PROVE Inv'
    <2>1. Completed(t, more, from)
      BY Zenon, <1>1, <1>5, CompleteStep
    <2>2. QED
      BY ONLY Zenon, Inv, t \in Thread, <1>1, <1>5, <2>1, PopPostsInv, c = call[t].to,
              more = call[t].more, from = call[t].from
  <1>6. CASE o.next = Null
    <2>1. ready' = ready /\ ready \in [Scheduler -> SUBSET Runnable] /\ Complete(t, FALSE)
      BY Zenon, <1>3, <1>6 DEF Inv, LocalInv, TypeOK
    <2>2. Left(c, o.next)
      BY Zenon, <1>4, <1>6, <2>1, ConstantTypes DEF Left
    <2>3. QED
      BY Zenon, <1>5, <2>1, <2>2
  <1>7. CASE o.next # Null /\ (o.next # r \/ MustPost(f) \/ (AsksPreempt(f) /\ preempt))
    <2>1. o.next \in Runnable /\ ready' = Schedule(c, o.next) /\ Complete(t, FALSE)
      BY Zenon, <1>3, <1>4, <1>7 DEF Popped, MaybeRunnable
    <2>2. Left(c, o.next)
      BY SMTT(30), <1>2, <1>4, <2>1, ScheduleAdds DEF Left, Inv, LocalInv
    <2>3. QED
      BY Zenon, <1>5, <2>1, <2>2
  <1>8. CASE o.next = r /\ ~MustPost(f) /\ ~(AsksPreempt(f) /\ preempt)
    <2>1. ready' = ready /\ Complete(t, TRUE)
      BY Zenon, <1>2, <1>3, <1>8
    <2>2. AtHome(t, c) /\ ~HasCurrent(stack[t])
      <3>1. CASE AsksPreempt(f)
        <4>1. ~preempt
          BY Zenon, <1>8, <3>1
        <4>2. QED
          BY Zenon, <1>2, <4>1 DEF MaybePreempt, PreemptOutcomes, AtHome
      <3>2. CASE ~AsksPreempt(f)
        <4>1. AtHome(t, from) /\ ~HasCurrent(stack[t])
          BY Zenon, <1>1, <1>2, <3>2 DEF FrameOK
        <4>2. SchedulerOf[from] = SchedulerOf[c]
          BY Zenon, <1>8, <3>2 DEF MustPost, AsksPreempt
        <4>3. QED
          BY Zenon, <4>1, <4>2 DEF AtHome
      <3>3. QED
        BY Zenon, <3>1, <3>2
    <2>3. Popped(c, r)
      BY Zenon, <1>4, <1>8
    <2>4. QED
      BY ONLY Zenon, Inv, t \in Thread, <1>1, <2>1, <2>2, <2>3, PopInlineInv, c = call[t].to, r = call[t].r
  <1>9. QED
    BY Zenon, <1>2, <1>6, <1>7, <1>8

(* Posting what transfer() took from the old context. *)
LEMMA PostMoreInv ==
  ASSUME Inv, NEW t \in Thread, PostMore(t), NEW r, NEW c, r = call[t].r, c = call[t].to,
         NEW more, more = call[t].more, NEW from, from = call[t].from,
         NEW n, n = Len(stack[t]) + 1
  PROVE  Inv'
  <1> DEFINE f == call[t]  g == call'[t]
  <1>1. /\ f.step = "more" /\ ready' = Schedule(from, more)
        /\ call' = [call EXCEPT ![t] = NoCall]
        /\ f.inline => stack' = [stack EXCEPT ![t] = Append(@, Task(r))]
        /\ ~f.inline => stack' = stack
        /\ UNCHANGED <<mailbox, context, scheduled, fresh, waiting>>
    BY Zenon DEF PostMore
  <1>2. /\ r \in Runnable /\ c \in Context /\ from # c /\ FrameOK(t)
        /\ more \in Runnable /\ from \in Context /\ context[more] = from
        /\ more # Null /\ SchedulerOf[from] \in Scheduler
    BY Zenon, <1>1, InCallFacts, ConstantTypes DEF FrameOK, MaybeRunnable
  <1>3. f.inline => context[r] = c /\ more # r /\ AtHome(t, c) /\ ~HasCurrent(stack[t])
    BY Zenon, <1>2 DEF FrameOK
  <1>4. InHand(f, more) /\ (f.inline => InHand(f, r))
    BY Zenon DEF InHand
  <1>5. /\ NotQueued(more) /\ NotReady(more) /\ NotOnStack(more) /\ NotAtRest(more)
        /\ \A u \in Thread : InHand(call[u], more) => u = t
    BY Zenon, <1>2, <1>4, OnlyInHand DEF Inv
  <1>6. ASSUME f.inline
        PROVE  /\ NotQueued(r) /\ NotReady(r) /\ NotOnStack(r) /\ NotAtRest(r)
               /\ \A u \in Thread : InHand(call[u], r) => u = t
    BY Zenon, <1>2, <1>4, <1>6, OnlyInHand DEF Inv
  <1>7. /\ call' \in [Thread -> Frame] /\ g = NoCall
        /\ \A u \in Thread \ {t} : call'[u] = call[u]
    BY Zenon, <1>1, NoCallHoldsNothing DEF Inv, LocalInv, TypeOK
  <1> HIDE DEF g
  <1>8. /\ ready' \in [Scheduler -> SUBSET Runnable]
        /\ \A s \in Scheduler : \A q :
             q \in ready'[s] <=> q \in ready[s] \/ (q = more /\ s = SchedulerOf[from])
    BY SMTT(30), <1>1, <1>2, ScheduleAdds DEF Inv, LocalInv
  <1>9. /\ stack' \in [Thread -> Seq(Entry)] /\ Stacks'
        /\ \A u \in Thread \ {t} : stack'[u] = stack[u]
        /\ \A q, x, i : OnStack(q, x, i)' <=>
             OnStack(q, x, i) \/ (f.inline /\ q = r /\ x = t /\ i = n)
        /\ \A d, x, i : KeepsEntry(d, x, i)' <=>
             KeepsEntry(d, x, i) \/ (f.inline /\ d = c /\ x = t /\ i = n)
    <2>1. CASE f.inline
      <3>1. stack' = [stack EXCEPT ![t] = Append(@, Task(r))] /\ context' = context
        BY Zenon, <1>1, <2>1
      <3>2. context[r] = c /\ AtHome(t, c) /\ ~HasCurrent(stack[t]) /\ NotOnStack(r)
        BY Zenon, <1>3, <1>6, <2>1
      <3>3. PushedOn(t, r, c, n)
        BY ONLY Zenon, Inv, t \in Thread, <1>2, <3>1, <3>2, n = Len(stack[t]) + 1, PushOn
      <3>4. QED
        BY SMTT(30), <2>1, <3>3 DEF PushedOn
    <2>2. CASE ~f.inline
      <3>1. stack' = stack /\ context' = context
        BY Zenon, <1>1, <2>2
      <3>2. stack \in [Thread -> Seq(Entry)] /\ Stacks
        BY Zenon DEF Inv, LocalInv, TypeOK
      <3>3. Stacks'
        BY Zenon, <3>1, <3>2 DEF Stacks, EntryContext
      <3>4. /\ \A q, x, i : OnStack(q, x, i)' <=> OnStack(q, x, i)
            /\ \A d, x, i : KeepsEntry(d, x, i)' <=> KeepsEntry(d, x, i)
        BY Zenon, <3>1 DEF OnStack, KeepsEntry, EntryContext
      <3>5. QED
        BY Zenon, <2>2, <3>1, <3>2, <3>3, <3>4
    <2>3. QED
      BY Zenon, <2>1, <2>2
  <1>10. TypeOK'
    BY Zenon, <1>1, <1>7, <1>8, <1>9 DEF TypeOK, Inv, LocalInv
  <1>11. g.step # "publish"
    BY Zenon, <1>7 DEF NoCall
  <1>12. Pushes'
    <2>1. \A u \in Thread : \A x \in Context : \A q : Publishing(u, x, q)' <=> Publishing(u, x, q)
      BY Zenon, <1>1, <1>7, <1>11 DEF Publishing, g
    <2>2. \A u \in Thread : call'[u].step = "publish" => call[u].step = "publish" /\ call'[u].r = call[u].r
      BY Zenon, <1>7, <1>11 DEF g
    <2>3. Pushes
      BY Zenon DEF Inv, LocalInv
    <2>4. mailbox \in [Context -> MailboxType]
      BY Zenon DEF Inv, LocalInv, TypeOK, MailboxType
    <2>5. QED
      BY SMTT(30), <1>1, <2>1, <2>2, <2>3, <2>4 DEF Pushes, MailboxType
  <1>13. Queues'
    BY Zenon, <1>1 DEF Queues, Inv, LocalInv
  <1>14. Frames'
    <2>1. FrameOK(t)'
      BY Zenon, <1>7, NoFrame DEF g
    <2>2. QED
      BY Zenon, <1>1, <1>7, <1>9, <2>1, CallFrames
  <1>15. Readies'
    BY SMTT(30), <1>1, <1>2, <1>8, ConstantTypes DEF Readies, Inv, LocalInv
  <1>16. \A u \in Thread : \A q \in Runnable :
           InHand(call'[u], q) <=> InHand(call[u], q) /\ q # more /\ ~(f.inline /\ q = r)
    <2>1. \A q \in Runnable : InHand(f, q) <=> q = more \/ (f.inline /\ q = r)
      BY Zenon, <1>1 DEF InHand
    <2>2. \A q \in Runnable : ~InHand(g, q)
      BY Zenon, <1>7, NoCallHoldsNothing
    <2>3. QED
      BY Zenon, <1>5, <1>6, <1>7, <2>1, <2>2 DEF g
  <1>17. Once'
    <2>1. ASSUME NEW q \in Runnable, q # more, ~(f.inline /\ q = r), NEW k, NEW x, NEW i
          PROVE  Placed(q, k, x, i)' <=> Placed(q, k, x, i)
      BY Zenon, <1>1, <1>8, <1>9, <1>16, <2>1 DEF Placed
    <2>2. OnceAt(more)'
      <3>1. /\ \A x \in Context : ~IsIn(mailbox'[x].queue, more)
            /\ \A s \in Scheduler : more \in ready'[s] <=> s = SchedulerOf[from]
            /\ \A u \in Thread : ~InHand(call'[u], more)
            /\ more \notin fresh' /\ more \notin waiting'
        BY ONLY SMTT(30), <1>1, <1>2, <1>5, <1>8, <1>16, ConstantTypes DEF NotQueued, NotReady, NotAtRest
      <3>2. \A x, i : ~OnStack(more, x, i)'
        BY Zenon, <1>3, <1>5, <1>9 DEF NotOnStack
      <3>3. OnlyAt(more, "ready", SchedulerOf[from], 0)'
        BY ONLY Zenon, <1>2, <3>1, <3>2 DEF Placed, OnlyAt
      <3>4. QED
        BY ONLY Zenon, <3>3, NewPlace
    <2>3. ASSUME f.inline PROVE OnceAt(r)'
      <3>1. \A x, i : OnStack(r, x, i)' <=> x = t /\ i = n
        BY SMTT(30), <1>6, <1>9, <2>3 DEF NotOnStack
      <3>2. /\ \A x \in Context : ~IsIn(mailbox'[x].queue, r)
            /\ \A s \in Scheduler : r \notin ready'[s]
            /\ \A u \in Thread : ~InHand(call'[u], r)
            /\ r \notin fresh' /\ r \notin waiting'
        <4>1. NotQueued(r) /\ NotAtRest(r) /\ NotReady(r) /\ r # more
          BY Zenon, <1>3, <1>6, <2>3
        <4>2. \A s \in Scheduler : r \notin ready'[s]
          BY ONLY SMTT(30), <1>1, <1>2, <1>8, <4>1, ConstantTypes DEF NotReady
        <4>3. \A u \in Thread : ~InHand(call'[u], r)
          BY ONLY Zenon, <1>2, <1>16, <2>3
        <4>4. QED
          BY Zenon, <1>1, <4>1, <4>2, <4>3 DEF NotQueued, NotAtRest
      <3>3. OnlyAt(r, "entry", t, n)'
        BY ONLY SMTT(30), <3>1, <3>2 DEF Placed, OnlyAt
      <3>4. QED
        BY ONLY Zenon, <3>3, NewPlace
    <2>4. QED
      BY ONLY Zenon, <2>1, <2>2, <2>3, Inv, OnceStep DEF Inv
  <1>18. Held'
    <2>1. \A d \in Context : d \in FrameContexts(f) <=> d = from \/ (f.inline /\ d = c)
      BY Zenon, <1>1, <1>2 DEF FrameContexts
    <2>2. \A u \in Thread : \A d \in Context :
            d \in FrameContexts(call'[u]) <=> d \in FrameContexts(call[u]) /\ u # t
      BY Zenon, <1>7, NoCallHoldsNothing DEF g
    <2>3. \A q : (\E s \in Scheduler : q \in ready'[s]) <=> (\E s \in Scheduler : q \in ready[s]) \/ q = more
      BY Zenon, <1>2, <1>8
    <2>4. ASSUME NEW d \in Context, d # from, ~(f.inline /\ d = c), NEW k, NEW x, NEW i
          PROVE  Keeps(d, k, x, i)' <=> Keeps(d, k, x, i)
      BY ZenonT(60), <1>1, <1>2, <1>9, <2>1, <2>2, <2>3, <2>4 DEF Keeps
    <2>5. ASSUME NEW d \in Context, d \in FrameContexts(f)
          PROVE  /\ mailbox'[d].locked
                 /\ \A x, i : ~Keeps(d, "entry", x, i) /\ ~Keeps(d, "ready", x, i)
                 /\ \A x, i : ~Keeps(d, "call", x, i)'
      <3>1. Keeps(d, "call", t, 0)
        BY Zenon, <2>5 DEF Keeps
      <3>2. mailbox[d].locked /\ \A k, x, i : Keeps(d, k, x, i) => k = "call" /\ x = t
        BY Zenon, <3>1 DEF Inv, Held, KeptOnce, NotKept
      <3>3. \A x, i : ~Keeps(d, "entry", x, i) /\ ~Keeps(d, "ready", x, i) /\ (Keeps(d, "call", x, i) => x = t)
        BY Zenon, <3>2
      <3>4. \A x, i : ~Keeps(d, "call", x, i)'
        BY Zenon, <2>2, <3>3 DEF Keeps
      <3>5. QED
        BY Zenon, <1>1, <3>2, <3>3, <3>4
    <2>6. mailbox'[from].locked /\ KeptOnce(from)'
      <3>1. /\ mailbox'[from].locked /\ \A x, i : ~Keeps(from, "call", x, i)'
            /\ \A x, i : ~Keeps(from, "entry", x, i) /\ ~Keeps(from, "ready", x, i)
        BY Zenon, <1>2, <2>1, <2>5
      <3>2. \A x, i : ~Keeps(from, "entry", x, i)'
        BY Zenon, <1>2, <1>9, <3>1 DEF Keeps
      <3>3. \A x, i : Keeps(from, "ready", x, i)' <=> x = more /\ i = 0
        BY Zenon, <1>1, <1>2, <2>3, <3>1 DEF Keeps
      <3>4. OnlyKeeper(from, "ready", more, 0)'
        BY Zenon, <3>1, <3>2, <3>3 DEF Keeps, OnlyKeeper
      <3>5. QED
        BY ONLY Zenon, <3>1, <3>4, NewKeeper
    <2>7. ASSUME f.inline PROVE mailbox'[c].locked /\ KeptOnce(c)'
      <3>1. /\ mailbox'[c].locked /\ \A x, i : ~Keeps(c, "call", x, i)'
            /\ \A x, i : ~Keeps(c, "entry", x, i) /\ ~Keeps(c, "ready", x, i)
        BY Zenon, <1>2, <2>1, <2>5, <2>7
      <3>2. \A x, i : Keeps(c, "entry", x, i)' <=> x = t /\ i = n
        BY Zenon, <1>9, <2>7, <3>1 DEF Keeps
      <3>3. \A x, i : ~Keeps(c, "ready", x, i)'
        BY Zenon, <1>1, <1>2, <2>3, <3>1 DEF Keeps
      <3>4. OnlyKeeper(c, "entry", t, n)'
        BY SMTT(30), <3>1, <3>2, <3>3 DEF Keeps, OnlyKeeper
      <3>5. QED
        BY ONLY Zenon, <3>1, <3>4, NewKeeper
    <2>8. mailbox' = mailbox
      BY Zenon, <1>1
    <2>9. QED
      BY ONLY Zenon, <2>4, <2>6, <2>7, <2>8, Inv, HeldStep DEF Inv
  <1>19. QED
    BY ZenonT(60), <1>9, <1>10, <1>12, <1>13, <1>14, <1>15, <1>17, <1>18 DEF Inv, LocalInv

-----------------------------------------------------------------------------
(***************************************************************************)
(* The invariant holds, and what follows from it.                          *)
(***************************************************************************)

(* Nothing has been started: every runnable is fresh, no mailbox is locked. *)
LEMMA InitInv == Init => Inv
  <1> SUFFICES ASSUME Init PROVE Inv
    OBVIOUS
  <1>1. /\ EmptyMailbox(FALSE) \in MailboxType /\ EmptyMailbox(FALSE).queue = <<>>
        /\ EmptyMailbox(FALSE).inflight = {} /\ ~EmptyMailbox(FALSE).locked
    BY SMTT(30) DEF EmptyMailbox, MailboxType
  <1>2. NoCall \in Frame /\ NoCall.step = "none"
    BY Zenon, NoCallHoldsNothing DEF NoCall
  <1>3. \A c \in Context : /\ mailbox[c].queue = <<>> /\ mailbox[c].inflight = {}
                           /\ ~mailbox[c].locked
    BY Zenon, <1>1 DEF Init
  <1>4. TypeOK
    <2>1. mailbox \in [Context -> MailboxType]
      BY Zenon, <1>1 DEF Init
    <2>2. stack \in [Thread -> Seq(Entry)] /\ call \in [Thread -> Frame]
      BY SMTT(30), <1>2 DEF Init
    <2>3. QED
      BY Zenon, <2>1, <2>2 DEF Init, TypeOK, MailboxType, MaybeContext
  <1>5. \A t \in Thread : call[t] = NoCall /\ stack[t] = <<>> /\ DOMAIN stack[t] = {}
    BY SMTT(30) DEF Init
  <1>6. Frames
    <2>1. NoCall.more = Null /\ ~NoCall.inline
      BY Zenon DEF NoCall
    <2>2. QED
      BY Zenon, <1>5, <1>2, <2>1 DEF Frames, FrameOK
  <1>7. Pushes
    BY Zenon, <1>2, <1>3, <1>5 DEF Pushes
  <1>8. \A c \in Context : \A r : ~IsIn(mailbox[c].queue, r)
    BY SMTT(30), <1>3 DEF IsIn
  <1>9. Queues
    BY SMTT(30), <1>3, <1>8 DEF Queues, NoDuplicates, IsWakeable
  <1>10. Readies /\ Stacks
    BY Zenon, <1>5 DEF Init, Readies, Stacks
  <1>11. Once
    <2> SUFFICES ASSUME NEW r \in Runnable PROVE OnceAt(r)
      BY Zenon DEF Once
    <2>1. /\ r \in fresh /\ r \notin waiting /\ \A s \in Scheduler : r \notin ready[s]
          /\ \A x, i : ~OnStack(r, x, i)
      BY Zenon, <1>5 DEF Init, OnStack
    <2>2. \A u \in Thread : ~InHand(call[u], r)
      BY Zenon, <1>5, NoCallHoldsNothing
    <2>3. OnlyAt(r, "fresh", Null, 0)
      BY ONLY Zenon, <1>8, <2>1, <2>2 DEF OnlyAt, Placed
    <2>4. Placed(r, "fresh", Null, 0)
      BY Zenon, <2>3 DEF OnlyAt
    <2>5. QED
      BY ONLY SMTT(30), <2>3, <2>4 DEF OnceAt, OnlyAt
  <1>12. Held
    <2>1. \A c \in Context : \A x, i : ~KeepsEntry(c, x, i)
      BY Zenon, <1>5 DEF KeepsEntry
    <2>2. \A c \in Context : \A u \in Thread : c \notin FrameContexts(call[u])
      BY Zenon, <1>5, NoCallHoldsNothing
    <2>3. \A s \in Scheduler : ready[s] = {}
      BY Zenon DEF Init
    <2>4. \A c \in Context : NotKept(c)
      BY Zenon, <2>1, <2>2, <2>3 DEF NotKept, Keeps
    <2>5. QED
      BY Zenon, <1>3, <2>4 DEF Held
  <1>13. QED
    BY Zenon, <1>4, <1>6, <1>7, <1>9, <1>10, <1>11, <1>12 DEF Inv, LocalInv

(* Every step keeps the invariant, one case per action. *)
LEMMA NextInv == Inv /\ [Next]_vars => Inv'
  <1> SUFFICES ASSUME Inv, [Next]_vars PROVE Inv'
    OBVIOUS
  <1>1. ASSUME NEW t \in Thread, Prepare(t) PROVE Inv'
    BY Zenon, <1>1, PrepareInv
  <1>2. ASSUME NEW t \in Thread, Publish(t) PROVE Inv'
    BY Zenon, <1>2, PublishInv
  <1>3. ASSUME NEW t \in Thread, Pop(t) PROVE Inv'
    BY Zenon, <1>3, PopInv
  <1>4. ASSUME NEW t \in Thread, PostMore(t) PROVE Inv'
    BY Zenon, <1>4, PostMoreInv
  <1>5. ASSUME NEW t \in Thread, Return(t) PROVE Inv'
    BY Zenon, <1>5, LeaveSuspendedInv, KeepRunningInv DEF Return
  <1>6. ASSUME NEW t \in Thread, NEW r \in Runnable,
               Start(t, r) \/ Finish(t, r) \/ Resume(t, r) \/ Run(t, r) \/ PreemptContext(t, r)
        PROVE  Inv'
    BY Zenon, <1>6, StartInv, FinishInv, ResumeInv, RunInv, PreemptContextInv
  <1>7. ASSUME NEW t \in Thread, NEW r \in Runnable, NEW c \in MaybeContext, ReturnTo(t, r, c)
        PROVE  Inv'
    BY Zenon, <1>7, ReturnToInv
  <1>8. ASSUME NEW t \in Thread, NEW r \in Runnable, NEW c \in MaybeContext, NEW b \in BOOLEAN,
               BindContext(t, r, c, b) \/ Suspend(t, r, c, b)
        PROVE  Inv'
    BY Zenon, <1>8, BindContextInv, SuspendInv
  <1>9. CASE UNCHANGED vars
    <2>1. /\ mailbox' = mailbox /\ ready' = ready /\ stack' = stack /\ call' = call
          /\ context' = context /\ scheduled' = scheduled /\ fresh' = fresh /\ waiting' = waiting
      BY Zenon, <1>9 DEF vars
    <2>2. LocalInv'
      <3>1. TypeOK' /\ Pushes' /\ Queues' /\ Readies'
        <4>1. TypeOK'
          BY Zenon, <2>1 DEF Inv, LocalInv, TypeOK
        <4>2. Pushes'
          <5>1. (\A u, x, q : Publishing(u, x, q)' <=> Publishing(u, x, q)) /\ Pushes
            BY Zenon, <2>1 DEF Inv, LocalInv, Publishing
          <5>2. QED
            BY ONLY Zenon, <2>1, <5>1 DEF Pushes
        <4>3. Queues' /\ Readies'
          BY Zenon, <2>1 DEF Inv, LocalInv, Queues, Readies
        <4>4. QED
          BY Zenon, <4>1, <4>2, <4>3
      <3>2. Frames' /\ Stacks'
        BY ZenonT(60), <2>1 DEF Inv, LocalInv, Frames, FrameOK, Stacks, EntryContext
      <3>3. QED
        BY Zenon, <3>1, <3>2 DEF LocalInv
    <2>3. \A r, k, x, i : Placed(r, k, x, i)' <=> Placed(r, k, x, i)
      BY SMTT(30), <2>1 DEF Placed, OnStack
    <2>4. \A c, k, x, i : Keeps(c, k, x, i)' <=> Keeps(c, k, x, i)
      BY SMTT(30), <2>1 DEF Keeps, KeepsEntry, EntryContext
    <2>5. Once'
      BY ONLY Zenon, Inv, <2>3, OnceStep DEF Inv
    <2>6. Held'
      BY ONLY Zenon, Inv, <2>1, <2>4, HeldStep DEF Inv
    <2>7. QED
      BY Zenon, <2>2, <2>5, <2>6 DEF Inv
  <1>10. QED
    BY ZenonT(60), <1>1, <1>2, <1>3, <1>4, <1>5, <1>6, <1>7, <1>8, <1>9 DEF Next, InCall

(* The inductive invariant holds in every reachable state. *)
THEOREM InvHolds == Spec => []Inv
  BY InitInv, NextInv, PTL DEF Spec

(* Holders, in terms of Keeps. *)
LEMMA HolderKeeps ==
  ASSUME NEW c, NEW a
  PROVE  a \in Holders(c) <=>
           \E k, x, i : /\ Keeps(c, k, x, i)
                        /\ k = "entry" => a = <<x, i>>
                        /\ k # "entry" => a = x
  <1> DEFINE E(t) == {<<t, i>> : i \in {j \in DOMAIN stack[t] : EntryContext(stack[t][j]) = c}}
             entries == UNION {{<<t, i>> : i \in {j \in DOMAIN stack[t] : EntryContext(stack[t][j]) = c}} :
                                 t \in Thread}
             posted == {r \in UNION {ready[s] : s \in Scheduler} : context[r] = c}
             calls == {t \in Thread : c \in FrameContexts(call[t])}
  <1>1. Holders(c) = entries \union posted \union calls
    BY Zenon DEF Holders
  <1>2. a \in entries <=> \E x, i : KeepsEntry(c, x, i) /\ a = <<x, i>>
    <2>1. ASSUME NEW t PROVE a \in E(t) <=> \E i \in DOMAIN stack[t] : EntryContext(stack[t][i]) = c /\ a = <<t, i>>
      OBVIOUS
    <2>2. a \in entries <=> \E t \in Thread : a \in E(t)
      OBVIOUS
    <2> HIDE DEF E
    <2> HIDE DEF entries
    <2>3. QED
      BY Zenon, <2>1, <2>2 DEF KeepsEntry
  <1>3. a \in posted <=> context[a] = c /\ \E s \in Scheduler : a \in ready[s]
    OBVIOUS
  <1>4. a \in calls <=> a \in Thread /\ c \in FrameContexts(call[a])
    OBVIOUS
  <1> HIDE DEF entries, posted, calls
  <1>5. (\E x, i : Keeps(c, "entry", x, i) /\ a = <<x, i>>) <=> a \in entries
    BY Zenon, <1>2 DEF Keeps
  <1>6. (\E i : Keeps(c, "ready", a, i)) <=> a \in posted
    BY Zenon, <1>3 DEF Keeps
  <1>7. (\E i : Keeps(c, "call", a, i)) <=> a \in calls
    BY Zenon, <1>4 DEF Keeps
  <1>8. \A k, x, i : Keeps(c, k, x, i) => k \in {"entry", "ready", "call"}
    BY Zenon DEF Keeps
  <1>9. QED
    BY ONLY SMTT(30), <1>1, <1>5, <1>6, <1>7, <1>8

(* No two threads run, are scheduled to run or are about to pop the same   *)
(* context, and a context that nobody has is not locked.                   *)
THEOREM ActorsAreExclusive == Spec => []OneHolder
  <1>1. Inv => OneHolder
    <2> SUFFICES ASSUME Inv, NEW c \in Context
                 PROVE  /\ mailbox[c].locked <=> Holders(c) # {}
                        /\ \A a, b \in Holders(c) : a = b
      BY Zenon DEF OneHolder
    <2>1. mailbox[c].locked => KeptOnce(c)
      BY Zenon DEF Inv, Held
    <2>2. ~mailbox[c].locked => NotKept(c)
      BY Zenon DEF Inv, Held
    <2>3. ASSUME KeptOnce(c) PROVE Holders(c) # {}
      <3>1. PICK k, x, i : Keeps(c, k, x, i)
        BY Zenon, <2>3 DEF KeptOnce
      <3>2. (IF k = "entry" THEN <<x, i>> ELSE x) \in Holders(c)
        BY Zenon, <3>1, HolderKeeps
      <3>3. QED
        BY Zenon, <3>2
    <2>4. ASSUME NotKept(c) PROVE Holders(c) = {}
      BY Zenon, <2>4, HolderKeeps DEF NotKept
    <2>5. ASSUME KeptOnce(c), NEW a \in Holders(c), NEW b \in Holders(c) PROVE a = b
      <3>1. PICK k, x, i : Keeps(c, k, x, i) /\ (k = "entry" => a = <<x, i>>) /\ (k # "entry" => a = x)
        BY SMTT(30), HolderKeeps
      <3>2. PICK l, y, j : Keeps(c, l, y, j) /\ (l = "entry" => b = <<y, j>>) /\ (l # "entry" => b = y)
        BY SMTT(30), HolderKeeps
      <3>3. k = l /\ x = y /\ i = j
        BY Zenon, <2>5, <3>1, <3>2 DEF KeptOnce
      <3>4. QED
        BY Zenon, <3>1, <3>2, <3>3
    <2>6. QED
      BY Zenon, <2>1, <2>2, <2>3, <2>4, <2>5
  <1>2. QED
    BY <1>1, InvHolds, PTL

(* What the element a of Places stands for. *)
PlaceIs(r, a, k, x, i) ==
  /\ k \in {"fresh", "waiting"} => a = <<k, 0>>
  /\ k \in {"ready", "call"} => a = x
  /\ k = "entry" => a = <<x, i>>
  /\ k = "queue" => \E j \in DOMAIN mailbox[x].queue : mailbox[x].queue[j] = r /\ a = <<x, j>>

(* Places, in terms of Placed. *)
LEMMA PlaceIsPlaced ==
  ASSUME NEW r, NEW a
  PROVE  a \in Places(r) <=> \E k, x, i : Placed(r, k, x, i) /\ PlaceIs(r, a, k, x, i)
  <1> DEFINE isFresh == {<<"fresh", 0>> : x \in {r} \intersect fresh}
             isWaiting == {<<"waiting", 0>> : x \in {r} \intersect waiting}
             posted == {s \in Scheduler : r \in ready[s]}
             Q(c) == {<<c, i>> : i \in {j \in DOMAIN mailbox[c].queue : mailbox[c].queue[j] = r}}
             queued == UNION {{<<c, i>> : i \in {j \in DOMAIN mailbox[c].queue : mailbox[c].queue[j] = r}} :
                                c \in Context}
             E(t) == {<<t, i>> : i \in {j \in DOMAIN stack[t] : Carries(stack[t][j], r)}}
             entries == UNION {{<<t, i>> : i \in {j \in DOMAIN stack[t] : Carries(stack[t][j], r)}} :
                                 t \in Thread}
             calls == {t \in Thread : InHand(call[t], r)}
  <1>1. Places(r) = isFresh \union isWaiting \union posted \union queued \union entries \union calls
    BY Zenon DEF Places
  <1>2. a \in queued <=>
          \E c \in Context : \E i \in DOMAIN mailbox[c].queue : mailbox[c].queue[i] = r /\ a = <<c, i>>
    <2>1. ASSUME NEW c
          PROVE  a \in Q(c) <=> \E i \in DOMAIN mailbox[c].queue : mailbox[c].queue[i] = r /\ a = <<c, i>>
      OBVIOUS
    <2>2. a \in queued <=> \E c \in Context : a \in Q(c)
      OBVIOUS
    <2> HIDE DEF queued, Q
    <2>3. QED
      BY Zenon, <2>1, <2>2
  <1>3. a \in entries <=> \E x, i : OnStack(r, x, i) /\ a = <<x, i>>
    <2>1. ASSUME NEW t
          PROVE  a \in E(t) <=> \E i \in DOMAIN stack[t] : Carries(stack[t][i], r) /\ a = <<t, i>>
      OBVIOUS
    <2>2. a \in entries <=> \E t \in Thread : a \in E(t)
      OBVIOUS
    <2> HIDE DEF entries, E
    <2>3. QED
      BY Zenon, <2>1, <2>2 DEF OnStack
  <1>4. /\ a \in isFresh <=> r \in fresh /\ a = <<"fresh", 0>>
        /\ a \in isWaiting <=> r \in waiting /\ a = <<"waiting", 0>>
    OBVIOUS
  <1>5. /\ a \in posted <=> a \in Scheduler /\ r \in ready[a]
        /\ a \in calls <=> a \in Thread /\ InHand(call[a], r)
    OBVIOUS
  <1> HIDE DEF isFresh, isWaiting, posted, queued, entries, calls
  <1> DEFINE At(k) == \E x, i : Placed(r, k, x, i) /\ PlaceIs(r, a, k, x, i)
  <1>6. At("fresh") <=> a \in isFresh
    BY Zenon, <1>4 DEF Placed, PlaceIs
  <1>7. At("waiting") <=> a \in isWaiting
    BY Zenon, <1>4 DEF Placed, PlaceIs
  <1>8. At("ready") <=> a \in posted
    BY Zenon, <1>5 DEF Placed, PlaceIs
  <1>9. At("call") <=> a \in calls
    BY Zenon, <1>5 DEF Placed, PlaceIs
  <1>10. At("entry") <=> a \in entries
    BY Zenon, <1>3 DEF Placed, PlaceIs
  <1>11. At("queue") <=> a \in queued
    BY Zenon, <1>2 DEF Placed, PlaceIs, IsIn
  <1>12. \A k, x, i : Placed(r, k, x, i) => k \in {"fresh", "waiting", "ready", "queue", "entry", "call"}
    BY Zenon DEF Placed
  <1>13. (\E k, x, i : Placed(r, k, x, i) /\ PlaceIs(r, a, k, x, i)) <=>
           At("fresh") \/ At("waiting") \/ At("ready") \/ At("queue") \/ At("entry") \/ At("call")
    BY ONLY Zenon, <1>12
  <1> HIDE DEF At
  <1>14. QED
    BY ONLY ZenonT(60), <1>1, <1>6, <1>7, <1>8, <1>9, <1>10, <1>11, <1>13

(* No runnable is lost between its mailboxes, schedulers and threads, and  *)
(* none is run twice.                                                      *)
THEOREM RunnablesAreKept == Spec => []RunnableOnce
  <1>1. Inv => RunnableOnce
    <2> SUFFICES ASSUME Inv, NEW r \in Runnable
                 PROVE  Places(r) # {} /\ \A a, b \in Places(r) : a = b
      BY Zenon DEF RunnableOnce
    <2>1. OnceAt(r)
      BY Zenon DEF Inv, Once
    <2>2. Places(r) # {}
      <3>1. PICK k, x, i : Placed(r, k, x, i)
        BY Zenon, <2>1 DEF OnceAt
      <3>2. \E a : PlaceIs(r, a, k, x, i)
        <4>1. CASE k = "queue"
          <5>1. IsIn(mailbox[x].queue, r)
            BY Zenon, <3>1, <4>1 DEF Placed
          <5>2. PICK j \in DOMAIN mailbox[x].queue : mailbox[x].queue[j] = r
            BY Zenon, <5>1 DEF IsIn
          <5>3. PlaceIs(r, <<x, j>>, k, x, i)
            BY Zenon, <4>1, <5>2 DEF PlaceIs
          <5>4. QED
            BY Zenon, <5>3
        <4>2. CASE k = "entry"
          <5>1. PlaceIs(r, <<x, i>>, k, x, i)
            BY Zenon, <4>2 DEF PlaceIs
          <5>2. QED
            BY Zenon, <5>1
        <4>3. CASE k \in {"fresh", "waiting"}
          <5>1. PlaceIs(r, <<k, 0>>, k, x, i)
            BY Zenon, <4>3 DEF PlaceIs
          <5>2. QED
            BY Zenon, <5>1
        <4>4. CASE k \notin {"queue", "entry", "fresh", "waiting"}
          <5>1. PlaceIs(r, x, k, x, i)
            BY Zenon, <4>4 DEF PlaceIs
          <5>2. QED
            BY Zenon, <5>1
        <4>5. QED
          BY Zenon, <4>1, <4>2, <4>3, <4>4
      <3>3. PICK a : PlaceIs(r, a, k, x, i)
        BY Zenon, <3>2
      <3>4. a \in Places(r)
        BY ONLY Zenon, <3>1, <3>3, PlaceIsPlaced
      <3>5. QED
        BY Zenon, <3>4
    <2>3. ASSUME NEW a \in Places(r), NEW b \in Places(r) PROVE a = b
      <3>1. PICK k, x, i : Placed(r, k, x, i) /\ PlaceIs(r, a, k, x, i)
        BY Zenon, PlaceIsPlaced
      <3>2. PICK l, y, j : Placed(r, l, y, j) /\ PlaceIs(r, b, l, y, j)
        BY Zenon, PlaceIsPlaced
      <3>3. k = l /\ x = y /\ i = j
        BY Zenon, <2>1, <3>1, <3>2 DEF OnceAt
      <3>4. k \in {"fresh", "waiting", "ready", "queue", "entry", "call"}
        BY Zenon, <3>1 DEF Placed
      <3>5. CASE k = "queue"
        <4>1. x \in Context /\ NoDuplicates(mailbox[x].queue)
          BY Zenon, <3>1, <3>5 DEF Placed, Inv, LocalInv, Queues
        <4>2. PICK m \in DOMAIN mailbox[x].queue : mailbox[x].queue[m] = r /\ a = <<x, m>>
          BY Zenon, <3>1, <3>5 DEF PlaceIs
        <4>3. PICK n \in DOMAIN mailbox[x].queue : mailbox[x].queue[n] = r /\ b = <<x, n>>
          BY Zenon, <3>2, <3>3, <3>5 DEF PlaceIs
        <4>4. QED
          BY Zenon, <4>1, <4>2, <4>3 DEF NoDuplicates
      <3>6. CASE k # "queue"
        BY Zenon, <3>1, <3>2, <3>3, <3>4, <3>6 DEF PlaceIs
      <3>7. QED
        BY Zenon, <3>5, <3>6
    <2>4. QED
      BY Zenon, <2>2, <2>3
  <1>2. QED
    BY <1>1, InvHolds, PTL

(* A runnable that waits in a mailbox has somebody who will serve it.      *)
THEOREM QueuesAreServed == Spec => []QueuedIsServed
  <1>1. Inv => QueuedIsServed
    <2> SUFFICES ASSUME Inv, NEW c \in Context, mailbox[c].queue # <<>>
                 PROVE  \/ Holders(c) # {}
                        \/ \E t \in Thread : call[t].step = "publish" /\ call[t].to = c
      BY Zenon DEF QueuedIsServed
    <2>1. IsWakeable(mailbox[c])
      BY Zenon DEF Inv, LocalInv, Queues
    <2>2. CASE mailbox[c].locked
      <3>1. KeptOnce(c)
        BY Zenon, <2>2 DEF Inv, Held
      <3>2. PICK k, x, i : Keeps(c, k, x, i)
        BY Zenon, <3>1 DEF KeptOnce
      <3>3. (IF k = "entry" THEN <<x, i>> ELSE x) \in Holders(c)
        BY Zenon, <3>2, HolderKeeps
      <3>4. QED
        BY Zenon, <3>3
    <2>3. CASE mailbox[c].inflight # {}
      BY SMTT(30), <2>3 DEF Inv, LocalInv, Pushes, Publishing
    <2>4. QED
      BY Zenon, <2>1, <2>2, <2>3 DEF IsWakeable
  <1>2. QED
    BY <1>1, InvHolds, PTL

(* For any set of schedulers that preempt on threads that are not theirs,  *)
(* their tasks run on their own threads: no resume and no transfer brings  *)
(* one elsewhere, even where the other schedulers never preempt.           *)
THEOREM SchedulersAreKept == Spec => []RunsOnItsScheduler
  <1>1. Inv => RunsOnItsScheduler
    BY Zenon DEF Inv, LocalInv, Stacks, EntryContext, RunsOnItsScheduler
  <1>2. QED
    BY <1>1, InvHolds, PTL

(* A task that runs in a context runs on top of no other task. *)
THEOREM ActorsAreNotNested == Spec => []NeverNested
  <1>1. Inv => NeverNested
    BY Zenon DEF Inv, LocalInv, Stacks, EntryContext, NeverNested
  <1>2. QED
    BY <1>1, InvHolds, PTL
=============================================================================
