------------------------- MODULE ActorContextYield -------------------------
(***************************************************************************)
(* ActorContext with co_await actor_context::yield                         *)
(* (async_context_manager::do_yield), kept apart from it: do_yield pops    *)
(* the next runnable of the context and then schedules another one.        *)
(***************************************************************************)
EXTENDS ActorContext

CONSTANT s1

(* The task leaves its stack and its runnable takes a place in the mailbox *)
(* of the context, whose lock the thread keeps.                            *)
YieldPrepare(t, r) ==
  /\ Runs(t, r) /\ context[r] # None
  /\ mailbox' = [mailbox EXCEPT ![context[r]] = Prepared(@, r)]
  /\ call' = [call EXCEPT ![t] = [NoCall EXCEPT
                !.step = "yield_publish", !.r = r, !.to = context[r]]]
  /\ stack' = [stack EXCEPT ![t] = Below(t)]
  /\ UNCHANGED <<ready, context, scheduled, fresh, waiting>>

(* push_publish; the code asserts that it does not lock. *)
YieldPublish(t) ==
  /\ call[t].step = "yield_publish"
  /\ \E mb \in Published(mailbox[call[t].to], call[t].r) :
       mailbox' = [mailbox EXCEPT ![call[t].to] = mb]
  /\ call' = [call EXCEPT ![t].step = "yield_pop"]
  /\ UNCHANGED <<ready, stack, context, scheduled, fresh, waiting>>

(* next_runnable, and post_or_defer(context, r): r and not what was popped. *)
YieldPop(t) ==
  /\ call[t].step = "yield_pop"
  /\ \E o \in PopOutcomes(mailbox[call[t].to]) :
       /\ mailbox' = [mailbox EXCEPT ![call[t].to] = o.mb]
       /\ ready' = IF o.next = Null THEN ready ELSE Schedule(call[t].to, call[t].r)
  /\ call' = [call EXCEPT ![t] = NoCall]
  /\ UNCHANGED <<stack, context, scheduled, fresh, waiting>>

NextWithYield ==
  \/ Next
  \/ \E t \in Thread : YieldPublish(t) \/ YieldPop(t)
                       \/ \E r \in Runnable : YieldPrepare(t, r)

SpecWithYield == Init /\ [][NextWithYield]_vars

OneScheduler == [c \in Context |-> s1]

OnePool == [t \in Thread |-> s1]

NoneNests == [t \in Thread |-> 1]

(* Yielding gives way to the other runnables of the context: the runnable  *)
(* that do_yield takes out of the mailbox is somewhere afterwards.         *)
YieldLosesNothing == \A r \in Runnable : Places(r) # {}
=============================================================================
