------------------------------ MODULE StopSpec ------------------------------
(***************************************************************************)
(* What a stop state promises: it is stopped once, nobody is added after   *)
(* that, and the callbacks that are there are taken one at a time, the     *)
(* newest first.  A callback that leaves the list before it is taken does  *)
(* not run.                                                                *)
(***************************************************************************)
EXTENDS StopOps

CONSTANTS Thread, Callback, Null

VARIABLE st   \* the stop state (see StopOps)

Init == st = NewStop(Null)

IsListed(c) == \E i \in DOMAIN st.listed : st.listed[i] = c

Add(c) == ~st.stopped /\ ~IsListed(c) /\ st' = Listed(st, c)

Delete(c) == IsListed(c) /\ st' = Deleted(st, c)

Stop == ~st.stopped /\ st' = StopRequested(st)

Take(t) ==
  /\ st.stopped /\ st.running = Null /\ st.listed # <<>>
  /\ st' = Taken(st, t)

Return == st.running # Null /\ st' = Returned(st, Null)

Next ==
  \/ Stop \/ Return
  \/ \E c \in Callback : Add(c) \/ Delete(c)
  \/ \E t \in Thread : Take(t)

Spec == Init /\ [][Next]_st
=============================================================================
