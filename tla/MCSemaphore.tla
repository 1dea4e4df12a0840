---------------------------- MODULE MCSemaphore ----------------------------
(* Small instances of Semaphore. *)
EXTENDS Semaphore, FiniteSets

CONSTANTS t1, t2, t3, s1

Task3   == {t1, t2, t3}
Torder3 == << t1, t2, t3 >>
Ipri3   == [t \in Task3 |-> 0]
Isemcnt == [s \in {s1} |-> 1]
Maxsem  == [s \in {s1} |-> 1]

\* Bound on the requests, suspensions and system states that are pending
\* together: the semaphore is explored, the rest is TaskKernel's.
MaxPending == 1
PendingBound ==
  /\ Cardinality({t \in Task : actque[t]})
       + Cardinality({t \in Task : wupque[t]})
       + Cardinality({t \in Task : TSTAT_SUSPENDED(tstat[t])})
       + Cardinality({f \in {1} : ~dspflg}) <= MaxPending
  /\ \A t \in Task : ~TSTAT_WAIT_SLP(tstat[t]) /\ "DLY" \notin tstat[t]
=============================================================================
