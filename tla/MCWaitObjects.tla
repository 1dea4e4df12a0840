--------------------------- MODULE MCWaitObjects ---------------------------
(* A small instance of WaitObjects and ObjectOrder. *)
EXTENDS ObjectOrder, FiniteSets, TLC

CONSTANTS t1, t2, s1, f1, f2, d0, d2, p1, ds0, dr0, ds2, dr2, ps1, pr1,
          fifo, mpri, m1, b1, b2, a, b, c

Task2   == {t1, t2}
Torder2 == << t1, t2 >>
Ipri2   == [t \in Task2 |-> 0]

OneSem   == [s \in Sem |-> 1]
Iflgptn  == [f \in Flg |-> IF f = f1 THEN {b1} ELSE {}]

\* A data queue without a buffer and one with two slots.
Dtqcnt   == [d \in Dataqueues |-> IF d = d0 THEN 0 ELSE 2]
DtqSwait == [d \in Dataqueues |-> IF d = d0 THEN ds0 ELSE ds2]
DtqRwait == [d \in Dataqueues |-> IF d = d0 THEN dr0 ELSE dr2]

\* Two of the data, and of the messages, have the same priority.
Pdqcnt   == [q \in PriDataqs |-> 2]
PdqSwait == [q \in PriDataqs |-> ps1]
PdqRwait == [q \in PriDataqs |-> pr1]
Pri      == [d \in {a, b, c} |-> IF d = c THEN 1 ELSE 2]

Blkcnt   == [m \in Mpf |-> 2]

\* Those two are treated alike by every definition.
Alike    == Permutations({a, b})

----------------------------------------------------------------------------
\* Bounds: in one behaviour the tasks use one object, no requests, suspensions
\* and system states are pending, and no task waits for anything else: these
\* are explored by the runs of TaskKernel and Semaphore.
VARIABLE used

Bound ==
  /\ dspflg /\ ~cpulock
  /\ \A t \in Task : /\ ~actque[t] /\ ~wupque[t]
                     /\ tstat[t] \cap {"SUSPENDED", "SLP", "DLY"} = {}

MCInit == ObjInit /\ used \in Object
MCNext == (KernelStep \/ Call(used)) /\ Bound' /\ UNCHANGED used
MCSpec == MCInit /\ [][MCNext]_<< objVars, used >>
=============================================================================
