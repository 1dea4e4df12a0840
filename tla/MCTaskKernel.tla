---------------------------- MODULE MCTaskKernel ----------------------------
(* Two tasks and three priorities: every path of the scheduler. *)
EXTENDS TaskKernel

CONSTANTS t1, t2

Task2   == {t1, t2}
Torder2 == << t1, t2 >>
Ipri2   == [t \in Task2 |-> IF t = t1 THEN 1 ELSE 2]
=============================================================================
