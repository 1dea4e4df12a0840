---------------------------- MODULE MCTaskExcept ----------------------------
(* A small instance of TaskExcept: one of two tasks has a routine. *)
EXTENDS TaskExcept

CONSTANTS t1, t2, b1

Task2   == {t1, t2}
Torder2 == << t1, t2 >>

\* One priority: tasks switch by waiting and rotation only.
Ipri1   == [t \in Task2 |-> 0]
=============================================================================
