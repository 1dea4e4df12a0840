---------------------------- MODULE MCTimeEvent ----------------------------
(* Small instances of TimeEvent. *)
EXTENDS TimeEvent, TLC

CONSTANTS c1, a1, a2, a3, a4, a5, a6

\* A cyclic handler that is due twice in some ticks, and two alarms.
OneCyc   == {c1}
Order1   == << c1 >>
Period1  == [c \in OneCyc |-> 1]
Phase1   == [c \in OneCyc |-> 2]

\* Alarms alone: enough of them for the deletion of a node whose parent is
\* later than the last node.
NoCyc    == {}
NoOrder  == << >>
NoTime   == [c \in {} |-> 1]
Alarms   == {a1, a2, a3, a4, a5, a6}
Alike    == Permutations(Alarms)
=============================================================================
