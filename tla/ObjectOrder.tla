----------------------------- MODULE ObjectOrder -----------------------------
(***************************************************************************)
(* What the objects that carry data promise to those who send and receive: *)
(* the data queues and mailboxes of WaitObjects implement Channel, the     *)
(* priority data queues and the mailboxes of attribute TA_MPRI implement   *)
(* PriorityChannel.                                                        *)
(***************************************************************************)
EXTENDS WaitObjects, FiniteSets

\* A data queue holds its ring buffer, and behind it the data of the tasks
\* that wait to send.
DtqChannel == INSTANCE Channel WITH
  Queue <- Dataqueues, Datum <- Data, NoDatum <- UNINIT, Capacity <- dtqcnt,
  chan <- [d \in Dataqueues |-> D!Transit(d)], taken <- dtqtaken, sent <- dtqsent

PdqChannel == INSTANCE PriorityChannel WITH
  Queue <- PriDataqs, Datum <- PriData, NoDatum <- UNINIT, pri <- datapri,
  chan <- [q \in PriDataqs |-> P!Stored(q)], taken <- pdqtaken

\* A mailbox has no limit.
FifoChannel == INSTANCE Channel WITH
  Queue <- Mbx \ TaMpri, Datum <- Msg, NoDatum <- UNINIT,
  Capacity <- [m \in Mbx |-> Cardinality(Msg)],
  chan <- [m \in Mbx \ TaMpri |-> B!Linked(m)],
  taken <- [m \in Mbx \ TaMpri |-> mbxtaken[m]],
  sent <- [m \in Mbx \ TaMpri |-> mbxsent[m]]

MpriChannel == INSTANCE PriorityChannel WITH
  Queue <- TaMpri, Datum <- Msg, NoDatum <- UNINIT, pri <- msgpri,
  chan <- [m \in TaMpri |-> B!Linked(m)],
  taken <- [m \in TaMpri |-> mbxtaken[m]]

\* Data and messages are received in the order of their sending, or of their
\* priorities, and none is lost or doubled (dataqueue.c, pridataq.c, mailbox.c).
KeepsOrder ==
  /\ DtqChannel!CSpec /\ PdqChannel!PSpec
  /\ FifoChannel!CSpec /\ MpriChannel!PSpec
=============================================================================
