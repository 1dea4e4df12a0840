-------------------------- MODULE PriorityChannel --------------------------
(***************************************************************************)
(* What the priority data queues and the mailboxes of attribute TA_MPRI    *)
(* promise: of the data that are stored the one of the highest priority is *)
(* received, the oldest of them if there are several.  chan[q] holds the   *)
(* stored data, the next one to be received first.                         *)
(***************************************************************************)
EXTENDS SequencesExt

CONSTANTS
  Queue,
  Datum,
  NoDatum,
  pri          \* the priority of each datum; a smaller number is higher

VARIABLES chan, taken

PInit ==
  /\ chan = [q \in Queue |-> << >>]
  /\ taken = [q \in Queue |-> NoDatum]

\* Behind the data of the same or of a higher priority.
Inserted(s, d) ==
  SelectSeq(s, LAMBDA c : pri[c] <= pri[d]) \o << d >>
    \o SelectSeq(s, LAMBDA c : pri[c] > pri[d])

Store(q, d) ==
  /\ chan' = [chan EXCEPT ![q] = Inserted(@, d)]
  /\ UNCHANGED taken

\* From the sender to a receiver, when nothing is stored.
Pass(q, d) ==
  /\ chan[q] = << >>
  /\ taken' = [taken EXCEPT ![q] = d]
  /\ UNCHANGED chan

\* A sender that waits for room, if there is one, stores its datum at once.
Receive(q) ==
  /\ chan[q] # << >>
  /\ taken' = [taken EXCEPT ![q] = Head(chan[q])]
  /\ \/ chan' = [chan EXCEPT ![q] = Tail(@)]
     \/ \E d \in Datum : chan' = [chan EXCEPT ![q] = Inserted(Tail(@), d)]

Reset(q) == chan' = [chan EXCEPT ![q] = << >>] /\ UNCHANGED taken

PNext ==
  \E q \in Queue :
    \/ \E d \in Datum : Store(q, d) \/ Pass(q, d)
    \/ Receive(q)
    \/ Reset(q)

pVars == << chan, taken >>

\* Every step of PNext that changes nothing is a stuttering step.
PSpec == PInit /\ [][pVars' # pVars /\ PNext]_pVars
=============================================================================
