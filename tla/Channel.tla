------------------------------ MODULE Channel ------------------------------
(***************************************************************************)
(* What the data queues promise: first-in first-out channels.  chan[q]     *)
(* holds the data in transit in q, oldest first: those stored, and behind  *)
(* them those of the senders that wait for room.  taken[q] is the datum    *)
(* that was last received; sent[q] flips with every datum that is sent, so *)
(* that none disappears.  Nothing is lost, doubled or reordered, except    *)
(* that a forced send gives up the oldest datum of a full store, that a    *)
(* sender may give up waiting, and that a channel may be reset.            *)
(***************************************************************************)
EXTENDS SequencesExt

CONSTANTS
  Queue,
  Datum,       \* what is sent
  NoDatum,     \* before the first is received
  Capacity     \* how many are stored without a sender that waits

VARIABLES chan, taken, sent

CInit ==
  /\ chan = [q \in Queue |-> << >>]
  /\ taken = [q \in Queue |-> NoDatum]
  /\ sent = [q \in Queue |-> 0]

Becomes(q, s) == chan' = [chan EXCEPT ![q] = s]

Flips(q) == sent' = [sent EXCEPT ![q] = 1 - @]

Send(q, d) ==
  /\ Flips(q)
  /\ Becomes(q, Append(chan[q], d))
  /\ UNCHANGED taken

Pass(q, d) ==
  /\ chan[q] = << >>
  /\ Flips(q)
  /\ taken' = [taken EXCEPT ![q] = d]
  /\ UNCHANGED chan

Receive(q) ==
  /\ chan[q] # << >>
  /\ taken' = [taken EXCEPT ![q] = Head(chan[q])]
  /\ Becomes(q, Tail(chan[q]))
  /\ UNCHANGED sent

\* The new datum is the youngest of the stored ones; the senders stay behind.
Overwrite(q, d) ==
  /\ Flips(q)
  /\ Len(chan[q]) >= Capacity[q]
  /\ Becomes(q, RemoveAt(InsertAt(chan[q], Capacity[q] + 1, d), 1))
  /\ UNCHANGED taken

Withdraw(q, i) ==
  /\ i > Capacity[q]
  /\ Becomes(q, RemoveAt(chan[q], i))
  /\ UNCHANGED << taken, sent >>

Reset(q) == Becomes(q, << >>) /\ UNCHANGED << taken, sent >>

CNext ==
  \E q \in Queue :
    \/ \E d \in Datum : Send(q, d) \/ Pass(q, d) \/ Overwrite(q, d)
    \/ \E i \in 1 .. Len(chan[q]) : Withdraw(q, i)
    \/ Receive(q)
    \/ Reset(q)

cVars == << chan, taken, sent >>

\* Every step of CNext that changes nothing is a stuttering step.
CSpec == CInit /\ [][cVars' # cVars /\ CNext]_cVars
=============================================================================
