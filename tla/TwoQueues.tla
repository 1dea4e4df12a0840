----------------------------- MODULE TwoQueues -----------------------------
(***************************************************************************)
(* What the data queues and the priority data queues share: an object with *)
(* a queue of the tasks that wait to send, where the other objects have    *)
(* their only one, and a queue of those that wait to receive.              *)
(***************************************************************************)
EXTENDS TaskKernel

CONSTANTS
  Obj,
  swait_queue, \* the queue of the tasks that wait to send, FIFO or TA_TPRI
  rwait_queue  \* the queue of those that wait to receive, always FIFO

TwoQueuesAssumption ==
  /\ swait_queue \in [Obj -> WaitQueue]
  /\ rwait_queue \in [Obj -> WaitQueue \ TpriQueue]
  /\ \A d, e \in Obj : /\ swait_queue[d] # rwait_queue[e]
                       /\ d # e => swait_queue[d] # swait_queue[e]
                       /\ d # e => rwait_queue[d] # rwait_queue[e]

Sender(d)   == wait_queue[swait_queue[d]]
Receiver(d) == wait_queue[rwait_queue[d]]

\* queue_delete_next and wait_complete: the head of a queue is released.
Release(queue) ==
  /\ wait_queue[queue] # << >>
  /\ wait_queue' = [wait_queue EXCEPT ![queue] = Tail(@)]
  /\ wait_complete(Head(wait_queue[queue]))

NoRelease == UNCHANGED << sched, tstat, tmevt, wait_queue >>

\* winfo when a call that releases the head of the queue, if any, returns.
ReleaseWinfo(queue) ==
  IF wait_queue[queue] = << >> THEN winfo
                               ELSE wait_complete_winfo(Head(wait_queue[queue]))

\* init_wait_queue on both queues, the senders first.
ini_queues(d) == Sender(d) \o Receiver(d)

init_wait_queues(d) ==
  /\ release_in_order(ini_queues(d))
  /\ wait_queue' = [wait_queue EXCEPT ![swait_queue[d]] = << >>,
                                      ![rwait_queue[d]] = << >>]

init_wait_queues_winfo(d) == release_winfo(ini_queues(d), "E_DLT")

\* The calls that have returned end the scope of the data in their WINFO.
InScope(data) == [t \in Task |-> IF winfo'[t] = "none" THEN NULL ELSE data[t]]
=============================================================================
