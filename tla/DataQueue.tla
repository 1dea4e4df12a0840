----------------------------- MODULE DataQueue -----------------------------
(***************************************************************************)
(* Data queues (kernel/dataqueue.c) on top of TaskKernel.  A data queue    *)
(* has two wait queues, and a ring buffer of dtqcnt data, which may be     *)
(* none.                                                                   *)
(***************************************************************************)
EXTENDS TwoQueues

CONSTANTS
  dtqcnt,      \* the size of the ring buffer of each data queue
  Data,
  UNINIT       \* memory that was not written yet

Dtq == Obj

DtqAssumption ==
  /\ TwoQueuesAssumption
  /\ dtqcnt \in [Dtq -> Nat]
  /\ UNINIT \notin Data \cup {NULL}

VARIABLES
  dtqcb,       \* DTQCB: count, head, tail; and the memory dtqmb
  winfo_dtq,   \* WINFO_DTQ.data of each task in a waiting call, or NULL
  taken,       \* history: the datum last received from each queue
  sent         \* history: flips with every datum sent to it

dtqVars == << dtqcb, winfo_dtq, taken, sent, vars >>

Slot(d) == 0 .. dtqcnt[d] - 1

DtqInit ==
  /\ Init
  /\ dtqcb = [d \in Dtq |-> [count |-> 0, head |-> 0, tail |-> 0,
                             dtqmb |-> [i \in Slot(d) |-> UNINIT]]]
  /\ winfo_dtq = [t \in Task |-> NULL]
  /\ taken = [d \in Dtq |-> UNINIT]
  /\ sent = [d \in Dtq |-> 0]

----------------------------------------------------------------------------
(***************************************************************************)
(* The ring buffer                                                         *)
(***************************************************************************)
Step(d, i) == IF i + 1 >= dtqcnt[d] THEN 0 ELSE i + 1

enqueue_data(d, cb, data) ==
  [cb EXCEPT !.dtqmb[cb.tail] = data, !.count = @ + 1, !.tail = Step(d, @)]

force_enqueue_data(d, cb, data) ==
  LET full == cb.count >= dtqcnt[d] IN
  [cb EXCEPT !.dtqmb[cb.tail] = data,
             !.tail = Step(d, @),
             !.count = IF full THEN @ ELSE @ + 1,
             !.head = IF full THEN Step(d, cb.tail) ELSE @]

Oldest(cb) == cb.dtqmb[cb.head]

dequeue_data(d, cb) == [cb EXCEPT !.count = @ - 1, !.head = Step(d, @)]

----------------------------------------------------------------------------
(***************************************************************************)
(* Sending                                                                 *)
(***************************************************************************)
Room(d) == dtqcb[d].count < dtqcnt[d]

\* A task that waits to receive is handed the datum.
Hand(d, data) ==
  /\ Release(rwait_queue[d])
  /\ taken' = [taken EXCEPT ![d] = data]
  /\ UNCHANGED dtqcb

Handed(d, data) ==
  IF Receiver(d) = << >> THEN winfo_dtq
                         ELSE [winfo_dtq EXCEPT ![Head(Receiver(d))] = data]

Store(d, cb) ==
  /\ Receiver(d) = << >>
  /\ dtqcb' = [dtqcb EXCEPT ![d] = cb]
  /\ NoRelease
  /\ UNCHANGED taken

send_data(d, data) ==
  \/ Hand(d, data)
  \/ Room(d) /\ Store(d, enqueue_data(d, dtqcb[d], data))

force_send_data(d, data) ==
  \/ Hand(d, data)
  \/ Store(d, force_enqueue_data(d, dtqcb[d], data))

Sent(d) == sent' = [sent EXCEPT ![d] = 1 - @]

SendReturn(d, data) ==
  /\ Sent(d)
  /\ TaskReturn(ReleaseWinfo(rwait_queue[d]))
  /\ winfo_dtq' = InScope(Handed(d, data))
  /\ UNCHANGED << priority, queVars >>

ISendReturn(d, data) ==
  /\ Sent(d)
  /\ IntReturn(ReleaseWinfo(rwait_queue[d]))
  /\ winfo_dtq' = InScope(Handed(d, data))
  /\ UNCHANGED << priority, queVars >>

SendOrWait(d, data, callback) ==
  /\ CanDispatch
  /\ \/ send_data(d, data) /\ SendReturn(d, data)
     \/ /\ Receiver(d) = << >>
        /\ ~Room(d)
        /\ make_wait("SDTQ", callback)
        /\ wobj_queue_insert(swait_queue[d])
        /\ winfo_dtq' = InScope([winfo_dtq EXCEPT ![p_runtsk] = data])
        /\ Sent(d)
        /\ UNCHANGED << queVars, dtqcb, taken >>

snd_dtq(d, data)  == SendOrWait(d, data, "none")
tsnd_dtq(d, data) == SendOrWait(d, data, "wait_tmout")

psnd_dtq(d, data) == InTask /\ send_data(d, data) /\ SendReturn(d, data)

ipsnd_dtq(d, data) == InInterrupt /\ send_data(d, data) /\ ISendReturn(d, data)

fsnd_dtq(d, data) ==
  /\ InTask
  /\ dtqcnt[d] > 0
  /\ force_send_data(d, data)
  /\ SendReturn(d, data)

ifsnd_dtq(d, data) ==
  /\ InInterrupt
  /\ dtqcnt[d] > 0
  /\ force_send_data(d, data)
  /\ ISendReturn(d, data)

----------------------------------------------------------------------------
(***************************************************************************)
(* Receiving                                                               *)
(***************************************************************************)
\* The buffer after a datum was taken out of it: the room goes to the task
\* that waits to send.
Refilled(d) ==
  LET cb == dequeue_data(d, dtqcb[d])
  IN  IF Sender(d) = << >> THEN cb
                           ELSE enqueue_data(d, cb, winfo_dtq[Head(Sender(d))])

receive_data(d) ==
  \/ /\ dtqcb[d].count > 0
     /\ taken' = [taken EXCEPT ![d] = Oldest(dtqcb[d])]
     /\ dtqcb' = [dtqcb EXCEPT ![d] = Refilled(d)]
     /\ IF Sender(d) = << >> THEN NoRelease ELSE Release(swait_queue[d])
  \/ /\ dtqcb[d].count = 0
     /\ Release(swait_queue[d])
     /\ taken' = [taken EXCEPT ![d] = winfo_dtq[Head(Sender(d))]]
     /\ UNCHANGED dtqcb

ReceiveReturn(d) ==
  /\ TaskReturn(ReleaseWinfo(swait_queue[d]))
  /\ winfo_dtq' = InScope(winfo_dtq)
  /\ UNCHANGED << priority, queVars, sent >>

ReceiveOrWait(d, callback) ==
  /\ CanDispatch
  /\ \/ receive_data(d) /\ ReceiveReturn(d)
     \/ /\ dtqcb[d].count = 0
        /\ Sender(d) = << >>
        /\ make_wait("RDTQ", callback)
        /\ wobj_queue_insert(rwait_queue[d])
        /\ winfo_dtq' = InScope([winfo_dtq EXCEPT ![p_runtsk] = UNINIT])
        /\ UNCHANGED << queVars, dtqcb, taken, sent >>

rcv_dtq(d)  == ReceiveOrWait(d, "none")
trcv_dtq(d) == ReceiveOrWait(d, "wait_tmout")

prcv_dtq(d) == InTask /\ receive_data(d) /\ ReceiveReturn(d)

\* Mutant: head is not reset.
ini_dtq_Head(d) ==
  /\ InTask
  /\ init_wait_queues(d)
  /\ dtqcb' = [dtqcb EXCEPT ![d].count = 0, ![d].tail = 0]
  /\ TaskReturn(init_wait_queues_winfo(d))
  /\ winfo_dtq' = InScope(winfo_dtq)
  /\ UNCHANGED << priority, queVars, taken, sent >>

ini_dtq(d) ==
  /\ InTask
  /\ init_wait_queues(d)
  /\ dtqcb' = [dtqcb EXCEPT ![d].count = 0, ![d].head = 0, ![d].tail = 0]
  /\ TaskReturn(init_wait_queues_winfo(d))
  /\ winfo_dtq' = InScope(winfo_dtq)
  /\ UNCHANGED << priority, queVars, taken, sent >>

DtqCall(d) ==
  \/ \E data \in Data :
       \/ snd_dtq(d, data) \/ tsnd_dtq(d, data)
       \/ psnd_dtq(d, data) \/ ipsnd_dtq(d, data)
       \/ fsnd_dtq(d, data) \/ ifsnd_dtq(d, data)
  \/ rcv_dtq(d) \/ trcv_dtq(d) \/ prcv_dtq(d)
  \/ ini_dtq(d)

DtqRest == winfo_dtq' = InScope(winfo_dtq) /\ UNCHANGED << dtqcb, taken, sent >>

DtqNext == (\E d \in Dtq : DtqCall(d)) \/ (Next /\ DtqRest)

DtqSpec == DtqInit /\ [][DtqNext]_dtqVars

----------------------------------------------------------------------------
(***************************************************************************)
(* Properties                                                              *)
(***************************************************************************)
\* The type invariant, with the equation that makes count redundant except
\* when head and tail meet.
DtqTypeOK ==
  /\ TypeOK
  /\ winfo_dtq \in [Task -> Data \cup {UNINIT, NULL}]
  /\ taken \in [Dtq -> Data \cup {UNINIT}]
  /\ \A d \in Dtq :
       /\ dtqcb[d].count \in 0 .. dtqcnt[d]
       /\ dtqcnt[d] > 0 =>
            /\ {dtqcb[d].head, dtqcb[d].tail} \subseteq Slot(d)
            /\ dtqcb[d].tail = (dtqcb[d].head + dtqcb[d].count) % dtqcnt[d]
       /\ dtqcb[d].dtqmb \in [Slot(d) -> Data \cup {UNINIT}]

\* No datum and no room is left idle: while a task waits to receive nothing
\* is stored and nobody waits to send, and while a task waits to send the
\* buffer is full; also when a timeout, a termination or a forced release
\* takes the waiting task away, and when the buffer has no slots.
NoIdleSlot ==
  \A d \in Dtq :
    /\ Receiver(d) # << >> => dtqcb[d].count = 0 /\ Sender(d) = << >>
    /\ Sender(d) # << >> => dtqcb[d].count = dtqcnt[d]

\* The call of a task that was released normally has a datum: the sender's
\* until it returns, the receiver's since the moment it was released, though
\* it runs only later.
HasDatum ==
  \A t \in Task :
    winfo[t] = E_OK /\ ~TSTAT_WAITING(tstat[t]) => winfo_dtq[t] # UNINIT

\* A data queue is a first-in first-out channel: the ring buffer followed by
\* the data of the tasks that wait to send.
Transit(d) ==
  [i \in 1 .. dtqcb[d].count |->
     dtqcb[d].dtqmb[(dtqcb[d].head + i - 1) % dtqcnt[d]]]
  \o [i \in 1 .. Len(Sender(d)) |-> winfo_dtq[Sender(d)[i]]]
=============================================================================
