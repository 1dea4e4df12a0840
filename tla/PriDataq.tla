----------------------------- MODULE PriDataq -----------------------------
(***************************************************************************)
(* Priority data queues (kernel/pridataq.c) on top of TaskKernel.  The     *)
(* data are linked by priority in nodes of a pool of pdqcnt, which hands   *)
(* out those never used and those given back.  A datum is sent together    *)
(* with its priority, so that datapri is a function of the datum here.     *)
(***************************************************************************)
EXTENDS TwoQueues, FiniteSetsExt, Links

CONSTANTS
  pdqcnt,      \* the size of the pool of each priority data queue
  Data,
  datapri,     \* the priority of each datum
  UNINIT       \* memory that was not written yet

Pdq == Obj

PdqAssumption ==
  /\ TwoQueuesAssumption
  /\ pdqcnt \in [Pdq -> Nat]
  /\ \A q \in Pdq : NULL \notin 0 .. pdqcnt[q] - 1
  /\ datapri \in [Data -> Nat]
  /\ UNINIT \notin Data \cup {NULL}

VARIABLES
  pdqcb,       \* PDQCB: count, p_head, unused, p_freelist; and the pool p_pdqmb
  winfo_pdq,   \* WINFO_PDQ.data of each task in a waiting call, or NULL
  taken        \* history: the datum last received from each queue

pdqVars == << pdqcb, winfo_pdq, taken, vars >>

Node(q) == 0 .. pdqcnt[q] - 1

\* A queue in its initial state, with what the memory of its pool holds.
Initialised(mb) ==
  [count |-> 0, p_head |-> NULL, unused |-> 0, p_freelist |-> NULL,
   p_pdqmb |-> mb]

PdqInit ==
  /\ Init
  /\ pdqcb = [q \in Pdq |->
                Initialised([i \in Node(q) |-> [data   |-> UNINIT,
                                                p_next |-> NULL]])]
  /\ winfo_pdq = [t \in Task |-> NULL]
  /\ taken = [q \in Pdq |-> UNINIT]

----------------------------------------------------------------------------
(***************************************************************************)
(* The pool and the list                                                   *)
(***************************************************************************)
\* The nodes linked from first on.
Linked(mb, first) == Chain([i \in DOMAIN mb |-> mb[i].p_next], first, NULL)

\* Where the loop of enqueue_pridata stops: the first node of lower priority.
\* Mutant: the new datum gets ahead of those of the same priority.
Place_Before(mb, list, data) ==
  LET lower == {i \in 1 .. Len(list) :
                  datapri[mb[list[i]].data] >= datapri[data]}
  IN  IF lower = {} THEN Len(list) + 1 ELSE Min(lower)

Place(mb, list, data) ==
  LET lower == {i \in 1 .. Len(list) :
                  datapri[mb[list[i]].data] > datapri[data]}
  IN  IF lower = {} THEN Len(list) + 1 ELSE Min(lower)

FreelistAfter(cb) ==
  IF cb.p_freelist = NULL THEN NULL ELSE cb.p_pdqmb[cb.p_freelist].p_next

enqueue_pridata(cb, data) ==
  LET reused == cb.p_freelist # NULL
      new    == IF reused THEN cb.p_freelist ELSE cb.unused
      list   == Linked(cb.p_pdqmb, cb.p_head)
      pos    == Place(cb.p_pdqmb, list, data)
      next   == IF pos > Len(list) THEN NULL ELSE list[pos]
      mb     == [cb.p_pdqmb EXCEPT ![new] = [data |-> data, p_next |-> next]]
  IN
  [count      |-> cb.count + 1,
   p_head     |-> IF pos = 1 THEN new ELSE cb.p_head,
   unused     |-> IF reused THEN cb.unused ELSE cb.unused + 1,
   p_freelist |-> FreelistAfter(cb),
   p_pdqmb    |-> IF pos = 1 THEN mb
                             ELSE [mb EXCEPT ![list[pos - 1]].p_next = new]]

First(cb) == cb.p_pdqmb[cb.p_head].data

dequeue_pridata(cb) ==
  [cb EXCEPT !.count = @ - 1,
             !.p_head = cb.p_pdqmb[cb.p_head].p_next,
             !.p_pdqmb[cb.p_head].p_next = cb.p_freelist,
             !.p_freelist = cb.p_head]

----------------------------------------------------------------------------
(***************************************************************************)
(* Sending and receiving                                                   *)
(***************************************************************************)
Room(q) == pdqcb[q].count < pdqcnt[q]

send_pridata(q, data) ==
  \/ /\ Release(rwait_queue[q])
     /\ taken' = [taken EXCEPT ![q] = data]
     /\ UNCHANGED pdqcb
  \/ /\ Receiver(q) = << >>
     /\ Room(q)
     /\ pdqcb' = [pdqcb EXCEPT ![q] = enqueue_pridata(@, data)]
     /\ NoRelease
     /\ UNCHANGED taken

Handed(q, data) ==
  IF Receiver(q) = << >> THEN winfo_pdq
                         ELSE [winfo_pdq EXCEPT ![Head(Receiver(q))] = data]

SendOrWait(q, data, callback) ==
  /\ CanDispatch
  /\ \/ /\ send_pridata(q, data)
        /\ TaskReturn(ReleaseWinfo(rwait_queue[q]))
        /\ winfo_pdq' = InScope(Handed(q, data))
        /\ UNCHANGED << priority, queVars >>
     \/ /\ Receiver(q) = << >>
        /\ ~Room(q)
        /\ make_wait("SPDQ", callback)
        /\ wobj_queue_insert(swait_queue[q])
        /\ winfo_pdq' = InScope([winfo_pdq EXCEPT ![p_runtsk] = data])
        /\ UNCHANGED << queVars, pdqcb, taken >>

snd_pdq(q, data)  == SendOrWait(q, data, "none")
tsnd_pdq(q, data) == SendOrWait(q, data, "wait_tmout")

psnd_pdq(q, data) ==
  /\ InTask
  /\ send_pridata(q, data)
  /\ TaskReturn(ReleaseWinfo(rwait_queue[q]))
  /\ winfo_pdq' = InScope(Handed(q, data))
  /\ UNCHANGED << priority, queVars >>

ipsnd_pdq(q, data) ==
  /\ InInterrupt
  /\ send_pridata(q, data)
  /\ IntReturn(ReleaseWinfo(rwait_queue[q]))
  /\ winfo_pdq' = InScope(Handed(q, data))
  /\ UNCHANGED << priority, queVars >>

\* The list after its first datum was taken: the room goes to the task that
\* waits to send.
Refilled(q) ==
  LET cb == dequeue_pridata(pdqcb[q])
  IN  IF Sender(q) = << >> THEN cb
                           ELSE enqueue_pridata(cb, winfo_pdq[Head(Sender(q))])

receive_pridata(q) ==
  \/ /\ pdqcb[q].count > 0
     /\ taken' = [taken EXCEPT ![q] = First(pdqcb[q])]
     /\ pdqcb' = [pdqcb EXCEPT ![q] = Refilled(q)]
     /\ IF Sender(q) = << >> THEN NoRelease ELSE Release(swait_queue[q])
  \/ /\ pdqcb[q].count = 0
     /\ Release(swait_queue[q])
     /\ taken' = [taken EXCEPT ![q] = winfo_pdq[Head(Sender(q))]]
     /\ UNCHANGED pdqcb

ReceiveReturn(q) ==
  /\ TaskReturn(ReleaseWinfo(swait_queue[q]))
  /\ winfo_pdq' = InScope(winfo_pdq)
  /\ UNCHANGED << priority, queVars >>

ReceiveOrWait(q, callback) ==
  /\ CanDispatch
  /\ \/ receive_pridata(q) /\ ReceiveReturn(q)
     \/ /\ pdqcb[q].count = 0
        /\ Sender(q) = << >>
        /\ make_wait("RPDQ", callback)
        /\ wobj_queue_insert(rwait_queue[q])
        /\ winfo_pdq' = InScope([winfo_pdq EXCEPT ![p_runtsk] = UNINIT])
        /\ UNCHANGED << queVars, pdqcb, taken >>

rcv_pdq(q)  == ReceiveOrWait(q, "none")
trcv_pdq(q) == ReceiveOrWait(q, "wait_tmout")

prcv_pdq(q) == InTask /\ receive_pridata(q) /\ ReceiveReturn(q)

\* Mutant: p_freelist is not reset, so that nodes are handed out twice.
Reset_Freelist(cb) ==
  [Initialised(cb.p_pdqmb) EXCEPT !.p_freelist = cb.p_freelist]

Reset(cb) == Initialised(cb.p_pdqmb)

ini_pdq(q) ==
  /\ InTask
  /\ init_wait_queues(q)
  /\ pdqcb' = [pdqcb EXCEPT ![q] = Reset(@)]
  /\ TaskReturn(init_wait_queues_winfo(q))
  /\ winfo_pdq' = InScope(winfo_pdq)
  /\ UNCHANGED << priority, queVars, taken >>

PdqCall(q) ==
  \/ \E data \in Data :
       \/ snd_pdq(q, data) \/ tsnd_pdq(q, data)
       \/ psnd_pdq(q, data) \/ ipsnd_pdq(q, data)
  \/ rcv_pdq(q) \/ trcv_pdq(q) \/ prcv_pdq(q)
  \/ ini_pdq(q)

PdqRest == winfo_pdq' = InScope(winfo_pdq) /\ UNCHANGED << pdqcb, taken >>

PdqNext == (\E q \in Pdq : PdqCall(q)) \/ (Next /\ PdqRest)

PdqSpec == PdqInit /\ [][PdqNext]_pdqVars

----------------------------------------------------------------------------
(***************************************************************************)
(* Properties                                                              *)
(***************************************************************************)
\* The type invariant.
PdqTypeOK ==
  /\ TypeOK
  /\ winfo_pdq \in [Task -> Data \cup {UNINIT, NULL}]
  /\ taken \in [Pdq -> Data \cup {UNINIT}]
  /\ \A q \in Pdq :
       /\ {pdqcb[q].count, pdqcb[q].unused} \subseteq 0 .. pdqcnt[q]
       /\ {pdqcb[q].p_head, pdqcb[q].p_freelist} \subseteq Node(q) \cup {NULL}
       /\ pdqcb[q].p_pdqmb \in [Node(q) -> [data   : Data \cup {UNINIT},
                                            p_next : Node(q) \cup {NULL}]]

\* No node of the pool is lost or linked twice: each node handed out so far
\* is in the list of the data or in the free list, once; and count is the
\* length of the list, so that a send that finds room finds a node.
PoolInv ==
  \A q \in Pdq :
    LET cb   == pdqcb[q]
        list == Linked(cb.p_pdqmb, cb.p_head)
        free == Linked(cb.p_pdqmb, cb.p_freelist)
    IN  /\ NoDuplicates(list \o free)
        /\ Members(list \o free) = 0 .. cb.unused - 1
        /\ Len(list) = cb.count

\* While a task waits to receive nothing is stored and nobody waits to send,
\* and while a task waits to send every node is in use.
NoIdleNode ==
  \A q \in Pdq :
    /\ Receiver(q) # << >> => pdqcb[q].count = 0 /\ Sender(q) = << >>
    /\ Sender(q) # << >> => pdqcb[q].count = pdqcnt[q]

\* The call of a task that was released normally has a datum.
HasDatum ==
  \A t \in Task :
    winfo[t] = E_OK /\ ~TSTAT_WAITING(tstat[t]) => winfo_pdq[t] # UNINIT

\* The data are received in the order of their priorities, and of their age
\* among those of one priority.
Stored(q) ==
  LET list == Linked(pdqcb[q].p_pdqmb, pdqcb[q].p_head)
  IN  [i \in 1 .. Len(list) |-> pdqcb[q].p_pdqmb[list[i]].data]
=============================================================================
