------------------------------ MODULE Mailbox ------------------------------
(***************************************************************************)
(* Mailboxes (kernel/mailbox.c) on top of TaskKernel.  A mailbox is also   *)
(* the name of its wait queue.  It links the messages themselves, by the   *)
(* header pk_next in their memory; the application leaves a message alone  *)
(* from its sending to its receipt.                                        *)
(***************************************************************************)
EXTENDS TaskKernel, FiniteSetsExt, Links

CONSTANTS
  Mbx,
  TaMpri,      \* the mailboxes with attribute TA_MPRI
  Msg,
  msgpri,      \* T_MSG_PRI.msgpri of each message
  UNINIT       \* memory that was not written yet

MbxAssumption ==
  /\ Mbx \subseteq WaitQueue
  /\ TaMpri \subseteq Mbx
  /\ msgpri \in [Msg -> Nat]
  /\ IsFiniteSet(Msg) /\ {UNINIT, NULL} \cap Msg = {} /\ UNINIT # NULL

VARIABLES
  pk_head, pk_last, \* MBXCB
  pk_next,          \* T_MSG.pk_next of each message
  winfo_mbx,        \* WINFO_MBX.pk_msg of each task in a waiting call, or NULL
  taken,            \* history: the message last received from each mailbox
  sent              \* history: flips with every message sent to it

msgVars == << pk_head, pk_last, pk_next >>
mbxVars == << msgVars, winfo_mbx, taken, sent, vars >>

MbxInit ==
  /\ Init
  /\ pk_head = [m \in Mbx |-> NULL]
  /\ pk_last = [m \in Mbx |-> UNINIT]
  /\ pk_next = [g \in Msg |-> UNINIT]
  /\ winfo_mbx = [t \in Task |-> NULL]
  /\ taken = [m \in Mbx |-> UNINIT]
  /\ sent = [m \in Mbx |-> 0]

InScope(msg) == [t \in Task |-> IF winfo'[t] = "none" THEN NULL ELSE msg[t]]

\* The messages that a mailbox links.
Linked(m) == Chain(pk_next, pk_head[m], NULL)

\* The messages that the application may send.
Owned == {g \in Msg : /\ \A m \in Mbx : g \notin Members(Linked(m))
                      /\ \A t \in Task : winfo_mbx[t] # g}

----------------------------------------------------------------------------
\* The message of lower priority before which the loop of enqueue_msg_pri
\* stops, by its place in the list.
Place(list, msg) ==
  LET lower == {i \in 1 .. Len(list) : msgpri[list[i]] > msgpri[msg]}
  IN  IF lower = {} THEN Len(list) + 1 ELSE Min(lower)

enqueue_msg_pri(m, msg) ==
  LET list == Linked(m)
      pos  == Place(list, msg)
      next == [pk_next EXCEPT
                 ![msg] = IF pos > Len(list) THEN NULL ELSE list[pos]]
  IN
  /\ pk_head' = [pk_head EXCEPT ![m] = IF pos = 1 THEN msg ELSE @]
  /\ pk_next' = IF pos = 1 THEN next
                           ELSE [next EXCEPT ![list[pos - 1]] = msg]
  /\ UNCHANGED pk_last

\* Without TA_MPRI: behind pk_last, which is valid when pk_head is not NULL.
enqueue_msg(m, msg) ==
  /\ IF pk_head[m] # NULL
       THEN /\ pk_next' = [pk_next EXCEPT ![msg] = NULL, ![pk_last[m]] = msg]
            /\ UNCHANGED pk_head
       ELSE /\ pk_next' = [pk_next EXCEPT ![msg] = NULL]
            /\ pk_head' = [pk_head EXCEPT ![m] = msg]
  /\ pk_last' = [pk_last EXCEPT ![m] = msg]

Handed(m, msg) == [winfo_mbx EXCEPT ![Head(wait_queue[m])] = msg]

snd_mbx(m, msg) ==
  /\ InTask
  /\ msg \in Owned
  /\ sent' = [sent EXCEPT ![m] = 1 - @]
  /\ \/ /\ wait_queue[m] # << >>
        /\ wait_queue' = [wait_queue EXCEPT ![m] = Tail(@)]
        /\ wait_complete(Head(wait_queue[m]))
        /\ TaskReturn(wait_complete_winfo(Head(wait_queue[m])))
        /\ winfo_mbx' = InScope(Handed(m, msg))
        /\ taken' = [taken EXCEPT ![m] = msg]
        /\ UNCHANGED << msgVars, priority, queVars >>
     \/ /\ wait_queue[m] = << >>
        /\ IF m \in TaMpri THEN enqueue_msg_pri(m, msg) ELSE enqueue_msg(m, msg)
        /\ UNCHANGED << winfo_mbx, taken, vars >>

\* The first message is taken.
Receive(m) ==
  /\ pk_head[m] # NULL
  /\ taken' = [taken EXCEPT ![m] = pk_head[m]]
  /\ pk_head' = [pk_head EXCEPT ![m] = pk_next[pk_head[m]]]
  /\ UNCHANGED << pk_last, pk_next, winfo_mbx, sent, vars >>

ReceiveOrWait(m, callback) ==
  /\ CanDispatch
  /\ \/ Receive(m)
     \/ /\ pk_head[m] = NULL
        /\ make_wait("MBX", callback)
        /\ wobj_queue_insert(m)
        /\ winfo_mbx' = InScope([winfo_mbx EXCEPT ![p_runtsk] = UNINIT])
        /\ UNCHANGED << queVars, msgVars, taken, sent >>

rcv_mbx(m)  == ReceiveOrWait(m, "none")
trcv_mbx(m) == ReceiveOrWait(m, "wait_tmout")

prcv_mbx(m) == InTask /\ Receive(m)

ini_mbx(m) ==
  /\ InTask
  /\ init_wait_queue(m)
  /\ pk_head' = [pk_head EXCEPT ![m] = NULL]
  /\ TaskReturn(init_wait_queue_winfo(m))
  /\ winfo_mbx' = InScope(winfo_mbx)
  /\ UNCHANGED << pk_last, pk_next, taken, sent, priority, queVars >>

MbxCall(m) ==
  \/ \E msg \in Msg : snd_mbx(m, msg)
  \/ rcv_mbx(m) \/ trcv_mbx(m) \/ prcv_mbx(m)
  \/ ini_mbx(m)

MbxRest == winfo_mbx' = InScope(winfo_mbx) /\ UNCHANGED << msgVars, taken, sent >>

MbxNext == (\E m \in Mbx : MbxCall(m)) \/ (Next /\ MbxRest)

MbxSpec == MbxInit /\ [][MbxNext]_mbxVars

----------------------------------------------------------------------------
(***************************************************************************)
(* Properties                                                              *)
(***************************************************************************)
\* The type invariant.
MbxTypeOK ==
  /\ TypeOK
  /\ pk_head \in [Mbx -> Msg \cup {NULL}]
  /\ pk_last \in [Mbx -> Msg \cup {UNINIT}]
  /\ pk_next \in [Msg -> Msg \cup {NULL, UNINIT}]
  /\ winfo_mbx \in [Task -> Msg \cup {NULL, UNINIT}]
  /\ taken \in [Mbx -> Msg \cup {UNINIT}]

\* The messages of a mailbox are a list that ends, no message is in two of
\* them or in one twice, and pk_last is its last message while it is not
\* empty, although it is stale otherwise.
LinkInv ==
  /\ \A m \in Mbx :
       /\ Members(Linked(m)) \subseteq Msg
       /\ NoDuplicates(Linked(m))
       /\ m \notin TaMpri /\ Linked(m) # << >>
            => pk_last[m] = Linked(m)[Len(Linked(m))]
  /\ \A m, n \in Mbx : m # n => Members(Linked(m)) \cap Members(Linked(n)) = {}

\* A task waits only for an empty mailbox.
NoIdleMessage == \A m \in Mbx : wait_queue[m] # << >> => pk_head[m] = NULL

\* The call of a task that was released normally has a message, and no two
\* tasks have the same one.
HasMessage ==
  \A t \in Task :
    winfo[t] = E_OK /\ ~TSTAT_WAITING(tstat[t]) =>
      /\ winfo_mbx[t] # UNINIT
      /\ \A u \in Task \ {t} : winfo_mbx[t] \in Msg => winfo_mbx[u] # winfo_mbx[t]
=============================================================================
