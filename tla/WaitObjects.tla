---------------------------- MODULE WaitObjects ----------------------------
(***************************************************************************)
(* The synchronisation and communication objects of the kernel together:   *)
(* semaphores, event flags, data queues, priority data queues, mailboxes   *)
(* and fixed-size memory pools on top of one TaskKernel.  A step is a call *)
(* on an object of one kind or a step of the kernel itself; what a module  *)
(* keeps for the waiting tasks follows the steps of all.                   *)
(***************************************************************************)
EXTENDS TaskKernel

CONSTANTS
  UNINIT,                           \* memory that was not written yet
  Sem, isemcnt, maxsem,
  Bit, Flg, iflgptn, TaClr, TaWmul,
  Dataqueues, dtq_swait, dtq_rwait, dtqcnt, Data,
  PriDataqs, pdq_swait, pdq_rwait, pdqcnt, PriData, datapri,
  Mbx, TaMpri, Msg, msgpri,
  Mpf, blkcnt, IniRaces

VARIABLES
  semcnt,
  flgptn, flgwait,
  dtqcb, winfo_dtq, dtqtaken, dtqsent,
  pdqcb, winfo_pdq, pdqtaken,
  pk_head, pk_last, pk_next, winfo_mbx, mbxtaken, mbxsent,
  mpfcb, winfo_mpf, releasing, owners

S == INSTANCE Semaphore
F == INSTANCE EventFlag
D == INSTANCE DataQueue WITH
       Obj <- Dataqueues, swait_queue <- dtq_swait, rwait_queue <- dtq_rwait,
       taken <- dtqtaken, sent <- dtqsent
P == INSTANCE PriDataq WITH
       Obj <- PriDataqs, swait_queue <- pdq_swait, rwait_queue <- pdq_rwait,
       Data <- PriData, taken <- pdqtaken
B == INSTANCE Mailbox WITH taken <- mbxtaken, sent <- mbxsent
M == INSTANCE Mempfix

ASSUME ObjectsAssumption ==
  /\ S!SemAssumption /\ F!FlgAssumption /\ D!DtqAssumption /\ P!PdqAssumption
  /\ B!MbxAssumption /\ M!MpfAssumption

ASSUME OwnQueues ==
  LET queues == << Sem, Flg, {dtq_swait[d] : d \in Dataqueues}, {dtq_rwait[d] : d \in Dataqueues},
                   {pdq_swait[q] : q \in PriDataqs}, {pdq_rwait[q] : q \in PriDataqs}, Mbx, Mpf >>
  IN  \A i, j \in DOMAIN queues : i # j => queues[i] \cap queues[j] = {}

objVars == << S!semVars, F!flgVars, D!dtqVars, P!pdqVars, B!mbxVars, M!mpfVars >>

ObjInit ==
  S!SemInit /\ F!FlgInit /\ D!DtqInit /\ P!PdqInit /\ B!MbxInit /\ M!MpfInit

\* A call on an object, and what the modules of the other kinds keep.
Call(o) ==
  \/ o \in Sem /\ S!SemCall(o)
       /\ F!FlgRest /\ D!DtqRest /\ P!PdqRest /\ B!MbxRest /\ M!MpfRest
  \/ o \in Flg /\ F!FlgCall(o)
       /\ S!SemRest /\ D!DtqRest /\ P!PdqRest /\ B!MbxRest /\ M!MpfRest
  \/ o \in Dataqueues /\ D!DtqCall(o)
       /\ S!SemRest /\ F!FlgRest /\ P!PdqRest /\ B!MbxRest /\ M!MpfRest
  \/ o \in PriDataqs /\ P!PdqCall(o)
       /\ S!SemRest /\ F!FlgRest /\ D!DtqRest /\ B!MbxRest /\ M!MpfRest
  \/ o \in Mbx /\ B!MbxCall(o)
       /\ S!SemRest /\ F!FlgRest /\ D!DtqRest /\ P!PdqRest /\ M!MpfRest
  \/ o \in Mpf /\ M!MpfCall(o)
       /\ S!SemRest /\ F!FlgRest /\ D!DtqRest /\ P!PdqRest /\ B!MbxRest

KernelStep ==
  Next /\ S!SemRest /\ F!FlgRest /\ D!DtqRest /\ P!PdqRest /\ B!MbxRest /\ M!MpfRest

Object == Sem \union Flg \union Dataqueues \union PriDataqs \union Mbx \union Mpf

ObjNext == KernelStep \/ \E o \in Object : Call(o)

ObjSpec == ObjInit /\ [][ObjNext]_objVars

----------------------------------------------------------------------------
(***************************************************************************)
(* Properties                                                              *)
(***************************************************************************)
\* The type invariants of all objects.
ObjTypeOK ==
  /\ S!SemTypeOK /\ F!FlgTypeOK /\ D!DtqTypeOK /\ P!PdqTypeOK /\ B!MbxTypeOK
  /\ M!MpfTypeOK

\* No task waits for what an object has: a unit, a pattern that meets its
\* condition, a datum, room, a message or a block goes to a waiting task in
\* the call that makes it available, and none is kept back when a timeout,
\* a termination, a forced release or the initialisation of the object takes
\* a waiting task away.
NothingIdle ==
  /\ S!NoIdleUnit /\ F!NoMissedEvent /\ D!NoIdleSlot /\ P!NoIdleNode
  /\ B!NoIdleMessage /\ M!NoIdleBlock

\* A waiting call that ends normally returns what was handed to its task
\* when it was released, although the object may have changed, and been
\* initialised, before the task runs again.
ReturnsWhatItGot ==
  /\ F!ReturnedPattern /\ D!HasDatum /\ P!HasDatum /\ B!HasMessage /\ M!HasBlock

\* The lists by which an object manages its memory are intact: every node of
\* a priority data queue and every block of a pool is in one list or in use,
\* once, the messages of a mailbox are a list that ends, and the wait queue of
\* an event flag without TA_WMUL holds one task.
ListsIntact ==
  P!PoolInv /\ B!LinkInv /\ M!FreelistInv /\ M!FreeCount /\ F!SingleWaiter

\* No block of a pool is handed to two tasks at once: a block that get_mpf
\* returned stays with its task until rel_mpf takes it back, also when a
\* waiting task gets the block directly or ini_mpf resets the pool.
OneOwner == M!OneOwner
=============================================================================
