------------------------- MODULE KernelUsersProofs --------------------------
(***************************************************************************)
(* Two parts that stand on the kernel, one independent of the other: the   *)
(* semaphores and the task exceptions.  What a step of the kernel does is  *)
(* in the lemmas of TaskKernelProofs.                                      *)
(*                                                                         *)
(* The accounting of the semaphores and the order of their wait queues hold*)
(* for any number of tasks, priorities, semaphores and units.  A call      *)
(* either hands its unit to the first waiting task or leaves the queues no *)
(* longer than they were (Shrinks).  KeepsPlace is shown with them too.    *)
(*                                                                         *)
(* TexInv and TexServed hold for every set of tasks and of causes, every   *)
(* number of priorities, nested handlers and activations.  They are        *)
(* inductive together with the invariants of the kernel, which the two     *)
(* steps that are not the kernel's own, iras_tex and texrtn_return, keep   *)
(* as well, and with the parts of TexRest below.                           *)
(***************************************************************************)
EXTENDS Semaphore, TaskExcept, TaskKernelProofs

----------------------------------------------------------------------------
(***************************************************************************)
(* The calls on a semaphore.                                               *)
(***************************************************************************)
LEMMA SemIsQueue == \A s \in Sem : s \in WaitQueue
BY SemcntAssumption DEF SemAssumption

\* The invariant of the kernel in the composition.
SemKernel == KernelInv /\ WaitInv /\ KernelQueues

SemUnits == semcnt \in [Sem -> Nat] /\ NoIdleUnit

\* No unit becomes idle when the queues get no longer.
LEMMA UnitsShrink ==
  ASSUME SemKernel, SemKernel', SemUnits, Shrinks, UNCHANGED semcnt
  PROVE  SemUnits'
<1>1. ASSUME NEW s \in Sem, wait_queue[s] = << >> PROVE wait_queue'[s] = << >>
  <2>1. s \in WaitQueue /\ wait_queue[s] \in Seq(Task) /\ wait_queue'[s] \in Seq(Task)
    BY SemIsQueue DEF SemKernel, KernelInv, TypeOK
  <2>2. Members(wait_queue'[s]) = {}
    BY <1>1, <2>1, EmptyMembersLemma DEF Shrinks
  <2>3. QED
    BY <2>1, <2>2, EmptyMembersLemma
<1>2. QED
  BY <1>1 DEF SemUnits, NoIdleUnit

LEMMA SignalHands ==
  ASSUME SemKernel, NEW s \in Sem, wait_queue[s] # << >>, Signal(s),
         UNCHANGED priority
  PROVE  /\ CallBody(SignalWinfo(s)) /\ Shrinks /\ UNCHANGED semcnt
         /\ KernelInv' => KernelQueues'
<1> DEFINE t == Head(wait_queue[s])
<1>1. s \in WaitQueue
  BY SemIsQueue
<1>2. /\ t \in Task /\ TSTAT_WAIT_WOBJ(tstat[t])
      /\ [wait_queue EXCEPT ![s] = Tail(wait_queue[s])]
           = [q \in WaitQueue |-> QueueDelete(wait_queue[q], t)]
  BY <1>1, TakeHeadLemma DEF SemKernel
<1>3. /\ wait_queue' = [wait_queue EXCEPT ![s] = Tail(wait_queue[s])]
      /\ wait_complete(t) /\ UNCHANGED semcnt
      /\ SignalWinfo(s) = wait_complete_winfo(t)
  BY DEF Signal, SignalWinfo
<1> HIDE DEF t
<1>4. TSTAT_WAITING(tstat[t])
  BY <1>2, WobjWaits, TypesOf DEF SemKernel
<1>5. wait_queue' = [q \in WaitQueue |-> QueueDelete(wait_queue[q], t)]
  BY <1>2, <1>3
<1>6. wait_queue' \in [WaitQueue -> Seq(Task)]
  BY <1>5, QueueDeleteType, TypesOf DEF SemKernel
<1>7. CallBody(SignalWinfo(s))
  BY <1>2, <1>3, <1>4, <1>6, CompleteLemma DEF SemKernel, CallBody
<1>8. Shrinks
  BY <1>2, <1>5, UnlinkShrinks DEF SemKernel
<1>9. ASSUME KernelInv' PROVE KernelQueues'
  <2>1. make_non_wait(t) /\ wait_dequeue_tmevtb(t, winfo)
    BY <1>3 DEF wait_complete
  <2>2. PICK ts : /\ tstat' = [tstat EXCEPT ![t] = ts]
                  /\ ~TSTAT_WAIT_WOBJ(ts) /\ ~TSTAT_WAIT_WOBJCB(ts)
    BY <1>2, <2>1, MakeNonWaitState
  <2>3. \A u \in Task : tmevt'[u] \in {tmevt[u], "none"}
    BY <2>1, TypesOf DEF wait_dequeue_tmevtb, SemKernel
  <2>4. QED
    BY <1>2, <1>5, <1>9, <2>2, <2>3, OneTaskLeaves DEF SemKernel
<1>10. QED
  BY <1>3, <1>7, <1>8, <1>9

LEMMA SignalCounts ==
  ASSUME SemKernel, NEW s \in Sem, wait_queue[s] = << >>, Signal(s),
         UNCHANGED priority
  PROVE  /\ CallBody(SignalWinfo(s)) /\ UNCHANGED wait_queue
         /\ semcnt[s] < maxsem[s]
         /\ semcnt' = [semcnt EXCEPT ![s] = semcnt[s] + 1]
         /\ KernelInv' => KernelQueues'
<1>1. /\ UNCHANGED << sched, tstat, tmevt, wait_queue >>
      /\ SignalWinfo(s) = winfo
      /\ semcnt[s] < maxsem[s]
      /\ semcnt' = [semcnt EXCEPT ![s] = semcnt[s] + 1]
  BY DEF Signal, SignalWinfo
<1>2. WaitProp(tstat', winfo, tmevt')
  BY <1>1, WaitFrameLemma, SameWaitsFrame DEF SemKernel
<1>3. CallBody(winfo)
  BY <1>1, <1>2, SchedFrame, TypesOf DEF CallBody, SemKernel
<1>4. KernelInv' => KernelQueues'
  BY <1>1, QueuesKeep DEF SemKernel
<1>5. QED
  BY <1>1, <1>3, <1>4

LEMMA SignalStep ==
  ASSUME SemKernel, SemUnits, NEW s \in Sem, sig_sem(s) \/ isig_sem(s)
  PROVE  SemKernel' /\ SemUnits'
<1>1. /\ Signal(s) /\ UNCHANGED << priority, queVars >>
      /\ \/ InTask /\ TaskReturn(SignalWinfo(s))
         \/ InInterrupt /\ IntReturn(SignalWinfo(s))
  BY DEF sig_sem, isig_sem
<1>2. CallBody(SignalWinfo(s)) /\ (KernelInv' => KernelQueues')
  BY <1>1, SignalHands, SignalCounts
<1>3. SemKernel'
  BY <1>1, <1>2, TaskBodyStep, IntBodyStep DEF SemKernel
<1>4. CASE wait_queue[s] # << >>
  BY <1>1, <1>3, <1>4, SignalHands, UnitsShrink
<1>5. CASE wait_queue[s] = << >>
  <2>1. /\ UNCHANGED wait_queue /\ semcnt[s] < maxsem[s]
        /\ semcnt' = [semcnt EXCEPT ![s] = semcnt[s] + 1]
    BY <1>1, <1>5, SignalCounts
  <2>2. /\ semcnt \in [Sem -> Nat] /\ maxsem \in [Sem -> Nat \ {0}]
    BY SemcntAssumption DEF SemAssumption, SemUnits
  <2>3. semcnt' \in [Sem -> Nat]
    BY <2>1, <2>2
  <2>4. ASSUME NEW r \in Sem
        PROVE  /\ semcnt'[r] > 0 => wait_queue'[r] = << >>
               /\ semcnt'[r] <= maxsem[r]
    <3>1. CASE r = s
      <4>1. semcnt'[r] = semcnt[s] + 1
        BY <2>1, <2>2, <3>1
      <4>2. QED
        BY <1>5, <2>1, <2>2, <3>1, <4>1
    <3>2. CASE r # s
      <4>1. semcnt'[r] = semcnt[r]
        BY <2>1, <2>2, <3>2
      <4>2. QED
        BY <2>1, <4>1 DEF SemUnits, NoIdleUnit
    <3>3. QED
      BY <3>1, <3>2
  <2>5. QED
    BY <1>3, <2>3, <2>4 DEF SemUnits, NoIdleUnit
<1>6. QED
  BY <1>4, <1>5

LEMMA AcquireStep ==
  ASSUME SemKernel, SemUnits, NEW s \in Sem, Acquire(s)
  PROVE  SemKernel' /\ SemUnits'
<1>1. /\ UNCHANGED vars /\ semcnt[s] >= 1
      /\ semcnt' = [semcnt EXCEPT ![s] = semcnt[s] - 1]
  BY DEF Acquire
<1>2. SemKernel'
  BY <1>1, StutterStep, NextQueues DEF SemKernel
<1>3. UNCHANGED wait_queue
  BY <1>1 DEF vars
<1>4. semcnt \in [Sem -> Nat] /\ maxsem \in [Sem -> Nat \ {0}]
  BY SemcntAssumption DEF SemAssumption, SemUnits
<1>5. semcnt' \in [Sem -> Nat]
  BY <1>1, <1>4
<1>6. ASSUME NEW r \in Sem
      PROVE  /\ semcnt'[r] > 0 => semcnt[r] > 0
             /\ semcnt[r] <= maxsem[r] => semcnt'[r] <= maxsem[r]
  BY <1>1, <1>4
<1>7. QED
  BY <1>2, <1>3, <1>5, <1>6 DEF SemUnits, NoIdleUnit

LEMMA BlockStep ==
  ASSUME SemKernel, SemUnits, NEW s \in Sem,
         NEW callback \in {"none", "wait_tmout"},
         CanDispatch, semcnt[s] = 0, make_wait("SEM", callback),
         wobj_queue_insert(s), UNCHANGED << queVars, semcnt >>
  PROVE  SemKernel' /\ SemUnits'
<1>1. /\ TaskContext /\ dspflg /\ UNCHANGED << actque, wupque >>
      /\ p_runtsk \in Task
  BY InTaskFacts DEF CanDispatch, InTask, queVars, SemKernel
<1>2. /\ "SEM" \in WaitFactor /\ "SEM" \in WobjFactor /\ "SEM" \in WobjcbFactor
      /\ callback \in TmevtType /\ callback # "wait_tmout_ok"
  BY DEF WaitFactor, WobjFactor, WobjcbFactor, TmevtType
<1>3. wait_queue' \in [WaitQueue -> Seq(Task)]
  <2> DEFINE v == IF s \in TpriQueue
                    THEN QueueInsertTpri(wait_queue[s], priority, p_runtsk)
                    ELSE Append(wait_queue[s], p_runtsk)
  <2>1. wait_queue \in [WaitQueue -> Seq(Task)] /\ priority \in [Task -> TPri]
    BY TypesOf DEF SemKernel
  <2>2. wait_queue[s] \in Seq(Task)
    BY <2>1, SemIsQueue
  <2>3. v \in Seq(Task)
    BY <1>1, <2>1, <2>2, QueueInsertTpriType
  <2>4. wait_queue' = [wait_queue EXCEPT ![s] = v]
    BY DEF wobj_queue_insert
  <2> HIDE DEF v
  <2>5. QED
    BY <2>1, <2>3, <2>4
<1>4. KernelInv'
  BY <1>1, <1>2, <1>3, make_waitLemma, TypesOf DEF SemKernel
<1>5. WaitInv'
  BY <1>1, <1>2, <1>4, make_waitWaits DEF SemKernel
<1>6. /\ KernelQueues'
      /\ \A q \in WaitQueue \ {s} : wait_queue'[q] = wait_queue[q]
  BY <1>1, <1>2, <1>4, SemIsQueue, ObjectWaitBegins DEF SemKernel
<1>7. SemUnits'
  BY <1>6, SemIsQueue DEF SemUnits, NoIdleUnit
<1>8. QED
  BY <1>4, <1>5, <1>6, <1>7 DEF SemKernel

LEMMA ini_semStep ==
  ASSUME SemKernel, SemUnits, NEW s \in Sem, ini_sem(s)
  PROVE  SemKernel' /\ SemUnits'
<1> DEFINE entry == wait_queue[s]
           w == release_winfo(wait_queue[s], "E_DLT")
<1>1. /\ InTask /\ init_wait_queue(s) /\ TaskReturn(w)
      /\ release_in_order(entry)
      /\ wait_queue' = [wait_queue EXCEPT ![s] = << >>]
      /\ semcnt' = [semcnt EXCEPT ![s] = isemcnt[s]]
      /\ UNCHANGED << priority, queVars >>
  BY DEF ini_sem, init_wait_queue, init_wait_queue_winfo
<1>2. s \in WaitQueue
  BY SemIsQueue
<1>3. entry \in Seq(Task) /\ NoDuplicates(entry) /\ Members(entry) \subseteq Task
  BY <1>2, QueueFacts DEF SemKernel
<1>4. ASSUME NEW t \in Members(entry) PROVE TSTAT_WAITING(tstat[t])
  <2>1. t \in Task /\ TSTAT_WAIT_WOBJ(tstat[t])
    BY <1>2, <1>3, QueueFacts DEF LinkAt, SemKernel
  <2>2. QED
    BY <2>1, WobjWaits, TypesOf DEF SemKernel
<1> HIDE DEF entry
<1>5. WaitProp(tstat', release_winfo(entry, "E_DLT"), tmevt')
  BY <1>1, <1>3, <1>4, ReleaseWaits DEF SemKernel
<1>6. release_winfo(entry, "E_DLT") \in [Task -> WinfoType]
  BY TypesOf DEF release_winfo, WinfoType, SemKernel
<1>7. wait_queue' \in [WaitQueue -> Seq(Task)]
  <2>1. wait_queue \in [WaitQueue -> Seq(Task)] /\ << >> \in Seq(Task)
    BY TypesOf DEF SemKernel
  <2>2. QED
    BY <1>1, <2>1
<1>8. CallBody(w)
  BY <1>1, <1>3, <1>4, <1>5, <1>6, <1>7, ReleaseInOrderLemma
     DEF CallBody, SemKernel, entry
<1> HIDE DEF w
<1>9. KernelInv' /\ WaitInv'
  BY <1>1, <1>8, TaskBodyStep DEF SemKernel
<1>10. /\ KernelQueues' /\ wait_queue'[s] = << >>
       /\ \A q \in WaitQueue \ {s} : wait_queue'[q] = wait_queue[q]
  BY <1>1, <1>2, <1>9, ReleaseQueues DEF SemKernel
<1>11. SemUnits'
  <2>1. /\ semcnt \in [Sem -> Nat] /\ isemcnt \in [Sem -> Nat]
        /\ \A r \in Sem : isemcnt[r] <= maxsem[r]
    BY SemcntAssumption DEF SemAssumption, SemUnits
  <2>2. ASSUME NEW r \in Sem
        PROVE  /\ semcnt'[r] > 0 => wait_queue'[r] = << >>
               /\ semcnt'[r] <= maxsem[r]
    <3>1. CASE r = s
      BY <1>1, <1>10, <2>1, <3>1
    <3>2. CASE r # s
      <4>1. semcnt'[r] = semcnt[r] /\ wait_queue'[r] = wait_queue[r]
        BY <1>1, <1>10, <2>1, <3>2, SemIsQueue
      <4>2. QED
        BY <4>1 DEF SemUnits, NoIdleUnit
    <3>3. QED
      BY <3>1, <3>2
  <2>3. semcnt' \in [Sem -> Nat]
    BY <1>1, <2>1
  <2>4. QED
    BY <2>2, <2>3 DEF SemUnits, NoIdleUnit
<1>12. QED
  BY <1>9, <1>10, <1>11 DEF SemKernel

LEMMA SemCallStep ==
  ASSUME SemKernel, SemUnits, NEW s \in Sem, SemCall(s)
  PROVE  SemKernel' /\ SemUnits'
<1>1. CASE pol_sem(s)
  BY <1>1, AcquireStep DEF pol_sem
<1>2. ASSUME NEW callback \in {"none", "wait_tmout"}, Wait(s, callback)
      PROVE  SemKernel' /\ SemUnits'
  BY <1>2, AcquireStep, BlockStep DEF Wait
<1>3. CASE wai_sem(s) \/ twai_sem(s)
  BY <1>2, <1>3 DEF wai_sem, twai_sem
<1>4. QED
  BY <1>1, <1>3, SignalStep, ini_semStep DEF SemCall

\* The actions of TaskKernel in the composition.
LEMMA KernelStep ==
  ASSUME SemKernel, SemUnits, [Next]_vars, UNCHANGED semcnt
  PROVE  SemKernel' /\ SemUnits'
<1>1. KernelInv' /\ WaitInv'
  BY BootStep, TaskCallStep, IntCallStep, ContextStep, StutterStep
     DEF Next, SemKernel
<1>2. KernelQueues' /\ Shrinks
  BY <1>1, NextQueues DEF SemKernel
<1>3. SemKernel'
  BY <1>1, <1>2 DEF SemKernel
<1>4. QED
  BY <1>2, <1>3, UnitsShrink

----------------------------------------------------------------------------
\* The kernel's invariants and the semaphores' hold together, whatever calls,
\* timeouts, releases and terminations interleave.
THEOREM SemInvariance == SemSpec => [](SemKernel /\ SemUnits)
<1>1. SemInit => SemKernel /\ SemUnits
  <2> SUFFICES ASSUME SemInit PROVE SemKernel /\ SemUnits
    OBVIOUS
  <2>1. Init /\ semcnt = isemcnt
    BY DEF SemInit, initialize_semaphore
  <2>2. WaitInv
    BY <2>1, InitWaits
  <2>3. SemUnits
    <3>1. \A s \in Sem : wait_queue[s] = << >>
      BY <2>1, SemIsQueue DEF Init
    <3>2. QED
      BY <2>1, <3>1, SemcntAssumption DEF SemAssumption, SemUnits, NoIdleUnit
  <2>4. QED
    BY <2>1, <2>2, <2>3, InitLemma, InitQueues DEF SemKernel
<1>2. (SemKernel /\ SemUnits) /\ [SemNext]_semVars => (SemKernel /\ SemUnits)'
  <2> SUFFICES ASSUME SemKernel, SemUnits, [SemNext]_semVars
               PROVE  SemKernel' /\ SemUnits'
    OBVIOUS
  <2>1. CASE \E s \in Sem : SemCall(s)
    BY <2>1, SemCallStep
  <2>2. CASE (Next /\ SemRest) \/ UNCHANGED semVars
    BY <2>2, KernelStep DEF SemRest, semVars
  <2>3. QED
    BY <2>1, <2>2 DEF SemNext
<1>3. QED
  BY <1>1, <1>2, PTL DEF SemSpec

\* A unit that is given back goes to a waiting task or to the count, never to
\* both, and the count stays within maxsem, also across ini_sem (SemInv;
\* sig_sem, isig_sem, wai_sem, twai_sem, pol_sem, ini_sem).
THEOREM SemCorrect == SemSpec => []SemInv
<1>1. SemKernel /\ SemUnits => SemInv
  BY DEF SemKernel, SemUnits, KernelInv, SemInv, SemTypeOK
<1>2. QED
  BY <1>1, SemInvariance, PTL

\* A task is linked in a wait queue exactly while it waits for an object,
\* once, and a queue of attribute TA_TPRI is in the order of the present
\* priorities (QueuesInv; wait.c, wait.h, chg_pri).
THEOREM QueuesCorrect == SemSpec => []QueuesInv
<1>1. SemKernel /\ SemUnits => QueuesInv
  BY DEF SemKernel, KernelQueues
<1>2. QED
  BY <1>1, SemInvariance, PTL

----------------------------------------------------------------------------
(***************************************************************************)
(* The calls on a semaphore keep the order of the ready queues too.        *)
(***************************************************************************)
LEMMA SemCallPlace ==
  ASSUME SemKernel, NEW s \in Sem, SemCall(s)
  PROVE  PlaceStep
<1>1. s \in WaitQueue /\ KernelInv
  BY SemIsQueue DEF SemKernel
<1>2. CASE UNCHANGED sched
  BY <1>2, SamePlace
<1>3. ASSUME Signal(s) PROVE PlaceStep
  <2>1. CASE wait_queue[s] = << >>
    BY <1>3, <2>1, SamePlace DEF Signal
  <2>2. CASE wait_queue[s] # << >>
    <3> DEFINE t == Head(wait_queue[s])
    <3>1. t \in Task /\ TSTAT_WAIT_WOBJ(tstat[t])
      BY <1>1, <2>2, TakeHeadLemma DEF SemKernel
    <3>2. make_non_wait(t)
      BY <1>3, <2>2 DEF Signal, wait_complete
    <3> HIDE DEF t
    <3>3. TSTAT_WAITING(tstat[t])
      BY <1>1, <3>1, WobjWaits, TypesOf
    <3>4. QED
      BY <1>1, <3>1, <3>2, <3>3, NonWaitPlace
  <2>3. QED
    BY <2>1, <2>2
<1>4. ASSUME NEW callback, Wait(s, callback) PROVE PlaceStep
  <2>1. UNCHANGED sched \/ (TaskContext /\ make_wait("SEM", callback))
    BY <1>4 DEF Wait, Acquire, vars, CanDispatch, InTask
  <2>2. QED
    BY <1>1, <2>1, SamePlace, WaitsPlace
<1>5. CASE ini_sem(s)
  <2> DEFINE entry == wait_queue[s]
  <2>1. entry \in Seq(Task) /\ NoDuplicates(entry) /\ Members(entry) \subseteq Task
    BY <1>1, QueueFacts DEF SemKernel
  <2>2. ASSUME NEW t \in Members(entry) PROVE TSTAT_WAITING(tstat[t])
    <3>1. t \in Task /\ TSTAT_WAIT_WOBJ(tstat[t])
      BY <1>1, <2>1, QueueFacts DEF LinkAt, SemKernel
    <3>2. QED
      BY <1>1, <3>1, WobjWaits, TypesOf
  <2>3. release_in_order(entry)
    BY <1>5 DEF ini_sem, init_wait_queue
  <2> HIDE DEF entry
  <2>4. QED
    BY <1>1, <2>1, <2>2, <2>3, ReleasePlace
<1>6. QED
  BY <1>2, <1>3, <1>4, <1>5 DEF SemCall, sig_sem, isig_sem, wai_sem, twai_sem,
     pol_sem, Acquire, vars

\* Semaphores do not change it: a task that is preempted keeps its place in
\* its ready queue, also when ini_sem releases all the tasks of a semaphore at
\* once (KeepsPlace; task.c, semaphore.c).
THEOREM SemKeepsPlace == SemSpec => KeepsPlace
<1>1. PlaceStep => \A a, b \in Task :
        a \in Runnable /\ ~Ahead(sched, b, a) /\ Ahead(sched', b, a)
          => \/ ~\E c \in Task : Ahead(sched', a, c)
             \/ priority'[a] # priority[a]
  BY DEF PlaceStep, Last
<1>2. SemKernel /\ [SemNext]_semVars => PlaceStep
  <2> SUFFICES ASSUME SemKernel, [SemNext]_semVars PROVE PlaceStep
    OBVIOUS
  <2>1. CASE \E s \in Sem : SemCall(s)
    BY <2>1, SemCallPlace
  <2>2. CASE (Next /\ SemRest) \/ UNCHANGED semVars
    BY <2>2, NextPlace DEF SemKernel, semVars
  <2>3. QED
    BY <2>1, <2>2 DEF SemNext
<1>3. SemSpec => []SemKernel
  BY SemInvariance, PTL
<1>4. QED
  BY <1>1, <1>2, <1>3, PTL DEF SemSpec, KeepsPlace

----------------------------------------------------------------------------
(***************************************************************************)
(* The task exceptions.                                                    *)
(***************************************************************************)
TexType == [texptn : [Task -> SUBSET Cause], enatex : [Task -> BOOLEAN],
            frames : [Task -> Seq(BOOLEAN)], indispatch : [Task -> BOOLEAN]]

\* What the fields of a task satisfy whatever its state: the exceptions of a
\* task are enabled only where one more activation has room, and a task in
\* call_texrtn's own dispatch has them disabled and an activation to return
\* to.
TexAt(x, t) ==
  /\ Len(x.frames[t]) <= MaxFrames
  /\ x.enatex[t] => Len(x.frames[t]) < MaxFrames
  /\ x.indispatch[t] => ~x.enatex[t] /\ x.frames[t] # << >>

\* The same with the state of the task, ts.
TexFits(x, t, ts) ==
  /\ TexAt(x, t)
  /\ x.indispatch[t] => ~TSTAT_DORMANT(ts)
  /\ TSTAT_DORMANT(ts) => x.texptn[t] = {} /\ ~x.enatex[t] /\ x.frames[t] = << >>

TexGood(x, ts) == x \in TexType /\ \A t \in Task : TexFits(x, t, ts[t])

\* A task in call_texrtn's own dispatch is not running.
TexRunInv == \A t \in Task : indispatch[t] => t # p_runtsk

\* Before the kernel starts no exception is enabled.
TexBootInv == ~kerflg => \A t \in Task : ~enatex[t] /\ ~indispatch[t]

\* The part of the inductive invariant that is about exceptions: none of the
\* running task is due, and each field is where its readers expect it.
TexRest == TexGood(Tex, tstat) /\ TexRunInv /\ TexBootInv /\ TexServed

TexIInv == KernelInv /\ WaitInv /\ TexRest

----------------------------------------------------------------------------
(***************************************************************************)
(* The operators on the exception fields.                                  *)
(***************************************************************************)
LEMMA BecomeLemma ==
  ASSUME NEW x \in TexType, Become(x)
  PROVE  Tex' = x
BY DEF Become, Tex, TexType

LEMMA TexTypes ==
  ASSUME NEW x \in TexType
  PROVE  /\ x.texptn \in [Task -> SUBSET Cause] /\ x.enatex \in [Task -> BOOLEAN]
         /\ x.frames \in [Task -> Seq(BOOLEAN)]
         /\ x.indispatch \in [Task -> BOOLEAN]
BY DEF TexType

\* y differs from x in the fields of t only.
OnlyTex(x, y, t) ==
  \A u \in Task \ {t} :
    /\ y.texptn[u] = x.texptn[u] /\ y.enatex[u] = x.enatex[u]
    /\ y.frames[u] = x.frames[u] /\ y.indispatch[u] = x.indispatch[u]

LEMMA OnlyTexGood ==
  ASSUME NEW x, NEW y \in TexType, NEW ts, NEW t \in Task, OnlyTex(x, y, t),
         \A u \in Task \ {t} : TexFits(x, u, ts[u]), TexFits(y, t, ts[t])
  PROVE  TexGood(y, ts)
<1>1. ASSUME NEW u \in Task PROVE TexFits(y, u, ts[u])
  <2>1. CASE u = t
    BY <2>1
  <2>2. CASE u # t
    <3>1. TexFits(x, u, ts[u])
      BY <2>2
    <3>2. QED
      BY <2>2, <3>1 DEF OnlyTex, TexFits, TexAt
  <2>3. QED
    BY <2>1, <2>2
<1>2. QED
  BY <1>1 DEF TexGood

\* call_texrtn is entered with the exceptions enabled, so there is room.
LEMMA StartIfDueLemma ==
  ASSUME NEW x, NEW ts, TexGood(x, ts), NEW t \in Task, ~TSTAT_DORMANT(ts[t]),
         ~x.indispatch[t], NEW ipm \in BOOLEAN, NEW dis \in BOOLEAN
  PROVE  LET y == StartIfDue(x, t, ipm, dis) IN
         /\ TexGood(y, ts) /\ OnlyTex(x, y, t)
         /\ ~y.indispatch[t] /\ ~TexDue(y, t, ipm)
<1>1. x \in TexType /\ TexFits(x, t, ts[t])
  BY DEF TexGood
<1>2. CASE TexDue(x, t, ipm)
  <2> DEFINE y == call_texrtn(x, t, dis)
  <2>1. /\ y \in [texptn : {[x.texptn EXCEPT ![t] = {}]},
                  enatex : {[x.enatex EXCEPT ![t] = FALSE]},
                  frames : {[x.frames EXCEPT ![t] = << dis >> \o @]},
                  indispatch : {x.indispatch}]
    BY <1>1 DEF call_texrtn, TexType
  <2>2. /\ y.texptn = [x.texptn EXCEPT ![t] = {}]
        /\ y.enatex = [x.enatex EXCEPT ![t] = FALSE]
        /\ y.frames = [x.frames EXCEPT ![t] = << dis >> \o @]
        /\ y.indispatch = x.indispatch
    BY <2>1
  <2>3. x.frames[t] \in Seq(BOOLEAN) /\ Len(x.frames[t]) \in Nat
    BY <1>1, TexTypes
  <2>4. /\ << dis >> \o x.frames[t] \in Seq(BOOLEAN)
        /\ Len(<< dis >> \o x.frames[t]) = 1 + Len(x.frames[t])
    BY <2>3
  <2>5. y \in TexType
    <3>1. /\ y.texptn \in [Task -> SUBSET Cause] /\ y.enatex \in [Task -> BOOLEAN]
          /\ y.frames \in [Task -> Seq(BOOLEAN)]
          /\ y.indispatch \in [Task -> BOOLEAN]
      BY <1>1, <2>2, <2>4, TexTypes
    <3>2. QED
      BY <2>1, <3>1 DEF TexType
  <2> HIDE DEF y
  <2>6. OnlyTex(x, y, t)
    BY <1>1, <2>2, TexTypes DEF OnlyTex
  <2>7. /\ y.texptn[t] = {} /\ y.enatex[t] = FALSE
        /\ y.frames[t] = << dis >> \o x.frames[t] /\ ~y.indispatch[t]
    BY <1>1, <2>2, TexTypes
  <2>8. TexFits(y, t, ts[t])
    <3>1. x.enatex[t]
      BY <1>2 DEF TexDue
    <3>2. Len(x.frames[t]) + 1 <= MaxFrames
      BY <1>1, <2>3, <3>1, FramesAssumption DEF TexFits, TexAt
    <3>3. QED
      BY <2>3, <2>4, <2>7, <3>2 DEF TexFits, TexAt
  <2>9. \A u \in Task : TexFits(x, u, ts[u])
    BY DEF TexGood
  <2>10. TexGood(y, ts) /\ ~TexDue(y, t, ipm)
    BY <2>5, <2>6, <2>7, <2>8, <2>9, OnlyTexGood DEF TexDue
  <2>11. StartIfDue(x, t, ipm, dis) = y
    BY <1>2 DEF StartIfDue, y
  <2>12. QED
    BY <2>6, <2>7, <2>10, <2>11
<1>3. CASE ~TexDue(x, t, ipm)
  BY <1>3 DEF StartIfDue, OnlyTex
<1>4. QED
  BY <1>2, <1>3

\* The loop of call_texrtn behind its dispatch.
LEMMA TexLoopLemma ==
  ASSUME NEW x \in TexType, NEW ts, NEW t \in Task, ~TSTAT_DORMANT(ts[t]),
         \A u \in Task \ {t} : TexFits(x, u, ts[u]),
         Len(x.frames[t]) <= MaxFrames, ~x.enatex[t], x.frames[t] # << >>,
         NEW ipm \in BOOLEAN
  PROVE  LET y == TexLoop(x, t) IN
         /\ TexGood(y, ts) /\ OnlyTex(x, y, t)
         /\ ~y.indispatch[t] /\ ~TexDue(y, t, ipm)
<1> DEFINE y == TexLoop(x, t)
<1>1. x.frames[t] \in Seq(BOOLEAN) /\ Len(x.frames[t]) \in Nat \ {0}
  BY TexTypes
<1>2. /\ Tail(x.frames[t]) \in Seq(BOOLEAN)
      /\ Len(Tail(x.frames[t])) = Len(x.frames[t]) - 1
  BY <1>1, HeadTailProperties
<1>3. CASE x.texptn[t] # {}
  <2>1. y \in [texptn : {[x.texptn EXCEPT ![t] = {}]}, enatex : {x.enatex},
               frames : {x.frames},
               indispatch : {[x.indispatch EXCEPT ![t] = FALSE]}]
    BY <1>3 DEF TexLoop, TexType
  <2>2. /\ y.texptn = [x.texptn EXCEPT ![t] = {}] /\ y.enatex = x.enatex
        /\ y.frames = x.frames
        /\ y.indispatch = [x.indispatch EXCEPT ![t] = FALSE]
    BY <2>1
  <2>3. y \in TexType
    <3>1. /\ y.texptn \in [Task -> SUBSET Cause] /\ y.enatex \in [Task -> BOOLEAN]
          /\ y.frames \in [Task -> Seq(BOOLEAN)]
          /\ y.indispatch \in [Task -> BOOLEAN]
      BY <2>2, TexTypes
    <3>2. QED
      BY <2>1, <3>1 DEF TexType
  <2> HIDE DEF y
  <2>4. OnlyTex(x, y, t)
    BY <2>2, TexTypes DEF OnlyTex
  <2>5. /\ y.texptn[t] = {} /\ y.enatex[t] = x.enatex[t]
        /\ y.frames[t] = x.frames[t] /\ y.indispatch[t] = FALSE
    BY <2>2, TexTypes
  <2>6. TexFits(y, t, ts[t])
    BY <2>5 DEF TexFits, TexAt
  <2>7. TexGood(y, ts) /\ ~TexDue(y, t, ipm)
    BY <2>3, <2>4, <2>5, <2>6, OnlyTexGood DEF TexDue
  <2>8. QED
    BY <2>4, <2>5, <2>7 DEF y
<1>4. CASE x.texptn[t] = {}
  <2>1. y \in [texptn : {x.texptn}, enatex : {[x.enatex EXCEPT ![t] = TRUE]},
               frames : {[x.frames EXCEPT ![t] = Tail(@)]},
               indispatch : {[x.indispatch EXCEPT ![t] = FALSE]}]
    BY <1>4 DEF TexLoop, TexType
  <2>2. /\ y.texptn = x.texptn /\ y.enatex = [x.enatex EXCEPT ![t] = TRUE]
        /\ y.frames = [x.frames EXCEPT ![t] = Tail(@)]
        /\ y.indispatch = [x.indispatch EXCEPT ![t] = FALSE]
    BY <2>1
  <2>3. y \in TexType
    <3>1. /\ y.texptn \in [Task -> SUBSET Cause] /\ y.enatex \in [Task -> BOOLEAN]
          /\ y.frames \in [Task -> Seq(BOOLEAN)]
          /\ y.indispatch \in [Task -> BOOLEAN]
      BY <1>2, <2>2, TexTypes
    <3>2. QED
      BY <2>1, <3>1 DEF TexType
  <2> HIDE DEF y
  <2>4. OnlyTex(x, y, t)
    BY <2>2, TexTypes DEF OnlyTex
  <2>5. /\ y.texptn[t] = {} /\ y.enatex[t] = TRUE
        /\ y.frames[t] = Tail(x.frames[t]) /\ y.indispatch[t] = FALSE
    BY <1>4, <2>2, TexTypes
  <2>6. TexFits(y, t, ts[t])
    BY <1>1, <1>2, <2>5, FramesAssumption DEF TexFits, TexAt
  <2>7. TexGood(y, ts) /\ ~TexDue(y, t, ipm)
    BY <2>3, <2>4, <2>5, <2>6, OnlyTexGood DEF TexDue
  <2>8. QED
    BY <2>4, <2>5, <2>7 DEF y
<1>5. QED
  BY <1>3, <1>4

\* Wherever a task continues, its pending causes are taken.
LEMMA ResumeLemma ==
  ASSUME NEW x, NEW ts, TexGood(x, ts), NEW t \in Task, ~TSTAT_DORMANT(ts[t]),
         NEW ipm \in BOOLEAN, NEW dis \in BOOLEAN
  PROVE  LET y == Resume(x, t, ipm, dis) IN
         /\ TexGood(y, ts) /\ OnlyTex(x, y, t)
         /\ ~y.indispatch[t] /\ ~TexDue(y, t, ipm)
<1>1. x \in TexType /\ \A u \in Task : TexFits(x, u, ts[u])
  BY DEF TexGood
<1>2. CASE x.indispatch[t]
  <2>1. /\ Len(x.frames[t]) <= MaxFrames /\ ~x.enatex[t]
        /\ x.frames[t] # << >>
    BY <1>1, <1>2 DEF TexFits, TexAt
  <2>2. Resume(x, t, ipm, dis) = TexLoop(x, t)
    BY <1>2 DEF Resume
  <2>3. QED
    BY <1>1, <2>1, <2>2, TexLoopLemma
<1>3. CASE ~x.indispatch[t]
  BY <1>3, StartIfDueLemma DEF Resume
<1>4. QED
  BY <1>2, <1>3

----------------------------------------------------------------------------
(***************************************************************************)
(* The end of a step: the task that continues takes its causes.            *)
(***************************************************************************)
LEMMA RunningFacts ==
  ASSUME KernelInv, p_runtsk # NULL
  PROVE  p_runtsk \in Task /\ ~TSTAT_DORMANT(tstat[p_runtsk])
<1>1. p_runtsk \in Runnable
  BY DEF KernelInv, DispatchInv, RunningInv
<1>2. QED
  BY <1>1 DEF Runnable, TSTAT_RUNNABLE, TSTAT_DORMANT, TS_DORMANT

LEMMA RunningFactsNext ==
  ASSUME KernelInv', p_runtsk' # NULL
  PROVE  p_runtsk' \in Task /\ ~TSTAT_DORMANT(tstat'[p_runtsk'])
<1>1. p_runtsk' \in Runnable'
  BY DEF KernelInv, DispatchInv, RunningInv
<1>2. QED
  BY <1>1 DEF Runnable, TSTAT_RUNNABLE, TSTAT_DORMANT, TS_DORMANT

LEMMA FlagTypesNext ==
  ASSUME KernelInv'
  PROVE  ipmflg' \in BOOLEAN /\ disdsp' \in BOOLEAN
BY DEF KernelInv, TypeOK

\* The fields become those of y, in which the causes of the running task
\* have been taken.
LEMMA TexRestLemma ==
  ASSUME kerflg', NEW y, TexGood(y, tstat'), Become(y),
         \A u \in Task : y.indispatch[u] => u # p_runtsk',
         p_runtsk' # NULL => ~TexDue(y, p_runtsk', ipmflg')
  PROVE  TexRest'
<1>1. y \in TexType
  BY DEF TexGood
<1>2. Tex' = y
  BY <1>1, BecomeLemma
<1>3. indispatch' = y.indispatch
  BY DEF Become
<1>4. TexGood(Tex', tstat') /\ TexRunInv' /\ TexBootInv'
  BY <1>2, <1>3 DEF TexRunInv, TexBootInv
<1>5. TexServed'
  BY <1>2 DEF TexServed
<1>6. QED
  BY <1>4, <1>5 DEF TexRest

LEMMA FollowLemma ==
  ASSUME KernelInv', kerflg', NEW x, TexGood(x, tstat'), Follow(x),
         \A u \in Task : x.indispatch[u] =>
                          u # p_runtsk \/ p_runtsk' # p_runtsk,
         p_runtsk' = p_runtsk /\ p_runtsk # NULL
           => ~TexDue(x, p_runtsk, ipmflg')
  PROVE  TexRest'
<1>1. CASE p_runtsk' # p_runtsk /\ p_runtsk' # NULL
  <2> DEFINE y == Resume(x, p_runtsk', ipmflg', disdsp')
  <2>1. p_runtsk' \in Task /\ ~TSTAT_DORMANT(tstat'[p_runtsk'])
    BY <1>1, RunningFactsNext
  <2>2. Become(y)
    BY <1>1 DEF Follow
  <2>3. /\ TexGood(y, tstat') /\ OnlyTex(x, y, p_runtsk')
        /\ ~y.indispatch[p_runtsk'] /\ ~TexDue(y, p_runtsk', ipmflg')
    BY <2>1, ResumeLemma, FlagTypesNext
  <2> HIDE DEF y
  <2>4. QED
    BY <2>2, <2>3, TexRestLemma
<1>2. CASE ~(p_runtsk' # p_runtsk /\ p_runtsk' # NULL)
  <2>1. Become(x)
    BY <1>2 DEF Follow
  <2>2. \A u \in Task : x.indispatch[u] => u # p_runtsk'
    BY <1>2, NullAssumption
  <2>3. QED
    BY <1>2, <2>1, <2>2, TexRestLemma
<1>3. QED
  BY <1>1, <1>2

LEMMA FollowSelfLemma ==
  ASSUME KernelInv', kerflg', NEW x, TexGood(x, tstat'), FollowSelf(x),
         \A u \in Task : x.indispatch[u] => u # p_runtsk
  PROVE  TexRest'
<1>1. CASE p_runtsk' # NULL /\ p_runtsk' = p_runtsk
  <2> DEFINE y == StartIfDue(x, p_runtsk, ipmflg', disdsp')
  <2>1. p_runtsk \in Task /\ ~TSTAT_DORMANT(tstat'[p_runtsk])
    BY <1>1, RunningFactsNext
  <2>2. Become(y)
    BY <1>1 DEF FollowSelf
  <2>3. /\ TexGood(y, tstat') /\ OnlyTex(x, y, p_runtsk)
        /\ ~y.indispatch[p_runtsk] /\ ~TexDue(y, p_runtsk, ipmflg')
    BY <2>1, StartIfDueLemma, FlagTypesNext
  <2> HIDE DEF y
  <2>4. QED
    BY <1>1, <2>2, <2>3, TexRestLemma
<1>2. CASE ~(p_runtsk' # NULL /\ p_runtsk' = p_runtsk)
  <2>1. Follow(x)
    BY <1>2 DEF FollowSelf, Follow
  <2>2. QED
    BY <1>2, <2>1, FollowLemma
<1>3. QED
  BY <1>1, <1>2

\* The fields stay as they are, and so does the running task.
LEMMA KeepLemma ==
  ASSUME TexRest, TexGood(Tex, tstat'), Become(Tex), kerflg' = kerflg,
         p_runtsk' = p_runtsk, ipmflg' = TRUE => ipmflg, reqflg => reqflg'
  PROVE  TexRest'
<1>1. UNCHANGED << texptn, enatex, frames, indispatch >>
  BY DEF Become, Tex
<1>2. Tex' = Tex
  BY <1>1 DEF Tex
<1>3. TexRunInv' /\ TexBootInv'
  BY <1>1 DEF TexRest, TexRunInv, TexBootInv
<1>4. TexServed'
  BY <1>2 DEF TexRest, TexServed, TexDue
<1>5. QED
  BY <1>2, <1>3, <1>4 DEF TexRest

----------------------------------------------------------------------------
(***************************************************************************)
(* Only the end of a task makes it dormant.                                *)
(***************************************************************************)
AwakeStays ==
  \A t \in Task : TSTAT_DORMANT(tstat'[t]) => TSTAT_DORMANT(tstat[t])

LEMMA AwakeGood ==
  ASSUME TexGood(Tex, tstat), AwakeStays
  PROVE  TexGood(Tex, tstat')
BY DEF TexGood, TexFits, AwakeStays

LEMMA AwakeSets ==
  ASSUME KernelInv, NEW t \in Task, NEW ts, ~TSTAT_DORMANT(ts),
         tstat' = [tstat EXCEPT ![t] = ts]
  PROVE  AwakeStays
BY TypesOf DEF AwakeStays

LEMMA AwakeStates ==
  /\ ~TSTAT_DORMANT(TS_RUNNABLE) /\ ~TSTAT_DORMANT(TS_SUSPENDED)
  /\ \A f : ~TSTAT_DORMANT(TS_WAITING(f))
  /\ \A ts : TSTAT_WAITING(ts) => /\ ~TSTAT_DORMANT(ts \cup TS_SUSPENDED)
                                  /\ ~TSTAT_DORMANT(ts \ TS_SUSPENDED)
BY DEF TSTAT_DORMANT, TS_DORMANT, TS_RUNNABLE, TS_SUSPENDED, TS_WAITING,
       TSTAT_WAITING

LEMMA AwakeActivate ==
  ASSUME KernelInv, NEW t \in Task, Activate(t) \/ make_active(t)
  PROVE  AwakeStays
BY AwakeSets, AwakeStates DEF Activate, make_active, AwakeStays

LEMMA AwakeNonWait ==
  ASSUME KernelInv, NEW t \in Task, make_non_wait(t)
  PROVE  AwakeStays
BY AwakeSets, AwakeStates DEF make_non_wait

LEMMA AwakeWait ==
  ASSUME KernelInv, TaskContext, NEW f, NEW callback, make_wait(f, callback)
  PROVE  AwakeStays
BY AwakeSets, AwakeStates, InTaskFacts DEF make_wait

LEMMA AwakeSuspend ==
  ASSUME KernelInv, NEW t \in Task, sus_tsk(t) \/ rsm_tsk(t)
  PROVE  AwakeStays
BY AwakeSets, AwakeStates DEF sus_tsk, rsm_tsk

\* The service calls of OtherCall, which keep the flags that TexServed reads.
OtherCalls ==
  \/ \E t \in Task :
       \/ act_tsk(t) \/ can_act(t) \/ wup_tsk(t) \/ can_wup(t)
       \/ rel_wai(t) \/ sus_tsk(t) \/ rsm_tsk(t)
       \/ \E pri \in TPri : chg_pri(t, pri)
  \/ \E pri \in TPri : rot_rdq(pri)
  \/ \E callback \in {"none", "wait_tmout"} : slp_tsk(callback)
  \/ dly_tsk \/ dis_dsp \/ ena_dsp

LEMMA OtherCallsLemma ==
  ASSUME KernelInv, OtherCalls
  PROVE  AwakeStays /\ TaskContext /\ UNCHANGED << ipmflg, kerflg >>
<1>1. ASSUME NEW t \in Task, act_tsk(t)
      PROVE  AwakeStays /\ TaskContext /\ UNCHANGED << ipmflg, kerflg >>
  BY <1>1, AwakeActivate DEF act_tsk, InTask, TaskReturn, flagVars, bootVars
<1>2. ASSUME NEW t \in Task, wup_tsk(t)
      PROVE  AwakeStays /\ TaskContext /\ UNCHANGED << ipmflg, kerflg >>
  <2>1. make_non_wait(t) \/ UNCHANGED tstat
    BY <1>2 DEF wup_tsk, Wakeup, wait_complete
  <2>2. AwakeStays
    BY <2>1, AwakeNonWait DEF AwakeStays
  <2>3. QED
    BY <1>2, <2>2 DEF wup_tsk, InTask, TaskReturn, flagVars, bootVars
<1>3. ASSUME NEW t \in Task, rel_wai(t)
      PROVE  AwakeStays /\ TaskContext /\ UNCHANGED << ipmflg, kerflg >>
  <2>1. AwakeStays
    BY <1>3, AwakeNonWait DEF rel_wai, wait_release
  <2>2. QED
    BY <1>3, <2>1 DEF rel_wai, InTask, TaskReturn, flagVars, bootVars
<1>4. ASSUME NEW t \in Task, sus_tsk(t) \/ rsm_tsk(t)
      PROVE  AwakeStays /\ TaskContext /\ UNCHANGED << ipmflg, kerflg >>
  BY <1>4, AwakeSuspend
     DEF sus_tsk, rsm_tsk, InTask, TaskReturn, flagVars, bootVars
<1>5. ASSUME NEW t \in Task, can_act(t) \/ can_wup(t)
      PROVE  AwakeStays /\ TaskContext /\ UNCHANGED << ipmflg, kerflg >>
  BY <1>5 DEF can_act, can_wup, InTask, AwakeStays, flagVars, bootVars
<1>6. ASSUME NEW t \in Task, NEW pri \in TPri, chg_pri(t, pri)
      PROVE  AwakeStays /\ TaskContext /\ UNCHANGED << ipmflg, kerflg >>
  BY <1>6 DEF chg_pri, InTask, AwakeStays, TaskReturn, flagVars, bootVars
<1>7. ASSUME NEW pri \in TPri, rot_rdq(pri)
      PROVE  AwakeStays /\ TaskContext /\ UNCHANGED << ipmflg, kerflg >>
  BY <1>7 DEF rot_rdq, InTask, AwakeStays, TaskReturn, flagVars, bootVars
<1>8. ASSUME NEW callback \in {"none", "wait_tmout"}, slp_tsk(callback)
      PROVE  AwakeStays /\ TaskContext /\ UNCHANGED << ipmflg, kerflg >>
  <2>1. TaskContext
    BY <1>8 DEF slp_tsk, CanDispatch, InTask
  <2>2. AwakeStays
    BY <1>8, <2>1, AwakeWait DEF slp_tsk, AwakeStays
  <2>3. QED
    BY <1>8, <2>1, <2>2 DEF slp_tsk, make_wait, flagVars, bootVars
<1>9. CASE dly_tsk
  <2>1. TaskContext
    BY <1>9 DEF dly_tsk, CanDispatch, InTask
  <2>2. AwakeStays
    BY <1>9, <2>1, AwakeWait DEF dly_tsk
  <2>3. QED
    BY <1>9, <2>1, <2>2 DEF dly_tsk, make_wait, flagVars, bootVars
<1>10. CASE dis_dsp \/ ena_dsp
  BY <1>10 DEF dis_dsp, ena_dsp, InTask, AwakeStays, bootVars
<1>11. QED
  BY <1>1, <1>2, <1>3, <1>4, <1>5, <1>6, <1>7, <1>8, <1>9, <1>10
     DEF OtherCalls

----------------------------------------------------------------------------
(***************************************************************************)
(* The calls of task_except.c.                                             *)
(***************************************************************************)
LEMMA RestTypes ==
  ASSUME TexRest
  PROVE  /\ Tex \in TexType /\ \A t \in Task : TexFits(Tex, t, tstat[t])
         /\ texptn \in [Task -> SUBSET Cause] /\ enatex \in [Task -> BOOLEAN]
         /\ frames \in [Task -> Seq(BOOLEAN)]
         /\ indispatch \in [Task -> BOOLEAN]
BY DEF TexRest, TexGood, TexType, Tex

\* In a task context no cause of the running task is due.
LEMMA NothingDue ==
  ASSUME KernelInv, TexRest, TaskContext
  PROVE  ~TexDue(Tex, p_runtsk, ipmflg)
BY InTaskFacts DEF TexRest, TexServed

\* Raising or enabling exceptions of a task that is not dormant, where the
\* room is: x differs from Tex in these two fields of t only.
LEMMA RaisedGood ==
  ASSUME TexRest, NEW t \in Task, ~TSTAT_DORMANT(tstat[t]),
         NEW ptn \in [Task -> SUBSET Cause], NEW ena \in [Task -> BOOLEAN],
         \A u \in Task \ {t} : ptn[u] = texptn[u] /\ ena[u] = enatex[u],
         ena[t] => Len(frames[t]) < MaxFrames /\ ~indispatch[t],
         NEW x \in TexType, x.texptn = ptn, x.enatex = ena, x.frames = frames,
         x.indispatch = indispatch
  PROVE  TexGood(x, tstat) /\ OnlyTex(Tex, x, t)
<1>1. /\ Tex.texptn = texptn /\ Tex.enatex = enatex /\ Tex.frames = frames
      /\ Tex.indispatch = indispatch
  BY DEF Tex
<1>2. OnlyTex(Tex, x, t)
  BY <1>1 DEF OnlyTex
<1>3. TexFits(x, t, tstat[t])
  BY <1>1, RestTypes DEF TexFits, TexAt
<1>4. QED
  BY <1>2, <1>3, RestTypes, OnlyTexGood

LEMMA ras_texRest ==
  ASSUME KernelInv, TexRest, NEW t \in Task, NEW rasptn \in SUBSET Cause,
         ras_tex(t, rasptn), KernelInv'
  PROVE  TexRest'
<1> DEFINE ptn == [texptn EXCEPT ![t] = @ \cup rasptn]
           x == [Tex EXCEPT !.texptn[t] = @ \cup rasptn]
<1>1. /\ TaskContext /\ ~TSTAT_DORMANT(tstat[t])
      /\ Become(IF t = p_runtsk THEN StartIfDue(x, t, ipmflg, disdsp) ELSE x)
      /\ UNCHANGED << tstat, p_runtsk, ipmflg, disdsp, kerflg >>
  BY DEF ras_tex, InTask, Raisable, vars, flagVars, bootVars
<1>2. x \in [texptn : {ptn}, enatex : {enatex}, frames : {frames},
             indispatch : {indispatch}]
  BY DEF Tex
<1>3. /\ x.texptn = ptn /\ x.enatex = enatex /\ x.frames = frames
      /\ x.indispatch = indispatch
  BY <1>2
<1>4. /\ ptn \in [Task -> SUBSET Cause]
      /\ \A u \in Task \ {t} : ptn[u] = texptn[u]
  BY RestTypes
<1>5. x \in TexType
  BY <1>2, <1>4, RestTypes DEF TexType
<1>6. enatex[t] => Len(frames[t]) < MaxFrames /\ ~indispatch[t]
  BY RestTypes DEF TexFits, TexAt, Tex
<1> HIDE DEF ptn, x
<1>7. TexGood(x, tstat) /\ OnlyTex(Tex, x, t)
  BY <1>1, <1>3, <1>4, <1>5, <1>6, RestTypes, RaisedGood
<1>8. /\ kerflg /\ p_runtsk # NULL /\ p_runtsk \in Task
      /\ ipmflg \in BOOLEAN /\ disdsp \in BOOLEAN
      /\ \A u \in Task : indispatch[u] => u # p_runtsk
  BY <1>1, InTaskFacts DEF KernelInv, TypeOK, TexRest, TexRunInv
<1>9. CASE t = p_runtsk
  <2> DEFINE y == StartIfDue(x, t, ipmflg, disdsp)
  <2>1. /\ TexGood(y, tstat) /\ OnlyTex(x, y, t) /\ ~y.indispatch[t]
        /\ ~TexDue(y, t, ipmflg)
    BY <1>1, <1>3, <1>7, <1>8, <1>9, StartIfDueLemma
  <2>2. Become(y)
    BY <1>1, <1>9
  <2> HIDE DEF y
  <2>3. QED
    BY <1>1, <1>8, <1>9, <2>1, <2>2, TexRestLemma
<1>10. CASE t # p_runtsk
  <2>1. ~TexDue(x, p_runtsk, ipmflg)
    BY <1>1, <1>7, <1>8, <1>10, NothingDue DEF OnlyTex, TexDue
  <2>2. Become(x)
    BY <1>1, <1>10
  <2>3. QED
    BY <1>1, <1>3, <1>7, <1>8, <2>1, <2>2, TexRestLemma
<1>11. QED
  BY <1>9, <1>10

LEMMA ena_texRest ==
  ASSUME KernelInv, TexRest, ena_tex, KernelInv'
  PROVE  TexRest'
<1> DEFINE t == p_runtsk
           ena == [enatex EXCEPT ![t] = TRUE]
           x == [Tex EXCEPT !.enatex[t] = TRUE]
           y == StartIfDue(x, t, ipmflg, disdsp)
<1>1. /\ TaskContext /\ Len(frames[t]) < MaxFrames
      /\ Become(y)
      /\ UNCHANGED << tstat, p_runtsk, ipmflg, disdsp, kerflg >>
  BY DEF ena_tex, InTask, vars, flagVars, bootVars
<1>2. x \in [texptn : {texptn}, enatex : {ena}, frames : {frames},
             indispatch : {indispatch}]
  BY DEF Tex
<1>3. /\ x.texptn = texptn /\ x.enatex = ena /\ x.frames = frames
      /\ x.indispatch = indispatch
  BY <1>2
<1>4. /\ kerflg /\ t # NULL /\ t \in Task /\ ~TSTAT_DORMANT(tstat[t])
      /\ ipmflg \in BOOLEAN /\ disdsp \in BOOLEAN
      /\ \A u \in Task : indispatch[u] => u # t
  BY <1>1, InTaskFacts, RunningFacts DEF KernelInv, TypeOK, TexRest, TexRunInv
<1>5. ena \in [Task -> BOOLEAN] /\ \A u \in Task \ {t} : ena[u] = enatex[u]
  BY RestTypes
<1>6. x \in TexType
  BY <1>2, <1>5, RestTypes DEF TexType
<1> HIDE DEF ena, x
<1>7. TexGood(x, tstat)
  BY <1>1, <1>3, <1>4, <1>5, <1>6, RestTypes, RaisedGood
<1>8. /\ TexGood(y, tstat) /\ OnlyTex(x, y, t) /\ ~y.indispatch[t]
      /\ ~TexDue(y, t, ipmflg)
  BY <1>3, <1>4, <1>7, StartIfDueLemma
<1> HIDE DEF y
<1>9. QED
  BY <1>1, <1>4, <1>8, TexRestLemma

LEMMA dis_texRest ==
  ASSUME KernelInv, TexRest, dis_tex
  PROVE  TexRest'
<1> DEFINE t == p_runtsk
           ena == [enatex EXCEPT ![t] = FALSE]
<1>1. /\ TaskContext /\ enatex' = ena
      /\ UNCHANGED << texptn, frames, indispatch, tstat, p_runtsk, ipmflg,
                      kerflg >>
  BY DEF dis_tex, InTask, vars, flagVars, bootVars
<1>2. /\ kerflg /\ t # NULL /\ t \in Task /\ ~TSTAT_DORMANT(tstat[t])
      /\ \A u \in Task : indispatch[u] => u # t
  BY <1>1, InTaskFacts, RunningFacts DEF TexRest, TexRunInv
<1>3. ena \in [Task -> BOOLEAN] /\ \A u \in Task \ {t} : ena[u] = enatex[u]
  BY RestTypes
<1>4. /\ Tex' \in TexType /\ Tex'.texptn = texptn /\ Tex'.enatex = ena
      /\ Tex'.frames = frames /\ Tex'.indispatch = indispatch /\ ena[t] = FALSE
  BY <1>1, <1>2, <1>3, RestTypes DEF Tex, TexType
<1> HIDE DEF ena
<1>5. TexGood(Tex', tstat)
  BY <1>2, <1>3, <1>4, RestTypes, RaisedGood
<1>6. Become(Tex')
  BY DEF Become, Tex
<1>7. QED
  BY <1>1, <1>2, <1>4, <1>5, <1>6, TexRestLemma DEF TexDue

\* The request that iras_tex makes for the exit is one for a task with an
\* unraised mask.
LEMMA iras_texKernel ==
  ASSUME KernelInv, WaitInv, NEW t \in Task, NEW rasptn, iras_tex(t, rasptn)
  PROVE  KernelInv' /\ WaitInv'
<1>1. /\ InInterrupt /\ reqflg' = (reqflg \/ (t = p_runtsk /\ enatex[t] /\ ipmflg))
      /\ UNCHANGED << sched, tstat, priority, actque, wupque, winfo, tmevt,
                      wait_queue, p_runtsk, ipmflg, disdsp, dspflg, cpulock,
                      nest, kerflg, tskini >>
  BY DEF iras_tex, queVars, flagVars, bootVars
<1>2. nest > 0 /\ nest \in Nat /\ kerflg
  BY <1>1, InInterruptFacts
<1>3. TypeOK'
  BY <1>1 DEF KernelInv, TypeOK
<1>4. ReadyQueueInv' /\ Runnable' = Runnable
  BY <1>1, SchedFrame DEF KernelInv
<1>5. ~TaskContext'
  BY <1>1, <1>2 DEF TaskContext
<1>6. DispatchInv' /\ BootInv'
  BY <1>1, <1>2, <1>4, <1>5 DEF KernelInv, DispatchInv, DspflgInv, RunningInv,
     DispatchedInv, RequestInv, MaskInv, IdleInv, BootInv
<1>7. KernelInv'
  BY <1>3, <1>4, <1>6 DEF KernelInv
<1>8. QED
  BY <1>1, <1>7, WaitKeepLemma, SameWaitsFrame

LEMMA iras_texRest ==
  ASSUME KernelInv, TexRest, NEW t \in Task, NEW rasptn \in SUBSET Cause,
         iras_tex(t, rasptn)
  PROVE  TexRest'
<1> DEFINE ptn == [texptn EXCEPT ![t] = @ \cup rasptn]
<1>1. /\ ~TSTAT_DORMANT(tstat[t]) /\ texptn' = ptn /\ InInterrupt
      /\ reqflg' = (reqflg \/ (t = p_runtsk /\ enatex[t] /\ ipmflg))
      /\ UNCHANGED << enatex, frames, indispatch, tstat, p_runtsk, ipmflg,
                      kerflg >>
  BY DEF iras_tex, Raisable, flagVars, bootVars
<1>2. kerflg
  BY <1>1, InInterruptFacts
<1>3. /\ ptn \in [Task -> SUBSET Cause]
      /\ \A u \in Task \ {t} : ptn[u] = texptn[u]
  BY RestTypes
<1>4. /\ Tex' \in TexType /\ Tex'.texptn = ptn /\ Tex'.enatex = enatex
      /\ Tex'.frames = frames /\ Tex'.indispatch = indispatch
  BY <1>1, <1>3, RestTypes DEF Tex, TexType
<1>5. enatex[t] => Len(frames[t]) < MaxFrames /\ ~indispatch[t]
  BY RestTypes DEF TexFits, TexAt, Tex
<1> HIDE DEF ptn
<1>6. TexGood(Tex', tstat') /\ OnlyTex(Tex, Tex', t)
  BY <1>1, <1>3, <1>4, <1>5, RestTypes, RaisedGood
<1>7. TexRunInv' /\ TexBootInv'
  BY <1>1, <1>2 DEF TexRest, TexRunInv, TexBootInv
<1>8. TexServed'
  <2> SUFFICES ASSUME p_runtsk # NULL, TexDue(Tex', p_runtsk, ipmflg)
               PROVE  reqflg'
    BY <1>1 DEF TexServed
  <2>1. p_runtsk \in Task
    BY RunningFacts
  <2>2. CASE p_runtsk = t
    BY <1>1, <1>4, <2>2 DEF TexDue
  <2>3. CASE p_runtsk # t
    <3>1. TexDue(Tex, p_runtsk, ipmflg)
      BY <1>6, <2>1, <2>3 DEF OnlyTex, TexDue
    <3>2. QED
      BY <1>1, <1>2, <3>1 DEF TexRest, TexServed
  <2>4. QED
    BY <2>2, <2>3
<1>9. QED
  BY <1>6, <1>7, <1>8 DEF TexRest

\* The return of an exception routine: dispatching gets back the state it
\* had before the routine, and with it the dispatch that is due.
LEMMA texrtn_returnKernel ==
  ASSUME KernelInv, WaitInv, TexRest, texrtn_return
  PROVE  KernelInv' /\ WaitInv'
<1>1. /\ TaskContext /\ frames[p_runtsk] # << >> /\ ~cpulock'
      /\ cpulock' \in BOOLEAN /\ ipmflg' = TRUE
      /\ disdsp' = Head(frames[p_runtsk]) /\ dspflg' = ~disdsp'
      /\ IF dspflg' THEN DispatchPending ELSE UNCHANGED << p_runtsk, winfo >>
      /\ UNCHANGED << sched, tstat, priority, actque, wupque, tmevt,
                      wait_queue, reqflg, nest, kerflg, tskini >>
  BY DEF texrtn_return, queVars, bootVars
<1>2. /\ kerflg /\ nest = 0 /\ ~reqflg /\ p_runtsk \in Runnable
      /\ p_runtsk \in Task
  BY <1>1, InTaskFacts
<1>3. disdsp' \in BOOLEAN
  <2>1. frames[p_runtsk] \in Seq(BOOLEAN)
    BY <1>2, RestTypes
  <2>2. QED
    BY <1>1, <2>1, HeadTailProperties
<1>4. DspflgInv'
  BY <1>1, <1>3 DEF DspflgInv
<1>5. CASE dspflg'
  <2>1. /\ winfo' \in [Task -> WinfoType] /\ p_runtsk' = sched.p_schedtsk
        /\ Dispatch(sched.p_schedtsk, winfo) \/ UNCHANGED winfo
    BY <1>1, <1>5, DispatchType, TypesOf DEF DispatchPending
  <2>2. sched.p_schedtsk \in Task \cup {NULL}
    BY TypesOf DEF SchedType
  <2>3. TypeOK'
    BY <1>1, <1>3, <2>1, <2>2 DEF KernelInv, TypeOK
  <2>4. KernelInv'
    BY <1>1, <1>2, <1>4, <1>5, <2>1, <2>3, DispatchLemma
  <2>5. QED
    BY <1>1, <2>1, <2>4, WaitSwitchLemma
<1>6. CASE ~dspflg'
  <2>1. UNCHANGED << p_runtsk, winfo >>
    BY <1>1, <1>6
  <2>2. TypeOK'
    BY <1>1, <1>3, <2>1 DEF KernelInv, TypeOK
  <2>3. ReadyQueueInv' /\ Runnable' = Runnable
    BY <1>1, SchedFrame DEF KernelInv
  <2>4. p_runtsk # NULL
    BY <1>1 DEF TaskContext
  <2>5. DispatchInv' /\ BootInv'
    BY <1>1, <1>2, <1>4, <1>6, <2>1, <2>3, <2>4 DEF DispatchInv, RunningInv,
       DispatchedInv, RequestInv, MaskInv, IdleInv, BootInv
  <2>6. KernelInv'
    BY <2>2, <2>3, <2>5 DEF KernelInv
  <2>7. QED
    BY <1>1, <2>1, <2>6, WaitKeepLemma, SameWaitsFrame
<1>7. QED
  BY <1>5, <1>6

LEMMA texrtn_returnRest ==
  ASSUME KernelInv, TexRest, texrtn_return, KernelInv'
  PROVE  TexRest'
<1> DEFINE t == p_runtsk
           ena == [enatex EXCEPT ![t] = FALSE]
           x == [Tex EXCEPT !.enatex[t] = FALSE]
<1>1. /\ TaskContext /\ frames[t] # << >>
      /\ IF p_runtsk' = t THEN Become(TexLoop(x, t))
         ELSE Follow([x EXCEPT !.indispatch[t] = TRUE])
      /\ UNCHANGED << tstat, kerflg >>
  BY DEF texrtn_return, bootVars
<1>2. /\ kerflg /\ t # NULL /\ t \in Task /\ ~TSTAT_DORMANT(tstat'[t])
      /\ \A u \in Task : indispatch[u] => u # t
  BY <1>1, InTaskFacts, RunningFacts DEF TexRest, TexRunInv
<1>3. x \in [texptn : {texptn}, enatex : {ena}, frames : {frames},
             indispatch : {indispatch}]
  BY DEF Tex
<1>4. /\ x.texptn = texptn /\ x.enatex = ena /\ x.frames = frames
      /\ x.indispatch = indispatch
  BY <1>3
<1>5. /\ ena \in [Task -> BOOLEAN] /\ ena[t] = FALSE
      /\ \A u \in Task \ {t} : ena[u] = enatex[u]
  BY <1>2, RestTypes
<1>6. x \in TexType
  BY <1>3, <1>5, RestTypes DEF TexType
<1>7. \A u \in Task \ {t} : TexFits(x, u, tstat'[u])
  BY <1>1, <1>4, <1>5, RestTypes DEF TexFits, TexAt, Tex
<1>8. Len(frames[t]) <= MaxFrames
  BY <1>2, RestTypes DEF TexFits, TexAt, Tex
<1>9. CASE p_runtsk' = t
  <2> DEFINE y == TexLoop(x, t)
  <2>1. Become(y)
    BY <1>1, <1>9
  <2>2. /\ TexGood(y, tstat') /\ OnlyTex(x, y, t) /\ ~y.indispatch[t]
        /\ ~TexDue(y, t, ipmflg')
    <3> HIDE DEF x, ena
    <3>1. QED
      BY <1>1, <1>2, <1>4, <1>5, <1>6, <1>7, <1>8, TexLoopLemma, FlagTypesNext
  <2>3. \A u \in Task : y.indispatch[u] => u # t
    BY <1>2, <1>4, <2>2 DEF OnlyTex
  <2> HIDE DEF y
  <2>4. QED
    BY <1>1, <1>2, <1>9, <2>1, <2>2, <2>3, TexRestLemma
<1>10. CASE p_runtsk' # t
  <2> DEFINE y == [x EXCEPT !.indispatch[t] = TRUE]
             ind == [indispatch EXCEPT ![t] = TRUE]
  <2>1. Follow(y)
    BY <1>1, <1>10
  <2>2. y \in [texptn : {texptn}, enatex : {ena}, frames : {frames},
               indispatch : {ind}]
    BY <1>3, <1>4
  <2>3. /\ y.texptn = texptn /\ y.enatex = ena /\ y.frames = frames
        /\ y.indispatch = ind
    BY <2>2
  <2>4. /\ ind \in [Task -> BOOLEAN] /\ ind[t] = TRUE
        /\ \A u \in Task \ {t} : ind[u] = indispatch[u]
    BY <1>2, RestTypes
  <2>5. y \in TexType
    BY <1>5, <2>2, <2>4, RestTypes DEF TexType
  <2> HIDE DEF x, y, ind, ena
  <2>6. OnlyTex(x, y, t)
    BY <1>4, <2>3, <2>4 DEF OnlyTex
  <2>7. TexFits(y, t, tstat'[t])
    BY <1>1, <1>2, <1>5, <1>8, <2>3, <2>4 DEF TexFits, TexAt
  <2>8. TexGood(y, tstat')
    BY <1>2, <1>7, <2>5, <2>6, <2>7, OnlyTexGood
  <2>9. QED
    BY <1>1, <1>2, <1>10, <2>1, <2>8, FollowLemma
<1>11. QED
  BY <1>9, <1>10

----------------------------------------------------------------------------
(***************************************************************************)
(* The operations of the kernel.                                           *)
(***************************************************************************)
LEMMA OtherCallRest ==
  ASSUME KernelInv, TexRest, OtherCall, KernelInv'
  PROVE  TexRest'
<1>1. OtherCalls /\ Follow(Tex)
  BY DEF OtherCall, OtherCalls
<1>2. AwakeStays /\ TaskContext /\ UNCHANGED << ipmflg, kerflg >>
  BY <1>1, OtherCallsLemma
<1>3. TexGood(Tex, tstat')
  BY <1>2, AwakeGood DEF TexRest
<1>4. \A u \in Task : Tex.indispatch[u] => u # p_runtsk
  BY DEF TexRest, TexRunInv, Tex
<1>5. kerflg /\ ~TexDue(Tex, p_runtsk, ipmflg')
  BY <1>2, NothingDue, InTaskFacts
<1>6. QED
  BY <1>1, <1>2, <1>3, <1>4, <1>5, FollowLemma

LEMMA IpmCallRest ==
  ASSUME KernelInv, TexRest, NEW enaall \in BOOLEAN, chg_ipm(enaall), KernelInv',
         IF enaall THEN FollowSelf(Tex) ELSE Become(Tex)
  PROVE  TexRest'
<1>1. /\ TaskContext /\ ipmflg' = enaall /\ UNCHANGED << tstat, kerflg >>
      /\ ~enaall => UNCHANGED p_runtsk
  BY DEF chg_ipm, InTask, bootVars
<1>2. kerflg /\ kerflg'
  BY <1>1, InTaskFacts
<1>3. TexGood(Tex, tstat') /\ \A u \in Task : Tex.indispatch[u] => u # p_runtsk
  BY <1>1 DEF TexRest, TexRunInv, Tex
<1>4. CASE enaall
  BY <1>2, <1>3, <1>4, FollowSelfLemma
<1>5. CASE ~enaall
  <2>1. ~TexDue(Tex, p_runtsk', ipmflg')
    BY <1>1, <1>5 DEF TexDue
  <2>2. QED
    BY <1>1, <1>2, <1>3, <1>5, <2>1, TexRestLemma
<1>6. QED
  BY <1>4, <1>5

LEMMA IntExitRest ==
  ASSUME KernelInv, TexRest, IntExit, KernelInv'
  PROVE  TexRest'
<1>1. /\ InInterrupt /\ UNCHANGED << tstat, ipmflg, kerflg >>
      /\ ~(nest = 1 /\ p_runtsk # NULL /\ reqflg)
           => UNCHANGED << p_runtsk, reqflg >>
  BY DEF IntExit, ret_int, flagVars, bootVars
<1>2. kerflg /\ kerflg'
  BY <1>1, InInterruptFacts
<1>3. TexGood(Tex, tstat') /\ \A u \in Task : Tex.indispatch[u] => u # p_runtsk
  BY <1>1 DEF TexRest, TexRunInv, Tex
<1>4. CASE nest = 1 /\ p_runtsk # NULL /\ reqflg
  <2>1. FollowSelf(Tex)
    BY <1>4 DEF IntExit
  <2>2. QED
    BY <1>2, <1>3, <2>1, FollowSelfLemma
<1>5. CASE ~(nest = 1 /\ p_runtsk # NULL /\ reqflg)
  <2>1. Become(Tex)
    BY <1>5 DEF IntExit
  <2>2. p_runtsk' = p_runtsk /\ (reqflg => reqflg') /\ (ipmflg' = TRUE => ipmflg)
    BY <1>1, <1>5
  <2>3. QED
    BY <1>1, <1>3, <2>1, <2>2, KeepLemma
<1>6. QED
  BY <1>4, <1>5

\* make_dormant clears the fields of the task, whether or not it is
\* activated again at once.
LEMMA TerminateRest ==
  ASSUME KernelInv, TexRest, NEW t \in Task, NEW s, Terminate(t, s)
  PROVE  LET x == TexDormant(Tex, t) IN
         TexGood(x, tstat') /\ OnlyTex(Tex, x, t) /\ ~TexDue(x, t, TRUE)
         /\ ~x.indispatch[t]
<1> DEFINE x == TexDormant(Tex, t)
<1>1. /\ x \in [texptn : {[texptn EXCEPT ![t] = {}]},
                enatex : {[enatex EXCEPT ![t] = FALSE]},
                frames : {[frames EXCEPT ![t] = << >>]},
                indispatch : {[indispatch EXCEPT ![t] = FALSE]}]
  BY DEF TexDormant, Tex
<1>2. /\ x.texptn = [texptn EXCEPT ![t] = {}]
      /\ x.enatex = [enatex EXCEPT ![t] = FALSE]
      /\ x.frames = [frames EXCEPT ![t] = << >>]
      /\ x.indispatch = [indispatch EXCEPT ![t] = FALSE]
  BY <1>1
<1>3. << >> \in Seq(BOOLEAN) /\ Len(<< >>) = 0
  OBVIOUS
<1>4. x \in TexType
  <2>1. /\ x.texptn \in [Task -> SUBSET Cause] /\ x.enatex \in [Task -> BOOLEAN]
        /\ x.frames \in [Task -> Seq(BOOLEAN)]
        /\ x.indispatch \in [Task -> BOOLEAN]
    BY <1>2, <1>3, RestTypes
  <2>2. QED
    BY <1>1, <2>1 DEF TexType
<1> HIDE DEF x
<1>5. OnlyTex(Tex, x, t)
  BY <1>2, RestTypes DEF OnlyTex, Tex
<1>6. /\ x.texptn[t] = {} /\ x.enatex[t] = FALSE
      /\ x.frames[t] = << >> /\ x.indispatch[t] = FALSE
  BY <1>2, RestTypes
<1>7. TexFits(x, t, tstat'[t])
  BY <1>3, <1>6, FramesAssumption DEF TexFits, TexAt
<1>8. \A u \in Task \ {t} : tstat'[u] = tstat[u]
  BY TypesOf DEF Terminate
<1>9. \A u \in Task \ {t} : TexFits(Tex, u, tstat'[u])
  BY <1>8, RestTypes
<1>10. TexGood(x, tstat')
  BY <1>4, <1>5, <1>7, <1>9, OnlyTexGood
<1>11. QED
  BY <1>5, <1>6, <1>10 DEF x, TexDue

LEMMA EndCallRest ==
  ASSUME KernelInv, TexRest, EndCall, KernelInv'
  PROVE  TexRest'
<1>1. CASE ext_tsk /\ Follow(TexDormant(Tex, p_runtsk))
  <2> DEFINE t == p_runtsk
             x == TexDormant(Tex, t)
  <2>1. /\ TaskContext /\ kerflg' = kerflg /\ Follow(x)
        /\ Terminate(t, make_non_runnable(sched, priority, t))
    BY <1>1 DEF ext_tsk, bootVars
  <2>2. kerflg /\ kerflg' /\ t \in Task
    BY <2>1, InTaskFacts
  <2>3. /\ TexGood(x, tstat') /\ OnlyTex(Tex, x, t) /\ ~TexDue(x, t, TRUE)
        /\ ~x.indispatch[t]
    BY <2>1, <2>2, TerminateRest
  <2> HIDE DEF x
  <2>4. ~TexDue(x, t, ipmflg') /\ \A u \in Task : x.indispatch[u] => u # t
    BY <2>3 DEF TexDue
  <2>5. QED
    BY <2>1, <2>2, <2>3, <2>4, FollowLemma
<1>2. ASSUME NEW t \in Task, ter_tsk(t), Follow(TexDormant(Tex, t))
      PROVE  TexRest'
  <2> DEFINE x == TexDormant(Tex, t)
  <2>1. /\ TaskContext /\ UNCHANGED << kerflg, ipmflg >> /\ Follow(x)
        /\ \E s : Terminate(t, s)
    BY <1>2 DEF ter_tsk, InTask, flagVars, bootVars
  <2>2. kerflg /\ kerflg' /\ p_runtsk \in Task
    BY <2>1, InTaskFacts
  <2>3. /\ TexGood(x, tstat') /\ OnlyTex(Tex, x, t) /\ ~TexDue(x, t, TRUE)
        /\ ~x.indispatch[t]
    BY <2>1, TerminateRest
  <2> HIDE DEF x
  <2>4. ~TexDue(x, p_runtsk, ipmflg')
    BY <2>1, <2>2, <2>3, NothingDue DEF TexDue, OnlyTex
  <2>5. \A u \in Task : x.indispatch[u] => u # p_runtsk
    BY <2>3 DEF TexRest, TexRunInv, OnlyTex, Tex
  <2>6. QED
    BY <2>1, <2>2, <2>3, <2>4, <2>5, FollowLemma
<1>3. QED
  BY <1>1, <1>2 DEF EndCall

\* Steps that leave the running task and the exception fields alone.
LEMMA QuietRest ==
  ASSUME KernelInv, TexRest, QuietStep, KernelInv'
  PROVE  TexRest'
<1>1. Become(Tex)
  BY DEF QuietStep, Become, Tex, texVars
<1>2. CASE initialize_task
  <2>1. make_active(torder[tskini']) \/ UNCHANGED tstat
    BY <1>2 DEF initialize_task
  <2>2. torder[tskini'] \in Task
    BY <1>2, TorderAssumption DEF initialize_task, KernelInv, TypeOK
  <2>3. AwakeStays
    BY <2>1, <2>2, AwakeActivate DEF AwakeStays
  <2>4. QED
    BY <1>1, <1>2, <2>3, AwakeGood, KeepLemma
       DEF initialize_task, flagVars, ctxVars, TexRest
<1>3. CASE start_dispatch
  <2>1. ~kerflg /\ kerflg' /\ UNCHANGED tstat
    BY <1>3 DEF start_dispatch
  <2>2. TexGood(Tex, tstat') /\ \A u \in Task : ~enatex[u] /\ ~indispatch[u]
    BY <2>1 DEF TexRest, TexBootInv
  <2>3. p_runtsk' # NULL => p_runtsk' \in Task
    BY RunningFactsNext
  <2>4. QED
    BY <1>1, <2>1, <2>2, <2>3, TexRestLemma DEF Tex, TexDue
<1>4. CASE loc_cpu \/ unl_cpu \/ core_int_entry
  <2>1. UNCHANGED << tstat, p_runtsk, ipmflg, reqflg, kerflg >>
    BY <1>4 DEF loc_cpu, unl_cpu, core_int_entry, flagVars, bootVars
  <2>2. TexGood(Tex, tstat')
    BY <2>1 DEF TexRest
  <2>3. QED
    BY <1>1, <2>1, <2>2, KeepLemma
<1>5. CASE IntCall
  <2>1. AwakeStays
    <3>1. ASSUME NEW t \in Task, iact_tsk(t) PROVE AwakeStays
      BY <3>1, AwakeActivate DEF iact_tsk
    <3>2. ASSUME NEW t \in Task, iwup_tsk(t) PROVE AwakeStays
      <4>1. make_non_wait(t) \/ UNCHANGED tstat
        BY <3>2 DEF iwup_tsk, Wakeup, wait_complete
      <4>2. QED
        BY <4>1, AwakeNonWait DEF AwakeStays
    <3>3. ASSUME NEW t \in Task, irel_wai(t) PROVE AwakeStays
      BY <3>3, AwakeNonWait DEF irel_wai, wait_release
    <3>4. ASSUME NEW t \in Task, wait_tmout(t) \/ wait_tmout_ok(t)
          PROVE  AwakeStays
      BY <3>4, AwakeNonWait DEF wait_tmout, wait_tmout_ok
    <3>5. ASSUME NEW pri \in TPri, irot_rdq(pri) PROVE AwakeStays
      BY <3>5 DEF irot_rdq, AwakeStays
    <3>6. QED
      BY <1>5, <3>1, <3>2, <3>3, <3>4, <3>5 DEF IntCall
  <2>2. \E w : IntReturn(w)
    BY <1>5 DEF IntCall, iact_tsk, iwup_tsk, irel_wai, wait_tmout,
                wait_tmout_ok, irot_rdq
  <2>3. /\ UNCHANGED << p_runtsk, ipmflg, kerflg >>
        /\ reqflg => reqflg'
    BY <2>2 DEF IntReturn, flagVars, bootVars
  <2>4. TexGood(Tex, tstat')
    BY <2>1, AwakeGood DEF TexRest
  <2>5. QED
    BY <1>1, <2>3, <2>4, KeepLemma
<1>6. QED
  BY <1>2, <1>3, <1>4, <1>5 DEF QuietStep, Boot

LEMMA IdleRest ==
  ASSUME KernelInv, TexRest, dispatcher_idle, Follow(Tex), KernelInv'
  PROVE  TexRest'
<1>1. /\ kerflg' /\ p_runtsk = NULL /\ UNCHANGED tstat
  BY DEF dispatcher_idle, bootVars
<1>2. TexGood(Tex, tstat') /\ \A u \in Task : Tex.indispatch[u] => u # p_runtsk
  BY <1>1 DEF TexRest, TexRunInv, Tex
<1>3. QED
  BY <1>1, <1>2, FollowLemma

----------------------------------------------------------------------------
(***************************************************************************)
(* Every step.                                                             *)
(***************************************************************************)
LEMMA TexCallStep ==
  ASSUME TexIInv, TexCall
  PROVE  TexIInv'
<1>1. KernelInv /\ WaitInv /\ TexRest
  BY DEF TexIInv
<1>2. UNCHANGED vars => KernelInv' /\ WaitInv'
  BY <1>1, StutterStep
<1>3. ASSUME NEW t \in Task, NEW rasptn \in SUBSET Cause, ras_tex(t, rasptn)
      PROVE  TexIInv'
  <2>1. KernelInv' /\ WaitInv'
    BY <1>2, <1>3 DEF ras_tex
  <2>2. TexRest'
    BY <1>1, <1>3, <2>1, ras_texRest
  <2>3. QED
    BY <2>1, <2>2 DEF TexIInv
<1>4. ASSUME NEW t \in Task, NEW rasptn \in SUBSET Cause, iras_tex(t, rasptn)
      PROVE  TexIInv'
  <2>1. KernelInv' /\ WaitInv'
    BY <1>1, <1>4, iras_texKernel
  <2>2. TexRest'
    BY <1>1, <1>4, iras_texRest
  <2>3. QED
    BY <2>1, <2>2 DEF TexIInv
<1>5. CASE dis_tex
  <2>1. KernelInv' /\ WaitInv'
    BY <1>2, <1>5 DEF dis_tex
  <2>2. TexRest'
    BY <1>1, <1>5, dis_texRest
  <2>3. QED
    BY <2>1, <2>2 DEF TexIInv
<1>6. CASE ena_tex
  <2>1. KernelInv' /\ WaitInv'
    BY <1>2, <1>6 DEF ena_tex
  <2>2. TexRest'
    BY <1>1, <1>6, <2>1, ena_texRest
  <2>3. QED
    BY <2>1, <2>2 DEF TexIInv
<1>7. CASE texrtn_return
  <2>1. KernelInv' /\ WaitInv'
    BY <1>1, <1>7, texrtn_returnKernel
  <2>2. TexRest'
    BY <1>1, <1>7, <2>1, texrtn_returnRest
  <2>3. QED
    BY <2>1, <2>2 DEF TexIInv
<1>8. \A rasptn \in (SUBSET Cause) \ {{}} : rasptn \in SUBSET Cause
  OBVIOUS
<1>9. QED
  BY <1>3, <1>4, <1>5, <1>6, <1>7, <1>8 DEF TexCall

LEMMA KernelPart ==
  ASSUME EndCall \/ IpmCall \/ OtherCall
  PROVE  TaskCall
<1>1. CASE EndCall
  BY <1>1 DEF EndCall, TaskCall
<1>2. CASE IpmCall
  BY <1>2 DEF IpmCall, TaskCall
<1>3. CASE OtherCall
  BY <1>3 DEF OtherCall, TaskCall
<1>4. QED
  BY <1>1, <1>2, <1>3

\* The exceptions and the kernel keep their invariants together.
THEOREM TexInvariance == TexSpec => []TexIInv
<1>1. TexInit => TexIInv
  <2> SUFFICES ASSUME TexInit PROVE TexIInv
    OBVIOUS
  <2>1. Init /\ KernelInv
    BY InitLemma DEF TexInit
  <2>2. WaitInv
    <3>1. \A t \in Task : /\ tmevt[t] = "none" /\ winfo[t] = "none"
                          /\ ~TSTAT_WAITING(tstat[t])
      BY <2>1, TstatLemma DEF Init
    <3>2. QED
      BY <3>1 DEF WaitInv, TimerInv, WinfoInv
  <2>3. Tex \in TexType
    <3>1. << >> \in Seq(BOOLEAN)
      OBVIOUS
    <3>2. /\ texptn \in [Task -> SUBSET Cause] /\ enatex \in [Task -> BOOLEAN]
          /\ frames \in [Task -> Seq(BOOLEAN)]
          /\ indispatch \in [Task -> BOOLEAN]
      BY <3>1 DEF TexInit
    <3>3. QED
      BY <3>2 DEF Tex, TexType
  <2>4. \A t \in Task : TexFits(Tex, t, tstat[t])
    <3>1. Len(<< >>) = 0
      OBVIOUS
    <3>2. ASSUME NEW t \in Task PROVE TexFits(Tex, t, tstat[t])
      <4>1. /\ Tex.texptn[t] = {} /\ Tex.enatex[t] = FALSE
            /\ Tex.frames[t] = << >> /\ Tex.indispatch[t] = FALSE
        BY DEF TexInit, Tex
      <4>2. QED
        BY <3>1, <4>1, FramesAssumption DEF TexFits, TexAt
    <3>3. QED
      BY <3>2
  <2>5. TexRunInv /\ TexBootInv /\ TexServed
    BY <2>1 DEF TexInit, Init, TexRunInv, TexBootInv, TexServed
  <2>6. QED
    BY <2>1, <2>2, <2>3, <2>4, <2>5 DEF TexIInv, TexRest, TexGood
<1>2. TexIInv /\ [TexNext]_teVars => TexIInv'
  <2> SUFFICES ASSUME TexIInv, [TexNext]_teVars PROVE TexIInv'
    OBVIOUS
  <2>1. KernelInv /\ WaitInv /\ TexRest
    BY DEF TexIInv
  <2>2. CASE TexCall
    BY <2>2, TexCallStep
  <2>3. CASE EndCall \/ IpmCall \/ OtherCall
    <3>1. KernelInv' /\ WaitInv'
      BY <2>1, <2>3, KernelPart, TaskCallStep
    <3>2. TexRest'
      BY <2>1, <2>3, <3>1, EndCallRest, IpmCallRest, OtherCallRest DEF IpmCall
    <3>3. QED
      BY <3>1, <3>2 DEF TexIInv
  <2>4. CASE IntExit
    <3>1. KernelInv' /\ WaitInv'
      BY <2>1, <2>4, ContextStep DEF IntExit, Context
    <3>2. QED
      BY <2>1, <2>4, <3>1, IntExitRest DEF TexIInv
  <2>5. CASE QuietStep
    <3>1. KernelInv' /\ WaitInv'
      BY <2>1, <2>5, BootStep, IntCallStep, ContextStep DEF QuietStep, Context
    <3>2. QED
      BY <2>1, <2>5, <3>1, QuietRest DEF TexIInv
  <2>6. CASE dispatcher_idle /\ Follow(Tex)
    <3>1. KernelInv' /\ WaitInv'
      BY <2>1, <2>6, ContextStep DEF Context
    <3>2. QED
      BY <2>1, <2>6, <3>1, IdleRest DEF TexIInv
  <2>7. CASE UNCHANGED teVars
    <3>1. KernelInv' /\ WaitInv'
      BY <2>1, <2>7, StutterStep DEF teVars
    <3>2. UNCHANGED << texptn, enatex, frames, indispatch, tstat, p_runtsk,
                       kerflg, ipmflg, reqflg >>
      BY <2>7 DEF teVars, texVars, vars, flagVars, ctxVars, bootVars
    <3>3. TexRest'
      BY <2>1, <3>2 DEF TexRest, TexRunInv, TexBootInv, TexServed, Tex
    <3>4. QED
      BY <3>1, <3>3 DEF TexIInv
  <2>8. QED
    BY <2>2, <2>3, <2>4, <2>5, <2>6, <2>7 DEF TexNext
<1>3. QED
  BY <1>1, <1>2, PTL DEF TexSpec

\* The exception fields of a task agree with its state and with the
\* activations of its routine, whatever ends the routine or interrupts it
\* (TexInv).
THEOREM TexCorrect == TexSpec => []TexInv
<1>1. TexIInv => TexInv
  <2> SUFFICES ASSUME TexIInv PROVE TexInv
    OBVIOUS
  <2>1. KernelInv /\ TexRest
    BY DEF TexIInv
  <2>2. /\ texptn \in [Task -> SUBSET Cause] /\ enatex \in [Task -> BOOLEAN]
        /\ frames \in [Task -> Seq(BOOLEAN)]
        /\ indispatch \in [Task -> BOOLEAN]
        /\ \A t \in Task : TexFits(Tex, t, tstat[t])
    BY <2>1, RestTypes
  <2>3. TexTypeOK
    BY <2>1, <2>2 DEF KernelInv, TexTypeOK, TexFits, TexAt, Tex
  <2>4. TexSuspended /\ TexDormantInv
    BY <2>1, <2>2 DEF TexSuspended, TexDormantInv, TexRest, TexRunInv, TexFits,
                      TexAt, Tex
  <2>5. QED
    BY <2>1, <2>3, <2>4 DEF TexInv, KernelInv, DispatchInv
<1>2. QED
  BY <1>1, TexInvariance, PTL

\* No code of a task runs while an exception of the task is due, unless the
\* exit of the interrupt has been asked to look (TexServed).
THEOREM TexServedCorrect == TexSpec => []TexServed
<1>1. TexIInv => TexServed
  BY DEF TexIInv, TexRest
<1>2. QED
  BY <1>1, TexInvariance, PTL
=============================================================================
