----------------------------- MODULE TaskKernel -----------------------------
(***************************************************************************)
(* Task management, task-dependent synchronisation, the wait primitives,   *)
(* dispatching and the system states of the ASP kernel: kernel/task.c,     *)
(* task_manage.c, task_sync.c, wait.c/h, sys_manage.c, chg_ipm, and the    *)
(* parts of prc_support.S that switch p_runtsk.                            *)
(*                                                                         *)
(* A service call runs from t_lock_cpu to t_unlock_cpu with the kernel's   *)
(* interrupts masked, and a dispatch() in it hands the lock to the task it *)
(* resumes; so a service call, its dispatch included, is one action.       *)
(* Interrupt handlers run between actions, nested up to MaxNest deep; they *)
(* never switch tasks themselves but ask the outermost interrupt exit, or  *)
(* the idle loop, for it through reqflg.  Calls that return an error       *)
(* without changing anything are not actions.                              *)
(***************************************************************************)
EXTENDS Sched

CONSTANTS
  WaitQueue,   \* the wait queues of the synchronisation objects
  TpriQueue,   \* those ordered by task priority (attribute TA_TPRI)
  TaAct,       \* the tasks created with TA_ACT
  ipriority,   \* the initial priority of each task
  torder,      \* torder_table: the order in which tasks are initialised
  MaxNest      \* bound on the nesting of interrupt handlers

ASSUME QueueAssumption == TpriQueue \subseteq WaitQueue
ASSUME IpriAssumption == ipriority \in [Task -> TPri]
ASSUME TorderAssumption ==
  torder \in Seq(Task) /\ NoDuplicates(torder) /\ Members(torder) = Task
ASSUME TaActAssumption == TaAct \subseteq Task
ASSUME NestAssumption == MaxNest \in Nat \ {0}

VARIABLES
  sched,        \* ready_queue, ready_primap, p_schedtsk
  tstat,        \* TCB.tstat, the set of its bits; the wait factor is a member
  priority,     \* TCB.priority
  actque,       \* TCB.actque
  wupque,       \* TCB.wupque
  winfo,        \* the WINFO union at TCB.p_winfo; "none" when out of scope
  tmevt,        \* the callback of the task's registered time event, or "none"
  wait_queue,   \* the wait queues of the synchronisation objects
  p_runtsk,     \* the running task, or NULL in the idle loop
  reqflg,       \* dispatch request to the interrupt exit
  ipmflg,       \* interrupt priority mask is TIPM_ENAALL
  disdsp,       \* dispatching disabled
  dspflg,       \* ipmflg and not disdsp
  cpulock,      \* locked by loc_cpu or iloc_cpu in the present context
  nest,         \* how many interrupt handlers are active
  kerflg,       \* the kernel has started
  tskini        \* how many tasks initialize_task has set up

queVars  == << actque, wupque >>
flagVars == << ipmflg, disdsp, dspflg >>
ctxVars  == << reqflg, cpulock, nest >>
bootVars == << kerflg, tskini >>
vars == << sched, tstat, priority, queVars, winfo, tmevt, wait_queue,
           p_runtsk, flagVars, ctxVars, bootVars >>

----------------------------------------------------------------------------
(***************************************************************************)
(* Task states (task.h).  tstat is the set of its bits, with the wait      *)
(* factor as one more member; the order of the factors' codes, which the   *)
(* macros compare, is kept as two sets.                                    *)
(***************************************************************************)
WobjcbFactor == {"SEM", "FLG", "SDTQ", "SPDQ", "MBX", "MPF"}
WobjFactor   == {"RDTQ", "RPDQ"} \cup WobjcbFactor
WaitFactor   == {"DLY", "SLP"} \cup WobjFactor

TS_DORMANT   == {}
TS_RUNNABLE  == {"RUNNABLE"}
TS_SUSPENDED == {"SUSPENDED"}
TS_WAITING(factor) == {"WAITING", factor}

TSTAT_DORMANT(ts)     == ts = TS_DORMANT
TSTAT_RUNNABLE(ts)    == "RUNNABLE" \in ts
TSTAT_WAITING(ts)     == "WAITING" \in ts
TSTAT_SUSPENDED(ts)   == "SUSPENDED" \in ts
TSTAT_WAIT_SLP(ts)    == "SLP" \in ts
TSTAT_WAIT_WOBJ(ts)   == ts \cap WobjFactor # {}
TSTAT_WAIT_WOBJCB(ts) == ts \cap WobjcbFactor # {}

TstatType == {TS_DORMANT, TS_RUNNABLE, TS_SUSPENDED}
               \cup {TS_WAITING(f) : f \in WaitFactor}
               \cup {TS_WAITING(f) \cup TS_SUSPENDED : f \in WaitFactor}

(***************************************************************************)
(* WINFO is a union of wercd and p_tmevtb: E_OK and the null pointer are   *)
(* the same word, and a word that is not it reads as a pointer.            *)
(***************************************************************************)
ZERO == "0"
E_OK == ZERO
NoTmevtb == ZERO
WinfoType == {"none", ZERO, "tmevtb", "E_TMOUT", "E_RLWAI", "E_DLT"}
TmevtType == {"none", "wait_tmout", "wait_tmout_ok"}

Runnable == {t \in Task : TSTAT_RUNNABLE(tstat[t])}

----------------------------------------------------------------------------
(***************************************************************************)
(* Contexts: CHECK_TSKCTX_UNL, CHECK_DISPATCH and CHECK_INTCTX_UNL.        *)
(***************************************************************************)
TaskContext == kerflg /\ nest = 0 /\ p_runtsk # NULL
InTask      == TaskContext /\ ~cpulock
CanDispatch == InTask /\ dspflg
\* Mutant: without the context check.
InInterrupt_AnyContext == kerflg /\ ~cpulock
InInterrupt == nest > 0 /\ ~cpulock

\* The dispatcher makes t run.  A task that resumes in a waiting call reads
\* winfo.wercd and returns, which ends the scope of its WINFO.
Dispatch(t, w) ==
  /\ p_runtsk' = t
  /\ winfo' = [x \in Task |-> IF x = t THEN "none" ELSE w[x]]

\* What the scheduler's functions return.
\* Mutant: without dspflg.
DispatchRequired_Always == sched'.p_schedtsk # sched.p_schedtsk
DispatchRequired == dspflg /\ sched'.p_schedtsk # sched.p_schedtsk

\* The end of a service call of a task: if (dispatch required) dispatch().
TaskReturn(w) ==
  /\ IF DispatchRequired THEN Dispatch(sched'.p_schedtsk, w)
                         ELSE p_runtsk' = p_runtsk /\ winfo' = w
  /\ UNCHANGED << ctxVars, flagVars, bootVars >>

\* Mutants: a later call overwrites the request; no call makes one.
IntReturn_Overwrite(w) ==
  /\ reqflg' = DispatchRequired
  /\ winfo' = w
  /\ UNCHANGED << p_runtsk, cpulock, nest, flagVars, bootVars >>

IntReturn_NoRequest(w) ==
  /\ reqflg' = reqflg
  /\ winfo' = w
  /\ UNCHANGED << p_runtsk, cpulock, nest, flagVars, bootVars >>

\* The end of a call from a handler: if (dispatch required) reqflg = true.
IntReturn(w) ==
  /\ reqflg' = (reqflg \/ DispatchRequired)
  /\ winfo' = w
  /\ UNCHANGED << p_runtsk, cpulock, nest, flagVars, bootVars >>

(***************************************************************************)
(* wait.h and wait.c                                                       *)
(***************************************************************************)
make_non_wait(t) ==
  IF TSTAT_SUSPENDED(tstat[t])
    THEN /\ tstat' = [tstat EXCEPT ![t] = TS_SUSPENDED]
         /\ sched' = sched
    ELSE /\ tstat' = [tstat EXCEPT ![t] = TS_RUNNABLE]
         /\ sched' = make_runnable(sched, priority, t)

wait_dequeue_wobj(t) ==
  wait_queue' = IF TSTAT_WAIT_WOBJ(tstat[t])
                  THEN [q \in WaitQueue |-> QueueDelete(wait_queue[q], t)]
                  ELSE wait_queue

\* w is the state of the WINFO unions when the function is called.
wait_dequeue_tmevtb(t, w) ==
  tmevt' = IF w[t] # NoTmevtb THEN [tmevt EXCEPT ![t] = "none"] ELSE tmevt

wait_complete_winfo(t) == [winfo EXCEPT ![t] = E_OK]

wait_complete(t) ==
  /\ wait_dequeue_tmevtb(t, winfo)
  /\ make_non_wait(t)

\* Mutant: wercd is not written.
wait_release_winfo_None(t) == winfo

wait_release_winfo(t) == [winfo EXCEPT ![t] = "E_RLWAI"]

wait_release(t) ==
  /\ wait_dequeue_wobj(t)
  /\ wait_dequeue_tmevtb(t, winfo)
  /\ make_non_wait(t)

\* make_non_wait for the waiting tasks of a sequence, in its order, each with
\* its time event taken off: the loops of init_wait_queue and of set_flg.
release_winfo(entry, wercd) ==
  [t \in Task |-> IF t \in Members(entry) THEN wercd ELSE winfo[t]]

release_in_order(entry) ==
  LET waiters == Members(entry)
      after[n \in 0 .. Len(entry)] ==
        IF n = 0 THEN sched
        ELSE IF TSTAT_SUSPENDED(tstat[entry[n]]) THEN after[n - 1]
        ELSE make_runnable(after[n - 1], priority, entry[n])
  IN
  /\ tmevt' = [t \in Task |-> IF t \in waiters /\ winfo[t] # NoTmevtb
                               THEN "none" ELSE tmevt[t]]
  /\ tstat' = [t \in Task |->
                 IF t \notin waiters THEN tstat[t]
                 ELSE IF TSTAT_SUSPENDED(tstat[t]) THEN TS_SUSPENDED
                 ELSE TS_RUNNABLE]
  /\ sched' = after[Len(entry)]

init_wait_queue_winfo(q) == release_winfo(wait_queue[q], "E_DLT")

init_wait_queue(q) ==
  /\ wait_queue' = [wait_queue EXCEPT ![q] = << >>]
  /\ release_in_order(wait_queue[q])

\* make_wait and make_wait_tmout: the running task leaves the ready queue;
\* callback is "none" for TMO_FEVR.
make_wait(factor, callback) ==
  LET t == p_runtsk IN
  /\ tstat' = [tstat EXCEPT ![t] = TS_WAITING(factor)]
  /\ sched' = make_non_runnable(sched, priority, t)
  /\ tmevt' = [tmevt EXCEPT ![t] = callback]
  /\ Dispatch(sched'.p_schedtsk,
              [winfo EXCEPT ![t] = IF callback = "none" THEN NoTmevtb
                                                        ELSE "tmevtb"])
  /\ UNCHANGED << priority, ctxVars, flagVars, bootVars >>

wobj_queue_insert(q) ==
  wait_queue' = [wait_queue EXCEPT
                   ![q] = IF q \in TpriQueue
                            THEN QueueInsertTpri(@, priority, p_runtsk)
                            ELSE Append(@, p_runtsk)]

\* Mutant: the task keeps its position.
wobj_change_priority_InPlace(t, newpriority) == wait_queue' = wait_queue

wobj_change_priority(t, newpriority) ==
  wait_queue' = [q \in WaitQueue |->
                   IF q \in TpriQueue /\ t \in Members(wait_queue[q])
                     THEN QueueInsertTpri(QueueDelete(wait_queue[q], t),
                                          newpriority, t)
                     ELSE wait_queue[q]]

----------------------------------------------------------------------------
(***************************************************************************)
(* Start-up: initialize_task sets up one task per step, then the kernel    *)
(* starts dispatching.  Interrupts are locked throughout.                  *)
(***************************************************************************)
Init ==
  /\ sched = EmptySched
  /\ tstat = [t \in Task |-> TS_DORMANT]
  /\ priority = ipriority
  /\ actque = [t \in Task |-> FALSE]
  /\ wupque = [t \in Task |-> FALSE]
  /\ winfo = [t \in Task |-> "none"]
  /\ tmevt = [t \in Task |-> "none"]
  /\ wait_queue = [q \in WaitQueue |-> << >>]
  /\ p_runtsk = NULL
  /\ reqflg = FALSE
  /\ ipmflg = TRUE
  /\ disdsp = FALSE
  /\ dspflg = TRUE
  /\ cpulock = FALSE
  /\ nest = 0
  /\ kerflg = FALSE
  /\ tskini = 0

make_active(t) ==
  /\ tstat' = [tstat EXCEPT ![t] = TS_RUNNABLE]
  /\ sched' = make_runnable(sched, priority, t)

initialize_task ==
  /\ ~kerflg
  /\ tskini < Len(torder)
  /\ tskini' = tskini + 1
  /\ IF torder[tskini'] \in TaAct THEN make_active(torder[tskini'])
                                  ELSE UNCHANGED << sched, tstat >>
  /\ UNCHANGED << priority, queVars, winfo, tmevt, wait_queue, p_runtsk,
                  flagVars, ctxVars, kerflg >>

start_dispatch ==
  /\ ~kerflg
  /\ tskini = Len(torder)
  /\ kerflg' = TRUE
  /\ Dispatch(sched.p_schedtsk, winfo)
  /\ UNCHANGED << sched, tstat, priority, queVars, tmevt, wait_queue,
                  flagVars, ctxVars, tskini >>

----------------------------------------------------------------------------
(***************************************************************************)
(* task_manage.c                                                           *)
(***************************************************************************)
Activate(t) ==
  \/ /\ TSTAT_DORMANT(tstat[t])
     /\ make_active(t)
     /\ UNCHANGED actque
  \/ /\ ~TSTAT_DORMANT(tstat[t])
     /\ ~actque[t]
     /\ actque' = [actque EXCEPT ![t] = TRUE]
     /\ UNCHANGED << sched, tstat >>

act_tsk(t) ==
  /\ InTask
  /\ Activate(t)
  /\ TaskReturn(winfo)
  /\ UNCHANGED << priority, wupque, tmevt, wait_queue >>

iact_tsk(t) ==
  /\ InInterrupt
  /\ Activate(t)
  /\ IntReturn(winfo)
  /\ UNCHANGED << priority, wupque, tmevt, wait_queue >>

can_act(t) ==
  /\ InTask
  /\ actque[t]
  /\ actque' = [actque EXCEPT ![t] = FALSE]
  /\ UNCHANGED << sched, tstat, priority, wupque, winfo, tmevt, wait_queue,
                  p_runtsk, flagVars, ctxVars, bootVars >>

\* Mutant: the queued wakeup survives the termination.
Terminate_Wakeup(t, s) ==
  LET dormant == [priority EXCEPT ![t] = ipriority[t]] IN
  /\ priority' = dormant
  /\ wupque' = wupque
  /\ actque' = [actque EXCEPT ![t] = FALSE]
  /\ IF actque[t]
       THEN /\ tstat' = [tstat EXCEPT ![t] = TS_RUNNABLE]
            /\ sched' = make_runnable(s, dormant, t)
       ELSE /\ tstat' = [tstat EXCEPT ![t] = TS_DORMANT]
            /\ sched' = s

\* make_dormant, then make_active again if an activation was queued, of a
\* task that s, a scheduler record, no longer links.  Its stack is discarded.
Terminate(t, s) ==
  LET dormant == [priority EXCEPT ![t] = ipriority[t]] IN
  /\ priority' = dormant
  /\ wupque' = [wupque EXCEPT ![t] = FALSE]
  /\ actque' = [actque EXCEPT ![t] = FALSE]
  /\ IF actque[t]
       THEN /\ tstat' = [tstat EXCEPT ![t] = TS_RUNNABLE]
            /\ sched' = make_runnable(s, dormant, t)
       ELSE /\ tstat' = [tstat EXCEPT ![t] = TS_DORMANT]
            /\ sched' = s

\* ext_tsk may be called with the CPU locked, dispatching disabled or the
\* mask raised; it undoes all three, and never skips the dispatcher.
ext_tsk ==
  /\ TaskContext
  /\ cpulock' = FALSE
  /\ disdsp' = FALSE
  /\ ipmflg' = TRUE
  /\ dspflg' = TRUE
  /\ Terminate(p_runtsk, make_non_runnable(sched, priority, p_runtsk))
  /\ Dispatch(sched'.p_schedtsk, winfo)
  /\ UNCHANGED << tmevt, wait_queue, reqflg, nest, bootVars >>

\* The result of make_non_runnable is ignored: only make_active's counts.
ter_tsk(t) ==
  LET s == IF TSTAT_RUNNABLE(tstat[t])
             THEN make_non_runnable(sched, priority, t) ELSE sched
      w == [winfo EXCEPT ![t] = "none"]
  IN
  /\ InTask
  /\ t # p_runtsk
  /\ ~TSTAT_DORMANT(tstat[t])
  /\ IF TSTAT_WAITING(tstat[t])
       THEN wait_dequeue_wobj(t) /\ wait_dequeue_tmevtb(t, winfo)
       ELSE UNCHANGED << wait_queue, tmevt >>
  /\ Terminate(t, s)
  /\ IF dspflg /\ sched'.p_schedtsk # s.p_schedtsk
       THEN Dispatch(sched'.p_schedtsk, w)
       ELSE p_runtsk' = p_runtsk /\ winfo' = w
  /\ UNCHANGED << flagVars, ctxVars, bootVars >>

chg_pri(t, newpri) ==
  LET newpriority == [priority EXCEPT ![t] = newpri] IN
  /\ InTask
  /\ ~TSTAT_DORMANT(tstat[t])
  /\ priority' = newpriority
  /\ sched' = IF TSTAT_RUNNABLE(tstat[t])
                THEN change_ready_priority(sched, priority, t, newpri)
                ELSE sched
  /\ IF TSTAT_WAIT_WOBJCB(tstat[t]) THEN wobj_change_priority(t, newpriority)
                                    ELSE UNCHANGED wait_queue
  /\ TaskReturn(winfo)
  /\ UNCHANGED << tstat, queVars, tmevt >>

----------------------------------------------------------------------------
(***************************************************************************)
(* task_sync.c                                                             *)
(***************************************************************************)
\* slp_tsk (callback "none") and tslp_tsk (callback "wait_tmout").
slp_tsk(callback) ==
  /\ CanDispatch
  /\ \/ /\ wupque[p_runtsk]
        /\ wupque' = [wupque EXCEPT ![p_runtsk] = FALSE]
        /\ UNCHANGED << sched, tstat, priority, winfo, tmevt, p_runtsk,
                        flagVars, ctxVars, bootVars >>
     \/ /\ ~wupque[p_runtsk]
        /\ make_wait("SLP", callback)
        /\ UNCHANGED wupque
  /\ UNCHANGED << actque, wait_queue >>

dly_tsk ==
  /\ CanDispatch
  /\ make_wait("DLY", "wait_tmout_ok")
  /\ UNCHANGED << queVars, wait_queue >>

\* wup_tsk and iwup_tsk up to their dispatch; w is winfo afterwards.
WakesUp(t) == TSTAT_WAIT_SLP(tstat[t])
WakeupWinfo(t) == IF WakesUp(t) THEN wait_complete_winfo(t) ELSE winfo
Wakeup(t) ==
  \/ /\ WakesUp(t)
     /\ wait_complete(t)
     /\ UNCHANGED wupque
  \/ /\ ~WakesUp(t)
     /\ ~TSTAT_DORMANT(tstat[t])
     /\ ~wupque[t]
     /\ wupque' = [wupque EXCEPT ![t] = TRUE]
     /\ UNCHANGED << sched, tstat, tmevt >>

wup_tsk(t) ==
  /\ InTask
  /\ Wakeup(t)
  /\ TaskReturn(WakeupWinfo(t))
  /\ UNCHANGED << priority, actque, wait_queue >>

iwup_tsk(t) ==
  /\ InInterrupt
  /\ Wakeup(t)
  /\ IntReturn(WakeupWinfo(t))
  /\ UNCHANGED << priority, actque, wait_queue >>

can_wup(t) ==
  /\ InTask
  /\ wupque[t]
  /\ wupque' = [wupque EXCEPT ![t] = FALSE]
  /\ UNCHANGED << sched, tstat, priority, actque, winfo, tmevt, wait_queue,
                  p_runtsk, flagVars, ctxVars, bootVars >>

rel_wai(t) ==
  /\ InTask
  /\ TSTAT_WAITING(tstat[t])
  /\ wait_release(t)
  /\ TaskReturn(wait_release_winfo(t))
  /\ UNCHANGED << priority, queVars >>

irel_wai(t) ==
  /\ InInterrupt
  /\ TSTAT_WAITING(tstat[t])
  /\ wait_release(t)
  /\ IntReturn(wait_release_winfo(t))
  /\ UNCHANGED << priority, queVars >>

sus_tsk(t) ==
  /\ InTask
  /\ ~(t = p_runtsk /\ ~dspflg)
  /\ \/ /\ TSTAT_RUNNABLE(tstat[t])
        /\ tstat' = [tstat EXCEPT ![t] = TS_SUSPENDED]
        /\ sched' = make_non_runnable(sched, priority, t)
     \/ /\ TSTAT_WAITING(tstat[t])
        /\ ~TSTAT_SUSPENDED(tstat[t])
        /\ tstat' = [tstat EXCEPT ![t] = @ \cup TS_SUSPENDED]
        /\ UNCHANGED sched
  /\ TaskReturn(winfo)
  /\ UNCHANGED << priority, queVars, tmevt, wait_queue >>

rsm_tsk(t) ==
  /\ InTask
  /\ TSTAT_SUSPENDED(tstat[t])
  /\ \/ /\ ~TSTAT_WAITING(tstat[t])
        /\ tstat' = [tstat EXCEPT ![t] = TS_RUNNABLE]
        /\ sched' = make_runnable(sched, priority, t)
     \/ /\ TSTAT_WAITING(tstat[t])
        /\ tstat' = [tstat EXCEPT ![t] = @ \ TS_SUSPENDED]
        /\ UNCHANGED sched
  /\ TaskReturn(winfo)
  /\ UNCHANGED << priority, queVars, tmevt, wait_queue >>

----------------------------------------------------------------------------
(***************************************************************************)
(* sys_manage.c and interrupt.c                                            *)
(***************************************************************************)
rot_rdq(pri) ==
  /\ InTask
  /\ sched' = rotate_ready_queue(sched, pri)
  /\ TaskReturn(winfo)
  /\ UNCHANGED << tstat, priority, queVars, tmevt, wait_queue >>

irot_rdq(pri) ==
  /\ InInterrupt
  /\ sched' = rotate_ready_queue(sched, pri)
  /\ IntReturn(winfo)
  /\ UNCHANGED << tstat, priority, queVars, tmevt, wait_queue >>

\* loc_cpu and iloc_cpu.
loc_cpu ==
  /\ TaskContext \/ nest > 0
  /\ ~cpulock
  /\ cpulock' = TRUE
  /\ UNCHANGED << sched, tstat, priority, queVars, winfo, tmevt, wait_queue,
                  p_runtsk, flagVars, reqflg, nest, bootVars >>

\* unl_cpu and iunl_cpu.
unl_cpu ==
  /\ TaskContext \/ nest > 0
  /\ cpulock
  /\ cpulock' = FALSE
  /\ UNCHANGED << sched, tstat, priority, queVars, winfo, tmevt, wait_queue,
                  p_runtsk, flagVars, reqflg, nest, bootVars >>

dis_dsp ==
  /\ InTask
  /\ disdsp' = TRUE
  /\ dspflg' = FALSE
  /\ UNCHANGED << sched, tstat, priority, queVars, winfo, tmevt, wait_queue,
                  p_runtsk, ipmflg, ctxVars, bootVars >>

\* The dispatch that was held back while dspflg was false.
DispatchPending ==
  IF p_runtsk # sched.p_schedtsk
    THEN Dispatch(sched.p_schedtsk, winfo)
    ELSE UNCHANGED << p_runtsk, winfo >>

\* Mutant: the dispatch that was held back is forgotten.
ena_dsp_Forget ==
  /\ InTask
  /\ disdsp' = FALSE
  /\ dspflg' = ipmflg
  /\ UNCHANGED << sched, tstat, priority, queVars, winfo, tmevt, wait_queue,
                  p_runtsk, ipmflg, ctxVars, bootVars >>

ena_dsp ==
  /\ InTask
  /\ disdsp' = FALSE
  /\ IF ipmflg THEN dspflg' = TRUE /\ DispatchPending
               ELSE UNCHANGED << dspflg, p_runtsk, winfo >>
  /\ UNCHANGED << sched, tstat, priority, queVars, tmevt, wait_queue,
                  ipmflg, ctxVars, bootVars >>

\* chg_ipm(TIPM_ENAALL) when enaall, and any other mask otherwise.
chg_ipm(enaall) ==
  /\ InTask
  /\ ipmflg' = enaall
  /\ IF enaall
       THEN IF ~disdsp THEN dspflg' = TRUE /\ DispatchPending
                       ELSE UNCHANGED << dspflg, p_runtsk, winfo >>
       ELSE dspflg' = FALSE /\ UNCHANGED << p_runtsk, winfo >>
  /\ UNCHANGED << sched, tstat, priority, queVars, tmevt, wait_queue,
                  disdsp, ctxVars, bootVars >>

----------------------------------------------------------------------------
(***************************************************************************)
(* Interrupts (prc_support.S) and the callbacks of expired time events,    *)
(* which signal_time runs in the timer's handler.                          *)
(***************************************************************************)
core_int_entry ==
  /\ kerflg
  /\ ~cpulock
  /\ nest < MaxNest
  /\ nest' = nest + 1
  /\ UNCHANGED << sched, tstat, priority, queVars, winfo, tmevt, wait_queue,
                  p_runtsk, flagVars, reqflg, cpulock, bootVars >>

\* A nested handler, or one that interrupted the idle loop, just returns.
\* The exit to a task serves reqflg.
ret_int ==
  /\ InInterrupt
  /\ nest' = nest - 1
  /\ IF nest = 1 /\ p_runtsk # NULL /\ reqflg
       THEN /\ reqflg' = FALSE
            /\ IF dspflg THEN DispatchPending
                         ELSE UNCHANGED << p_runtsk, winfo >>
       ELSE UNCHANGED << reqflg, p_runtsk, winfo >>
  /\ UNCHANGED << sched, tstat, priority, queVars, tmevt, wait_queue,
                  flagVars, cpulock, bootVars >>

\* The idle loop found reqflg set: back to dispatcher_0.
dispatcher_idle ==
  /\ kerflg
  /\ nest = 0
  /\ p_runtsk = NULL
  /\ reqflg
  /\ reqflg' = FALSE
  /\ Dispatch(sched.p_schedtsk, winfo)
  /\ UNCHANGED << sched, tstat, priority, queVars, tmevt, wait_queue,
                  flagVars, cpulock, nest, bootVars >>

\* signal_time takes the event off the heap before it calls wait_tmout.
wait_tmout(t) ==
  /\ InInterrupt
  /\ tmevt[t] = "wait_tmout"
  /\ tmevt' = [tmevt EXCEPT ![t] = "none"]
  /\ wait_dequeue_wobj(t)
  /\ make_non_wait(t)
  /\ IntReturn([winfo EXCEPT ![t] = "E_TMOUT"])
  /\ UNCHANGED << priority, queVars >>

wait_tmout_ok(t) ==
  /\ InInterrupt
  /\ tmevt[t] = "wait_tmout_ok"
  /\ tmevt' = [tmevt EXCEPT ![t] = "none"]
  /\ make_non_wait(t)
  /\ IntReturn([winfo EXCEPT ![t] = E_OK])
  /\ UNCHANGED << priority, queVars, wait_queue >>

----------------------------------------------------------------------------
Boot == initialize_task \/ start_dispatch

TaskCall ==
  \/ \E t \in Task :
       \/ act_tsk(t) \/ can_act(t) \/ ter_tsk(t)
       \/ wup_tsk(t) \/ can_wup(t) \/ rel_wai(t) \/ sus_tsk(t) \/ rsm_tsk(t)
       \/ \E pri \in TPri : chg_pri(t, pri)
  \/ \E pri \in TPri : rot_rdq(pri)
  \/ \E callback \in {"none", "wait_tmout"} : slp_tsk(callback)
  \/ \E enaall \in BOOLEAN : chg_ipm(enaall)
  \/ ext_tsk \/ dly_tsk \/ dis_dsp \/ ena_dsp

IntCall ==
  \/ \E t \in Task : \/ iact_tsk(t) \/ iwup_tsk(t) \/ irel_wai(t)
                     \/ wait_tmout(t) \/ wait_tmout_ok(t)
  \/ \E pri \in TPri : irot_rdq(pri)

Context == loc_cpu \/ unl_cpu \/ core_int_entry \/ ret_int \/ dispatcher_idle

Next == Boot \/ TaskCall \/ IntCall \/ Context

Spec == Init /\ [][Next]_vars
----------------------------------------------------------------------------
(***************************************************************************)
(* Properties                                                              *)
(***************************************************************************)
\* The type invariant.
TypeOK ==
  /\ sched \in SchedType
  /\ tstat \in [Task -> TstatType]
  /\ priority \in [Task -> TPri]
  /\ actque \in [Task -> BOOLEAN]
  /\ wupque \in [Task -> BOOLEAN]
  /\ winfo \in [Task -> WinfoType]
  /\ tmevt \in [Task -> TmevtType]
  /\ wait_queue \in [WaitQueue -> Seq(Task)]
  /\ p_runtsk \in Task \cup {NULL}
  /\ reqflg \in BOOLEAN /\ ipmflg \in BOOLEAN /\ disdsp \in BOOLEAN
  /\ dspflg \in BOOLEAN /\ cpulock \in BOOLEAN /\ kerflg \in BOOLEAN
  /\ nest \in 0 .. MaxNest
  /\ tskini \in 0 .. Len(torder)

\* The scheduler record always describes the runnable tasks: every task in
\* TS_RUNNABLE is linked once, in the ready queue of its present priority,
\* no other task is, the bitmap names the nonempty queues and p_schedtsk is
\* the first task of the highest one (task.c updates all four by hand on
\* each path).
ReadyQueueInv == Consistent(sched, priority, Runnable)

\* doc/design.txt: always dspflg == (ipmflg && !disdsp), although chg_ipm,
\* ena_dsp, dis_dsp and ext_tsk each maintain it case by case.
DspflgInv == dspflg = (ipmflg /\ ~disdsp)

\* The running task is runnable: no service call of a handler, and none of
\* the task itself that does not dispatch, can take it off the ready queue
\* (sus_tsk on the caller is refused while dspflg is false).
RunningInv == p_runtsk # NULL => p_runtsk \in Runnable

\* In a task context the highest precedence task runs unless dispatching is
\* held back, and no request is left over for a later interrupt exit: every
\* change of p_schedtsk that a call makes is followed by its dispatch.  The
\* comment in ter_tsk, that its make_non_runnable never needs one, rests on
\* this.
DispatchedInv ==
  TaskContext => /\ dspflg => p_runtsk = sched.p_schedtsk
                 /\ ~reqflg

\* In handlers and in the idle loop a task switch that has become due is
\* recorded in reqflg: no request is lost between a handler's call and the
\* outermost exit, or the idle loop's test.
RequestInv ==
  kerflg /\ dspflg /\ p_runtsk # sched.p_schedtsk => reqflg

\* The exit that serves reqflg resumes the interrupted task with the mask
\* TIPM_ENAALL, whatever it was (prc_support.S sets saved_iipm to it); this
\* is right only because a request implies that the task had not raised it.
\* The idle loop relies on it, and on dispatching being enabled, likewise.
MaskInv == reqflg \/ p_runtsk = NULL => ipmflg
IdleInv == p_runtsk = NULL => dspflg

\* The flags, the running task and the recorded request fit together at every
\* point of the kernel: the conjunction of the six parts above, which
\* task_manage.c, task_sync.c, sys_manage.c and prc_support.S maintain
\* together.
DispatchInv ==
  DspflgInv /\ RunningInv /\ DispatchedInv /\ RequestInv /\ MaskInv /\ IdleInv

\* A time event of a task is registered exactly while the task waits with
\* p_tmevtb pointing to it: a released task leaves no event behind that
\* would later fire on it (its TMEVTB is on the stack of the call), and no
\* waiting task loses its timeout.
TimerInv ==
  \A t \in Task :
    (tmevt[t] # "none") <=> (TSTAT_WAITING(tstat[t]) /\ winfo[t] = "tmevtb")

\* task.h: wercd and p_tmevtb share a word.  While a task waits the word is
\* the pointer, and when it is released it is an error code, never a stale
\* pointer that the call would return as its result.
WinfoInv ==
  \A t \in Task :
    IF TSTAT_WAITING(tstat[t]) THEN winfo[t] \in {NoTmevtb, "tmevtb"}
                               ELSE winfo[t] # "tmevtb"

\* A wait, its timeout and the word they share agree, whichever of the
\* release, the timeout and the termination comes first (wait.c).
WaitInv == TimerInv /\ WinfoInv

\* A task is linked in a wait queue exactly while it waits for an object,
\* and then in one queue, once; its link field is also the one of the ready
\* queue, so that a stale link would corrupt both.
WaitQueueInv ==
  /\ \A q \in WaitQueue : NoDuplicates(wait_queue[q])
  /\ \A t \in Task :
       IF TSTAT_WAIT_WOBJ(tstat[t])
         THEN \E q \in WaitQueue :
                \A r \in WaitQueue : (t \in Members(wait_queue[r])) <=> r = q
         ELSE \A q \in WaitQueue : t \notin Members(wait_queue[q])

\* A queue of attribute TA_TPRI is ordered by the present priorities of its
\* tasks, also after chg_pri on one of them.
TpriOrderInv ==
  \A q \in TpriQueue : \A i, j \in 1 .. Len(wait_queue[q]) :
    i < j => priority[wait_queue[q][i]] <= priority[wait_queue[q][j]]

\* The wait queues and the waiting tasks agree (wait.c): the two parts above.
QueuesInv == WaitQueueInv /\ TpriOrderInv

\* No wakeup is lost: a task never sleeps with a wakeup queued.
WakeupInv == \A t \in Task : ~(wupque[t] /\ TSTAT_WAIT_SLP(tstat[t]))

\* task.h: in the dormant state the fields of the TCB have their initial
\* values, on which the next activation relies.
DormantInv ==
  \A t \in Task : TSTAT_DORMANT(tstat[t]) =>
    /\ ~actque[t] /\ ~wupque[t]
    /\ priority[t] = ipriority[t]
    /\ winfo[t] = "none"

\* No request is lost or left over: a wakeup is queued only for a task that
\* does not sleep, and an activation starts from the initial values however
\* the task ended before (task_manage.c, task_sync.c).
RequestsInv == WakeupInv /\ DormantInv

\* While dispatching is disabled, the interrupt mask raised or the CPU
\* locked, the running task keeps the processor: what it does between
\* dis_dsp and ena_dsp is not interleaved with another task.
NoPreemption ==
  [][(~dspflg /\ ~dspflg') \/ (cpulock /\ cpulock') =>
       p_runtsk' = p_runtsk]_vars

\* The kernel keeps its promise about the processor, whatever the flags.
Promise == INSTANCE Dispatching WITH
  started <- kerflg, schedtsk <- sched.p_schedtsk, runtsk <- p_runtsk,
  enabled <- dspflg, depth <- nest

KeepsPromise == Promise!DSpec

\* a is ahead of b in the queue of one priority.
Ahead(s, a, b) ==
  \E p \in TPri : \E i, j \in 1 .. Len(s.ready_queue[p]) :
    i < j /\ s.ready_queue[p][i] = a /\ s.ready_queue[p][j] = b

\* A task b gets ahead of a runnable task a of its own priority only when a
\* itself goes to the tail (it is rotated, or its priority is set again, or
\* it is restarted): a preempted task keeps its place.
KeepsPlace ==
  [][\A a, b \in Task :
       a \in Runnable /\ ~Ahead(sched, b, a) /\ Ahead(sched', b, a)
         => \/ ~\E c \in Task : Ahead(sched', a, c)
            \/ priority'[a] # priority[a]]_vars

\* Handlers return, so that the outermost exit is reached again and again,
\* and the idle loop, which masks interrupts to test reqflg, gets to it.
Fairness ==
  /\ SF_vars(unl_cpu /\ nest > 0)
  /\ SF_vars(ret_int /\ nest > 1)
  /\ SF_vars(ret_int /\ nest = 1)
  /\ SF_vars(dispatcher_idle)
  /\ WF_vars(Boot)

FairSpec == Spec /\ Fairness

\* The processor does not stay in the idle loop, or with a task of lower
\* precedence while dispatching is enabled, when a task is ready.
Scheduled ==
  \A t \in Task :
    (kerflg /\ dspflg /\ sched.p_schedtsk = t)
      ~> (p_runtsk = t \/ ~dspflg \/ sched.p_schedtsk # t)
=============================================================================
