----------------------------- MODULE PrcSupport -----------------------------
(***************************************************************************)
(* The ARM-M part of the kernel, arch/efr32xg23_gcc: the CPU lock of       *)
(* prc_config.h, dispatcher, idle loop, interrupt entry and exit of        *)
(* prc_support.S, at the grain at which an interrupt can come between.     *)
(* Instructions that no interrupt can separate, because BASEPRI, PRIMASK   *)
(* or FAULTMASK holds all of them back, are joined to one step.            *)
(*                                                                         *)
(* A service call is reduced to its checks, the lock, one change of        *)
(* p_schedtsk or of the flags, the dispatch or the request, the unlock.    *)
(* BASEPRI values are as in the hardware: a smaller number masks more, and *)
(* 0, which is IIPM_ENAALL, masks nothing.                                 *)
(***************************************************************************)
EXTENDS Naturals, Sequences, FiniteSets

CONSTANTS
  Task, NULL,
  Intno,         \* the interrupts managed by the kernel
  int_iipm,      \* _kernel_int_iipm_tbl: their priorities
  IIPM_LOCK,     \* the mask of the CPU lock
  Iipm,          \* the masks chg_ipm is called with
  LockedReturn   \* whether handlers may return with the CPU locked

IIPM_ENAALL == 0

ASSUME PrcAssumption ==
  /\ NULL \notin Task
  /\ IsFiniteSet(Intno)
  /\ IIPM_LOCK \in Nat \ {0}
  /\ int_iipm \in [Intno -> Nat]
  /\ \A i \in Intno : int_iipm[i] >= IIPM_LOCK
  /\ Iipm \subseteq Nat
  /\ LockedReturn \in BOOLEAN

VARIABLES
  basepri, primask, faultmask,   \* the processor's mask registers
  lock_flag, saved_iipm,         \* the CPU lock
  p_runtsk, p_schedtsk, reqflg,
  ipmflg, disdsp, dspflg,
  thread,    \* the code running in Thread mode: "task" or a label
  tcb,       \* per task: pc, op and the local iipm, and TCB_pc (resume)
  stack,     \* the active handlers, the innermost last
  pend       \* the pending interrupts

maskVars == << basepri, primask, faultmask >>
lockVars == << lock_flag, saved_iipm >>
flagVars == << ipmflg, disdsp, dspflg >>
schedVars == << p_runtsk, p_schedtsk, reqflg >>
codeVars == << thread, tcb, stack >>
vars == << maskVars, lockVars, schedVars, flagVars, codeVars, pend >>

Pc == {"user", "lock1", "lock2", "lock3", "body", "locked", "unlock1",
       "unlock2"}
Op == {"call", "wait", "loc", "ext"}
Thread == {"start_dispatch", "dispatcher", "dispatcher_1", "dispatcher_2",
           "wfi", "cpsie", "lock", "test", "start_r", "start_r_2",
           "ret_int_4", "ret_int_r", "task"}
IdleCode == {"dispatcher_1", "dispatcher_2", "wfi", "cpsie", "lock", "test"}

----------------------------------------------------------------------------
(***************************************************************************)
(* The context that executes, a handler or a task, and its next step.      *)
(***************************************************************************)
Executing == stack # << >> \/ thread = "task"
Running == IF stack # << >> THEN stack[Len(stack)] ELSE tcb[p_runtsk]

Goes(context) ==
  /\ thread' = thread
  /\ IF stack # << >>
       THEN stack' = [stack EXCEPT ![Len(stack)] = context] /\ tcb' = tcb
       ELSE tcb' = [tcb EXCEPT ![p_runtsk] = context] /\ stack' = stack

At(pc) == Executing /\ Running.pc = pc
GoesTo(pc) == Goes([Running EXCEPT !.pc = pc])

\* The end of a call's lock or body; the locals are dead from here on.
Locals0(context) == [context EXCEPT !.op = "call", !.iipm = 0]
EndsAt(pc) == Goes([Locals0(Running) EXCEPT !.pc = pc])

ThreadAt(label) == stack = << >> /\ thread = label
TaskAt(pc) == stack = << >> /\ At(pc)
HandlerAt(pc) == stack # << >> /\ At(pc)

----------------------------------------------------------------------------
(***************************************************************************)
(* The CPU lock (prc_config.h)                                             *)
(***************************************************************************)
\* Mutant: get_basepri() is stored in saved_iipm at once.
x_lock_cpu_1_Direct ==
  /\ At("lock1")
  /\ Goes([Running EXCEPT !.pc = "lock2", !.iipm = basepri])
  /\ saved_iipm' = basepri
  /\ UNCHANGED << maskVars, lock_flag, schedVars, flagVars, pend >>

\* iipm = get_basepri()
x_lock_cpu_1 ==
  /\ At("lock1")
  /\ Goes([Running EXCEPT !.pc = "lock2", !.iipm = basepri])
  /\ UNCHANGED << maskVars, lockVars, schedVars, flagVars, pend >>

\* set_basepri(IIPM_LOCK), unless a higher mask is set already
x_lock_cpu_2 ==
  /\ At("lock2")
  /\ basepri' = IF IIPM_LOCK < Running.iipm \/ Running.iipm = IIPM_ENAALL
                  THEN IIPM_LOCK ELSE basepri
  /\ GoesTo("lock3")
  /\ UNCHANGED << primask, faultmask, lockVars, schedVars, flagVars, pend >>

\* saved_iipm = iipm; lock_flag = true
x_lock_cpu_3 ==
  /\ At("lock3")
  /\ saved_iipm' = Running.iipm
  /\ lock_flag' = TRUE
  /\ Goes([Running EXCEPT !.pc = "body", !.iipm = 0])
  /\ UNCHANGED << maskVars, schedVars, flagVars, pend >>

\* Mutant: what x_lock_cpu_1_Direct has stored is kept.
x_lock_cpu_3_Direct ==
  /\ At("lock3")
  /\ lock_flag' = TRUE
  /\ Goes([Running EXCEPT !.pc = "body", !.iipm = 0])
  /\ UNCHANGED << maskVars, saved_iipm, schedVars, flagVars, pend >>

x_unlock_cpu_1 ==
  /\ At("unlock1")
  /\ lock_flag' = FALSE
  /\ GoesTo("unlock2")
  /\ UNCHANGED << maskVars, saved_iipm, schedVars, flagVars, pend >>

x_unlock_cpu_2 ==
  /\ At("unlock2")
  /\ basepri' = saved_iipm
  /\ GoesTo("user")
  /\ UNCHANGED << primask, faultmask, lockVars, schedVars, flagVars, pend >>

x_lock_cpu_Direct ==
  x_lock_cpu_1_Direct \/ x_lock_cpu_2 \/ x_lock_cpu_3_Direct

x_lock_cpu == x_lock_cpu_1 \/ x_lock_cpu_2 \/ x_lock_cpu_3
x_unlock_cpu == x_unlock_cpu_1 \/ x_unlock_cpu_2

\* x_set_ipm while lock_flag is true, the only way the kernel calls it.
x_set_ipm(iipm) ==
  /\ saved_iipm' = iipm
  /\ basepri' = IF iipm < IIPM_LOCK /\ iipm # IIPM_ENAALL THEN iipm
                                                          ELSE IIPM_LOCK

----------------------------------------------------------------------------
(***************************************************************************)
(* Service calls.  The checks are made before the lock is taken.           *)
(***************************************************************************)
\* CHECK_TSKCTX_UNL, CHECK_DISPATCH, CHECK_INTCTX_UNL and loc_cpu's test.
Begin(op) ==
  /\ At("user")
  /\ op \in {"wait", "ext"} => stack = << >>
  /\ op # "ext" => ~lock_flag
  /\ op = "wait" => dspflg
  /\ Goes([Running EXCEPT !.pc = "lock1", !.op = op])
  /\ UNCHANGED << maskVars, lockVars, schedVars, flagVars, pend >>

\* dispatch(): the task will go on at dispatch_r, with the CPU locked.
dispatch ==
  /\ tcb' = [tcb EXCEPT ![p_runtsk] = [Locals0(@) EXCEPT
                 !.pc = "unlock1", !.resume = "dispatch_r"]]
  /\ thread' = "dispatcher"
  /\ stack' = stack

\* A call of a task that may change which task is scheduled.
TaskBody ==
  /\ TaskAt("body")
  /\ Running.op = "call"
  /\ p_schedtsk' \in Task \cup {NULL}
  /\ IF dspflg /\ p_schedtsk' # p_schedtsk THEN dispatch
                                           ELSE EndsAt("unlock1")
  /\ UNCHANGED << maskVars, lockVars, p_runtsk, reqflg, flagVars, pend >>

\* A call that makes the running task wait.
WaitBody ==
  /\ TaskAt("body")
  /\ Running.op = "wait"
  /\ p_schedtsk' \in (Task \ {p_runtsk}) \cup {NULL}
  /\ dispatch
  /\ UNCHANGED << maskVars, lockVars, p_runtsk, reqflg, flagVars, pend >>

\* A call of a handler.
HandlerBody ==
  /\ HandlerAt("body")
  /\ Running.op = "call"
  /\ p_schedtsk' \in Task \cup {NULL}
  /\ reqflg' = (reqflg \/ (dspflg /\ p_schedtsk' # p_schedtsk))
  /\ EndsAt("unlock1")
  /\ UNCHANGED << maskVars, lockVars, p_runtsk, flagVars, pend >>

DispatchPending ==
  IF p_runtsk # p_schedtsk THEN dispatch ELSE EndsAt("unlock1")

dis_dsp ==
  /\ TaskAt("body")
  /\ Running.op = "call"
  /\ disdsp' = TRUE
  /\ dspflg' = FALSE
  /\ EndsAt("unlock1")
  /\ UNCHANGED << maskVars, lockVars, schedVars, ipmflg, pend >>

\* Mutant: the dispatch is made although the mask is raised.
ena_dsp_Masked ==
  /\ TaskAt("body")
  /\ Running.op = "call"
  /\ disdsp' = FALSE
  /\ dspflg' = (ipmflg \/ dspflg)
  /\ DispatchPending
  /\ UNCHANGED << maskVars, lockVars, schedVars, ipmflg, pend >>

ena_dsp ==
  /\ TaskAt("body")
  /\ Running.op = "call"
  /\ disdsp' = FALSE
  /\ IF ipmflg THEN dspflg' = TRUE /\ DispatchPending
               ELSE dspflg' = dspflg /\ EndsAt("unlock1")
  /\ UNCHANGED << maskVars, lockVars, schedVars, ipmflg, pend >>

chg_ipm(iipm) ==
  /\ TaskAt("body")
  /\ Running.op = "call"
  /\ x_set_ipm(iipm)
  /\ ipmflg' = (iipm = IIPM_ENAALL)
  /\ IF ipmflg'
       THEN IF ~disdsp THEN dspflg' = TRUE /\ DispatchPending
                       ELSE dspflg' = dspflg /\ EndsAt("unlock1")
       ELSE dspflg' = FALSE /\ EndsAt("unlock1")
  /\ UNCHANGED << primask, faultmask, lock_flag, schedVars, disdsp, pend >>

\* loc_cpu and iloc_cpu return with the CPU locked, unl_cpu and iunl_cpu
\* undo it.
loc_cpu ==
  /\ At("body")
  /\ Running.op = "loc"
  /\ EndsAt("locked")
  /\ UNCHANGED << maskVars, lockVars, schedVars, flagVars, pend >>

unl_cpu ==
  /\ At("locked")
  /\ GoesTo("unlock1")
  /\ UNCHANGED << maskVars, lockVars, schedVars, flagVars, pend >>

\* ext_tsk, from its own t_lock_cpu or with the CPU locked already; the
\* stack is given up and the task starts anew when it is scheduled again.
ext_tsk ==
  /\ TaskAt("locked") \/ (TaskAt("body") /\ Running.op = "ext")
  /\ x_set_ipm(IIPM_ENAALL)
  /\ disdsp' = FALSE
  /\ ipmflg' = TRUE
  /\ dspflg' = TRUE
  /\ p_schedtsk' \in Task \cup {NULL}
  /\ tcb' = [tcb EXCEPT ![p_runtsk] = [Locals0(@) EXCEPT
                 !.pc = "user", !.resume = "start_r"]]
  /\ thread' = "dispatcher"
  /\ UNCHANGED << primask, faultmask, lock_flag, p_runtsk, reqflg, stack,
                  pend >>

ServiceCall ==
  \/ \E op \in Op : Begin(op)
  \/ TaskBody \/ WaitBody \/ HandlerBody \/ dis_dsp \/ ena_dsp
  \/ \E iipm \in Iipm : chg_ipm(iipm)
  \/ loc_cpu \/ unl_cpu \/ ext_tsk

----------------------------------------------------------------------------
(***************************************************************************)
(* Dispatcher and idle loop                                                *)
(***************************************************************************)
start_dispatch ==
  /\ ThreadAt("start_dispatch")
  /\ basepri' = IIPM_LOCK
  /\ faultmask' = FALSE
  /\ thread' = "dispatcher"
  /\ UNCHANGED << primask, lockVars, schedVars, flagVars, tcb, stack, pend >>

\* dispatcher_0: to the code at which the scheduled task resumes.
dispatcher ==
  /\ ThreadAt("dispatcher")
  /\ p_runtsk' = p_schedtsk
  /\ thread' = IF p_schedtsk = NULL THEN "dispatcher_1"
               ELSE IF tcb[p_schedtsk].resume = "dispatch_r" THEN "task"
               ELSE tcb[p_schedtsk].resume
  /\ UNCHANGED << maskVars, lockVars, p_schedtsk, reqflg, flagVars, tcb,
                  stack, pend >>

start_r_1 ==
  /\ ThreadAt("start_r")
  /\ lock_flag' = FALSE
  /\ thread' = "start_r_2"
  /\ UNCHANGED << maskVars, saved_iipm, schedVars, flagVars, tcb, stack,
                  pend >>

start_r_2 ==
  /\ ThreadAt("start_r_2")
  /\ basepri' = 0
  /\ thread' = "task"
  /\ UNCHANGED << primask, faultmask, lockVars, schedVars, flagVars, tcb,
                  stack, pend >>

dispatcher_1 ==
  /\ ThreadAt("dispatcher_1")
  /\ lock_flag' = FALSE
  /\ thread' = "dispatcher_2"
  /\ UNCHANGED << maskVars, saved_iipm, schedVars, flagVars, tcb, stack,
                  pend >>

\* Mutant: the interrupts are let in before the wait.
dispatcher_2_Open ==
  /\ ThreadAt("dispatcher_2")
  /\ primask' = FALSE
  /\ basepri' = 0
  /\ thread' = "wfi"
  /\ UNCHANGED << faultmask, lockVars, schedVars, flagVars, tcb, stack, pend >>

\* cpsid i; msr basepri, r4
dispatcher_2 ==
  /\ ThreadAt("dispatcher_2")
  /\ primask' = TRUE
  /\ basepri' = 0
  /\ thread' = "wfi"
  /\ UNCHANGED << faultmask, lockVars, schedVars, flagVars, tcb, stack, pend >>

\* wfi ends when an interrupt is pending that BASEPRI does not mask.
wfi ==
  /\ ThreadAt("wfi")
  /\ pend # {}
  /\ thread' = "cpsie"
  /\ UNCHANGED << maskVars, lockVars, schedVars, flagVars, tcb, stack, pend >>

cpsie ==
  /\ ThreadAt("cpsie")
  /\ primask' = FALSE
  /\ thread' = "lock"
  /\ UNCHANGED << basepri, faultmask, lockVars, schedVars, flagVars, tcb,
                  stack, pend >>

idle_lock ==
  /\ ThreadAt("lock")
  /\ basepri' = IIPM_LOCK
  /\ thread' = "test"
  /\ UNCHANGED << primask, faultmask, lockVars, schedVars, flagVars, tcb,
                  stack, pend >>

\* Mutant: saved_iipm is not set back.
idle_test_Saved ==
  /\ ThreadAt("test")
  /\ IF reqflg
       THEN /\ reqflg' = FALSE
            /\ lock_flag' = TRUE
            /\ thread' = "dispatcher"
       ELSE thread' = "dispatcher_2" /\ UNCHANGED << reqflg, lock_flag >>
  /\ UNCHANGED << maskVars, saved_iipm, p_runtsk, p_schedtsk, flagVars, tcb,
                  stack, pend >>

idle_test ==
  /\ ThreadAt("test")
  /\ IF reqflg
       THEN /\ reqflg' = FALSE
            /\ lock_flag' = TRUE
            /\ saved_iipm' = 0
            /\ thread' = "dispatcher"
       ELSE thread' = "dispatcher_2" /\ UNCHANGED << reqflg, lockVars >>
  /\ UNCHANGED << maskVars, p_runtsk, p_schedtsk, flagVars, tcb, stack, pend >>

Dispatcher ==
  \/ start_dispatch \/ dispatcher \/ start_r_1 \/ start_r_2
  \/ dispatcher_1 \/ dispatcher_2 \/ wfi \/ cpsie \/ idle_lock \/ idle_test

----------------------------------------------------------------------------
(***************************************************************************)
(* Interrupts                                                              *)
(***************************************************************************)
Raise(i) ==
  /\ i \notin pend
  /\ thread # "start_dispatch"
  /\ pend' = pend \cup {i}
  /\ UNCHANGED << maskVars, lockVars, schedVars, flagVars, codeVars >>

Masks(mask, i) == mask # 0 /\ mask <= int_iipm[i]

\* Mutant: an interrupt comes in whatever handler is active.
core_int_entry_1_Any(i) ==
  /\ i \in pend
  /\ ~primask /\ ~faultmask /\ ~Masks(basepri, i)
  /\ pend' = pend \ {i}
  /\ stack' = Append(stack, [int |-> i, mask |-> basepri,
                             psp |-> stack = << >> /\ thread \notin IdleCode,
                             pc |-> "entry", op |-> "call", iipm |-> 0])
  /\ UNCHANGED << maskVars, lockVars, schedVars, flagVars, thread, tcb >>

\* The processor takes the interrupt; core_int_entry saves BASEPRI.  The
\* interrupted code uses MSP when it is a handler or the idle loop.
core_int_entry_1(i) ==
  /\ i \in pend
  /\ ~primask /\ ~faultmask /\ ~Masks(basepri, i)
  /\ stack # << >> => int_iipm[i] < int_iipm[stack[Len(stack)].int]
  /\ pend' = pend \ {i}
  /\ stack' = Append(stack, [int |-> i, mask |-> basepri,
                             psp |-> stack = << >> /\ thread \notin IdleCode,
                             pc |-> "entry", op |-> "call", iipm |-> 0])
  /\ UNCHANGED << maskVars, lockVars, schedVars, flagVars, thread, tcb >>

core_int_entry_2 ==
  /\ HandlerAt("entry")
  /\ basepri' = int_iipm[Running.int]
  /\ GoesTo("user")
  /\ UNCHANGED << primask, faultmask, lockVars, schedVars, flagVars, pend >>

\* cpsid f, after the handler has returned
ret_int ==
  /\ HandlerAt("user") \/ (LockedReturn /\ HandlerAt("locked"))
  /\ faultmask' = TRUE
  /\ GoesTo("ret_int_1")
  /\ UNCHANGED << basepri, primask, lockVars, schedVars, flagVars, pend >>

\* Where the interrupt came from, then the test of reqflg.
ret_int_1 ==
  /\ HandlerAt("ret_int_1")
  /\ IF Running.psp /\ reqflg THEN GoesTo("ret_int_3") ELSE GoesTo("ret_int_2")
  /\ UNCHANGED << maskVars, lockVars, schedVars, flagVars, pend >>

\* The exception return clears FAULTMASK.
Return ==
  /\ faultmask' = FALSE
  /\ stack' = SubSeq(stack, 1, Len(stack) - 1)

ret_int_2 ==
  /\ HandlerAt("ret_int_2")
  /\ Return
  /\ basepri' = Running.mask
  /\ UNCHANGED << primask, lockVars, schedVars, flagVars, thread, tcb, pend >>

ret_int_3 ==
  /\ HandlerAt("ret_int_3")
  /\ Return
  /\ reqflg' = FALSE
  /\ basepri' = IIPM_LOCK
  /\ lock_flag' = TRUE
  /\ saved_iipm' = IIPM_ENAALL
  /\ thread' = "ret_int_4"
  /\ UNCHANGED << primask, p_runtsk, p_schedtsk, flagVars, tcb, pend >>

ret_int_4 ==
  /\ ThreadAt("ret_int_4")
  /\ IF dspflg /\ p_runtsk # p_schedtsk
       THEN /\ tcb' = [tcb EXCEPT ![p_runtsk].resume = "ret_int_r"]
            /\ thread' = "dispatcher"
       ELSE tcb' = tcb /\ thread' = "ret_int_r"
  /\ UNCHANGED << maskVars, lockVars, schedVars, flagVars, stack, pend >>

\* Mutant: lock_flag stays set.
svc_handler_Locked ==
  /\ ThreadAt("ret_int_r")
  /\ basepri' = IIPM_ENAALL
  /\ thread' = "task"
  /\ UNCHANGED << primask, faultmask, lockVars, schedVars, flagVars, tcb,
                  stack, pend >>

\* ret_int_r and svc_handler: back into the interrupted code of the task.
svc_handler ==
  /\ ThreadAt("ret_int_r")
  /\ lock_flag' = FALSE
  /\ basepri' = IIPM_ENAALL
  /\ thread' = "task"
  /\ UNCHANGED << primask, faultmask, saved_iipm, schedVars, flagVars, tcb,
                  stack, pend >>

Interrupt ==
  \/ \E i \in Intno : Raise(i) \/ core_int_entry_1(i)
  \/ core_int_entry_2 \/ ret_int \/ ret_int_1 \/ ret_int_2 \/ ret_int_3
  \/ ret_int_4 \/ svc_handler

----------------------------------------------------------------------------
\* core_initialize and initialize_task have run.
Init ==
  /\ basepri = 0 /\ primask = FALSE /\ faultmask = TRUE
  /\ lock_flag = TRUE /\ saved_iipm = IIPM_ENAALL
  /\ p_runtsk = NULL
  /\ p_schedtsk \in Task \cup {NULL}
  /\ reqflg = FALSE
  /\ ipmflg = TRUE /\ disdsp = FALSE /\ dspflg = TRUE
  /\ thread = "start_dispatch"
  /\ tcb = [t \in Task |-> [pc |-> "user", op |-> "call", iipm |-> 0,
                            resume |-> "start_r"]]
  /\ stack = << >>
  /\ pend = {}

Next ==
  ServiceCall \/ x_lock_cpu \/ x_unlock_cpu \/ Dispatcher \/ Interrupt

Spec == Init /\ [][Next]_vars
----------------------------------------------------------------------------
(***************************************************************************)
(* Properties                                                              *)
(***************************************************************************)
FrameType == [int : Intno, mask : Nat, psp : BOOLEAN, op : Op, iipm : Nat,
              pc : Pc \cup {"entry", "ret_int_1", "ret_int_2", "ret_int_3"}]

\* The type invariant.
TypeOK ==
  /\ basepri \in Nat /\ saved_iipm \in Nat
  /\ primask \in BOOLEAN /\ faultmask \in BOOLEAN /\ lock_flag \in BOOLEAN
  /\ p_runtsk \in Task \cup {NULL} /\ p_schedtsk \in Task \cup {NULL}
  /\ reqflg \in BOOLEAN /\ ipmflg \in BOOLEAN /\ disdsp \in BOOLEAN
  /\ dspflg \in BOOLEAN
  /\ thread \in Thread
  /\ tcb \in [Task -> [pc : Pc, op : Op, iipm : Nat,
                      resume : {"start_r", "dispatch_r", "ret_int_r"}]]
  /\ stack \in Seq(FrameType)
  /\ Len(stack) <= Cardinality(Intno)
  /\ pend \subseteq Intno

Critical == {"lock3", "body", "locked", "unlock1"}
DispatcherCode == {"dispatcher", "dispatcher_1", "start_r", "start_r_2",
                   "ret_int_4", "ret_int_r", "test"}

\* What runs under the CPU lock, of a task, a handler or the dispatcher, is
\* not interleaved with any other code of the kernel: whatever it interrupted
\* was outside its critical section.
MutualExclusion ==
  /\ \A n \in 1 .. Len(stack) - 1 : stack[n].pc \notin Critical
  /\ stack # << >> =>
       /\ thread \notin DispatcherCode
       /\ thread = "task" => tcb[p_runtsk].pc \notin Critical

\* Outside service calls BASEPRI is the context's own mask again: the one
\* chg_ipm set for a task (ipmflg tells whether it is IIPM_ENAALL), the
\* interrupt's for a handler.  saved_iipm is one variable for all contexts.
MaskRestored ==
  /\ TaskAt("user") => (basepri = IIPM_ENAALL) = ipmflg
  /\ HandlerAt("user") => basepri = int_iipm[Running.int]

\* The CPU lock is exclusive and leaves no trace in the mask.
Masking == MutualExclusion /\ MaskRestored

\* A context finds the CPU unlocked unless it has locked it itself
\* (doc/porting.txt: ret_int prepares the return to the CPU unlocked state).
LockReleased ==
  /\ At("user") => ~lock_flag
  /\ At("locked") => lock_flag

\* The comment at dispatcher: it is entered with the CPU locked, no mask to
\* restore, and dispatching enabled.
DispatcherState ==
  ThreadAt("dispatcher") =>
    /\ basepri = IIPM_LOCK /\ ~primask /\ ~faultmask
    /\ lock_flag
    /\ saved_iipm = IIPM_ENAALL
    /\ ~disdsp /\ dspflg

\* The processor is not put to sleep when a dispatch has been requested.
NoSleepWithRequest == ThreadAt("wfi") => ~reqflg

\* A task that runs with dispatching enabled is the one of highest
\* precedence, and no request is pending: ret_int tests reqflg and returns
\* without an interrupt between.
Dispatched ==
  TaskAt("user") => ~reqflg /\ (dspflg => p_runtsk = p_schedtsk)

\* The dispatcher, the idle loop and the exits together: a request is neither
\* slept through nor left behind, and what dispatches starts from the state
\* that the dispatcher needs.
DispatcherInv == DispatcherState /\ NoSleepWithRequest /\ Dispatched

\* The processor part keeps the kernel's promise.  A dispatch counts from
\* the step that makes it certain.
Promise == INSTANCE Dispatching WITH
  started  <- thread # "start_dispatch",
  schedtsk <- p_schedtsk,
  runtsk   <- IF thread = "dispatcher" THEN p_schedtsk
              ELSE IF thread = "ret_int_4" /\ dspflg THEN p_schedtsk
              ELSE p_runtsk,
  enabled  <- dspflg,
  depth    <- Len(stack)

KeepsPromise == Promise!DSpec

\* Handlers run to their end and return, the idle loop goes on whenever no
\* handler runs, the dispatcher does not stop.  Nothing is assumed of tasks,
\* and interrupts need not occur.
HandlerCode ==
  /\ stack # << >>
  /\ HandlerBody \/ loc_cpu \/ x_lock_cpu \/ x_unlock_cpu \/ unl_cpu

Fairness ==
  /\ SF_vars(HandlerCode)
  /\ \A i \in Intno : SF_vars(core_int_entry_1(i))
  /\ SF_vars(core_int_entry_2) /\ SF_vars(ret_int) /\ SF_vars(ret_int_1)
  /\ SF_vars(ret_int_2) /\ SF_vars(ret_int_3)
  /\ WF_vars(ret_int_4) /\ WF_vars(svc_handler)
  /\ WF_vars(dispatcher) /\ WF_vars(dispatcher_1) /\ WF_vars(dispatcher_2)
  /\ WF_vars(wfi) /\ WF_vars(cpsie)
  /\ SF_vars(idle_lock) /\ SF_vars(idle_test)

FairSpec == Spec /\ Fairness

\* A dispatch request is served, by the exit of the outermost handler or by
\* the idle loop, also when no further interrupt occurs.
RequestServed == reqflg ~> ~reqflg
=============================================================================
