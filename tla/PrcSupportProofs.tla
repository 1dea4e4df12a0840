-------------------------- MODULE PrcSupportProofs --------------------------
(***************************************************************************)
(* The CPU lock, the dispatcher, the idle loop and the interrupt entry and *)
(* exit of PrcSupport, for any number of tasks, any managed interrupts and *)
(* any masks of chg_ipm.                                                   *)
(*                                                                         *)
(* IInv says what the processor's registers and the CPU lock are at each   *)
(* point of the executing code, and what each interrupted or dispatched    *)
(* context finds again when it goes on: the mask of its own that it had,   *)
(* which the frame above it keeps, and the mask 0 for a task that was      *)
(* preempted, because only such a task is.                                 *)
(***************************************************************************)
EXTENDS PrcSupport, FiniteSetTheorems, SequenceTheorems, TLAPS

TcbType == [pc : Pc, op : Op, iipm : Nat,
            resume : {"start_r", "dispatch_r", "ret_int_r"}]

\* TypeOK without the bound on the nesting, which follows from FramesInv.
TypeInv ==
  /\ basepri \in Nat /\ saved_iipm \in Nat
  /\ primask \in BOOLEAN /\ faultmask \in BOOLEAN /\ lock_flag \in BOOLEAN
  /\ p_runtsk \in Task \cup {NULL} /\ p_schedtsk \in Task \cup {NULL}
  /\ reqflg \in BOOLEAN /\ ipmflg \in BOOLEAN /\ disdsp \in BOOLEAN
  /\ dspflg \in BOOLEAN
  /\ thread \in Thread
  /\ tcb \in [Task -> TcbType]
  /\ stack \in Seq(FrameType)
  /\ pend \subseteq Intno

\* The mask that x_lock_cpu sets when it finds the mask m.
LockMask(m) == IF IIPM_LOCK < m \/ m = IIPM_ENAALL THEN IIPM_LOCK ELSE m

\* m is the mask of the executing context itself.
OwnMask(m, ipm) == IF stack # << >> THEN m = int_iipm[Running.int]
                                    ELSE m = IIPM_ENAALL <=> ipm

\* The registers and the lock at each point of the executing context.
ExecutingInv ==
  Executing =>
    /\ Running.pc = "entry" => basepri = Running.mask
    /\ Running.pc \in {"user", "lock1", "lock2"} => OwnMask(basepri, ipmflg)
    /\ Running.pc = "lock2" => Running.iipm = basepri
    /\ Running.pc = "lock3" =>
         OwnMask(Running.iipm, ipmflg) /\ basepri = LockMask(Running.iipm)
    /\ Running.pc \in {"body", "locked", "unlock1", "unlock2"} =>
         OwnMask(saved_iipm, ipmflg) /\ basepri = LockMask(saved_iipm)
    /\ lock_flag <=> (Running.pc \in {"body", "locked", "unlock1"})
    /\ faultmask <=> (Running.pc \in {"ret_int_1", "ret_int_2", "ret_int_3"})
    /\ ~primask
    /\ Running.pc = "ret_int_2" => ~(Running.psp /\ reqflg)
    /\ Running.pc = "ret_int_3" => Running.psp /\ reqflg
    /\ stack = << >> /\ Running.op = "wait" => dspflg

\* The code that a handler can interrupt, of another handler and of Thread
\* mode, and the mask that the handler's frame keeps for it.
Interrupted(c, own, mask) ==
  /\ c.pc \in {"user", "lock1", "lock2"} /\ own
  /\ c.pc = "lock2" => c.iipm = mask

\* Each handler has interrupted one of lower priority.
FramesInv ==
  /\ \A l, n \in 1 .. Len(stack) :
       l < n => int_iipm[stack[n].int] < int_iipm[stack[l].int]
  /\ \A n \in 1 .. Len(stack) - 1 :
       /\ ~stack[n + 1].psp
       /\ IF stack[n].pc = "entry" THEN stack[n + 1].mask = stack[n].mask
          ELSE Interrupted(stack[n], stack[n + 1].mask = int_iipm[stack[n].int],
                           stack[n + 1].mask)

BottomInv ==
  stack # << >> =>
    /\ thread \in {"task", "lock"}
    /\ stack[1].psp <=> (thread = "task")
    /\ thread = "lock" => stack[1].mask = IIPM_ENAALL
    /\ thread = "task" =>
         /\ Interrupted(tcb[p_runtsk], stack[1].mask = IIPM_ENAALL <=> ipmflg,
                        stack[1].mask)
         /\ tcb[p_runtsk].op = "wait" => dspflg

\* The registers and the lock at each label of Thread mode.
ThreadInv ==
  stack = << >> /\ thread # "task" =>
    /\ faultmask <=> (thread = "start_dispatch")
    /\ primask <=> (thread \in {"wfi", "cpsie"})
    /\ thread # "start_dispatch" =>
         basepri = IF thread \in {"wfi", "cpsie", "lock"} THEN IIPM_ENAALL
                                                          ELSE IIPM_LOCK
    /\ lock_flag <=> (thread \in {"start_dispatch", "dispatcher", "dispatcher_1",
                                "start_r", "ret_int_4", "ret_int_r"})
    /\ thread \in {"start_dispatch", "dispatcher", "ret_int_4"} =>
         saved_iipm = IIPM_ENAALL

TaskCode == {"task", "start_r", "start_r_2", "ret_int_4", "ret_int_r"}

\* A task that does not run continues where its TCB_pc says, with mask 0.
Preempted(c) ==
  /\ c.pc \in {"user", "lock1", "lock2"}
  /\ c.pc = "lock2" => c.iipm = IIPM_ENAALL

Resumable(c) ==
  /\ c.resume = "start_r" => c.pc = "user"
  /\ c.resume = "dispatch_r" => c.pc = "unlock1"
  /\ c.resume = "ret_int_r" => Preempted(c)

TasksInv ==
  /\ thread \in TaskCode => p_runtsk \in Task
  /\ thread \in IdleCode => p_runtsk = NULL
  /\ \A t \in Task : ~(thread \in TaskCode /\ t = p_runtsk) => Resumable(tcb[t])
  /\ thread \in {"start_r", "start_r_2"} => tcb[p_runtsk].pc = "user"
  /\ thread \in {"ret_int_4", "ret_int_r"} => Preempted(tcb[p_runtsk])

FlagsInv ==
  /\ dspflg <=> (ipmflg /\ ~disdsp)
  /\ thread # "task" => dspflg
  /\ reqflg => dspflg /\ (stack # << >> \/ thread \in {"lock", "test"})
  /\ thread \notin {"start_dispatch", "dispatcher", "ret_int_4"}
       /\ dspflg /\ p_runtsk # p_schedtsk => reqflg

IInv == /\ TypeInv /\ ExecutingInv /\ FramesInv /\ BottomInv /\ ThreadInv
        /\ TasksInv /\ FlagsInv

----------------------------------------------------------------------------
(***************************************************************************)
(* The executing context.                                                  *)
(***************************************************************************)
LEMMA RunningType ==
  ASSUME TypeInv, TasksInv, Executing
  PROVE  /\ stack # << >> => /\ Len(stack) \in Nat \ {0}
                             /\ Running = stack[Len(stack)]
                             /\ Running \in FrameType
         /\ stack = << >> => /\ thread = "task" /\ p_runtsk \in Task
                             /\ Running = tcb[p_runtsk]
                             /\ Running \in TcbType
BY DEF TypeInv, TasksInv, Executing, Running, TaskCode

LEMMA FrameFacts ==
  ASSUME stack \in Seq(FrameType), NEW n \in 1 .. Len(stack)
  PROVE  stack[n].int \in Intno /\ int_iipm[stack[n].int] \in Nat
<1>1. stack[n] \in FrameType
  OBVIOUS
<1>2. stack[n].int \in Intno
  BY <1>1 DEF FrameType
<1> QED
  BY <1>2, PrcAssumption DEF PrcAssumption

\* c is the executing context at p, with the call o and the local iipm m.
Sets(c, p, o, m) ==
  /\ c.pc = p /\ c.op = o /\ c.iipm = m
  /\ stack # << >> => /\ c \in FrameType /\ c.int = Running.int
                      /\ c.mask = Running.mask /\ c.psp = Running.psp
  /\ stack = << >> => c \in TcbType

LEMMA SetsPc ==
  ASSUME TypeInv, TasksInv, Executing, NEW p \in Pc
  PROVE  Sets([Running EXCEPT !.pc = p], p, Running.op, Running.iipm)
<1>1. CASE stack # << >>
  <2>1. Running \in FrameType
    BY <1>1, RunningType
  <2> QED
    BY <1>1, <2>1 DEF Sets, FrameType, Op, Locals0
<1>2. CASE stack = << >>
  <2>1. Running \in TcbType
    BY <1>2, RunningType
  <2> QED
    BY <1>2, <2>1 DEF Sets, TcbType, Op, Locals0
<1> QED
  BY <1>1, <1>2

LEMMA SetsOp ==
  ASSUME TypeInv, TasksInv, Executing, NEW p \in Pc, NEW o \in Op
  PROVE  Sets([Running EXCEPT !.pc = p, !.op = o], p, o, Running.iipm)
<1>1. CASE stack # << >>
  <2>1. Running \in FrameType
    BY <1>1, RunningType
  <2> QED
    BY <1>1, <2>1 DEF Sets, FrameType, Op, Locals0
<1>2. CASE stack = << >>
  <2>1. Running \in TcbType
    BY <1>2, RunningType
  <2> QED
    BY <1>2, <2>1 DEF Sets, TcbType, Op, Locals0
<1> QED
  BY <1>1, <1>2

LEMMA SetsIipm ==
  ASSUME TypeInv, TasksInv, Executing, NEW p \in Pc, NEW m \in Nat
  PROVE  Sets([Running EXCEPT !.pc = p, !.iipm = m], p, Running.op, m)
<1>1. CASE stack # << >>
  <2>1. Running \in FrameType
    BY <1>1, RunningType
  <2> QED
    BY <1>1, <2>1 DEF Sets, FrameType, Op, Locals0
<1>2. CASE stack = << >>
  <2>1. Running \in TcbType
    BY <1>2, RunningType
  <2> QED
    BY <1>2, <2>1 DEF Sets, TcbType, Op, Locals0
<1> QED
  BY <1>1, <1>2

LEMMA SetsEnd ==
  ASSUME TypeInv, TasksInv, Executing, NEW p \in Pc
  PROVE  Sets([Locals0(Running) EXCEPT !.pc = p], p, "call", 0)
<1>1. CASE stack # << >>
  <2>1. Running \in FrameType
    BY <1>1, RunningType
  <2> QED
    BY <1>1, <2>1 DEF Sets, FrameType, Op, Locals0
<1>2. CASE stack = << >>
  <2>1. Running \in TcbType
    BY <1>2, RunningType
  <2> QED
    BY <1>2, <2>1 DEF Sets, TcbType, Op, Locals0
<1> QED
  BY <1>1, <1>2

\* A step of the executing context disturbs no other one.
LEMMA GoesLemma ==
  ASSUME IInv, Executing, NEW c, NEW p, NEW o, NEW m, Sets(c, p, o, m), Goes(c),
         p_runtsk' = p_runtsk,
         stack # << >> => UNCHANGED << ipmflg, dspflg >>
  PROVE  /\ Executing' /\ Running' = c /\ thread' = thread
         /\ stack' = << >> <=> stack = << >>
         /\ tcb' \in [Task -> TcbType] /\ stack' \in Seq(FrameType)
         /\ FramesInv' /\ BottomInv' /\ ThreadInv' /\ TasksInv'
<1> USE DEF IInv
<1>1. CASE stack # << >>
  <2>1. /\ Len(stack) \in Nat \ {0} /\ Running = stack[Len(stack)]
        /\ Running \in FrameType
        /\ c \in FrameType /\ c.int = Running.int /\ c.mask = Running.mask
        /\ c.psp = Running.psp
        /\ stack \in Seq(FrameType)
    BY <1>1, RunningType DEF Sets, TypeInv
  <2>2. /\ thread' = thread /\ tcb' = tcb
        /\ stack' = [stack EXCEPT ![Len(stack)] = c]
    BY <1>1 DEF Goes
  <2>3. /\ stack' \in Seq(FrameType) /\ Len(stack') = Len(stack)
        /\ stack' # << >>
        /\ stack'[Len(stack)] = c
        /\ \A n \in 1 .. Len(stack) - 1 : stack'[n] = stack[n]
    BY <2>1, <2>2
  <2>4. Executing' /\ Running' = c
    BY <2>3 DEF Executing, Running
  <2>5. \A n \in 1 .. Len(stack) : /\ stack'[n].int = stack[n].int
                                   /\ stack'[n].mask = stack[n].mask
                                   /\ stack'[n].psp = stack[n].psp
    BY <2>1, <2>3
  <2>6. FramesInv'
    <3> \A l, n \in 1 .. Len(stack) :
          l < n => int_iipm[stack'[n].int] < int_iipm[stack'[l].int]
      BY <2>5 DEF FramesInv
    <3> SUFFICES ASSUME NEW n \in 1 .. Len(stack) - 1
                 PROVE  /\ ~stack'[n + 1].psp
                        /\ IF stack'[n].pc = "entry"
                             THEN stack'[n + 1].mask = stack'[n].mask
                             ELSE Interrupted(stack'[n],
                                    stack'[n + 1].mask = int_iipm[stack'[n].int],
                                    stack'[n + 1].mask)
      BY <2>3 DEF FramesInv
    <3>1. n \in 1 .. Len(stack) /\ n + 1 \in 1 .. Len(stack)
      BY <2>1
    <3>2. stack'[n] = stack[n]
      BY <2>3
    <3> QED
      BY <2>5, <3>1, <3>2 DEF FramesInv
  <2>7. BottomInv'
    BY <1>1, <2>1, <2>2, <2>5 DEF BottomInv
  <2>8. ThreadInv' /\ TasksInv'
    BY <2>2, <2>3 DEF ThreadInv, TasksInv
  <2> QED
    BY <1>1, <2>2, <2>3, <2>4, <2>6, <2>7, <2>8 DEF TypeInv
<1>2. CASE stack = << >>
  <2>1. /\ thread = "task" /\ p_runtsk \in Task /\ c \in TcbType
        /\ tcb \in [Task -> TcbType] /\ stack \in Seq(FrameType)
    BY <1>2, RunningType DEF Sets, TypeInv
  <2>2. /\ thread' = thread /\ stack' = stack
        /\ tcb' = [tcb EXCEPT ![p_runtsk] = c]
    BY <1>2 DEF Goes
  <2>3. /\ tcb' \in [Task -> TcbType] /\ tcb'[p_runtsk] = c
        /\ \A t \in Task : t # p_runtsk => tcb'[t] = tcb[t]
    BY <2>1, <2>2
  <2>4. Executing' /\ Running' = c
    BY <1>2, <2>1, <2>2, <2>3 DEF Executing, Running
  <2>5. FramesInv' /\ BottomInv' /\ ThreadInv'
    BY <1>2, <2>1, <2>2 DEF FramesInv, BottomInv, ThreadInv
  <2>6. TasksInv'
    BY <2>1, <2>2, <2>3 DEF TasksInv, TaskCode, IdleCode
  <2> QED
    BY <1>2, <2>1, <2>2, <2>3, <2>4, <2>5, <2>6
<1> QED
  BY <1>1, <1>2

\* A step of a service call, without a dispatch.
LEMMA CallLemma ==
  ASSUME IInv, Executing, NEW c, NEW p, NEW o, NEW m, Sets(c, p, o, m), Goes(c),
         UNCHANGED << p_runtsk, primask, pend >>,
         stack # << >> => UNCHANGED << ipmflg, dspflg >>,
         basepri' \in Nat, saved_iipm' \in Nat, lock_flag' \in BOOLEAN,
         faultmask' \in BOOLEAN, p_schedtsk' \in Task \cup {NULL},
         reqflg' \in BOOLEAN, ipmflg' \in BOOLEAN, disdsp' \in BOOLEAN,
         dspflg' \in BOOLEAN,
         ExecutingInv', FlagsInv'
  PROVE  IInv'
<1>1. /\ Executing' /\ Running' = c /\ thread' = thread
      /\ stack' = << >> <=> stack = << >>
      /\ tcb' \in [Task -> TcbType] /\ stack' \in Seq(FrameType)
      /\ FramesInv' /\ BottomInv' /\ ThreadInv' /\ TasksInv'
  BY GoesLemma
<1>2. TypeInv'
  BY <1>1 DEF IInv, TypeInv
<1> QED
  BY <1>1, <1>2 DEF IInv

\* Where the executing context is, the rest of ExecutingInv after its step.
LEMMA ContextLemma ==
  ASSUME IInv, Executing, NEW c, NEW p, NEW o, NEW m, Sets(c, p, o, m), Goes(c),
         UNCHANGED << p_runtsk, primask, faultmask >>,
         stack # << >> => UNCHANGED << ipmflg, dspflg >>,
         p \notin {"entry", "ret_int_1", "ret_int_2", "ret_int_3"},
         Running.pc \notin {"ret_int_1", "ret_int_2", "ret_int_3"},
         p \in {"user", "lock1", "lock2"} => OwnMask(basepri', ipmflg'),
         p = "lock2" => m = basepri',
         p = "lock3" => OwnMask(m, ipmflg') /\ basepri' = LockMask(m),
         p \in {"body", "locked", "unlock1", "unlock2"} =>
           OwnMask(saved_iipm', ipmflg') /\ basepri' = LockMask(saved_iipm'),
         lock_flag' <=> (p \in {"body", "locked", "unlock1"}),
         stack = << >> /\ o = "wait" => dspflg'
  PROVE  ExecutingInv'
<1>1. Executing' /\ Running' = c /\ (stack' = << >> <=> stack = << >>)
  BY GoesLemma
<1>2. c.pc = p /\ c.op = o /\ c.iipm = m /\ (stack # << >> => c.int = Running.int)
  BY DEF Sets
<1>3. \A x : OwnMask(x, ipmflg') =>
        /\ stack # << >> => x = int_iipm[c.int]
        /\ stack = << >> => (x = IIPM_ENAALL <=> ipmflg')
  BY <1>2 DEF OwnMask
<1>4. faultmask' = FALSE /\ primask' = FALSE
  BY DEF IInv, ExecutingInv, TypeInv
<1>5. /\ Running'.pc \in {"user", "lock1", "lock2"} => OwnMask(basepri, ipmflg)'
      /\ Running'.pc = "lock3" => OwnMask(Running.iipm, ipmflg)'
      /\ Running'.pc \in {"body", "locked", "unlock1", "unlock2"} =>
           OwnMask(saved_iipm, ipmflg)'
  BY <1>1, <1>2, <1>3 DEF OwnMask, IIPM_ENAALL
<1>6. /\ Running'.pc = "lock3" => basepri' = LockMask(Running.iipm)'
      /\ Running'.pc \in {"body", "locked", "unlock1", "unlock2"} =>
           basepri' = LockMask(saved_iipm)'
  BY <1>1, <1>2 DEF LockMask, IIPM_ENAALL
<1>7. lock_flag' <=> (Running'.pc \in {"body", "locked", "unlock1"})
  BY <1>1, <1>2
<1>8. faultmask' <=> (Running'.pc \in {"ret_int_1", "ret_int_2", "ret_int_3"})
  BY <1>1, <1>2, <1>4
<1>9. stack' = << >> /\ Running'.op = "wait" => dspflg'
  BY <1>1, <1>2
<1>10. Running'.pc \notin {"entry", "ret_int_1", "ret_int_2", "ret_int_3"}
  BY <1>1, <1>2
<1>11. Running'.pc = "lock2" => Running'.iipm = basepri'
  BY <1>1, <1>2
<1> QED
  BY <1>1, <1>4, <1>5, <1>6, <1>7, <1>8, <1>9, <1>10, <1>11 DEF ExecutingInv

----------------------------------------------------------------------------
(***************************************************************************)
(* The CPU lock.                                                           *)
(***************************************************************************)
\* A step that changes neither the flags nor the schedule.
LEMMA QuietLemma ==
  ASSUME IInv, Executing, NEW c, NEW p, NEW o, NEW m, Sets(c, p, o, m), Goes(c),
         UNCHANGED << schedVars, flagVars, primask, faultmask, pend >>,
         basepri' \in Nat, saved_iipm' \in Nat, lock_flag' \in BOOLEAN,
         ExecutingInv'
  PROVE  IInv'
<1>1. UNCHANGED << p_runtsk, p_schedtsk, reqflg, ipmflg, disdsp, dspflg >>
  BY DEF schedVars, flagVars
<1>2. thread' = thread /\ (stack' = << >> <=> stack = << >>)
  BY <1>1, GoesLemma
<1>3. FlagsInv'
  BY <1>1, <1>2 DEF IInv, FlagsInv
<1> QED
  BY <1>1, <1>3, CallLemma DEF IInv, TypeInv

LEMMA x_lock_cpuStep ==
  ASSUME IInv, x_lock_cpu
  PROVE  IInv'
<1> USE PrcAssumption DEF IInv
<1>1. CASE x_lock_cpu_1
  <2> DEFINE c == [Running EXCEPT !.pc = "lock2", !.iipm = basepri]
  <2>1. Executing /\ Running.pc = "lock1" /\ Goes(c)
        /\ UNCHANGED << maskVars, lockVars, schedVars, flagVars, pend >>
    BY <1>1 DEF x_lock_cpu_1, At
  <2>2. Sets(c, "lock2", Running.op, basepri)
    <3>1. "lock2" \in Pc /\ basepri \in Nat
      BY DEF Pc, TypeInv
    <3> QED
      BY <2>1, <3>1, SetsIipm, Zenon
  <2> HIDE DEF c
  <2>3. UNCHANGED << basepri, primask, faultmask, saved_iipm, lock_flag >>
    BY <2>1 DEF maskVars, lockVars
  <2>4. ExecutingInv'
    BY <2>1, <2>2, <2>3, ContextLemma DEF ExecutingInv, schedVars, flagVars
  <2> QED
    BY <2>1, <2>2, <2>3, <2>4, QuietLemma DEF TypeInv
<1>2. CASE x_lock_cpu_2
  <2> DEFINE c == [Running EXCEPT !.pc = "lock3"]
  <2>1. /\ Executing /\ Running.pc = "lock2" /\ Goes(c)
        /\ basepri' = LockMask(Running.iipm)
        /\ UNCHANGED << primask, faultmask, lockVars, schedVars, flagVars, pend >>
    BY <1>2 DEF x_lock_cpu_2, At, GoesTo, LockMask, ExecutingInv
  <2>2. Sets(c, "lock3", Running.op, Running.iipm)
    <3>1. "lock3" \in Pc
      BY DEF Pc
    <3> QED
      BY <2>1, <3>1, SetsPc, Zenon
  <2> HIDE DEF c
  <2>3. basepri' \in Nat /\ UNCHANGED << saved_iipm, lock_flag >>
    BY <2>1 DEF lockVars, LockMask, TypeInv, ExecutingInv
  <2>4. ExecutingInv'
    BY <2>1, <2>2, <2>3, ContextLemma DEF ExecutingInv, schedVars, flagVars
  <2> QED
    BY <2>1, <2>2, <2>3, <2>4, QuietLemma DEF TypeInv
<1>3. CASE x_lock_cpu_3
  <2> DEFINE c == [Running EXCEPT !.pc = "body", !.iipm = 0]
  <2>1. /\ Executing /\ Running.pc = "lock3" /\ Goes(c)
        /\ saved_iipm' = Running.iipm /\ lock_flag' = TRUE
        /\ UNCHANGED << maskVars, schedVars, flagVars, pend >>
    BY <1>3 DEF x_lock_cpu_3, At
  <2>2. Sets(c, "body", Running.op, 0) /\ Running.iipm \in Nat
    <3>1. Running.iipm \in Nat
      BY <2>1, RunningType DEF FrameType, TcbType
    <3>2. "body" \in Pc /\ 0 \in Nat
      BY DEF Pc
    <3>3. Sets(c, "body", Running.op, 0)
      BY <2>1, <3>2, SetsIipm, Zenon
    <3> QED
      BY <3>1, <3>3
  <2> HIDE DEF c
  <2>3. UNCHANGED << basepri, primask, faultmask >>
    BY <2>1 DEF maskVars
  <2>4. ExecutingInv'
    BY <2>1, <2>2, <2>3, ContextLemma DEF ExecutingInv, schedVars, flagVars
  <2> QED
    BY <2>1, <2>2, <2>3, <2>4, QuietLemma DEF TypeInv
<1> QED
  BY <1>1, <1>2, <1>3 DEF x_lock_cpu

LEMMA x_unlock_cpuStep ==
  ASSUME IInv, x_unlock_cpu
  PROVE  IInv'
<1> USE DEF IInv
<1>1. CASE x_unlock_cpu_1
  <2> DEFINE c == [Running EXCEPT !.pc = "unlock2"]
  <2>1. /\ Executing /\ Running.pc = "unlock1" /\ Goes(c)
        /\ lock_flag' = FALSE
        /\ UNCHANGED << maskVars, saved_iipm, schedVars, flagVars, pend >>
    BY <1>1 DEF x_unlock_cpu_1, At, GoesTo
  <2>2. Sets(c, "unlock2", Running.op, Running.iipm)
    <3>1. "unlock2" \in Pc
      BY DEF Pc
    <3> QED
      BY <2>1, <3>1, SetsPc, Zenon
  <2> HIDE DEF c
  <2>3. UNCHANGED << basepri, primask, faultmask >>
    BY <2>1 DEF maskVars
  <2>4. ExecutingInv'
    BY <2>1, <2>2, <2>3, ContextLemma DEF ExecutingInv, schedVars, flagVars
  <2> QED
    BY <2>1, <2>2, <2>3, <2>4, QuietLemma DEF TypeInv
<1>2. CASE x_unlock_cpu_2
  <2> DEFINE c == [Running EXCEPT !.pc = "user"]
  <2>1. /\ Executing /\ Running.pc = "unlock2" /\ Goes(c)
        /\ basepri' = saved_iipm
        /\ UNCHANGED << primask, faultmask, lockVars, schedVars, flagVars, pend >>
    BY <1>2 DEF x_unlock_cpu_2, At, GoesTo
  <2>2. Sets(c, "user", Running.op, Running.iipm)
    <3>1. "user" \in Pc
      BY DEF Pc
    <3> QED
      BY <2>1, <3>1, SetsPc, Zenon
  <2> HIDE DEF c
  <2>3. UNCHANGED << saved_iipm, lock_flag >>
    BY <2>1 DEF lockVars
  <2>4. ExecutingInv'
    BY <2>1, <2>2, <2>3, ContextLemma DEF ExecutingInv, schedVars, flagVars
  <2> QED
    BY <2>1, <2>2, <2>3, <2>4, QuietLemma DEF TypeInv
<1> QED
  BY <1>1, <1>2 DEF x_unlock_cpu

----------------------------------------------------------------------------
(***************************************************************************)
(* Service calls.                                                          *)
(***************************************************************************)
LEMMA BeginStep ==
  ASSUME IInv, NEW o \in Op, Begin(o)
  PROVE  IInv'
<1> USE DEF IInv
<1> DEFINE c == [Running EXCEPT !.pc = "lock1", !.op = o]
<1>1. /\ Executing /\ Running.pc = "user" /\ Goes(c)
      /\ UNCHANGED << maskVars, lockVars, schedVars, flagVars, pend >>
      /\ o = "wait" => dspflg
  BY DEF Begin, At
<1>2. Sets(c, "lock1", o, Running.iipm)
  <2>1. "lock1" \in Pc
    BY DEF Pc
  <2> QED
    BY <1>1, <2>1, SetsOp, Zenon
<1> HIDE DEF c
<1>3. UNCHANGED << basepri, primask, faultmask, saved_iipm, lock_flag >>
  BY <1>1 DEF maskVars, lockVars
<1>4. ExecutingInv'
  BY <1>1, <1>2, <1>3, ContextLemma DEF ExecutingInv, schedVars, flagVars
<1> QED
  BY <1>1, <1>2, <1>3, <1>4, QuietLemma DEF TypeInv

\* loc_cpu and unl_cpu; the lock is what they keep and give back.
LEMMA loc_cpuStep ==
  ASSUME IInv, loc_cpu \/ unl_cpu
  PROVE  IInv'
<1> USE DEF IInv
<1>1. CASE loc_cpu
  <2> DEFINE c == [Locals0(Running) EXCEPT !.pc = "locked"]
  <2>1. /\ Executing /\ Running.pc = "body" /\ Goes(c)
        /\ UNCHANGED << maskVars, lockVars, schedVars, flagVars, pend >>
    BY <1>1 DEF loc_cpu, At, EndsAt
  <2>2. Sets(c, "locked", "call", 0)
    <3>1. "locked" \in Pc
      BY DEF Pc
    <3> QED
      BY <2>1, <3>1, SetsEnd, Zenon
  <2> HIDE DEF c
  <2>3. UNCHANGED << basepri, primask, faultmask, saved_iipm, lock_flag >>
    BY <2>1 DEF maskVars, lockVars
  <2>4. ExecutingInv'
    BY <2>1, <2>2, <2>3, ContextLemma DEF ExecutingInv, schedVars, flagVars
  <2> QED
    BY <2>1, <2>2, <2>3, <2>4, QuietLemma DEF TypeInv
<1>2. CASE unl_cpu
  <2> DEFINE c == [Running EXCEPT !.pc = "unlock1"]
  <2>1. /\ Executing /\ Running.pc = "locked" /\ Goes(c)
        /\ UNCHANGED << maskVars, lockVars, schedVars, flagVars, pend >>
    BY <1>2 DEF unl_cpu, At, GoesTo
  <2>2. Sets(c, "unlock1", Running.op, Running.iipm)
    <3>1. "unlock1" \in Pc
      BY DEF Pc
    <3> QED
      BY <2>1, <3>1, SetsPc, Zenon
  <2> HIDE DEF c
  <2>3. UNCHANGED << basepri, primask, faultmask, saved_iipm, lock_flag >>
    BY <2>1 DEF maskVars, lockVars
  <2>4. ExecutingInv'
    BY <2>1, <2>2, <2>3, ContextLemma DEF ExecutingInv, schedVars, flagVars
  <2> QED
    BY <2>1, <2>2, <2>3, <2>4, QuietLemma DEF TypeInv
<1> QED
  BY <1>1, <1>2

\* The end of a call that has not dispatched: what it may have changed.
LEMMA EndLemma ==
  ASSUME IInv, Executing, Running.pc = "body", EndsAt("unlock1"),
         UNCHANGED << primask, faultmask, lock_flag, p_runtsk, pend >>,
         stack # << >> => UNCHANGED << ipmflg, dspflg >>,
         p_schedtsk' \in Task \cup {NULL}, reqflg' \in BOOLEAN,
         ipmflg' \in BOOLEAN, disdsp' \in BOOLEAN, dspflg' \in BOOLEAN,
         saved_iipm' \in Nat, basepri' = LockMask(saved_iipm'),
         OwnMask(saved_iipm', ipmflg'), FlagsInv'
  PROVE  IInv'
<1> USE DEF IInv
<1> DEFINE c == [Locals0(Running) EXCEPT !.pc = "unlock1"]
<1>1. Goes(c)
  BY DEF EndsAt
<1>2. Sets(c, "unlock1", "call", 0)
  <2>1. "unlock1" \in Pc
    BY DEF Pc
  <2> QED
    BY <2>1, SetsEnd, Zenon
<1> HIDE DEF c
<1>3. lock_flag
  BY DEF ExecutingInv
<1>4. ExecutingInv'
  BY <1>1, <1>2, <1>3, ContextLemma
<1>5. basepri' \in Nat
  BY PrcAssumption DEF LockMask
<1> QED
  BY <1>1, <1>2, <1>4, <1>5, CallLemma DEF TypeInv

LEMMA BodyFacts ==
  ASSUME IInv, Executing, Running.pc = "body"
  PROVE  /\ lock_flag /\ ~primask /\ ~faultmask
         /\ OwnMask(saved_iipm, ipmflg) /\ basepri = LockMask(saved_iipm)
         /\ saved_iipm \in Nat
BY DEF IInv, ExecutingInv, TypeInv

LEMMA HandlerBodyStep ==
  ASSUME IInv, HandlerBody
  PROVE  IInv'
<1>1. /\ stack # << >> /\ Executing /\ Running.pc = "body"
      /\ p_schedtsk' \in Task \cup {NULL}
      /\ reqflg' = (reqflg \/ (dspflg /\ p_schedtsk' # p_schedtsk))
      /\ EndsAt("unlock1")
      /\ UNCHANGED << basepri, primask, faultmask, saved_iipm, lock_flag,
                      p_runtsk, ipmflg, disdsp, dspflg, pend >>
  BY DEF HandlerBody, HandlerAt, At, maskVars, lockVars, flagVars
<1>2. thread' = thread /\ stack' # << >> /\ thread \in {"task", "lock"}
  <2>1. Len(stack) \in Nat \ {0} /\ thread \in {"task", "lock"} /\ stack \in Seq(FrameType)
    BY <1>1 DEF IInv, TypeInv, BottomInv
  <2>2. thread' = thread /\ DOMAIN stack' = DOMAIN stack
    BY <1>1, <2>1 DEF EndsAt, Goes
  <2> QED
    BY <2>1, <2>2
<1>3. FlagsInv'
  BY <1>1, <1>2 DEF IInv, FlagsInv
<1>4. reqflg' \in BOOLEAN /\ UNCHANGED << ipmflg, dspflg >>
  BY <1>1 DEF IInv, TypeInv
<1> QED
  BY <1>1, <1>3, <1>4, EndLemma, BodyFacts DEF IInv, TypeInv

\* A task in a call: no request is left, and with dispatching enabled it is
\* the highest precedence task.
LEMMA TaskFacts ==
  ASSUME IInv, stack = << >>, Executing
  PROVE  /\ thread = "task" /\ p_runtsk \in Task /\ ~reqflg
         /\ dspflg => p_runtsk = p_schedtsk
BY RunningType DEF IInv, FlagsInv

LEMMA NoDispatch ==
  ASSUME stack = << >>, thread = "task", NEW p, EndsAt(p)
  PROVE  thread' = "task" /\ stack' = << >>
BY DEF EndsAt, Goes

\* dispatch() in the body of a task's call, once the mask to restore is 0.
LEMMA DispatchLemma ==
  ASSUME IInv, stack = << >>, Executing, Running.pc = "body", dispatch,
         UNCHANGED << primask, faultmask, lock_flag, p_runtsk, pend, reqflg >>,
         p_schedtsk' \in Task \cup {NULL},
         ipmflg' = TRUE, disdsp' = FALSE, dspflg' = TRUE,
         saved_iipm' = IIPM_ENAALL, basepri' = IIPM_LOCK
  PROVE  IInv'
<1> USE DEF IInv
<1>1. /\ thread = "task" /\ p_runtsk \in Task /\ ~reqflg
      /\ lock_flag /\ ~primask /\ ~faultmask /\ tcb \in [Task -> TcbType]
  BY TaskFacts, BodyFacts DEF TypeInv
<1> DEFINE c == [Locals0(tcb[p_runtsk]) EXCEPT !.pc = "unlock1",
                                                !.resume = "dispatch_r"]
<1>2. c \in TcbType /\ c.pc = "unlock1" /\ c.resume = "dispatch_r"
  BY <1>1 DEF TcbType, Locals0, Pc, Op
<1>3. /\ tcb' = [tcb EXCEPT ![p_runtsk] = c]
      /\ thread' = "dispatcher" /\ stack' = << >>
  BY DEF dispatch
<1> HIDE DEF c
<1>4. TypeInv'
  BY <1>1, <1>2, <1>3, PrcAssumption DEF TypeInv, Thread, IIPM_ENAALL
<1>5. ExecutingInv' /\ FramesInv' /\ BottomInv'
  BY <1>3 DEF ExecutingInv, Executing, FramesInv, BottomInv
<1>6. ThreadInv'
  BY <1>1, <1>3 DEF ThreadInv
<1>7. TasksInv'
  BY <1>1, <1>2, <1>3 DEF TasksInv, TaskCode, IdleCode, Resumable
<1>8. FlagsInv'
  BY <1>1, <1>3 DEF FlagsInv
<1> QED
  BY <1>4, <1>5, <1>6, <1>7, <1>8

\* With dispatching enabled the mask of the task is 0.
LEMMA EnabledMask ==
  ASSUME IInv, stack = << >>, Executing, Running.pc = "body", ipmflg
  PROVE  saved_iipm = IIPM_ENAALL /\ basepri = IIPM_LOCK
BY BodyFacts DEF OwnMask, LockMask

\* The end of a task's call that leaves p_schedtsk or the flags changed.
LEMMA TaskEnd ==
  ASSUME IInv, stack = << >>, Executing, Running.pc = "body",
         EndsAt("unlock1"),
         UNCHANGED << primask, faultmask, lock_flag, p_runtsk, pend, reqflg >>,
         p_schedtsk' \in Task \cup {NULL},
         ipmflg' \in BOOLEAN, disdsp' \in BOOLEAN, dspflg' \in BOOLEAN,
         dspflg' <=> (ipmflg' /\ ~disdsp'),
         dspflg' => p_runtsk = p_schedtsk',
         saved_iipm' \in Nat, basepri' = LockMask(saved_iipm'),
         saved_iipm' = IIPM_ENAALL <=> ipmflg'
  PROVE  IInv'
<1>1. thread = "task" /\ ~reqflg /\ reqflg \in BOOLEAN
  BY TaskFacts DEF IInv, TypeInv
<1>2. thread' = "task" /\ stack' = << >>
  BY <1>1, NoDispatch
<1>3. FlagsInv'
  BY <1>1, <1>2 DEF FlagsInv
<1>4. OwnMask(saved_iipm', ipmflg')
  BY DEF OwnMask
<1> QED
  BY <1>1, <1>3, <1>4, EndLemma

LEMMA TaskBodyStep ==
  ASSUME IInv, TaskBody
  PROVE  IInv'
<1>1. /\ stack = << >> /\ Executing /\ Running.pc = "body"
      /\ p_schedtsk' \in Task \cup {NULL}
      /\ UNCHANGED << basepri, primask, faultmask, saved_iipm, lock_flag,
                      p_runtsk, reqflg, ipmflg, disdsp, dspflg, pend >>
  BY DEF TaskBody, TaskAt, At, maskVars, lockVars, flagVars
<1>2. /\ dspflg => p_runtsk = p_schedtsk
      /\ OwnMask(saved_iipm, ipmflg) /\ basepri = LockMask(saved_iipm)
  BY <1>1, TaskFacts, BodyFacts
<1>3. dspflg <=> ipmflg /\ ~disdsp
  BY DEF IInv, FlagsInv
<1>4. CASE dspflg /\ p_schedtsk' # p_schedtsk
  <2>1. dispatch /\ ipmflg' = TRUE /\ disdsp' = FALSE /\ dspflg' = TRUE
    BY <1>1, <1>3, <1>4 DEF TaskBody, IInv, TypeInv
  <2>2. saved_iipm = IIPM_ENAALL /\ basepri = IIPM_LOCK
    BY <1>1, <1>3, <1>4, EnabledMask
  <2> QED
    BY <1>1, <2>1, <2>2, DispatchLemma
<1>5. CASE ~(dspflg /\ p_schedtsk' # p_schedtsk)
  <2>1. EndsAt("unlock1")
    BY <1>5 DEF TaskBody
  <2>2. saved_iipm = IIPM_ENAALL <=> ipmflg
    BY <1>1, <1>2 DEF OwnMask
  <2> QED
    BY <1>1, <1>2, <1>3, <1>5, <2>1, <2>2, TaskEnd DEF IInv, TypeInv
<1> QED
  BY <1>4, <1>5

LEMMA WaitBodyStep ==
  ASSUME IInv, WaitBody
  PROVE  IInv'
<1>1. /\ stack = << >> /\ Executing /\ Running.pc = "body"
      /\ Running.op = "wait" /\ dispatch
      /\ p_schedtsk' \in Task \cup {NULL}
      /\ UNCHANGED << basepri, primask, faultmask, saved_iipm, lock_flag,
                      p_runtsk, reqflg, ipmflg, disdsp, dspflg, pend >>
  BY DEF WaitBody, TaskAt, At, maskVars, lockVars, flagVars
<1>2. dspflg /\ ipmflg /\ ~disdsp
  BY <1>1 DEF IInv, ExecutingInv, FlagsInv
<1>3. ipmflg' = TRUE /\ disdsp' = FALSE /\ dspflg' = TRUE
  BY <1>1, <1>2 DEF IInv, TypeInv
<1>4. saved_iipm = IIPM_ENAALL /\ basepri = IIPM_LOCK
  BY <1>1, <1>2, EnabledMask
<1> QED
  BY <1>1, <1>3, <1>4, DispatchLemma

\* ena_dsp and chg_ipm once dispatching is enabled and no mask is left.
LEMMA PendingLemma ==
  ASSUME IInv, stack = << >>, Executing, Running.pc = "body", DispatchPending,
         UNCHANGED << primask, faultmask, lock_flag, p_runtsk, p_schedtsk,
                      pend, reqflg >>,
         ipmflg' = TRUE, disdsp' = FALSE, dspflg' = TRUE,
         saved_iipm' = IIPM_ENAALL, basepri' = IIPM_LOCK
  PROVE  IInv'
<1>1. p_schedtsk' \in Task \cup {NULL} /\ IIPM_ENAALL \in Nat
  BY DEF IInv, TypeInv, IIPM_ENAALL
<1>2. CASE p_runtsk # p_schedtsk
  <2>1. dispatch
    BY <1>2 DEF DispatchPending
  <2> QED
    BY <1>1, <2>1, DispatchLemma
<1>3. CASE p_runtsk = p_schedtsk
  <2>1. EndsAt("unlock1")
    BY <1>3 DEF DispatchPending
  <2>2. basepri' = LockMask(saved_iipm')
    BY DEF LockMask
  <2> QED
    BY <1>1, <1>3, <2>1, <2>2, TaskEnd
<1> QED
  BY <1>2, <1>3

LEMMA dis_dspStep ==
  ASSUME IInv, dis_dsp
  PROVE  IInv'
<1>1. /\ stack = << >> /\ Executing /\ Running.pc = "body"
      /\ disdsp' = TRUE /\ dspflg' = FALSE /\ EndsAt("unlock1")
      /\ UNCHANGED << basepri, primask, faultmask, saved_iipm, lock_flag,
                      p_runtsk, p_schedtsk, reqflg, ipmflg, pend >>
  BY DEF dis_dsp, TaskAt, At, maskVars, lockVars, schedVars
<1>2. OwnMask(saved_iipm, ipmflg) /\ basepri = LockMask(saved_iipm)
  BY <1>1, BodyFacts
<1>3. saved_iipm = IIPM_ENAALL <=> ipmflg
  BY <1>1, <1>2 DEF OwnMask
<1> QED
  BY <1>1, <1>2, <1>3, TaskEnd DEF IInv, TypeInv

LEMMA ena_dspStep ==
  ASSUME IInv, ena_dsp
  PROVE  IInv'
<1>1. /\ stack = << >> /\ Executing /\ Running.pc = "body"
      /\ disdsp' = FALSE
      /\ IF ipmflg THEN dspflg' = TRUE /\ DispatchPending
                   ELSE dspflg' = dspflg /\ EndsAt("unlock1")
      /\ UNCHANGED << basepri, primask, faultmask, saved_iipm, lock_flag,
                      p_runtsk, p_schedtsk, reqflg, ipmflg, pend >>
  BY DEF ena_dsp, TaskAt, At, maskVars, lockVars, schedVars
<1>2. CASE ipmflg
  <2>1. saved_iipm = IIPM_ENAALL /\ basepri = IIPM_LOCK
    BY <1>1, <1>2, EnabledMask
  <2>2. ipmflg' = TRUE
    BY <1>1, <1>2 DEF IInv, TypeInv
  <2> QED
    BY <1>1, <1>2, <2>1, <2>2, PendingLemma
<1>3. CASE ~ipmflg
  <2>1. OwnMask(saved_iipm, ipmflg) /\ basepri = LockMask(saved_iipm)
    BY <1>1, BodyFacts
  <2>2. saved_iipm = IIPM_ENAALL <=> ipmflg
    BY <1>1, <2>1 DEF OwnMask
  <2>3. ~dspflg
    BY <1>3 DEF IInv, FlagsInv
  <2> QED
    BY <1>1, <1>3, <2>1, <2>2, <2>3, TaskEnd DEF IInv, TypeInv
<1> QED
  BY <1>2, <1>3

LEMMA SetIpm ==
  ASSUME NEW iipm \in Nat, x_set_ipm(iipm)
  PROVE  saved_iipm' = iipm /\ basepri' = LockMask(iipm)
BY PrcAssumption DEF x_set_ipm, LockMask, IIPM_ENAALL

LEMMA chg_ipmStep ==
  ASSUME IInv, NEW iipm \in Iipm, chg_ipm(iipm)
  PROVE  IInv'
<1>1. /\ stack = << >> /\ Executing /\ Running.pc = "body"
      /\ iipm \in Nat /\ x_set_ipm(iipm) /\ ipmflg' = (iipm = IIPM_ENAALL)
      /\ IF ipmflg'
           THEN IF ~disdsp THEN dspflg' = TRUE /\ DispatchPending
                           ELSE dspflg' = dspflg /\ EndsAt("unlock1")
           ELSE dspflg' = FALSE /\ EndsAt("unlock1")
      /\ UNCHANGED << primask, faultmask, lock_flag,
                      p_runtsk, p_schedtsk, reqflg, disdsp, pend >>
  BY PrcAssumption DEF chg_ipm, TaskAt, At, schedVars
<1>2. saved_iipm' = iipm /\ basepri' = LockMask(iipm)
  BY <1>1, SetIpm
<1>3. CASE iipm = IIPM_ENAALL /\ ~disdsp
  <2>1. ipmflg' = TRUE /\ disdsp' = FALSE /\ basepri' = IIPM_LOCK
    BY <1>1, <1>2, <1>3 DEF IInv, TypeInv, LockMask
  <2> QED
    BY <1>1, <1>2, <1>3, <2>1, PendingLemma
<1>4. CASE ~(iipm = IIPM_ENAALL /\ ~disdsp)
  <2>1. disdsp => ~dspflg
    BY DEF IInv, FlagsInv
  <2>2. EndsAt("unlock1") /\ dspflg' = FALSE
    BY <1>1, <1>4, <2>1 DEF IInv, TypeInv
  <2>3. ipmflg' \in BOOLEAN /\ (ipmflg' <=> iipm = IIPM_ENAALL)
    BY <1>1
  <2> QED
    BY <1>1, <1>2, <1>4, <2>2, <2>3, TaskEnd DEF IInv, TypeInv
<1> QED
  BY <1>3, <1>4

LEMMA ext_tskStep ==
  ASSUME IInv, ext_tsk
  PROVE  IInv'
<1> USE DEF IInv
<1> DEFINE c == [Locals0(tcb[p_runtsk]) EXCEPT !.pc = "user",
                                                !.resume = "start_r"]
<1>1. /\ stack = << >> /\ Executing /\ Running.pc \in {"body", "locked"}
      /\ x_set_ipm(IIPM_ENAALL)
      /\ disdsp' = FALSE /\ ipmflg' = TRUE /\ dspflg' = TRUE
      /\ p_schedtsk' \in Task \cup {NULL}
      /\ tcb' = [tcb EXCEPT ![p_runtsk] = c]
      /\ thread' = "dispatcher"
      /\ UNCHANGED << primask, faultmask, lock_flag, p_runtsk, reqflg, stack,
                      pend >>
  BY DEF ext_tsk, TaskAt, At
<1>2. saved_iipm' = IIPM_ENAALL /\ basepri' = IIPM_LOCK
  BY <1>1, SetIpm DEF IIPM_ENAALL, LockMask
<1>3. /\ thread = "task" /\ p_runtsk \in Task /\ ~reqflg
      /\ lock_flag /\ ~primask /\ ~faultmask /\ tcb \in [Task -> TcbType]
  BY <1>1, TaskFacts DEF TypeInv, ExecutingInv
<1>4. c \in TcbType /\ c.pc = "user" /\ c.resume = "start_r"
  BY <1>3 DEF TcbType, Locals0, Pc, Op
<1> HIDE DEF c
<1>5. TypeInv'
  BY <1>1, <1>2, <1>3, <1>4, PrcAssumption DEF TypeInv, Thread, IIPM_ENAALL
<1>6. ExecutingInv' /\ FramesInv' /\ BottomInv'
  BY <1>1 DEF ExecutingInv, Executing, FramesInv, BottomInv
<1>7. ThreadInv'
  BY <1>1, <1>2, <1>3 DEF ThreadInv
<1>8. TasksInv'
  BY <1>1, <1>3, <1>4 DEF TasksInv, TaskCode, IdleCode, Resumable
<1>9. FlagsInv'
  BY <1>1, <1>3 DEF FlagsInv
<1> QED
  BY <1>5, <1>6, <1>7, <1>8, <1>9

LEMMA ServiceCallStep ==
  ASSUME IInv, ServiceCall
  PROVE  IInv'
BY BeginStep, TaskBodyStep, WaitBodyStep, HandlerBodyStep, dis_dspStep,
   ena_dspStep, chg_ipmStep, loc_cpuStep, ext_tskStep DEF ServiceCall

----------------------------------------------------------------------------
(***************************************************************************)
(* Dispatcher and idle loop.                                               *)
(***************************************************************************)
\* No handler is active, before and after the step.
LEMMA NoHandler ==
  ASSUME IInv, stack = << >>, UNCHANGED << stack, tcb, ipmflg, disdsp, dspflg >>
  PROVE  /\ FramesInv' /\ BottomInv'
         /\ thread' # "task" => ExecutingInv'
         /\ thread' = "task" => ThreadInv'
BY DEF IInv, FramesInv, BottomInv, ExecutingInv, Executing, ThreadInv

LEMMA start_dispatchStep ==
  ASSUME IInv, start_dispatch
  PROVE  IInv'
<1> USE DEF IInv
<1>1. /\ stack = << >> /\ thread = "start_dispatch"
      /\ basepri' = IIPM_LOCK /\ faultmask' = FALSE /\ thread' = "dispatcher"
      /\ UNCHANGED << primask, lock_flag, saved_iipm, p_runtsk, p_schedtsk,
                      reqflg, ipmflg, disdsp, dspflg, tcb, stack, pend >>
  BY DEF start_dispatch, ThreadAt, lockVars, schedVars, flagVars
<1>2. TypeInv'
  BY <1>1, PrcAssumption DEF TypeInv, Thread
<1>3. ThreadInv'
  BY <1>1 DEF ThreadInv
<1>4. TasksInv' /\ FlagsInv'
  BY <1>1 DEF TasksInv, FlagsInv, TaskCode, IdleCode
<1> QED
  BY <1>1, <1>2, <1>3, <1>4, NoHandler

LEMMA dispatcherStep ==
  ASSUME IInv, dispatcher
  PROVE  IInv'
<1> USE DEF IInv
<1> DEFINE t == p_schedtsk
<1>1. /\ stack = << >> /\ thread = "dispatcher" /\ p_runtsk' = t
      /\ thread' = IF t = NULL THEN "dispatcher_1"
                   ELSE IF tcb[t].resume = "dispatch_r" THEN "task"
                   ELSE tcb[t].resume
      /\ UNCHANGED << basepri, primask, faultmask, lock_flag, saved_iipm,
                      p_schedtsk, reqflg, ipmflg, disdsp, dspflg, tcb, stack,
                      pend >>
  BY DEF dispatcher, ThreadAt, maskVars, lockVars, flagVars
<1>2. /\ basepri = IIPM_LOCK /\ ~primask /\ ~faultmask /\ lock_flag
      /\ saved_iipm = IIPM_ENAALL /\ dspflg /\ ipmflg /\ ~disdsp
  BY <1>1 DEF ThreadInv, FlagsInv
<1>3. \A u \in Task : Resumable(tcb[u])
  BY <1>1 DEF TasksInv, TaskCode
<1>4. t # NULL => t \in Task /\ tcb[t] \in TcbType
  BY DEF TypeInv
<1>5. t # NULL => tcb[t].resume \in {"start_r", "dispatch_r", "ret_int_r"}
  BY <1>4 DEF TcbType
<1> HIDE DEF t
<1>6. CASE t = NULL
  <2>1. thread' = "dispatcher_1"
    BY <1>1, <1>6
  <2>2. TypeInv'
    BY <1>1, <2>1 DEF TypeInv, Thread, t
  <2>3. ThreadInv'
    BY <1>1, <1>2, <2>1 DEF ThreadInv
  <2>4. TasksInv' /\ FlagsInv'
    BY <1>1, <1>2, <1>3, <1>6, <2>1 DEF TasksInv, FlagsInv, TaskCode, IdleCode, t
  <2> QED
    BY <1>1, <2>1, <2>2, <2>3, <2>4, NoHandler
<1>7. CASE t # NULL /\ tcb[t].resume = "dispatch_r"
  <2>1. thread' = "task" /\ tcb[t].pc = "unlock1" /\ t \in Task
    BY <1>1, <1>3, <1>4, <1>7 DEF Resumable
  <2>2. TypeInv'
    BY <1>1, <2>1 DEF TypeInv, Thread, t
  <2>3. ExecutingInv'
    <3>1. Executing' /\ Running' = tcb[t] /\ stack' = << >>
      BY <1>1, <2>1 DEF Executing, Running
    <3>2. OwnMask(saved_iipm, ipmflg)' /\ basepri' = LockMask(saved_iipm)'
      BY <1>1, <1>2, <3>1 DEF OwnMask, LockMask, IIPM_ENAALL
    <3> QED
      BY <1>1, <1>2, <2>1, <3>1, <3>2 DEF ExecutingInv
  <2>4. TasksInv' /\ FlagsInv'
    BY <1>1, <1>2, <1>3, <2>1 DEF TasksInv, FlagsInv, TaskCode, IdleCode, t
  <2> QED
    BY <1>1, <2>1, <2>2, <2>3, <2>4, NoHandler
<1>8. CASE t # NULL /\ tcb[t].resume # "dispatch_r"
  <2>1. /\ thread' = tcb[t].resume /\ thread' \in {"start_r", "ret_int_r"}
        /\ t \in Task
        /\ thread' = "start_r" => tcb[t].pc = "user"
        /\ thread' = "ret_int_r" => Preempted(tcb[t])
    BY <1>1, <1>3, <1>4, <1>5, <1>8 DEF Resumable
  <2>2. TypeInv'
    BY <1>1, <2>1 DEF TypeInv, Thread, t
  <2>3. ThreadInv'
    BY <1>1, <1>2, <2>1 DEF ThreadInv
  <2>4. TasksInv'
    BY <1>1, <1>3, <2>1 DEF TasksInv, TaskCode, IdleCode
  <2>5. FlagsInv'
    BY <1>1, <1>2, <2>1 DEF FlagsInv, t
  <2> QED
    BY <1>1, <2>1, <2>2, <2>3, <2>4, <2>5, NoHandler
<1> QED
  BY <1>6, <1>7, <1>8

\* A task that is entered with the mask 0 and the CPU unlocked.
LEMMA EnterTask ==
  ASSUME IInv, stack = << >>, thread \in TaskCode, dspflg, ipmflg,
         Preempted(tcb[p_runtsk]), ~primask, ~faultmask, ~lock_flag',
         basepri' = IIPM_ENAALL, thread' = "task",
         UNCHANGED << stack, tcb, p_runtsk, primask, faultmask, ipmflg, dspflg,
                      saved_iipm >>
  PROVE  ExecutingInv'
<1>1. Executing' /\ Running' = tcb[p_runtsk] /\ stack' = << >>
  BY DEF Executing, Running
<1>2. OwnMask(basepri, ipmflg)'
  BY <1>1 DEF OwnMask, IIPM_ENAALL
<1> QED
  BY <1>1, <1>2 DEF ExecutingInv, Preempted

LEMMA start_rStep ==
  ASSUME IInv, start_r_1 \/ start_r_2
  PROVE  IInv'
<1> USE DEF IInv
<1>1. CASE start_r_1
  <2>1. /\ stack = << >> /\ thread = "start_r" /\ lock_flag' = FALSE
        /\ thread' = "start_r_2"
        /\ UNCHANGED << basepri, primask, faultmask, saved_iipm, p_runtsk,
                        p_schedtsk, reqflg, ipmflg, disdsp, dspflg, tcb, stack,
                        pend >>
    BY <1>1 DEF start_r_1, ThreadAt, maskVars, schedVars, flagVars
  <2>2. TypeInv'
    BY <2>1 DEF TypeInv, Thread
  <2>3. ThreadInv'
    BY <2>1 DEF ThreadInv
  <2>4. TasksInv' /\ FlagsInv'
    BY <2>1 DEF TasksInv, FlagsInv, TaskCode, IdleCode
  <2> QED
    BY <2>1, <2>2, <2>3, <2>4, NoHandler
<1>2. CASE start_r_2
  <2>1. /\ stack = << >> /\ thread = "start_r_2" /\ basepri' = 0
        /\ thread' = "task"
        /\ UNCHANGED << primask, faultmask, lock_flag, saved_iipm, p_runtsk,
                        p_schedtsk, reqflg, ipmflg, disdsp, dspflg, tcb, stack,
                        pend >>
    BY <1>2 DEF start_r_2, ThreadAt, lockVars, schedVars, flagVars
  <2>2. TypeInv'
    BY <2>1 DEF TypeInv, Thread
  <2>3. /\ dspflg /\ ipmflg /\ ~primask /\ ~faultmask /\ ~lock_flag
        /\ tcb[p_runtsk].pc = "user"
    BY <2>1 DEF FlagsInv, ThreadInv, TasksInv
  <2>4. ExecutingInv'
    BY <2>1, <2>3, EnterTask DEF TaskCode, Preempted, IIPM_ENAALL
  <2>5. TasksInv' /\ FlagsInv'
    BY <2>1 DEF TasksInv, FlagsInv, TaskCode, IdleCode
  <2> QED
    BY <2>1, <2>2, <2>4, <2>5, NoHandler
<1> QED
  BY <1>1, <1>2

\* The idle loop; it runs with interrupts open only where it has no task and
\* nothing of the kernel's in hand.
LEMMA IdleStep ==
  ASSUME IInv, dispatcher_1 \/ dispatcher_2 \/ wfi \/ cpsie \/ idle_lock \/ idle_test
  PROVE  IInv'
<1> USE DEF IInv
<1>1. /\ stack = << >>
      /\ UNCHANGED << faultmask, p_runtsk, p_schedtsk, ipmflg, disdsp, dspflg,
                      tcb, stack, pend >>
  BY DEF dispatcher_1, dispatcher_2, wfi, cpsie, idle_lock, idle_test, ThreadAt,
         maskVars, lockVars, schedVars, flagVars
<1>2. CASE dispatcher_1
  <2>1. /\ thread = "dispatcher_1" /\ thread' = "dispatcher_2"
        /\ lock_flag' = FALSE /\ UNCHANGED << basepri, primask, saved_iipm, reqflg >>
    BY <1>2 DEF dispatcher_1, ThreadAt, maskVars, schedVars
  <2> QED
    BY <1>1, <2>1, NoHandler DEF TypeInv, Thread, ThreadInv, TasksInv, FlagsInv,
       TaskCode, IdleCode
<1>3. CASE dispatcher_2
  <2>1. /\ thread = "dispatcher_2" /\ thread' = "wfi" /\ primask' = TRUE
        /\ basepri' = 0 /\ UNCHANGED << lock_flag, saved_iipm, reqflg >>
    BY <1>3 DEF dispatcher_2, ThreadAt, lockVars, schedVars
  <2> QED
    BY <1>1, <2>1, NoHandler DEF TypeInv, Thread, ThreadInv, TasksInv, FlagsInv,
       TaskCode, IdleCode, IIPM_ENAALL
<1>4. CASE wfi
  <2>1. /\ thread = "wfi" /\ thread' = "cpsie"
        /\ UNCHANGED << basepri, primask, lock_flag, saved_iipm, reqflg >>
    BY <1>4 DEF wfi, ThreadAt, maskVars, lockVars, schedVars
  <2> QED
    BY <1>1, <2>1, NoHandler DEF TypeInv, Thread, ThreadInv, TasksInv, FlagsInv,
       TaskCode, IdleCode
<1>5. CASE cpsie
  <2>1. /\ thread = "cpsie" /\ thread' = "lock" /\ primask' = FALSE
        /\ UNCHANGED << basepri, lock_flag, saved_iipm, reqflg >>
    BY <1>5 DEF cpsie, ThreadAt, lockVars, schedVars
  <2> QED
    BY <1>1, <2>1, NoHandler DEF TypeInv, Thread, ThreadInv, TasksInv, FlagsInv,
       TaskCode, IdleCode
<1>6. CASE idle_lock
  <2>1. /\ thread = "lock" /\ thread' = "test" /\ basepri' = IIPM_LOCK
        /\ UNCHANGED << primask, lock_flag, saved_iipm, reqflg >>
    BY <1>6 DEF idle_lock, ThreadAt, lockVars, schedVars
  <2> QED
    BY <1>1, <2>1, NoHandler, PrcAssumption DEF TypeInv, Thread, ThreadInv,
       TasksInv, FlagsInv, TaskCode, IdleCode
<1>7. CASE idle_test
  <2>1. /\ thread = "test" /\ UNCHANGED << basepri, primask >>
        /\ IF reqflg
             THEN /\ reqflg' = FALSE /\ lock_flag' = TRUE /\ saved_iipm' = 0
                  /\ thread' = "dispatcher"
             ELSE thread' = "dispatcher_2"
                  /\ UNCHANGED << reqflg, lock_flag, saved_iipm >>
    BY <1>7 DEF idle_test, ThreadAt, maskVars, lockVars
  <2>2. CASE reqflg
    <3>1. /\ thread' = "dispatcher" /\ reqflg' = FALSE /\ lock_flag' = TRUE
          /\ saved_iipm' = IIPM_ENAALL
      BY <2>1, <2>2 DEF IIPM_ENAALL
    <3>2. ~faultmask /\ ~primask /\ basepri = IIPM_LOCK
      BY <1>1, <2>1 DEF ThreadInv, TypeInv
    <3>3. TypeInv'
      BY <1>1, <2>1, <3>1 DEF TypeInv, Thread, IIPM_ENAALL
    <3>4. ThreadInv'
      BY <1>1, <2>1, <3>1, <3>2 DEF ThreadInv
    <3>5. TasksInv' /\ FlagsInv'
      BY <1>1, <2>1, <2>2 DEF TasksInv, FlagsInv, TaskCode, IdleCode
    <3> QED
      BY <1>1, <3>1, <3>3, <3>4, <3>5, NoHandler
  <2>3. CASE ~reqflg
    BY <1>1, <2>1, <2>3, NoHandler DEF TypeInv, Thread, ThreadInv, TasksInv,
       FlagsInv, TaskCode, IdleCode
  <2> QED
    BY <2>2, <2>3
<1> QED
  BY <1>2, <1>3, <1>4, <1>5, <1>6, <1>7

LEMMA DispatcherStep ==
  ASSUME IInv, Dispatcher
  PROVE  IInv'
BY start_dispatchStep, dispatcherStep, start_rStep, IdleStep DEF Dispatcher

----------------------------------------------------------------------------
(***************************************************************************)
(* Interrupts.                                                             *)
(***************************************************************************)
LEMMA RaiseStep ==
  ASSUME IInv, NEW i \in Intno, Raise(i)
  PROVE  IInv'
<1> USE DEF IInv
<1>1. /\ pend' \subseteq Intno
      /\ UNCHANGED << basepri, primask, faultmask, lock_flag, saved_iipm,
                      p_runtsk, p_schedtsk, reqflg, ipmflg, disdsp, dspflg,
                      thread, tcb, stack >>
  BY DEF Raise, TypeInv, maskVars, lockVars, schedVars, flagVars, codeVars
<1>2. TypeInv' /\ ThreadInv' /\ TasksInv' /\ FlagsInv'
  BY <1>1 DEF TypeInv, ThreadInv, TasksInv, FlagsInv
<1>3. ExecutingInv' /\ FramesInv' /\ BottomInv'
  BY <1>1 DEF ExecutingInv, Executing, Running, OwnMask, LockMask, FramesInv,
     BottomInv
<1> QED
  BY <1>2, <1>3

\* What an interrupt that is let in can find: code outside the critical
\* section, with the mask of its own.
LEMMA TakenLemma ==
  ASSUME IInv, NEW i \in Intno, ~primask, ~faultmask, ~Masks(basepri, i),
         thread # "start_dispatch"
  PROVE  /\ ~lock_flag
         /\ Executing => Running.pc \in {"entry", "user", "lock1", "lock2"}
         /\ thread \in {"task", "lock"}
<1>1. basepri = 0 \/ int_iipm[i] < basepri
  <2>1. int_iipm[i] \in Nat /\ basepri \in Nat
    BY PrcAssumption DEF PrcAssumption, IInv, TypeInv
  <2> QED
    BY <2>1 DEF Masks
<1>2. int_iipm[i] \in Nat /\ int_iipm[i] >= IIPM_LOCK /\ IIPM_LOCK \in Nat \ {0}
  BY PrcAssumption DEF PrcAssumption
<1>3. basepri # IIPM_LOCK /\ basepri \in Nat
  BY <1>1, <1>2 DEF IInv, TypeInv
<1>4. ASSUME NEW m \in Nat PROVE basepri # LockMask(m)
  BY <1>1, <1>2, <1>3 DEF LockMask, IIPM_ENAALL
<1>5. CASE Executing
  <2>1. Running.pc \in Pc \cup {"entry", "ret_int_1", "ret_int_2", "ret_int_3"}
        /\ Running.iipm \in Nat
    BY <1>5, RunningType DEF IInv, FrameType, TcbType
  <2>2. saved_iipm \in Nat
    BY DEF IInv, TypeInv
  <2>3. Running.pc \in {"entry", "user", "lock1", "lock2"}
    BY <1>4, <1>5, <2>1, <2>2 DEF IInv, ExecutingInv, Pc
  <2>4. thread \in {"task", "lock"}
    BY <1>5 DEF IInv, BottomInv, Executing
  <2> QED
    BY <1>5, <2>3, <2>4 DEF IInv, ExecutingInv
<1>6. CASE ~Executing
  BY <1>3, <1>6 DEF IInv, ThreadInv, Executing, TypeInv, Thread
<1> QED
  BY <1>5, <1>6

LEMMA core_int_entry_1Step ==
  ASSUME IInv, NEW i \in Intno, core_int_entry_1(i)
  PROVE  IInv'
<1> USE DEF IInv
<1> DEFINE f == [int |-> i, mask |-> basepri,
                 psp |-> stack = << >> /\ thread \notin IdleCode,
                 pc |-> "entry", op |-> "call", iipm |-> 0]
<1>1. /\ ~primask /\ ~faultmask /\ ~Masks(basepri, i)
      /\ stack # << >> => int_iipm[i] < int_iipm[stack[Len(stack)].int]
      /\ pend' \subseteq Intno /\ stack' = Append(stack, f)
      /\ UNCHANGED << basepri, primask, faultmask, lock_flag, saved_iipm,
                      p_runtsk, p_schedtsk, reqflg, ipmflg, disdsp, dspflg,
                      thread, tcb >>
  BY DEF core_int_entry_1, TypeInv, maskVars, lockVars, schedVars, flagVars
<1>2. thread # "start_dispatch"
  BY <1>1 DEF ThreadInv, BottomInv
<1>3. /\ ~lock_flag /\ thread \in {"task", "lock"}
      /\ Executing => Running.pc \in {"entry", "user", "lock1", "lock2"}
  BY <1>1, <1>2, TakenLemma
<1>4. /\ f \in FrameType /\ f.int = i /\ f.mask = basepri /\ f.pc = "entry"
      /\ f.op = "call"
      /\ f.psp <=> (stack = << >> /\ thread = "task")
  <2>1. basepri \in Nat /\ 0 \in Nat /\ "call" \in Op
    BY DEF TypeInv, Op
  <2>2. (stack = << >> /\ thread \notin IdleCode) \in BOOLEAN
    OBVIOUS
  <2>3. f \in FrameType
    BY <2>1, <2>2 DEF FrameType
  <2>4. thread \notin IdleCode <=> thread = "task"
    BY <1>3 DEF IdleCode
  <2> QED
    BY <2>3, <2>4
<1> HIDE DEF f
<1>5. /\ stack \in Seq(FrameType) /\ Len(stack) \in Nat
      /\ stack' \in Seq(FrameType) /\ Len(stack') = Len(stack) + 1
      /\ stack' # << >> /\ stack'[Len(stack) + 1] = f
      /\ \A n \in 1 .. Len(stack) : stack'[n] = stack[n]
  BY <1>1, <1>4 DEF TypeInv
<1>6. TypeInv'
  BY <1>1, <1>5 DEF TypeInv
<1>7. ExecutingInv'
  <2>1. Running' = f
    BY <1>5 DEF Running
  <2> QED
    BY <1>1, <1>3, <1>4, <1>5, <2>1 DEF ExecutingInv
<1>8. FramesInv'
  <2>0. ASSUME NEW l \in 1 .. Len(stack'), NEW n \in 1 .. Len(stack'), l < n
        PROVE  int_iipm[stack'[n].int] < int_iipm[stack'[l].int]
    <3>1. l \in 1 .. Len(stack) /\ stack'[l] = stack[l]
      BY <1>5, <2>0
    <3>2. \A k \in 1 .. Len(stack) : int_iipm[stack[k].int] \in Nat
      BY <1>5, FrameFacts
    <3>3. CASE n = Len(stack')
      <4>1. stack'[n].int = i /\ Len(stack) \in 1 .. Len(stack)
            /\ stack # << >> /\ int_iipm[i] \in Nat
        BY <1>4, <1>5, <3>1, <3>3, PrcAssumption DEF PrcAssumption
      <4>2. int_iipm[i] < int_iipm[stack[Len(stack)].int]
        BY <1>1, <4>1
      <4>3. l = Len(stack) \/ int_iipm[stack[Len(stack)].int] < int_iipm[stack[l].int]
        BY <1>5, <3>1, <4>1 DEF FramesInv
      <4> QED
        BY <3>1, <3>2, <4>1, <4>2, <4>3
    <3>4. CASE n # Len(stack')
      <4>1. n \in 1 .. Len(stack) /\ stack'[n] = stack[n]
        BY <1>5, <3>4
      <4> QED
        BY <2>0, <3>1, <4>1 DEF FramesInv
    <3> QED
      BY <3>3, <3>4
  <2> SUFFICES ASSUME NEW n \in 1 .. Len(stack)
               PROVE  /\ ~stack'[n + 1].psp
                      /\ IF stack'[n].pc = "entry"
                           THEN stack'[n + 1].mask = stack'[n].mask
                           ELSE Interrupted(stack'[n],
                                  stack'[n + 1].mask = int_iipm[stack'[n].int],
                                  stack'[n + 1].mask)
    BY <1>5, <2>0 DEF FramesInv
  <2>1. stack'[n] = stack[n]
    BY <1>5
  <2>2. CASE n = Len(stack)
    <3>1. /\ stack'[n + 1] = f /\ stack # << >> /\ Executing
          /\ Running = stack[n]
      BY <1>5, <2>2 DEF Executing, Running
    <3>2. basepri = int_iipm[stack[n].int] \/ stack[n].pc = "entry"
      BY <1>3, <3>1 DEF ExecutingInv, OwnMask
    <3> QED
      BY <1>1, <1>3, <1>4, <2>1, <2>2, <3>1, <3>2
         DEF ExecutingInv, Interrupted
  <2>3. CASE n # Len(stack)
    <3>1. n \in 1 .. Len(stack) - 1 /\ stack'[n + 1] = stack[n + 1]
      BY <1>5, <2>3
    <3> QED
      BY <2>1, <3>1 DEF FramesInv
  <2> QED
    BY <2>2, <2>3
<1>9. BottomInv'
  <2>1. CASE stack = << >>
    <3>1. stack'[1] = f
      BY <1>5, <2>1
    <3>2. thread = "lock" => basepri = IIPM_ENAALL
      BY <2>1 DEF ThreadInv
    <3>3. thread = "task" =>
            /\ tcb[p_runtsk].pc \in {"user", "lock1", "lock2"}
            /\ basepri = IIPM_ENAALL <=> ipmflg
            /\ tcb[p_runtsk].pc = "lock2" => tcb[p_runtsk].iipm = basepri
            /\ tcb[p_runtsk].op = "wait" => dspflg
      <4> SUFFICES ASSUME thread = "task"
                   PROVE  /\ tcb[p_runtsk].pc \in {"user", "lock1", "lock2"}
                          /\ basepri = IIPM_ENAALL <=> ipmflg
                          /\ tcb[p_runtsk].pc = "lock2" =>
                               tcb[p_runtsk].iipm = basepri
                          /\ tcb[p_runtsk].op = "wait" => dspflg
        OBVIOUS
      <4>1. /\ Executing /\ Running = tcb[p_runtsk] /\ Running \in TcbType
        BY <2>1, RunningType DEF Executing
      <4>2. Running.pc \in {"user", "lock1", "lock2"}
        BY <1>3, <4>1 DEF TcbType, Pc
      <4> QED
        BY <2>1, <4>1, <4>2 DEF ExecutingInv, OwnMask
    <3> QED
      BY <1>1, <1>3, <1>4, <2>1, <3>1, <3>2, <3>3 DEF BottomInv, Interrupted
  <2>2. CASE stack # << >>
    <3>1. stack'[1] = stack[1]
      BY <1>5, <2>2
    <3> QED
      BY <1>1, <2>2, <3>1 DEF BottomInv
  <2> QED
    BY <2>1, <2>2
<1>10. ThreadInv' /\ TasksInv'
  BY <1>1, <1>5 DEF ThreadInv, TasksInv
<1>11. FlagsInv'
  BY <1>1, <1>3, <1>5 DEF FlagsInv
<1> QED
  BY <1>6, <1>7, <1>8, <1>9, <1>10, <1>11

LEMMA SetsFrame ==
  ASSUME TypeInv, TasksInv, stack # << >>,
         NEW p \in Pc \cup {"entry", "ret_int_1", "ret_int_2", "ret_int_3"}
  PROVE  Executing /\ Sets([Running EXCEPT !.pc = p], p, Running.op, Running.iipm)
<1>1. Executing
  BY DEF Executing
<1>2. Running \in FrameType
  BY <1>1, RunningType
<1> QED
  BY <1>1, <1>2 DEF Sets, FrameType

LEMMA core_int_entry_2Step ==
  ASSUME IInv, core_int_entry_2
  PROVE  IInv'
<1> USE DEF IInv
<1> DEFINE c == [Running EXCEPT !.pc = "user"]
<1>1. /\ stack # << >> /\ Running.pc = "entry" /\ Goes(c)
      /\ basepri' = int_iipm[Running.int]
      /\ UNCHANGED << primask, faultmask, lockVars, schedVars, flagVars, pend >>
  BY DEF core_int_entry_2, HandlerAt, At, GoesTo
<1>2. Executing /\ Sets(c, "user", Running.op, Running.iipm)
  <2>1. "user" \in Pc \cup {"entry", "ret_int_1", "ret_int_2", "ret_int_3"}
    BY DEF Pc
  <2> QED
    BY <1>1, <2>1, SetsFrame, Zenon
<1> HIDE DEF c
<1>3. UNCHANGED << saved_iipm, lock_flag >>
  BY <1>1 DEF lockVars
<1>4. basepri' \in Nat
  <2>1. Running.int \in Intno
    BY <1>1, <1>2, RunningType DEF FrameType
  <2> QED
    BY <1>1, <2>1, PrcAssumption DEF PrcAssumption
<1>5. ExecutingInv'
  <2>1. OwnMask(basepri', ipmflg')
    BY <1>1 DEF OwnMask
  <2>2. ~lock_flag'
    BY <1>1, <1>2, <1>3 DEF ExecutingInv
  <2> QED
    BY <1>1, <1>2, <1>3, <2>1, <2>2, ContextLemma DEF schedVars, flagVars
<1> QED
  BY <1>1, <1>2, <1>3, <1>4, <1>5, QuietLemma DEF TypeInv

\* The steps of ret_int under FAULTMASK.
LEMMA ExitLemma ==
  ASSUME IInv, stack # << >>, ~lock_flag,
         Running.pc \in {"user", "ret_int_1"},
         NEW p \in {"ret_int_1", "ret_int_2", "ret_int_3"}, GoesTo(p),
         p = "ret_int_2" => ~(Running.psp /\ reqflg),
         p = "ret_int_3" => Running.psp /\ reqflg,
         faultmask' = TRUE,
         UNCHANGED << basepri, primask, lock_flag, saved_iipm, schedVars,
                      flagVars, pend >>
  PROVE  IInv'
<1> USE DEF IInv
<1> DEFINE c == [Running EXCEPT !.pc = p]
<1>1. Goes(c)
  BY DEF GoesTo
<1>2. Executing /\ Sets(c, p, Running.op, Running.iipm)
  BY SetsFrame, Zenon
<1> HIDE DEF c
<1>3. UNCHANGED << p_runtsk, p_schedtsk, reqflg, ipmflg, disdsp, dspflg >>
  BY DEF schedVars, flagVars
<1>4. /\ Executing' /\ Running' = c /\ thread' = thread /\ stack' # << >>
  BY <1>1, <1>2, <1>3, GoesLemma
<1>5. c.pc = p /\ c.psp = Running.psp
  BY <1>2 DEF Sets
<1>6. ExecutingInv'
  <2>1. ~primask /\ ~lock_flag'
    BY <1>2 DEF ExecutingInv
  <2> QED
    BY <1>3, <1>4, <1>5, <2>1 DEF ExecutingInv
<1>7. FlagsInv'
  BY <1>3, <1>4 DEF FlagsInv
<1> QED
  BY <1>1, <1>2, <1>3, <1>6, <1>7, CallLemma DEF TypeInv

LEMMA ret_intStep ==
  ASSUME IInv, ~LockedReturn, ret_int
  PROVE  IInv'
<1>1. /\ stack # << >> /\ Executing /\ Running.pc = "user"
      /\ GoesTo("ret_int_1") /\ faultmask' = TRUE
      /\ UNCHANGED << basepri, primask, lock_flag, saved_iipm, schedVars,
                      flagVars, pend >>
  BY DEF ret_int, HandlerAt, At, lockVars
<1>2. ~lock_flag
  BY <1>1 DEF IInv, ExecutingInv
<1> QED
  BY <1>1, <1>2, ExitLemma

LEMMA ret_int_1Step ==
  ASSUME IInv, ret_int_1
  PROVE  IInv'
<1>1. /\ stack # << >> /\ Executing /\ Running.pc = "ret_int_1"
      /\ IF Running.psp /\ reqflg THEN GoesTo("ret_int_3")
                                  ELSE GoesTo("ret_int_2")
      /\ UNCHANGED << basepri, primask, faultmask, lock_flag, saved_iipm,
                      schedVars, flagVars, pend >>
  BY DEF ret_int_1, HandlerAt, At, lockVars, maskVars
<1>2. ~lock_flag /\ faultmask' = TRUE
  BY <1>1 DEF IInv, ExecutingInv, TypeInv
<1>3. CASE Running.psp /\ reqflg
  BY <1>1, <1>2, <1>3, ExitLemma
<1>4. CASE ~(Running.psp /\ reqflg)
  BY <1>1, <1>2, <1>4, ExitLemma
<1> QED
  BY <1>3, <1>4

\* The stack without its last frame.
LEMMA ReturnLemma ==
  ASSUME TypeInv, stack # << >>, Return
  PROVE  /\ Len(stack) \in Nat \ {0} /\ stack' \in Seq(FrameType)
         /\ Len(stack') = Len(stack) - 1
         /\ \A n \in 1 .. Len(stack) - 1 : stack'[n] = stack[n]
         /\ stack' = << >> <=> Len(stack) = 1
<1>1. stack \in Seq(FrameType) /\ Len(stack) \in Nat \ {0}
  BY DEF TypeInv
<1>2. stack' = SubSeq(stack, 1, Len(stack) - 1)
  BY DEF Return
<1>3. \A n \in 1 .. Len(stack) - 1 : stack[n] \in FrameType
  BY <1>1
<1> DEFINE m == Len(stack) - 1
<1>4. m \in Int /\ 1 \in Int /\ (1 <= m => m - 1 + 1 = m) /\ (~(1 <= m) => m = 0)
  <2>1. \A k \in Nat \ {0} :
          LET j == k - 1
          IN  /\ j \in Int /\ 1 \in Int
              /\ 1 <= j => j - 1 + 1 = j
              /\ ~(1 <= j) => j = 0
    OBVIOUS
  <2> QED
    BY <1>1, <2>1
<1>5. /\ SubSeq(stack, 1, m) \in Seq(FrameType)
      /\ Len(SubSeq(stack, 1, m)) = IF 1 <= m THEN m - 1 + 1 ELSE 0
  BY <1>3, <1>4, SubSeqProperties
<1>6. stack' \in Seq(FrameType) /\ Len(stack') = m
  BY <1>2, <1>4, <1>5
<1>7. \A n \in 1 .. m : stack'[n] = stack[n]
  BY <1>1, <1>2
<1>8. stack' = << >> => Len(stack') = 0
  BY EmptySeq
<1>9. stack' # << >> => Len(stack') # 0
  BY <1>6, EmptySeq
<1>10. m = 0 <=> Len(stack) = 1
  BY <1>1
<1> QED
  BY <1>1, <1>6, <1>7, <1>8, <1>9, <1>10

LEMMA NotExecuting ==
  ASSUME stack' = << >>, thread' # "task"
  PROVE  ExecutingInv' /\ FramesInv' /\ BottomInv'
BY DEF ExecutingInv, Executing, FramesInv, BottomInv

LEMMA ret_int_2Step ==
  ASSUME IInv, ret_int_2
  PROVE  IInv'
<1> USE DEF IInv
<1> DEFINE top == Len(stack)
<1>1. /\ stack # << >> /\ Executing /\ Running.pc = "ret_int_2"
      /\ Running = stack[top] /\ Running \in FrameType
      /\ basepri' = Running.mask /\ faultmask' = FALSE
      /\ UNCHANGED << primask, lock_flag, saved_iipm, p_runtsk, p_schedtsk,
                      reqflg, ipmflg, disdsp, dspflg, thread, tcb, pend >>
  BY RunningType DEF ret_int_2, Return, HandlerAt, At, lockVars, schedVars,
     flagVars
<1>2. /\ top \in Nat \ {0} /\ stack' \in Seq(FrameType)
      /\ Len(stack') = top - 1
      /\ \A n \in 1 .. top - 1 : stack'[n] = stack[n]
      /\ stack' = << >> <=> top = 1
  BY <1>1, ReturnLemma DEF ret_int_2
<1>3. ~primask /\ ~lock_flag /\ ~(Running.psp /\ reqflg)
  BY <1>1 DEF ExecutingInv
<1>4. TypeInv'
  BY <1>1, <1>2 DEF TypeInv, FrameType
<1>5. FramesInv' /\ TasksInv'
  <2>1. \A n \in 1 .. top - 2 : /\ n \in 1 .. top - 1 /\ n + 1 \in 1 .. top - 1
                               /\ stack'[n] = stack[n]
                               /\ stack'[n + 1] = stack[n + 1]
    BY <1>2
  <2>2. Len(stack') - 1 = top - 2 /\ Len(stack') = top - 1
        /\ \A n \in 1 .. top - 1 : n \in 1 .. top
    BY <1>2
  <2> HIDE DEF top
  <2>3. \A l, n \in 1 .. Len(stack') :
          l < n => int_iipm[stack'[n].int] < int_iipm[stack'[l].int]
    BY <1>2, <2>2 DEF FramesInv, top
  <2>4. \A n \in 1 .. Len(stack') - 1 :
          /\ ~stack'[n + 1].psp
          /\ IF stack'[n].pc = "entry" THEN stack'[n + 1].mask = stack'[n].mask
             ELSE Interrupted(stack'[n],
                              stack'[n + 1].mask = int_iipm[stack'[n].int],
                              stack'[n + 1].mask)
    BY <2>1, <2>2 DEF FramesInv, top
  <2>5. FramesInv'
    BY <2>3, <2>4 DEF FramesInv
  <2>6. TasksInv'
    BY <1>1 DEF TasksInv
  <2> QED
    BY <2>5, <2>6
<1>6. thread \in {"task", "lock"}
  BY <1>1 DEF BottomInv
<1>7. CASE top = 1
  <2>1. stack' = << >> /\ Running = stack[1]
    BY <1>1, <1>2, <1>7
  <2>2. BottomInv'
    BY <2>1 DEF BottomInv
  <2>3. CASE thread = "task"
    <3>1. /\ ~reqflg
          /\ Interrupted(tcb[p_runtsk], basepri' = IIPM_ENAALL <=> ipmflg,
                         basepri')
          /\ tcb[p_runtsk].op = "wait" => dspflg
      BY <1>1, <1>3, <2>1, <2>3 DEF BottomInv
    <3>2. Executing' /\ Running' = tcb[p_runtsk]
      BY <1>1, <2>1, <2>3 DEF Executing, Running
    <3>3. ExecutingInv'
      BY <1>1, <1>3, <2>1, <3>1, <3>2
         DEF ExecutingInv, OwnMask, Interrupted, IIPM_ENAALL
    <3>4. ThreadInv' /\ FlagsInv'
      BY <1>1, <2>3, <3>1 DEF ThreadInv, FlagsInv
    <3> QED
      BY <1>4, <1>5, <2>2, <3>3, <3>4
  <2>4. CASE thread = "lock"
    <3>1. basepri' = IIPM_ENAALL
      BY <1>1, <2>1, <2>4 DEF BottomInv
    <3>2. ExecutingInv'
      BY <1>1, <2>1, <2>4 DEF ExecutingInv, Executing
    <3>3. ThreadInv' /\ FlagsInv'
      BY <1>1, <1>3, <2>4, <3>1 DEF ThreadInv, FlagsInv
    <3> QED
      BY <1>4, <1>5, <2>2, <3>2, <3>3
  <2> QED
    BY <1>6, <2>3, <2>4
<1>8. CASE top # 1
  <2> DEFINE below == stack[top - 1]
  <2>1. /\ top - 1 \in 1 .. top - 1 /\ (top - 1) + 1 = top
        /\ stack' # << >> /\ stack'[Len(stack')] = below
        /\ stack'[1] = stack[1]
    BY <1>2, <1>8
  <2>2. Executing' /\ Running' = below
    BY <2>1 DEF Executing, Running
  <2>3. /\ below.pc = "entry" => basepri' = below.mask
        /\ below.pc # "entry" =>
             Interrupted(below, basepri' = int_iipm[below.int], basepri')
    BY <1>1, <2>1 DEF FramesInv
  <2> HIDE DEF below
  <2>4. ExecutingInv'
    BY <1>1, <1>3, <2>1, <2>2, <2>3 DEF ExecutingInv, OwnMask, Interrupted
  <2>5. BottomInv'
    BY <1>1, <2>1 DEF BottomInv
  <2>6. ThreadInv' /\ FlagsInv'
    BY <1>1, <1>2, <1>8 DEF ThreadInv, FlagsInv
  <2> QED
    BY <1>4, <1>5, <2>4, <2>5, <2>6
<1> QED
  BY <1>7, <1>8

\* Only the outermost handler has interrupted code on PSP.
LEMMA Outermost ==
  ASSUME FramesInv, stack \in Seq(FrameType), stack # << >>,
         stack[Len(stack)].psp
  PROVE  Len(stack) = 1
<1> SUFFICES ASSUME Len(stack) # 1 PROVE FALSE
  OBVIOUS
<1>1. Len(stack) \in Nat \ {0}
  OBVIOUS
<1>2. \A n \in Nat \ {0} : n # 1 => n - 1 \in 1 .. n - 1 /\ (n - 1) + 1 = n
  OBVIOUS
<1> QED
  BY <1>1, <1>2 DEF FramesInv

LEMMA ret_int_3Step ==
  ASSUME IInv, ret_int_3
  PROVE  IInv'
<1> USE DEF IInv
<1>1. /\ stack # << >> /\ Executing /\ Running.pc = "ret_int_3"
      /\ Running = stack[Len(stack)] /\ Running \in FrameType
      /\ basepri' = IIPM_LOCK /\ faultmask' = FALSE /\ reqflg' = FALSE
      /\ lock_flag' = TRUE /\ saved_iipm' = IIPM_ENAALL
      /\ thread' = "ret_int_4"
      /\ UNCHANGED << primask, p_runtsk, p_schedtsk, ipmflg, disdsp, dspflg,
                      tcb, pend >>
  BY RunningType DEF ret_int_3, Return, HandlerAt, At, flagVars
<1>2. /\ Len(stack) \in Nat \ {0} /\ stack' \in Seq(FrameType)
      /\ stack' = << >> <=> Len(stack) = 1
  BY <1>1, ReturnLemma DEF ret_int_3
<1>3. ~primask /\ Running.psp /\ reqflg /\ dspflg /\ ipmflg
  BY <1>1 DEF ExecutingInv, FlagsInv
<1>4. Len(stack) = 1
  BY <1>1, <1>3, Outermost DEF TypeInv
<1>5. /\ thread = "task"
      /\ Interrupted(tcb[p_runtsk], stack[1].mask = IIPM_ENAALL <=> ipmflg,
                     stack[1].mask)
  BY <1>1, <1>3, <1>4 DEF BottomInv
<1>6. Preempted(tcb[p_runtsk]) /\ p_runtsk \in Task /\ stack' = << >>
  BY <1>2, <1>3, <1>4, <1>5 DEF Interrupted, Preempted, TasksInv, TaskCode
<1>7. TypeInv'
  BY <1>1, <1>2, PrcAssumption DEF TypeInv, Thread, IIPM_ENAALL
<1>8. ThreadInv'
  BY <1>1, <1>3, <1>6 DEF ThreadInv
<1>9. TasksInv'
  BY <1>1, <1>5, <1>6 DEF TasksInv, TaskCode, IdleCode
<1>10. FlagsInv'
  BY <1>1, <1>3 DEF FlagsInv
<1> QED
  BY <1>1, <1>6, <1>7, <1>8, <1>9, <1>10, NotExecuting

LEMMA ret_int_4Step ==
  ASSUME IInv, ret_int_4
  PROVE  IInv'
<1> USE DEF IInv
<1>1. /\ stack = << >> /\ thread = "ret_int_4"
      /\ IF dspflg /\ p_runtsk # p_schedtsk
           THEN /\ tcb' = [tcb EXCEPT ![p_runtsk].resume = "ret_int_r"]
                /\ thread' = "dispatcher"
           ELSE tcb' = tcb /\ thread' = "ret_int_r"
      /\ UNCHANGED << basepri, primask, faultmask, lock_flag, saved_iipm,
                      p_runtsk, p_schedtsk, reqflg, ipmflg, disdsp, dspflg,
                      stack, pend >>
  BY DEF ret_int_4, ThreadAt, maskVars, lockVars, schedVars, flagVars
<1>2. /\ p_runtsk \in Task /\ Preempted(tcb[p_runtsk]) /\ saved_iipm = IIPM_ENAALL
      /\ tcb \in [Task -> TcbType]
  BY <1>1 DEF TasksInv, ThreadInv, TypeInv, TaskCode
<1>3. CASE dspflg /\ p_runtsk # p_schedtsk
  <2> DEFINE c == [tcb[p_runtsk] EXCEPT !.resume = "ret_int_r"]
  <2>1. /\ c \in TcbType /\ c.resume = "ret_int_r"
        /\ c.pc = tcb[p_runtsk].pc /\ c.iipm = tcb[p_runtsk].iipm
    BY <1>2 DEF TcbType
  <2>2. tcb' = [tcb EXCEPT ![p_runtsk] = c] /\ thread' = "dispatcher"
    BY <1>1, <1>3
  <2> HIDE DEF c
  <2>3. TypeInv'
    BY <1>1, <1>2, <2>1, <2>2 DEF TypeInv, Thread
  <2>4. ThreadInv' /\ FlagsInv'
    BY <1>1, <1>2, <2>2 DEF ThreadInv, FlagsInv
  <2>5. TasksInv'
    BY <1>1, <1>2, <2>1, <2>2
       DEF TasksInv, TaskCode, IdleCode, Resumable, Preempted
  <2> QED
    BY <1>1, <2>2, <2>3, <2>4, <2>5, NotExecuting
<1>4. CASE ~(dspflg /\ p_runtsk # p_schedtsk)
  <2>1. tcb' = tcb /\ thread' = "ret_int_r"
    BY <1>1, <1>4
  <2>2. TypeInv'
    BY <1>1, <2>1 DEF TypeInv, Thread
  <2>3. ThreadInv' /\ FlagsInv'
    BY <1>1, <1>4, <2>1 DEF ThreadInv, FlagsInv
  <2>4. TasksInv'
    BY <1>1, <1>2, <2>1 DEF TasksInv, TaskCode, IdleCode
  <2> QED
    BY <1>1, <2>1, <2>2, <2>3, <2>4, NotExecuting
<1> QED
  BY <1>3, <1>4

LEMMA svc_handlerStep ==
  ASSUME IInv, svc_handler
  PROVE  IInv'
<1> USE DEF IInv
<1>1. /\ stack = << >> /\ thread = "ret_int_r" /\ lock_flag' = FALSE
      /\ basepri' = IIPM_ENAALL /\ thread' = "task"
      /\ UNCHANGED << primask, faultmask, saved_iipm, p_runtsk, p_schedtsk,
                      reqflg, ipmflg, disdsp, dspflg, tcb, stack, pend >>
  BY DEF svc_handler, ThreadAt, schedVars, flagVars
<1>2. /\ dspflg /\ ipmflg /\ ~primask /\ ~faultmask
      /\ Preempted(tcb[p_runtsk])
  BY <1>1 DEF FlagsInv, ThreadInv, TasksInv
<1>3. TypeInv'
  BY <1>1 DEF TypeInv, Thread, IIPM_ENAALL
<1>4. ExecutingInv'
  BY <1>1, <1>2, EnterTask DEF TaskCode
<1>5. TasksInv' /\ FlagsInv'
  BY <1>1 DEF TasksInv, FlagsInv, TaskCode, IdleCode
<1> QED
  BY <1>1, <1>3, <1>4, <1>5, NoHandler

LEMMA InterruptStep ==
  ASSUME IInv, ~LockedReturn, Interrupt
  PROVE  IInv'
BY RaiseStep, core_int_entry_1Step, core_int_entry_2Step, ret_intStep,
   ret_int_1Step, ret_int_2Step, ret_int_3Step, ret_int_4Step, svc_handlerStep
   DEF Interrupt

----------------------------------------------------------------------------
(***************************************************************************)
(* The invariant.                                                          *)
(***************************************************************************)
LEMMA InitIInv == Init => IInv
<1> SUFFICES ASSUME Init PROVE IInv
  OBVIOUS
<1>1. /\ thread = "start_dispatch" /\ stack = << >> /\ pend = {}
      /\ basepri = 0 /\ primask = FALSE /\ faultmask = TRUE
      /\ lock_flag = TRUE /\ saved_iipm = IIPM_ENAALL
      /\ p_runtsk = NULL /\ p_schedtsk \in Task \cup {NULL}
      /\ reqflg = FALSE /\ ipmflg = TRUE /\ disdsp = FALSE /\ dspflg = TRUE
  BY DEF Init
<1>2. \A t \in Task : /\ tcb[t] \in TcbType /\ tcb[t].pc = "user"
                      /\ tcb[t].resume = "start_r"
  BY DEF Init, TcbType, Pc, Op
<1>3. tcb \in [Task -> TcbType]
  BY <1>2 DEF Init
<1>4. TypeInv
  <2>1. stack \in Seq(FrameType) /\ saved_iipm \in Nat /\ basepri \in Nat
    BY <1>1 DEF IIPM_ENAALL
  <2>2. thread \in Thread
    BY <1>1 DEF Thread
  <2> QED
    BY <1>1, <1>3, <2>1, <2>2 DEF TypeInv
<1>5. ExecutingInv /\ FramesInv /\ BottomInv /\ ThreadInv
  BY <1>1 DEF ExecutingInv, Executing, FramesInv, BottomInv, ThreadInv
<1>6. TasksInv /\ FlagsInv
  BY <1>1, <1>2 DEF TasksInv, FlagsInv, TaskCode, IdleCode, Resumable
<1> QED
  BY <1>4, <1>5, <1>6 DEF IInv

LEMMA StutterStep ==
  ASSUME IInv, UNCHANGED vars
  PROVE  IInv'
<1>1. UNCHANGED << basepri, primask, faultmask, lock_flag, saved_iipm,
                   p_runtsk, p_schedtsk, reqflg, ipmflg, disdsp, dspflg,
                   thread, tcb, stack, pend >>
  BY DEF vars, maskVars, lockVars, schedVars, flagVars, codeVars
<1> QED
  BY <1>1 DEF IInv, TypeInv, ExecutingInv, Executing, Running, OwnMask,
     LockMask, FramesInv, BottomInv, ThreadInv, TasksInv, FlagsInv

LEMMA IInvHolds == ASSUME ~LockedReturn PROVE Spec => []IInv
<1>1. ASSUME IInv, [Next]_vars PROVE IInv'
  BY <1>1, StutterStep, ServiceCallStep, x_lock_cpuStep, x_unlock_cpuStep,
     DispatcherStep, InterruptStep DEF Next
<1> QED
  BY <1>1, InitIInv, PTL DEF Spec

----------------------------------------------------------------------------
(***************************************************************************)
(* Theorems.                                                               *)
(***************************************************************************)
\* No interrupt is active twice, so the handlers are no more than the
\* interrupts.
LEMMA Nesting ==
  ASSUME TypeInv, FramesInv
  PROVE  Len(stack) <= Cardinality(Intno)
<1> DEFINE D == 1 .. Len(stack)
           f == [n \in D |-> stack[n].int]
<1>1. Len(stack) \in Nat /\ \A n \in D : stack[n].int \in Intno
  BY FrameFacts DEF TypeInv
<1>2. \A n \in Intno : int_iipm[n] \in Nat
  BY PrcAssumption DEF PrcAssumption
<1>3. f \in Injection(D, Intno)
  <2>1. f \in [D -> Intno]
    BY <1>1
  <2>2. ASSUME NEW l \in D, NEW n \in D, f[l] = f[n]
        PROVE  l = n
    <3>1. ~(l < n) /\ ~(n < l)
      BY <1>1, <1>2, <2>2 DEF FramesInv
    <3> QED
      BY <1>1, <3>1
  <2> QED
    BY <2>1, <2>2 DEF Injection, IsInjective
<1>4. IsFiniteSet(Intno)
  BY PrcAssumption DEF PrcAssumption
<1>5. Cardinality(D) <= Cardinality(Intno)
  BY <1>3, <1>4, FS_Injection
<1>6. Cardinality(D) = Len(stack)
  <2>1. 1 \in Int /\ Len(stack) \in Int
    BY <1>1
  <2>2. Cardinality(1 .. Len(stack)) =
          IF 1 > Len(stack) THEN 0 ELSE Len(stack) - 1 + 1
    BY <2>1, FS_Interval
  <2> QED
    BY <1>1, <2>2
<1> QED
  BY <1>5, <1>6

\* The type invariant: the registers and the variables of the processor
\* dependent part have their types, and the handlers never nest deeper than
\* there are interrupts (core_int_entry, prc_support.S:283).
THEOREM TypeCorrect == ASSUME ~LockedReturn PROVE Spec => []TypeOK
<1>1. IInv => TypeOK
  BY Nesting DEF IInv, TypeInv, TypeOK, TcbType
<1> QED
  BY <1>1, IInvHolds, PTL

\* x_lock_cpu (prc_config.h) is mutual exclusion: no code of the kernel that
\* runs under the CPU lock, of a task, a handler or the dispatcher, is ever
\* interrupted by another one; and what BASEPRI was before the lock it is
\* again after it, although saved_iipm is shared.
THEOREM MaskingCorrect == ASSUME ~LockedReturn PROVE Spec => []Masking
<1>1. ASSUME IInv PROVE MutualExclusion
  <2> USE <1>1 DEF IInv
  <2>1. ASSUME NEW n \in 1 .. Len(stack) - 1
        PROVE  stack[n].pc \notin Critical
    BY <2>1 DEF FramesInv, Interrupted, Critical
  <2>2. stack # << >> =>
          /\ thread \notin DispatcherCode
          /\ thread = "task" => tcb[p_runtsk].pc \notin Critical
    BY DEF BottomInv, Interrupted, DispatcherCode, Critical
  <2> QED
    BY <2>1, <2>2 DEF MutualExclusion
<1>2. ASSUME IInv PROVE MaskRestored
  <2>1. TaskAt("user") => (basepri = IIPM_ENAALL) = ipmflg
    BY <1>2 DEF TaskAt, At, IInv, ExecutingInv, OwnMask, TypeInv
  <2>2. HandlerAt("user") => basepri = int_iipm[Running.int]
    BY <1>2 DEF HandlerAt, At, IInv, ExecutingInv, OwnMask
  <2> QED
    BY <2>1, <2>2 DEF MaskRestored
<1>3. IInv => Masking
  BY <1>1, <1>2 DEF Masking
<1> QED
  BY <1>3, IInvHolds, PTL

\* ret_int (prc_support.S:352) gives every context back with the CPU
\* unlocked that it was interrupted with, provided that handlers unlock what
\* they have locked: lock_flag is set where a context has called loc_cpu
\* itself, and nowhere else.
THEOREM LockCorrect == ASSUME ~LockedReturn PROVE Spec => []LockReleased
<1>1. IInv => LockReleased
  BY DEF IInv, LockReleased, At, ExecutingInv
<1> QED
  BY <1>1, IInvHolds, PTL

\* The dispatcher (prc_support.S:634) is entered in the state that it needs,
\* the processor never sleeps on a request to dispatch, and no task runs
\* with dispatching enabled while another one is of higher precedence.
THEOREM DispatcherCorrect == ASSUME ~LockedReturn PROVE Spec => []DispatcherInv
<1>1. ASSUME IInv PROVE DispatcherState
  BY <1>1 DEF DispatcherState, ThreadAt, IInv, ThreadInv, FlagsInv
<1>2. ASSUME IInv PROVE NoSleepWithRequest
  BY <1>2 DEF NoSleepWithRequest, ThreadAt, IInv, FlagsInv
<1>3. ASSUME IInv PROVE Dispatched
  BY <1>3, TaskFacts DEF Dispatched, TaskAt, At
<1>4. IInv => DispatcherInv
  BY <1>1, <1>2, <1>3 DEF DispatcherInv
<1> QED
  BY <1>4, IInvHolds, PTL

----------------------------------------------------------------------------
(***************************************************************************)
(* Each step maps to a step of Dispatching or to none.                     *)
(***************************************************************************)
runtsk == IF thread = "dispatcher" THEN p_schedtsk
          ELSE IF thread = "ret_int_4" /\ dspflg THEN p_schedtsk
          ELSE p_runtsk

Quiet == UNCHANGED << thread # "start_dispatch", p_schedtsk, runtsk, dspflg,
                      Len(stack) >>

LEMMA QuietMaps == ASSUME Quiet PROVE UNCHANGED Promise!dvars
BY DEF Quiet, Promise!dvars, runtsk

LEMMA GoesDepth ==
  ASSUME TypeInv, NEW c, Goes(c)
  PROVE  thread' = thread /\ Len(stack') = Len(stack)
<1> DEFINE S == FrameType \cup {c}
<1>1. stack \in Seq(S)
  BY DEF TypeInv
<1>2. thread' = thread /\ (stack' = stack \/ stack' = [stack EXCEPT ![Len(stack)] = c])
  BY DEF Goes
<1>3. Len([stack EXCEPT ![Len(stack)] = c]) = Len(stack)
  BY <1>1
<1> QED
  BY <1>2, <1>3

\* The steps of calls, of the lock and of the handlers' entry and exit that
\* leave the schedule alone.
LEMMA QuietCallMaps ==
  ASSUME IInv, \/ \E op \in Op : Begin(op)
               \/ loc_cpu \/ unl_cpu \/ x_lock_cpu \/ x_unlock_cpu
               \/ core_int_entry_2 \/ ret_int \/ ret_int_1
  PROVE  Quiet
<1>1. \E c : Goes(c)
  BY DEF Begin, loc_cpu, unl_cpu, x_lock_cpu, x_lock_cpu_1, x_lock_cpu_2,
     x_lock_cpu_3, x_unlock_cpu, x_unlock_cpu_1, x_unlock_cpu_2,
     core_int_entry_2, ret_int, ret_int_1, EndsAt, GoesTo
<1>2. UNCHANGED << schedVars, flagVars >>
  BY DEF Begin, loc_cpu, unl_cpu, x_lock_cpu, x_lock_cpu_1, x_lock_cpu_2,
     x_lock_cpu_3, x_unlock_cpu, x_unlock_cpu_1, x_unlock_cpu_2,
     core_int_entry_2, ret_int, ret_int_1
<1>3. thread' = thread /\ Len(stack') = Len(stack)
  BY <1>1, GoesDepth DEF IInv
<1> QED
  BY <1>2, <1>3 DEF Quiet, runtsk, schedVars, flagVars

\* A task's call: the switch is due whenever dispatching is enabled after it.
LEMMA TaskMaps ==
  ASSUME IInv, IInv', stack = << >>, Executing, stack' = << >>,
         p_runtsk' = p_runtsk, thread' \in {"task", "dispatcher"},
         thread' = "dispatcher" => dspflg',
         thread' = "task" /\ dspflg' => p_runtsk = p_schedtsk'
  PROVE  Promise!TaskStep
<1>1. thread = "task" /\ p_runtsk \in Task
  BY TaskFacts
<1>2. p_runtsk # NULL /\ p_schedtsk' \in Task \cup {NULL} /\ dspflg' \in BOOLEAN
  BY <1>1, PrcAssumption DEF PrcAssumption, IInv, TypeInv
<1>3. Len(stack) = 0 /\ Len(stack') = 0
  OBVIOUS
<1> QED
  BY <1>1, <1>2, <1>3 DEF Promise!TaskStep, Promise!Choice

LEMMA TaskCallMaps ==
  ASSUME IInv, IInv', \/ TaskBody \/ WaitBody \/ dis_dsp \/ ena_dsp \/ ext_tsk
                      \/ \E iipm \in Iipm : chg_ipm(iipm)
  PROVE  Promise!TaskStep
<1>1. stack = << >> /\ Executing /\ p_runtsk' = p_runtsk
  BY DEF TaskBody, WaitBody, dis_dsp, ena_dsp, ext_tsk, chg_ipm, TaskAt, At,
     schedVars
<1>2. thread = "task" /\ (dspflg => p_runtsk = p_schedtsk)
  BY <1>1, TaskFacts
<1>3. dispatch \/ EndsAt("unlock1") \/ ext_tsk
  BY DEF TaskBody, WaitBody, dis_dsp, ena_dsp, chg_ipm, DispatchPending
<1>4. stack' = << >> /\ thread' \in {"task", "dispatcher"}
  BY <1>1, <1>2, <1>3, NoDispatch DEF dispatch, ext_tsk
<1>5. thread' = "dispatcher" => dspflg'
  BY <1>4 DEF IInv, FlagsInv
<1>6. thread' = "task" /\ dspflg' => p_runtsk = p_schedtsk'
  <2> SUFFICES ASSUME thread' = "task" /\ dspflg' PROVE p_runtsk' = p_schedtsk'
    BY <1>1
  <2>1. ~reqflg'
    BY <1>4 DEF IInv, FlagsInv
  <2> QED
    BY <2>1 DEF IInv, FlagsInv
<1> QED
  BY <1>1, <1>4, <1>5, <1>6, TaskMaps

LEMMA HandlerMaps ==
  ASSUME IInv, HandlerBody
  PROVE  Promise!HandlerStep
<1>1. /\ stack # << >> /\ p_schedtsk' \in Task \cup {NULL}
      /\ EndsAt("unlock1") /\ UNCHANGED << p_runtsk, dspflg >>
  BY DEF HandlerBody, HandlerAt, flagVars
<1>2. /\ thread' = thread /\ thread \in {"task", "lock"}
      /\ Len(stack') = Len(stack) /\ Len(stack) > 0
  BY <1>1, GoesDepth DEF EndsAt, IInv, TypeInv, BottomInv
<1> QED
  BY <1>1, <1>2 DEF Promise!HandlerStep, Promise!Choice

LEMMA DispatcherMaps ==
  ASSUME IInv, Dispatcher
  PROVE  Promise!Start \/ Promise!Wake \/ Quiet
<1>1. CASE start_dispatch
  BY <1>1 DEF start_dispatch, ThreadAt, Promise!Start, schedVars, flagVars
<1>2. CASE dispatcher
  <2>1. p_schedtsk # NULL =>
          tcb[p_schedtsk].resume \in {"start_r", "dispatch_r", "ret_int_r"}
    BY DEF IInv, TypeInv, TcbType
  <2>2. thread' \in {"dispatcher_1", "task", "start_r", "ret_int_r"}
    BY <1>2, <2>1 DEF dispatcher
  <2> QED
    BY <1>2, <2>2 DEF dispatcher, ThreadAt, flagVars, Quiet, runtsk
<1>3. CASE start_r_1 \/ start_r_2
  BY <1>3 DEF start_r_1, start_r_2, ThreadAt, schedVars, flagVars, Quiet, runtsk
<1>4. CASE dispatcher_1 \/ dispatcher_2 \/ wfi \/ cpsie \/ idle_lock
  BY <1>4 DEF dispatcher_1, dispatcher_2, wfi, cpsie, idle_lock, ThreadAt,
     schedVars, flagVars, Quiet, runtsk
<1>5. CASE idle_test
  <2>1. /\ stack = << >> /\ thread = "test" /\ p_runtsk = NULL
        /\ UNCHANGED << p_runtsk, p_schedtsk, dspflg, stack >>
        /\ thread' = IF reqflg THEN "dispatcher" ELSE "dispatcher_2"
    BY <1>5 DEF idle_test, ThreadAt, flagVars, IInv, TasksInv, IdleCode
  <2>2. CASE reqflg
    BY <2>1, <2>2 DEF Promise!Wake
  <2>3. CASE ~reqflg
    BY <2>1, <2>3 DEF Quiet, runtsk
  <2> QED
    BY <2>2, <2>3
<1> QED
  BY <1>1, <1>2, <1>3, <1>4, <1>5 DEF Dispatcher

LEMMA EntryMaps ==
  ASSUME IInv, NEW i \in Intno, core_int_entry_1(i)
  PROVE  Promise!Enter
<1>1. /\ ~primask /\ ~faultmask /\ ~Masks(basepri, i)
      /\ UNCHANGED << thread, p_runtsk, p_schedtsk, dspflg >>
  BY DEF core_int_entry_1, schedVars, flagVars
<1>2. thread # "start_dispatch"
  BY <1>1 DEF IInv, ThreadInv, BottomInv
<1>3. thread \in {"task", "lock"}
  BY <1>1, <1>2, TakenLemma
<1>4. Len(stack') = Len(stack) + 1
  <2> DEFINE f == [int |-> i, mask |-> basepri,
                   psp |-> stack = << >> /\ thread \notin IdleCode,
                   pc |-> "entry", op |-> "call", iipm |-> 0]
             S == FrameType \cup {f}
  <2>1. stack \in Seq(S) /\ f \in S
    BY DEF IInv, TypeInv
  <2>2. stack' = Append(stack, f)
    BY DEF core_int_entry_1
  <2> HIDE DEF f, S
  <2> QED
    BY <2>1, <2>2
<1> QED
  BY <1>1, <1>3, <1>4 DEF Promise!Enter

\* The exits: ret_int_2 goes back where no switch is due, ret_int_3 where
\* one may be.
LEMMA ReturnMaps ==
  ASSUME IInv, ret_int_2 \/ ret_int_3
  PROVE  Promise!Leave
<1> USE DEF IInv
<1>1. /\ stack # << >> /\ Executing /\ Return
      /\ Running = stack[Len(stack)]
      /\ UNCHANGED << p_runtsk, p_schedtsk, dspflg >>
  BY DEF ret_int_2, ret_int_3, HandlerAt, At, Running, schedVars, flagVars
<1>2. Len(stack) \in Nat \ {0} /\ Len(stack') = Len(stack) - 1
  BY <1>1, ReturnLemma
<1>3. thread \in {"task", "lock"} /\ (thread = "lock" => p_runtsk = NULL)
  BY <1>1 DEF BottomInv, TasksInv, IdleCode
<1>4. CASE ret_int_2
  <2>1. /\ Running.pc = "ret_int_2" /\ thread' = thread
    BY <1>4 DEF ret_int_2, HandlerAt, At
  <2>2. ~(Running.psp /\ reqflg)
    BY <1>1, <2>1 DEF ExecutingInv
  <2>3. Len(stack) = 1 /\ p_runtsk # NULL /\ dspflg => p_runtsk = p_schedtsk
    BY <1>1, <1>3, <2>2 DEF BottomInv, FlagsInv
  <2> QED
    BY <1>1, <1>2, <1>3, <2>1, <2>3 DEF Promise!Leave
<1>5. CASE ret_int_3
  <2>1. Running.pc = "ret_int_3" /\ thread' = "ret_int_4"
    BY <1>5 DEF ret_int_3, HandlerAt, At
  <2>2. Running.psp /\ reqflg /\ dspflg
    BY <1>1, <2>1 DEF ExecutingInv, FlagsInv
  <2>3. Len(stack) = 1 /\ p_runtsk \in Task
    BY <1>1, <2>2, Outermost DEF TypeInv, BottomInv, TasksInv, TaskCode
  <2> QED
    BY <1>1, <1>2, <1>3, <2>1, <2>2, <2>3, PrcAssumption
       DEF Promise!Leave, PrcAssumption
<1> QED
  BY <1>4, <1>5

LEMMA NextMaps ==
  ASSUME IInv, IInv', [Next]_vars, ~LockedReturn
  PROVE  [Promise!DNext]_(Promise!dvars)
<1>1. CASE ServiceCall
  BY <1>1, QuietCallMaps, QuietMaps, TaskCallMaps, HandlerMaps
     DEF ServiceCall, Promise!DNext
<1>2. CASE x_lock_cpu \/ x_unlock_cpu
  BY <1>2, QuietCallMaps, QuietMaps
<1>3. CASE Dispatcher
  BY <1>3, DispatcherMaps, QuietMaps DEF Promise!DNext
<1>4. CASE Interrupt
  <2>1. CASE \E i \in Intno : Raise(i)
    <3>1. Quiet
      BY <2>1 DEF Raise, schedVars, flagVars, codeVars, Quiet, runtsk
    <3> QED
      BY <3>1, QuietMaps
  <2>2. CASE \E i \in Intno : core_int_entry_1(i)
    BY <2>2, EntryMaps DEF Promise!DNext
  <2>3. CASE core_int_entry_2 \/ ret_int \/ ret_int_1
    BY <2>3, QuietCallMaps, QuietMaps
  <2>4. CASE ret_int_2 \/ ret_int_3
    BY <2>4, ReturnMaps DEF Promise!DNext
  <2>5. CASE ret_int_4
    <3>1. dspflg
      BY <2>5 DEF ret_int_4, ThreadAt, IInv, FlagsInv
    <3>2. Quiet
      BY <2>5, <3>1 DEF ret_int_4, ThreadAt, schedVars, flagVars, Quiet, runtsk
    <3> QED
      BY <3>2, QuietMaps
  <2>6. CASE svc_handler
    <3>1. Quiet
      BY <2>6 DEF svc_handler, ThreadAt, schedVars, flagVars, Quiet, runtsk
    <3> QED
      BY <3>1, QuietMaps
  <2> QED
    BY <1>4, <2>1, <2>2, <2>3, <2>4, <2>5, <2>6 DEF Interrupt
<1>5. CASE UNCHANGED vars
  <2>1. Quiet
    BY <1>5 DEF vars, schedVars, flagVars, codeVars, Quiet, runtsk
  <2> QED
    BY <2>1, QuietMaps
<1> QED
  BY <1>1, <1>2, <1>3, <1>4, <1>5 DEF Next

\* The processor dependent part keeps the promise of Dispatching
\* (KeepsPromise): dispatch, ret_int and the idle loop switch to the highest
\* precedence task whenever the kernel owes it, and at no other time, however
\* interrupts come between their instructions.
THEOREM ImplementsDispatching ==
  ASSUME ~LockedReturn PROVE Spec => KeepsPromise
<1>1. Init => Promise!DInit
  BY DEF Init, Promise!DInit, Promise!Choice
<1>2. IInv /\ IInv' /\ [Next]_vars => [Promise!DNext]_(Promise!dvars)
  BY NextMaps
<1> QED
  BY <1>1, <1>2, IInvHolds, PTL DEF Spec, KeepsPromise, Promise!DSpec
=============================================================================
