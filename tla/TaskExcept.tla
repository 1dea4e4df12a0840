----------------------------- MODULE TaskExcept -----------------------------
(***************************************************************************)
(* Task exception handling (kernel/task_except.c, call_texrtn of task.c)   *)
(* on top of TaskKernel.  A task's exception routine is started wherever   *)
(* one of its conditions may have become true: by ras_tex, ena_tex and     *)
(* chg_ipm, by the dispatcher when it resumes a task, and by the exit of   *)
(* an interrupt.  The routine is code of the task: it runs with the CPU    *)
(* unlocked, may make every service call, be preempted, enable exceptions  *)
(* again and so nest, or end the task.                                     *)
(*                                                                         *)
(* frames[t] has one entry per activation of call_texrtn on the stack of   *)
(* t, the saved_disdsp of that activation, the innermost first.  Only the  *)
(* innermost one may be inside the dispatch that call_texrtn itself makes. *)
(***************************************************************************)
EXTENDS TaskKernel

CONSTANTS
  Cause,       \* the bits of an exception pattern
  TexTask,     \* the tasks with an exception routine (texrtn # NULL)
  MaxFrames    \* bound on the activations of call_texrtn of one task

ASSUME TexTaskAssumption == TexTask \subseteq Task
ASSUME FramesAssumption == MaxFrames \in Nat \ {0}

VARIABLES
  texptn,      \* TCB.texptn, the set of its bits
  enatex,      \* TCB.enatex
  frames,      \* the saved_disdsp of each activation of call_texrtn
  indispatch   \* the task is inside call_texrtn's own dispatch

texVars == << texptn, enatex, frames, indispatch >>
teVars  == << texVars, vars >>

TexInit ==
  /\ Init
  /\ texptn = [t \in Task |-> {}]
  /\ enatex = [t \in Task |-> FALSE]
  /\ frames = [t \in Task |-> << >>]
  /\ indispatch = [t \in Task |-> FALSE]

----------------------------------------------------------------------------
(***************************************************************************)
(* A state of the exception fields, x, is a record, so that what a call    *)
(* does to them can be followed by what the task that is resumed does.     *)
(***************************************************************************)
Tex == [texptn |-> texptn, enatex |-> enatex, frames |-> frames,
        indispatch |-> indispatch]

Become(x) == /\ texptn' = x.texptn /\ enatex' = x.enatex
             /\ frames' = x.frames /\ indispatch' = x.indispatch

\* The condition that dispatch_r, ret_int_r, ras_tex, ena_tex and chg_ipm
\* test (the callers of ena_tex and chg_ipm know some parts of it).
TexDue(x, t, ipm) == x.enatex[t] /\ x.texptn[t] # {} /\ ipm

\* call_texrtn up to the unlocking of the CPU.
call_texrtn(x, t, dis) ==
  [x EXCEPT !.texptn[t] = {}, !.enatex[t] = FALSE,
            !.frames[t] = << dis >> \o @]

\* The loop of call_texrtn after the dispatch: once more, or return.
TexLoop(x, t) ==
  LET back == [x EXCEPT !.indispatch[t] = FALSE] IN
  IF x.texptn[t] # {} THEN [back EXCEPT !.texptn[t] = {}]
  ELSE [back EXCEPT !.enatex[t] = TRUE, !.frames[t] = Tail(@)]

StartIfDue(x, t, ipm, dis) ==
  IF TexDue(x, t, ipm) THEN call_texrtn(x, t, dis) ELSE x

\* The task t continues behind its dispatch: in call_texrtn's loop, or in
\* dispatch_r or ret_int_r.
Resume(x, t, ipm, dis) ==
  IF x.indispatch[t] THEN TexLoop(x, t) ELSE StartIfDue(x, t, ipm, dis)

\* After a step of the kernel: the task that runs now, when it is not the
\* one that ran before, resumes.
Follow(x) ==
  Become(IF p_runtsk' # p_runtsk /\ p_runtsk' # NULL
           THEN Resume(x, p_runtsk', ipmflg', disdsp') ELSE x)

\* The same for a call after which the running task itself is looked at.
FollowSelf(x) ==
  Become(IF p_runtsk' = NULL THEN x
         ELSE IF p_runtsk' # p_runtsk
           THEN Resume(x, p_runtsk', ipmflg', disdsp')
         ELSE StartIfDue(x, p_runtsk, ipmflg', disdsp'))

\* make_dormant clears enatex and texptn; the stack of the task is gone.
\* Mutant: the pending causes are kept.
TexDormant_Kept(x, t) ==
  [x EXCEPT !.enatex[t] = FALSE, !.frames[t] = << >>, !.indispatch[t] = FALSE]

TexDormant(x, t) ==
  [x EXCEPT !.texptn[t] = {}, !.enatex[t] = FALSE,
            !.frames[t] = << >>, !.indispatch[t] = FALSE]

----------------------------------------------------------------------------
(***************************************************************************)
(* task_except.c                                                           *)
(***************************************************************************)
Raisable(t) == t \in TexTask /\ ~TSTAT_DORMANT(tstat[t])

ras_tex(t, rasptn) ==
  LET x == [Tex EXCEPT !.texptn[t] = @ \cup rasptn] IN
  /\ InTask
  /\ Raisable(t)
  /\ Become(IF t = p_runtsk THEN StartIfDue(x, t, ipmflg, disdsp) ELSE x)
  /\ UNCHANGED vars

\* Mutant: no request to the interrupt exit.
iras_tex_NoRequest(t, rasptn) ==
  /\ InInterrupt
  /\ Raisable(t)
  /\ texptn' = [texptn EXCEPT ![t] = @ \cup rasptn]
  /\ UNCHANGED << enatex, frames, indispatch, vars >>

iras_tex(t, rasptn) ==
  /\ InInterrupt
  /\ Raisable(t)
  /\ texptn' = [texptn EXCEPT ![t] = @ \cup rasptn]
  /\ reqflg' = (reqflg \/ (t = p_runtsk /\ enatex[t] /\ ipmflg))
  /\ UNCHANGED << enatex, frames, indispatch >>
  /\ UNCHANGED << sched, tstat, priority, queVars, winfo, tmevt, wait_queue,
                  p_runtsk, flagVars, cpulock, nest, bootVars >>

dis_tex ==
  /\ InTask
  /\ p_runtsk \in TexTask
  /\ enatex' = [enatex EXCEPT ![p_runtsk] = FALSE]
  /\ UNCHANGED << texptn, frames, indispatch, vars >>

ena_tex ==
  LET x == [Tex EXCEPT !.enatex[p_runtsk] = TRUE] IN
  /\ InTask
  /\ p_runtsk \in TexTask
  /\ Len(frames[p_runtsk]) < MaxFrames
  /\ Become(StartIfDue(x, p_runtsk, ipmflg, disdsp))
  /\ UNCHANGED vars

(***************************************************************************)
(* The routine returns into call_texrtn: the CPU is locked, the mask and   *)
(* disdsp get back their values, exceptions are disabled before the        *)
(* dispatch that may have become due.                                      *)
(***************************************************************************)
texrtn_return ==
  LET t == p_runtsk
      x == [Tex EXCEPT !.enatex[t] = FALSE]
  IN
  /\ TaskContext
  /\ frames[t] # << >>
  /\ cpulock' = FALSE
  /\ ipmflg' = TRUE
  /\ disdsp' = Head(frames[t])
  /\ dspflg' = ~disdsp'
  /\ IF dspflg' THEN DispatchPending ELSE UNCHANGED << p_runtsk, winfo >>
  /\ IF p_runtsk' = t THEN Become(TexLoop(x, t))
     ELSE Follow([x EXCEPT !.indispatch[t] = TRUE])
  /\ UNCHANGED << sched, tstat, priority, queVars, tmevt, wait_queue,
                  reqflg, nest, bootVars >>

TexCall ==
  \/ \E t \in Task, rasptn \in (SUBSET Cause) \ {{}} :
       ras_tex(t, rasptn) \/ iras_tex(t, rasptn)
  \/ dis_tex \/ ena_tex \/ texrtn_return

----------------------------------------------------------------------------
(***************************************************************************)
(* The operations of TaskKernel with the exceptions they start.            *)
(***************************************************************************)
EndCall ==
  \/ ext_tsk /\ Follow(TexDormant(Tex, p_runtsk))
  \/ \E t \in Task : ter_tsk(t) /\ Follow(TexDormant(Tex, t))

\* chg_ipm looks at the running task itself when the mask is lowered.
\* Mutant: only a dispatch looks for exceptions.
IpmCall_DispatchOnly == \E enaall \in BOOLEAN : chg_ipm(enaall) /\ Follow(Tex)

IpmCall == \E enaall \in BOOLEAN :
             chg_ipm(enaall) /\ IF enaall THEN FollowSelf(Tex) ELSE Become(Tex)

\* The exit that serves reqflg looks at the task it returns to.
IntExit ==
  ret_int /\ IF nest = 1 /\ p_runtsk # NULL /\ reqflg THEN FollowSelf(Tex)
                                                      ELSE Become(Tex)

\* The other service calls of tasks, which may dispatch.
OtherCall ==
  /\ \/ \E t \in Task :
          \/ act_tsk(t) \/ can_act(t) \/ wup_tsk(t) \/ can_wup(t)
          \/ rel_wai(t) \/ sus_tsk(t) \/ rsm_tsk(t)
          \/ \E pri \in TPri : chg_pri(t, pri)
     \/ \E pri \in TPri : rot_rdq(pri)
     \/ \E callback \in {"none", "wait_tmout"} : slp_tsk(callback)
     \/ dly_tsk \/ dis_dsp \/ ena_dsp
  /\ Follow(Tex)

QuietStep ==
  (Boot \/ IntCall \/ loc_cpu \/ unl_cpu \/ core_int_entry) /\ UNCHANGED texVars

TexNext ==
  \/ TexCall \/ EndCall \/ IpmCall \/ IntExit \/ OtherCall \/ QuietStep
  \/ dispatcher_idle /\ Follow(Tex)

TexSpec == TexInit /\ [][TexNext]_teVars

----------------------------------------------------------------------------
(***************************************************************************)
(* Properties                                                              *)
(***************************************************************************)
\* The type invariant.
TexTypeOK ==
  /\ TypeOK
  /\ texptn \in [Task -> SUBSET Cause]
  /\ enatex \in [Task -> BOOLEAN]
  /\ \A t \in Task : frames[t] \in Seq(BOOLEAN) /\ Len(frames[t]) <= MaxFrames
  /\ indispatch \in [Task -> BOOLEAN]

\* doc/design.txt: the routine is started as soon as its six conditions
\* hold, whichever of them became true last: no code of a task runs while
\* an exception of the task is due.  In a handler the exit has been asked
\* to look.
TexServed ==
  kerflg /\ p_runtsk # NULL /\ TexDue(Tex, p_runtsk, ipmflg) => reqflg

\* A task inside call_texrtn's own dispatch cannot be given a second
\* activation there: its exceptions are disabled, which is why call_texrtn
\* clears enatex before it dispatches; and it is not running.
TexSuspended ==
  \A t \in Task : indispatch[t] =>
    t # p_runtsk /\ ~enatex[t] /\ frames[t] # << >> /\ ~TSTAT_DORMANT(tstat[t])

\* A dormant task has no exception pending or enabled, also when it was
\* ended inside its routine, by itself or by another task.
TexDormantInv ==
  \A t \in Task : TSTAT_DORMANT(tstat[t]) =>
    texptn[t] = {} /\ ~enatex[t] /\ frames[t] = << >>

\* The texptn and enatex of a task agree with its frames, and the dispatches
\* that call_texrtn and ret_tex make leave the highest precedence task
\* running (exception.c, task.c).
TexInv == TexTypeOK /\ TexSuspended /\ TexDormantInv /\ DispatchedInv

\* Exits are reached again and again, as in TaskKernel.
TexFairness ==
  /\ SF_teVars(unl_cpu /\ nest > 0 /\ UNCHANGED texVars)
  /\ SF_teVars(IntExit /\ nest > 0)
  /\ SF_teVars(dispatcher_idle /\ Follow(Tex))
  /\ SF_teVars(texrtn_return)

TexFairSpec == TexSpec /\ TexFairness

\* A cause raised for the running task while its exceptions are enabled is
\* handed to the routine, unless the task loses the processor first.
TexDelivered ==
  \A t \in Task, b \in Cause :
    (p_runtsk = t /\ enatex[t] /\ ipmflg /\ b \in texptn[t])
      ~> (b \notin texptn[t] \/ p_runtsk # t)
=============================================================================
