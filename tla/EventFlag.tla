----------------------------- MODULE EventFlag -----------------------------
(***************************************************************************)
(* Event flags (kernel/eventflag.c) on top of TaskKernel.  A flag is also  *)
(* the name of its wait queue.  flgwait[t] is the WINFO_FLG on the stack   *)
(* of the call in which t waits; it goes out of scope with the WINFO in    *)
(* it, when the call returns.                                              *)
(***************************************************************************)
EXTENDS TaskKernel

CONSTANTS
  Flg,
  Bit,         \* the bits of a pattern
  iflgptn,     \* the initial pattern of each flag
  TaClr,       \* the flags with attribute TA_CLR
  TaWmul       \* those with TA_WMUL: several tasks may wait

FlgAssumption ==
  Flg \subseteq WaitQueue /\ iflgptn \in [Flg -> SUBSET Bit] /\ TaClr \subseteq Flg /\ TaWmul \subseteq Flg

VARIABLES
  flgptn,      \* FLGCB.flgptn
  flgwait      \* WINFO_FLG of each task, or NoWait

flgVars == << flgptn, flgwait, vars >>

Pattern == (SUBSET Bit) \ {{}}
NoWait  == [waiptn |-> {}, wfmode |-> "none", flgptn |-> {}]
WinfoFlg(waiptn, wfmode) ==
  [waiptn |-> waiptn, wfmode |-> wfmode, flgptn |-> {}]

FlgInit ==
  /\ Init
  /\ flgptn = iflgptn
  /\ flgwait = [t \in Task |-> NoWait]

\* The calls that have returned end the scope of their WINFO_FLG.
InScope(wait) == [t \in Task |-> IF winfo'[t] = "none" THEN NoWait ELSE wait[t]]

----------------------------------------------------------------------------
(***************************************************************************)
(* check_flg_cond: the condition, and what it leaves of the pattern.       *)
(***************************************************************************)
Condition(ptn, w) ==
  IF w.wfmode = "TWF_ORW" THEN ptn \cap w.waiptn # {}
                          ELSE w.waiptn \subseteq ptn

Leaves(f, ptn) == IF f \in TaClr THEN {} ELSE ptn

\* The tasks of S that the loop over a queue finds, in the order of the queue.
Filter(queue, S) ==
  LET kept[n \in 0 .. Len(queue)] ==
        IF n = 0 THEN << >>
        ELSE IF queue[n] \in S THEN Append(kept[n - 1], queue[n])
        ELSE kept[n - 1]
  IN  kept[Len(queue)]

Met(f, ptn) ==
  Filter(wait_queue[f], {t \in Task : Condition(ptn, flgwait[t])})

\* The waiting tasks that a pattern releases, in the order of the queue;
\* with TA_CLR the first of them takes the whole pattern.
\* Mutant: the loop always ends with the first.
Released_First(f, ptn) ==
  LET met == Met(f, ptn)
  IN  SubSeq(met, 1, IF Len(met) = 0 THEN 0 ELSE 1)

Released(f, ptn) ==
  LET met == Met(f, ptn)
  IN  IF f \in TaClr /\ met # << >> THEN << Head(met) >> ELSE met

\* set_flg and iset_flg up to their dispatch; each released task is handed
\* the pattern as it was before TA_CLR cleared it.
Set(f, setptn) ==
  LET ptn   == flgptn[f] \cup setptn
      entry == Released(f, ptn)
  IN
  /\ wait_queue' = [wait_queue EXCEPT
                      ![f] = Filter(@, Task \ Members(entry))]
  /\ release_in_order(entry)
  /\ flgptn' = [flgptn EXCEPT ![f] = IF entry = << >> THEN ptn
                                                       ELSE Leaves(f, ptn)]

SetWinfo(f, setptn) == release_winfo(Released(f, flgptn[f] \cup setptn), E_OK)

\* Mutant: the pattern is handed over after it was cleared.
Hand_Cleared(f, setptn) ==
  LET ptn == flgptn[f] \cup setptn
  IN  [t \in Task |-> IF t \in Members(Released(f, ptn))
                        THEN [flgwait[t] EXCEPT !.flgptn = Leaves(f, ptn)]
                        ELSE flgwait[t]]

Hand(f, setptn) ==
  LET ptn == flgptn[f] \cup setptn
  IN  [t \in Task |-> IF t \in Members(Released(f, ptn))
                        THEN [flgwait[t] EXCEPT !.flgptn = ptn]
                        ELSE flgwait[t]]

set_flg(f, setptn) ==
  /\ InTask
  /\ Set(f, setptn)
  /\ TaskReturn(SetWinfo(f, setptn))
  /\ flgwait' = InScope(Hand(f, setptn))
  /\ UNCHANGED << priority, queVars >>

iset_flg(f, setptn) ==
  /\ InInterrupt
  /\ Set(f, setptn)
  /\ IntReturn(SetWinfo(f, setptn))
  /\ flgwait' = InScope(Hand(f, setptn))
  /\ UNCHANGED << priority, queVars >>

clr_flg(f, clrptn) ==
  /\ InTask
  /\ flgptn' = [flgptn EXCEPT ![f] = @ \cap clrptn]
  /\ UNCHANGED << flgwait, vars >>

\* The condition holds at once.  The refused calls, E_ILUSE and E_TMOUT,
\* change nothing.
Usable(f) == f \in TaWmul \/ wait_queue[f] = << >>

pol_flg(f, w) ==
  /\ InTask
  /\ Usable(f)
  /\ Condition(flgptn[f], w)
  /\ flgptn' = [flgptn EXCEPT ![f] = Leaves(f, @)]
  /\ UNCHANGED << flgwait, vars >>

Wait(f, w, callback) ==
  /\ CanDispatch
  /\ Usable(f)
  /\ \/ /\ Condition(flgptn[f], w)
        /\ flgptn' = [flgptn EXCEPT ![f] = Leaves(f, @)]
        /\ UNCHANGED << flgwait, vars >>
     \/ /\ ~Condition(flgptn[f], w)
        /\ make_wait("FLG", callback)
        /\ wobj_queue_insert(f)
        /\ flgwait' = InScope([flgwait EXCEPT ![p_runtsk] = w])
        /\ UNCHANGED << queVars, flgptn >>

wai_flg(f, w)  == Wait(f, w, "none")
twai_flg(f, w) == Wait(f, w, "wait_tmout")

ini_flg(f) ==
  /\ InTask
  /\ init_wait_queue(f)
  /\ flgptn' = [flgptn EXCEPT ![f] = iflgptn[f]]
  /\ TaskReturn(init_wait_queue_winfo(f))
  /\ flgwait' = InScope(flgwait)
  /\ UNCHANGED << priority, queVars >>

FlgCall(f) ==
  \/ ini_flg(f)
  \/ \E ptn \in SUBSET Bit : clr_flg(f, ptn)
  \/ \E ptn \in Pattern : set_flg(f, ptn) \/ iset_flg(f, ptn)
  \/ \E ptn \in Pattern, wfmode \in {"TWF_ORW", "TWF_ANDW"} :
       \/ wai_flg(f, WinfoFlg(ptn, wfmode))
       \/ twai_flg(f, WinfoFlg(ptn, wfmode))
       \/ pol_flg(f, WinfoFlg(ptn, wfmode))

FlgRest == flgwait' = InScope(flgwait) /\ UNCHANGED flgptn

FlgNext == (\E f \in Flg : FlgCall(f)) \/ (Next /\ FlgRest)

FlgSpec == FlgInit /\ [][FlgNext]_flgVars

----------------------------------------------------------------------------
(***************************************************************************)
(* Properties                                                              *)
(***************************************************************************)
\* The type invariant; only a task in a flag's call has a WINFO_FLG.
FlgTypeOK ==
  /\ TypeOK
  /\ flgptn \in [Flg -> SUBSET Bit]
  /\ \A t \in Task :
       \/ flgwait[t] = NoWait
       \/ /\ flgwait[t].waiptn \in Pattern
          /\ flgwait[t].wfmode \in {"TWF_ORW", "TWF_ANDW"}
          /\ flgwait[t].flgptn \subseteq Bit
          /\ winfo[t] # "none"

\* No event is missed: no task goes on waiting for a flag whose pattern
\* meets its condition, also when one call of set_flg meets those of several
\* tasks, and when ini_flg sets the initial pattern.
NoMissedEvent ==
  \A f \in Flg : \A t \in Members(wait_queue[f]) :
    ~Condition(flgptn[f], flgwait[t])

\* A task that was released normally is handed a pattern that meets its
\* condition, although the flag may have been cleared, set again or
\* initialised before the task runs and returns it.
Returned(t) == winfo[t] = E_OK /\ ~TSTAT_WAITING(tstat[t]) /\ flgwait[t] # NoWait

Meets(ptn, w) == \/ w.wfmode = "TWF_ORW" /\ \E b \in w.waiptn : b \in ptn
                 \/ w.wfmode = "TWF_ANDW" /\ \A b \in w.waiptn : b \in ptn

ReturnedPattern ==
  \A t \in Task : Returned(t) => Meets(flgwait[t].flgptn, flgwait[t])

\* Without TA_WMUL at most one task waits, also when the waiting task is
\* suspended, or its priority changes, in between.
SingleWaiter == \A f \in Flg \ TaWmul : Len(wait_queue[f]) <= 1
=============================================================================
