----------------------------- MODULE Semaphore -----------------------------
(***************************************************************************)
(* Semaphores (kernel/semaphore.c) on top of TaskKernel.  A semaphore is   *)
(* also the name of its wait queue.  Timeouts, forced releases,            *)
(* terminations, suspensions and priority changes of TaskKernel interleave *)
(* with the semaphore's own calls.                                         *)
(***************************************************************************)
EXTENDS TaskKernel

CONSTANTS
  Sem,
  isemcnt,     \* the initial count of each semaphore
  maxsem       \* its maximum count

SemAssumption ==
  /\ Sem \subseteq WaitQueue
  /\ isemcnt \in [Sem -> Nat]
  /\ maxsem \in [Sem -> Nat \ {0}]
  /\ \A s \in Sem : isemcnt[s] <= maxsem[s]

ASSUME SemcntAssumption == SemAssumption

VARIABLE semcnt    \* SEMCB.semcnt

semVars == << semcnt, vars >>

initialize_semaphore == semcnt = isemcnt

SemInit == Init /\ initialize_semaphore

----------------------------------------------------------------------------
\* What sig_sem and isig_sem do before their dispatch; w is winfo afterwards.
SignalWinfo(s) ==
  IF wait_queue[s] = << >> THEN winfo
                           ELSE wait_complete_winfo(Head(wait_queue[s]))

Signal(s) ==
  \/ /\ wait_queue[s] # << >>
     /\ wait_queue' = [wait_queue EXCEPT ![s] = Tail(@)]
     /\ wait_complete(Head(wait_queue[s]))
     /\ UNCHANGED semcnt
  \/ /\ wait_queue[s] = << >>
     /\ semcnt[s] < maxsem[s]
     /\ semcnt' = [semcnt EXCEPT ![s] = @ + 1]
     /\ UNCHANGED << sched, tstat, tmevt, wait_queue >>

sig_sem(s) ==
  /\ InTask
  /\ Signal(s)
  /\ TaskReturn(SignalWinfo(s))
  /\ UNCHANGED << priority, queVars >>

isig_sem(s) ==
  /\ InInterrupt
  /\ Signal(s)
  /\ IntReturn(SignalWinfo(s))
  /\ UNCHANGED << priority, queVars >>

Acquire(s) ==
  /\ semcnt[s] >= 1
  /\ semcnt' = [semcnt EXCEPT ![s] = @ - 1]
  /\ UNCHANGED vars

Wait(s, callback) ==
  /\ CanDispatch
  /\ \/ Acquire(s)
     \/ /\ semcnt[s] = 0
        /\ make_wait("SEM", callback)
        /\ wobj_queue_insert(s)
        /\ UNCHANGED << queVars, semcnt >>

wai_sem(s)  == Wait(s, "none")
twai_sem(s) == Wait(s, "wait_tmout")

pol_sem(s) == InTask /\ Acquire(s)

\* Mutant: the tasks that wait are forgotten.
ini_sem_CountOnly(s) ==
  /\ InTask
  /\ semcnt' = [semcnt EXCEPT ![s] = isemcnt[s]]
  /\ UNCHANGED vars

ini_sem(s) ==
  /\ InTask
  /\ init_wait_queue(s)
  /\ semcnt' = [semcnt EXCEPT ![s] = isemcnt[s]]
  /\ TaskReturn(init_wait_queue_winfo(s))
  /\ UNCHANGED << priority, queVars >>

SemCall(s) ==
  \/ sig_sem(s) \/ isig_sem(s)
  \/ wai_sem(s) \/ twai_sem(s) \/ pol_sem(s)
  \/ ini_sem(s)

SemRest == UNCHANGED semcnt

SemNext == (\E s \in Sem : SemCall(s)) \/ (Next /\ SemRest)

SemSpec == SemInit /\ [][SemNext]_semVars

----------------------------------------------------------------------------
SemTypeOK == TypeOK /\ semcnt \in [Sem -> Nat]

\* No task waits for a semaphore that has a unit, and the count stays within
\* maxsem: a unit given back goes to a waiting task or to the count, never
\* to both, also when ini_sem resets the count while tasks wait.
NoIdleUnit ==
  \A s \in Sem : /\ semcnt[s] > 0 => wait_queue[s] = << >>
                 /\ semcnt[s] <= maxsem[s]

\* The state of the semaphores is well formed and no unit of theirs is idle.
SemInv == SemTypeOK /\ NoIdleUnit
=============================================================================
