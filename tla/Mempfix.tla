------------------------------ MODULE Mempfix ------------------------------
(***************************************************************************)
(* Fixed-size memory pools (kernel/mempfix.c) on top of TaskKernel.  A     *)
(* pool is also the name of its wait queue.  It hands out its blocks never *)
(* used and those given back, which are linked in freelist.                *)
(*                                                                         *)
(* rel_mpf checks its parameter, for which it reads unused and next, and   *)
(* only then locks the CPU: it is two actions, and the task may be         *)
(* preempted between them.  owners counts how many owners a block has in   *)
(* the application, which gives a block back when it has it, and only then.*)
(***************************************************************************)
EXTENDS TaskKernel, Links

CONSTANTS
  Mpf,
  blkcnt,      \* the number of blocks of each pool
  UNINIT,      \* memory that was not written yet
  IniRaces     \* ini_mpf may be called while a task is in rel_mpf

MpfAssumption ==
  /\ Mpf \subseteq WaitQueue
  /\ blkcnt \in [Mpf -> Nat \ {0}]
  /\ \A m \in Mpf : UNINIT \notin 0 .. blkcnt[m] - 1 \cup {NULL}
  /\ \A m \in Mpf : \A b \in 0 .. blkcnt[m] - 1 : << m, b >> # NULL
  /\ IniRaces \in BOOLEAN

VARIABLES
  mpfcb,       \* MPFCB: fblkcnt, unused, freelist; and p_mpfmb[].next
  winfo_mpf,   \* WINFO_MPF.blk of each task in a waiting call, or NULL
  releasing,   \* the pool and block of a task inside rel_mpf, or NULL
  owners       \* how many owners each block has

mpfVars == << mpfcb, winfo_mpf, releasing, owners, vars >>

Blk(m) == 0 .. blkcnt[m] - 1

INDEX_NULL  == -1    \* ~0U, as the others no index
INDEX_ALLOC == -2    \* ~1U

Initialised(m, next) ==
  [fblkcnt |-> blkcnt[m], unused |-> 0, freelist |-> INDEX_NULL, next |-> next]

MpfInit ==
  /\ Init
  /\ mpfcb = [m \in Mpf |-> Initialised(m, [b \in Blk(m) |-> UNINIT])]
  /\ winfo_mpf = [t \in Task |-> NULL]
  /\ releasing = [t \in Task |-> NULL]
  /\ owners = [m \in Mpf |-> [b \in Blk(m) |-> 0]]

InScope(blk) == [t \in Task |-> IF winfo'[t] = "none" THEN NULL ELSE blk[t]]

\* The running task is between the check and t_lock_cpu of rel_mpf.
InRelease == p_runtsk # NULL /\ releasing[p_runtsk] # NULL

----------------------------------------------------------------------------
FirstFree(cb) == IF cb.freelist # INDEX_NULL THEN cb.freelist ELSE cb.unused

get_mpf_block(cb) ==
  [cb EXCEPT !.fblkcnt = @ - 1,
             !.unused = IF cb.freelist # INDEX_NULL THEN @ ELSE @ + 1,
             !.freelist = IF @ # INDEX_NULL THEN cb.next[@] ELSE @,
             !.next[FirstFree(cb)] = INDEX_ALLOC]

Get(m) ==
  /\ mpfcb[m].fblkcnt > 0
  /\ mpfcb' = [mpfcb EXCEPT ![m] = get_mpf_block(@)]
  /\ owners' = [owners EXCEPT ![m][FirstFree(mpfcb[m])] = @ + 1]
  /\ UNCHANGED << winfo_mpf, releasing, vars >>

pget_mpf(m) == InTask /\ ~InRelease /\ Get(m)

GetOrWait(m, callback) ==
  /\ CanDispatch
  /\ ~InRelease
  /\ \/ Get(m)
     \/ /\ mpfcb[m].fblkcnt = 0
        /\ make_wait("MPF", callback)
        /\ wobj_queue_insert(m)
        /\ winfo_mpf' = InScope([winfo_mpf EXCEPT ![p_runtsk] = UNINIT])
        /\ UNCHANGED << queVars, mpfcb, releasing, owners >>

get_mpf(m)  == GetOrWait(m, "none")
tget_mpf(m) == GetOrWait(m, "wait_tmout")

\* rel_mpf up to its last CHECK_PAR.
rel_mpf_check(m, blk) ==
  /\ InTask
  /\ ~InRelease
  /\ owners[m][blk] > 0
  /\ blk < mpfcb[m].unused
  /\ mpfcb[m].next[blk] = INDEX_ALLOC
  /\ releasing' = [releasing EXCEPT ![p_runtsk] = << m, blk >>]
  /\ owners' = [owners EXCEPT ![m][blk] = @ - 1]
  /\ UNCHANGED << mpfcb, winfo_mpf, vars >>

\* Mutant: the block is free although a waiting task has it.
PutBack_Always(m, blk) ==
  mpfcb' = [mpfcb EXCEPT ![m].fblkcnt = @ + 1,
                         ![m].next[blk] = mpfcb[m].freelist,
                         ![m].freelist = blk]

PutBack(m, blk) ==
  IF wait_queue[m] = << >>
    THEN mpfcb' = [mpfcb EXCEPT ![m].fblkcnt = @ + 1,
                                ![m].next[blk] = mpfcb[m].freelist,
                                ![m].freelist = blk]
    ELSE UNCHANGED mpfcb

Handed(m, blk) == [winfo_mpf EXCEPT ![Head(wait_queue[m])] = blk]

\* rel_mpf from t_lock_cpu on: the block goes to the first task that waits,
\* or back to the pool.
rel_mpf(m, blk) ==
  /\ InTask
  /\ releasing[p_runtsk] = << m, blk >>
  /\ releasing' = [releasing EXCEPT ![p_runtsk] = NULL]
  /\ PutBack(m, blk)
  /\ IF wait_queue[m] # << >>
       THEN /\ wait_queue' = [wait_queue EXCEPT ![m] = Tail(@)]
            /\ wait_complete(Head(wait_queue[m]))
            /\ TaskReturn(wait_complete_winfo(Head(wait_queue[m])))
            /\ winfo_mpf' = InScope(Handed(m, blk))
            /\ owners' = [owners EXCEPT ![m][blk] = @ + 1]
            /\ UNCHANGED << priority, queVars >>
       ELSE UNCHANGED << winfo_mpf, owners, vars >>

Reset(m) == Initialised(m, mpfcb[m].next)

\* The application gives up the blocks that it had.
ini_mpf(m) ==
  /\ InTask
  /\ ~InRelease
  /\ IniRaces \/ \A t \in Task, b \in Blk(m) : releasing[t] # << m, b >>
  /\ init_wait_queue(m)
  /\ mpfcb' = [mpfcb EXCEPT ![m] = Reset(m)]
  /\ owners' = [owners EXCEPT ![m] = [b \in Blk(m) |-> 0]]
  /\ TaskReturn(init_wait_queue_winfo(m))
  /\ winfo_mpf' = InScope(winfo_mpf)
  /\ UNCHANGED << priority, queVars, releasing >>

MpfCall(m) ==
  \/ get_mpf(m) \/ tget_mpf(m) \/ pget_mpf(m)
  \/ \E blk \in Blk(m) : rel_mpf_check(m, blk) \/ rel_mpf(m, blk)
  \/ ini_mpf(m)

\* A task inside rel_mpf does nothing else, but it can be interrupted; it is
\* not terminated or activated again there (a simplification: its block
\* would have no owner any more).
InsideRelease ==
  /\ InRelease /\ nest = 0 => nest' = 1
  /\ \A t \in Task :
       releasing[t] # NULL =>
         actque'[t] = actque[t] /\ ~TSTAT_DORMANT(tstat'[t])

MpfRest ==
  /\ InsideRelease
  /\ winfo_mpf' = InScope(winfo_mpf)
  /\ UNCHANGED << mpfcb, releasing, owners >>

MpfNext == (\E m \in Mpf : MpfCall(m)) \/ (Next /\ MpfRest)

MpfSpec == MpfInit /\ [][MpfNext]_mpfVars

----------------------------------------------------------------------------
(***************************************************************************)
(* Properties                                                              *)
(***************************************************************************)
Index(m) == Blk(m) \cup {INDEX_NULL}

\* The type invariant.
MpfTypeOK ==
  /\ TypeOK
  /\ \A m \in Mpf :
       /\ {mpfcb[m].fblkcnt, mpfcb[m].unused} \subseteq 0 .. blkcnt[m]
       /\ mpfcb[m].freelist \in Index(m)
       /\ mpfcb[m].next \in [Blk(m) -> Index(m) \cup {INDEX_ALLOC, UNINIT}]

\* The blocks linked in freelist.
Freelist(m) == Chain(mpfcb[m].next, mpfcb[m].freelist, INDEX_NULL)

Allocated(m) ==
  {b \in Blk(m) : b < mpfcb[m].unused /\ mpfcb[m].next[b] = INDEX_ALLOC}

\* Each block that was ever used is either marked as allocated or linked in
\* the free list, once.
FreelistInv ==
  \A m \in Mpf :
    /\ NoDuplicates(Freelist(m))
    /\ Members(Freelist(m)) = (0 .. mpfcb[m].unused - 1) \ Allocated(m)

\* mempfix.h: fblkcnt is the number of the blocks that are not allocated.
FreeCount ==
  \A m \in Mpf : mpfcb[m].fblkcnt = blkcnt[m] - Cardinality(Allocated(m))

\* No block has two owners: the application, a task that is about to return
\* with it, or a task that is giving it back.  A block with an owner is not
\* handed out again.
OneOwner ==
  \A m \in Mpf : \A b \in Blk(m) :
    LET users == owners[m][b]
                   + Cardinality({t \in Task : releasing[t] = << m, b >>})
    IN  users <= 1 /\ (users = 1 => b \in Allocated(m))

\* A task waits only for a pool without a free block.
NoIdleBlock == \A m \in Mpf : wait_queue[m] # << >> => mpfcb[m].fblkcnt = 0

\* The call of a task that was released normally has a block, to the owner
\* of which it returns.
HasBlock ==
  \A t \in Task :
    winfo[t] = E_OK /\ ~TSTAT_WAITING(tstat[t]) => winfo_mpf[t] # UNINIT
=============================================================================
