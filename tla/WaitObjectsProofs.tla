-------------------------- MODULE WaitObjectsProofs --------------------------
(***************************************************************************)
(* The synchronisation and communication objects together, for any number  *)
(* of tasks, priorities, objects, buffer sizes, patterns, data, messages   *)
(* and blocks.                                                             *)
(*                                                                         *)
(* A step of the kernel or a call on an object is a StepOn(O) of           *)
(* TaskKernelProofs, with O the queues of the object, and that is all that *)
(* the other objects need to know of it.  Each kind of object has an       *)
(* invariant of its own (SemKept, FlgKept, ...), with one lemma for its    *)
(* calls and one for the steps on other objects.                           *)
(*                                                                         *)
(* Pending is why the two theorems are inductive: a task in a waiting call *)
(* that was handed nothing yet is in a queue of the kind of object that it *)
(* waits for, or was told an error.                                        *)
(***************************************************************************)
EXTENDS WaitObjects, TaskKernelProofs

----------------------------------------------------------------------------
(***************************************************************************)
(* What the call of a waiting task is handed, d[t], is UNINIT until then.  *)
(***************************************************************************)
Missing(d) == {t \in Task : d[t] = UNINIT}

Got(d, Q)     == DOMAIN d = Task /\ Pending(Missing(d), Q)
GotNext(d, Q) == DOMAIN d = Task /\ PendingNext(Missing(d), Q)

Scope(h) == [t \in Task |-> IF winfo'[t] = "none" THEN NULL ELSE h[t]]

LEMMA GotIs ==
  ASSUME NEW d, NEW Q, Got(d, Q), NEW t \in Task, winfo[t] = E_OK,
         ~TSTAT_WAITING(tstat[t])
  PROVE  d[t] # UNINIT
BY DEF Got, Pending, Missing

LEMMA GotKept ==
  ASSUME ObjectKernel, ObjectKernel', UNINIT # NULL,
         NEW O \in SUBSET WaitQueue, StepOn(O), NEW Q \in SUBSET WaitQueue,
         NEW d, Got(d, Q), NEW h,
         \A t \in Task : h[t] = UNINIT /\ winfo'[t] # "none" =>
           \/ TSTAT_WAITING(tstat'[t]) /\ \E q \in Q : t \in Members(wait_queue'[q])
           \/ d[t] = UNINIT /\ KeepsMissing(t, Q \cap O)
  PROVE  GotNext(Scope(h), Q)
<1> DEFINE Pnd  == Missing(d)
           PndN == Missing(Scope(h))
<1>1. DOMAIN Scope(h) = Task
  BY DEF Scope
<1>2. Pnd \in SUBSET Task /\ Pending(Pnd, Q)
  BY DEF Missing, Got
<1>3. PndN \in SUBSET Task
  BY DEF Missing
<1>4. ASSUME NEW t \in PndN
      PROVE  winfo'[t] # "none" /\
             \/ TSTAT_WAITING(tstat'[t]) /\ \E q \in Q : t \in Members(wait_queue'[q])
             \/ t \in Pnd /\ KeepsMissing(t, Q \cap O)
  <2>1. t \in Task /\ Scope(h)[t] = UNINIT
    BY <1>4 DEF Missing
  <2>2. winfo'[t] # "none" /\ h[t] = UNINIT
    BY <2>1 DEF Scope
  <2>3. QED
    BY <2>1, <2>2 DEF Missing
<1> HIDE DEF Pnd, PndN
<1>5. PendingNext(PndN, Q)
  BY <1>2, <1>3, <1>4, PendingKept
<1>6. QED
  BY <1>1, <1>5 DEF GotNext, PndN

\* A step on other queues.
LEMMA GotRest ==
  ASSUME ObjectKernel, ObjectKernel', UNINIT # NULL,
         NEW O \in SUBSET WaitQueue, StepOn(O), NEW Q \in SUBSET WaitQueue,
         Q \cap O = {}, NEW d, Got(d, Q)
  PROVE  GotNext(Scope(d), Q)
<1>1. \A t \in Task : KeepsMissing(t, Q \cap O)
  BY DEF KeepsMissing
<1>2. QED
  BY <1>1, GotKept

LEMMA GotHand ==
  ASSUME ObjectKernel, NEW r \in WaitQueue, Hands(r), UNINIT # NULL,
         NEW Q \in SUBSET WaitQueue, NEW d, Got(d, Q), NEW x, x # UNINIT
  PROVE  GotNext(Scope([d EXCEPT ![Head(wait_queue[r])] = x]), Q)
<1> DEFINE t == Head(wait_queue[r])
           h == [d EXCEPT ![t] = x]
<1>1. /\ ObjectKernel' /\ StepOn({r}) /\ t \in Task
      /\ \A u \in Task \ {t} : tstat'[u] = tstat[u]
  BY HandCall
<1>2. DOMAIN d = Task
  BY DEF Got
<1> HIDE DEF t
<1>3. h[t] = x /\ \A u \in Task \ {t} : h[u] = d[u]
  BY <1>1, <1>2
<1> HIDE DEF h
<1>4. \A u \in Task \ {t} : KeepsMissing(u, Q \cap {r})
  BY <1>1, NotReleased
<1>5. \A u \in Task : h[u] = UNINIT => d[u] = UNINIT /\ KeepsMissing(u, Q \cap {r})
  BY <1>3, <1>4
<1>6. GotNext(Scope(h), Q)
  BY <1>1, <1>5, GotKept
<1>7. QED
  BY <1>6 DEF h, t

\* The tasks are released with an error.
LEMMA GotDelete ==
  ASSUME ObjectKernel, ObjectKernel', UNINIT # NULL,
         NEW O \in SUBSET WaitQueue, StepOn(O), NEW Q \in SUBSET WaitQueue,
         NEW d, Got(d, Q), NEW entry, ReleasesTasks(entry, "E_DLT")
  PROVE  GotNext(Scope(d), Q)
<1>1. ASSUME NEW t \in Task PROVE KeepsMissing(t, Q \cap O)
  <2>1. CASE t \in Members(entry)
    <3>1. winfo'[t] # E_OK
      BY <2>1 DEF ReleasesTasks, E_OK, ZERO
    <3>2. QED
      BY <3>1 DEF KeepsMissing
  <2>2. CASE t \notin Members(entry)
    BY <2>2, NotReleased DEF ReleasesTasks
  <2>3. QED
    BY <2>1, <2>2
<1>2. QED
  BY <1>1, GotKept

LEMMA GotWait ==
  ASSUME ObjectKernel, ObjectKernel', UNINIT # NULL,
         NEW s \in WaitQueue, StepOn({s}), BeginsToWait(s),
         NEW Q \in SUBSET WaitQueue, NEW d, Got(d, Q), NEW x,
         x = UNINIT => s \in Q
  PROVE  GotNext(Scope([d EXCEPT ![p_runtsk] = x]), Q)
<1> DEFINE t == p_runtsk
           h == [d EXCEPT ![t] = x]
<1>1. /\ t \in Task /\ TSTAT_WAITING(tstat'[t])
      /\ t \in Members(wait_queue'[s])
      /\ \A u \in Task \ {t} : tstat'[u] = tstat[u]
  BY DEF BeginsToWait
<1>2. DOMAIN d = Task
  BY DEF Got
<1>3. h[t] = x /\ \A u \in Task \ {t} : h[u] = d[u]
  BY <1>1, <1>2
<1> HIDE DEF h
<1>4. \A u \in Task \ {t} : KeepsMissing(u, Q \cap {s})
  BY <1>1, NotReleased
<1>5. \A u \in Task : h[u] = UNINIT =>
        \/ TSTAT_WAITING(tstat'[u]) /\ \E q \in Q : u \in Members(wait_queue'[q])
        \/ d[u] = UNINIT /\ KeepsMissing(u, Q \cap {s})
  BY <1>1, <1>3, <1>4
<1>6. GotNext(Scope(h), Q)
  BY <1>5, GotKept
<1>7. QED
  BY <1>6 DEF h

----------------------------------------------------------------------------
(***************************************************************************)
(* An object with a buffer of cnt places, with the control block cb: s is  *)
(* the queue of the tasks that wait to send, r of those that wait to       *)
(* receive.                                                                *)
(***************************************************************************)
Buffer(cb, cnt) == "count" \in DOMAIN cb /\ cb.count \in 0 .. cnt

Idle(cb, cnt, s, r) ==
  /\ wait_queue[r] # << >> => cb.count = 0 /\ wait_queue[s] = << >>
  /\ wait_queue[s] # << >> => cb.count = cnt

IdleNext(cb, cnt, s, r) ==
  /\ wait_queue'[r] # << >> => cb.count = 0 /\ wait_queue'[s] = << >>
  /\ wait_queue'[s] # << >> => cb.count = cnt

BufferAt(cb, cnt, s, r)   == Buffer(cb, cnt) /\ Idle(cb, cnt, s, r)
BufferNext(cb, cnt, s, r) == Buffer(cb, cnt) /\ IdleNext(cb, cnt, s, r)

LEMMA BufferRest ==
  ASSUME ObjectKernel, ObjectKernel', NEW O, StepOn(O),
         NEW s \in WaitQueue, NEW r \in WaitQueue, s \notin O, r \notin O,
         NEW cb, NEW cnt, BufferAt(cb, cnt, s, r)
  PROVE  BufferNext(cb, cnt, s, r)
<1>1. /\ wait_queue[s] = << >> => wait_queue'[s] = << >>
      /\ wait_queue[r] = << >> => wait_queue'[r] = << >>
  BY StaysEmpty
<1>2. QED
  BY <1>1 DEF BufferAt, BufferNext, Idle, IdleNext

\* new is old with another control block for d.
Sets(new, old, d, cb) ==
  /\ DOMAIN new = DOMAIN old /\ new[d] = cb
  /\ \A e \in DOMAIN old \ {d} : new[e] = old[e]

LEMMA SetsExcept ==
  ASSUME NEW old, NEW d \in DOMAIN old, NEW cb
  PROVE  Sets([old EXCEPT ![d] = cb], old, d, cb)
BY DEF Sets

\* A call on the object: dN is what the calls of the tasks have after it.
TwoCall(cb, cnt, s, r, dN, Q) ==
  /\ ObjectKernel' /\ StepOn({s, r})
  /\ BufferNext(cb, cnt, s, r)
  /\ GotNext(dN, Q)

\* The queues of the object in the set Q of all queues for receiving.
TwoQueue(s, r, Q) ==
  s \in WaitQueue /\ r \in WaitQueue /\ s # r /\ r \in Q /\ s \notin Q

\* A datum x is handed to the first task that waits to receive.
LEMMA TwoHand ==
  ASSUME ObjectKernel, UNINIT # NULL, NEW Q \in SUBSET WaitQueue, NEW s, NEW r,
         TwoQueue(s, r, Q), NEW cb, NEW cnt, BufferAt(cb, cnt, s, r),
         NEW d, Got(d, Q), Hands(r), NEW x, x # UNINIT
  PROVE  TwoCall(cb, cnt, s, r,
                 Scope([d EXCEPT ![Head(wait_queue[r])] = x]), Q)
<1>1. s \in WaitQueue /\ r \in WaitQueue /\ s # r
  BY DEF TwoQueue
<1>2. ObjectKernel' /\ StepOn({r})
  BY <1>1, HandCall
<1>3. StepOn({s, r})
  BY <1>2, StepOnMore
<1>4. wait_queue[r] # << >> /\ wait_queue'[s] = wait_queue[s]
  BY <1>1, TypesOf DEF Hands, ObjectKernel
<1>5. BufferNext(cb, cnt, s, r)
  BY <1>4 DEF BufferAt, BufferNext, Idle, IdleNext
<1>6. QED
  BY <1>1, <1>2, <1>3, <1>5, GotHand DEF TwoCall

\* The buffer changes, and no task is concerned.
LEMMA TwoStore ==
  ASSUME ObjectKernel, UNINIT # NULL, NEW Q \in SUBSET WaitQueue, NEW s, NEW r,
         TwoQueue(s, r, Q), UNCHANGED << sched, tstat, tmevt, wait_queue >>,
         Returns(winfo), UNCHANGED << priority, queVars >>,
         NEW d, Got(d, Q), NEW cb, NEW cnt, BufferAt(cb, cnt, s, r)
  PROVE  TwoCall(cb, cnt, s, r, Scope(d), Q)
<1>1. ObjectKernel' /\ StepOn({})
  BY NoneCall
<1>2. StepOn({s, r})
  BY <1>1, StepOnMore
<1>3. GotNext(Scope(d), Q)
  BY <1>1, GotRest
<1>4. QED
  BY <1>1, <1>2, <1>3 DEF TwoCall, BufferAt, BufferNext, Idle, IdleNext

\* The room goes to the first task that waits to send.
LEMMA TwoTake ==
  ASSUME ObjectKernel, UNINIT # NULL, NEW Q \in SUBSET WaitQueue, NEW s, NEW r,
         TwoQueue(s, r, Q), Hands(s), NEW d, Got(d, Q),
         NEW cb, NEW cnt, BufferAt(cb, cnt, s, r), NEW cbN, Buffer(cbN, cnt),
         cbN.count = cb.count
  PROVE  TwoCall(cbN, cnt, s, r, Scope(d), Q)
<1>1. s \in WaitQueue /\ r \in WaitQueue /\ s # r /\ Q \cap {s} = {}
  BY DEF TwoQueue
<1>2. ObjectKernel' /\ StepOn({s})
  BY <1>1, HandCall
<1>3. StepOn({s, r})
  BY <1>2, StepOnMore
<1>4. wait_queue[s] # << >> /\ wait_queue'[r] = wait_queue[r]
  BY <1>1, TypesOf DEF Hands, ObjectKernel
<1>5. BufferNext(cbN, cnt, s, r)
  BY <1>4 DEF BufferAt, BufferNext, Idle, IdleNext
<1>6. GotNext(Scope(d), Q)
  BY <1>1, <1>2, GotRest
<1>7. QED
  BY <1>2, <1>3, <1>5, <1>6 DEF TwoCall

LEMMA TwoWait ==
  ASSUME ObjectKernel, UNINIT # NULL, NEW Q \in SUBSET WaitQueue, NEW s, NEW r,
         TwoQueue(s, r, Q), NEW d, Got(d, Q),
         NEW cb, NEW cnt, BufferAt(cb, cnt, s, r),
         NEW f \in WobjFactor, NEW callback \in {"none", "wait_tmout"},
         NEW q \in {s, r}, q \in TpriQueue => f \in WobjcbFactor,
         Waits(f, callback, q), NEW x, x = UNINIT => q = r,
         q = s => wait_queue[r] = << >> /\ cb.count = cnt,
         q = r => wait_queue[s] = << >> /\ cb.count = 0
  PROVE  TwoCall(cb, cnt, s, r, Scope([d EXCEPT ![p_runtsk] = x]), Q)
<1>1. s \in WaitQueue /\ r \in WaitQueue /\ s # r /\ q \in WaitQueue
      /\ r \in Q
  BY DEF TwoQueue
<1>2. ObjectKernel' /\ StepOn({q}) /\ BeginsToWait(q)
  BY <1>1, WaitCall DEF Waits
<1>3. StepOn({s, r})
  BY <1>2, StepOnMore
<1>4. \A o \in {s, r} \ {q} : wait_queue'[o] = wait_queue[o]
  BY <1>1, <1>2 DEF BeginsToWait
<1>5. BufferNext(cb, cnt, s, r)
  BY <1>1, <1>4 DEF BufferAt, BufferNext, Idle, IdleNext
<1>6. GotNext(Scope([d EXCEPT ![p_runtsk] = x]), Q)
  BY <1>1, <1>2, GotWait
<1>7. QED
  BY <1>2, <1>3, <1>5, <1>6 DEF TwoCall

LEMMA TwoIni ==
  ASSUME ObjectKernel, UNINIT # NULL, NEW Q \in SUBSET WaitQueue, NEW s, NEW r,
         TwoQueue(s, r, Q), DeletesTwo(s, r), NEW d, Got(d, Q),
         NEW cb, NEW cnt, Buffer(cb, cnt)
  PROVE  TwoCall(cb, cnt, s, r, Scope(d), Q)
<1>1. s \in WaitQueue /\ r \in WaitQueue /\ s # r
  BY DEF TwoQueue
<1>2. /\ ObjectKernel' /\ StepOn({s, r})
      /\ wait_queue'[s] = << >> /\ wait_queue'[r] = << >>
      /\ \E entry : ReleasesTasks(entry, "E_DLT")
  BY <1>1, IniTwoCall
<1>3. GotNext(Scope(d), Q)
  BY <1>1, <1>2, GotDelete
<1>4. QED
  BY <1>2, <1>3 DEF TwoCall, BufferNext, IdleNext

----------------------------------------------------------------------------
(***************************************************************************)
(* Each module of an object has its instance of TaskKernel, which is this  *)
(* one.                                                                    *)
(***************************************************************************)
LEMMA SameS ==
  /\ \A x : S!TSTAT_WAITING(x) <=> TSTAT_WAITING(x)
  /\ \A x : S!Members(x) = Members(x)
  /\ S!InTask <=> InTask
  /\ S!InInterrupt <=> InInterrupt
  /\ S!CanDispatch <=> CanDispatch
  /\ \A x : S!TaskReturn(x) <=> TaskReturn(x)
  /\ \A x : S!IntReturn(x) <=> IntReturn(x)
  /\ \A x, y : S!make_wait(x, y) <=> make_wait(x, y)
  /\ \A x : S!wobj_queue_insert(x) <=> wobj_queue_insert(x)
  /\ \A x : S!wait_complete(x) <=> wait_complete(x)
  /\ \A x : S!wait_complete_winfo(x) = wait_complete_winfo(x)
  /\ \A x : S!release_in_order(x) <=> release_in_order(x)
  /\ \A x, y : S!release_winfo(x, y) = release_winfo(x, y)
  /\ \A x : S!init_wait_queue(x) <=> init_wait_queue(x)
  /\ \A x : S!init_wait_queue_winfo(x) = init_wait_queue_winfo(x)
BY DEF bootVars, CanDispatch, ctxVars, Dispatch, DispatchRequired, E_OK,
       flagVars, InInterrupt, init_wait_queue, init_wait_queue_winfo, InTask,
       IntReturn, make_non_runnable, make_non_wait, make_runnable, make_wait,
       Members, NoTmevtb, Position, primap_search, QueueDelete,
       QueueInsertTpri, release_in_order, release_winfo, search_schedtsk,
       TaskContext, TaskReturn, TpriPosition, TS_RUNNABLE, TS_SUSPENDED,
       TS_WAITING, TSTAT_SUSPENDED, TSTAT_WAITING, wait_complete,
       wait_complete_winfo, wait_dequeue_tmevtb, wobj_queue_insert, ZERO,
       S!bootVars, S!CanDispatch, S!ctxVars, S!Dispatch, S!DispatchRequired,
       S!E_OK, S!flagVars, S!InInterrupt, S!init_wait_queue,
       S!init_wait_queue_winfo, S!InTask, S!IntReturn, S!make_non_runnable,
       S!make_non_wait, S!make_runnable, S!make_wait, S!Members, S!NoTmevtb,
       S!Position, S!primap_search, S!QueueDelete, S!QueueInsertTpri,
       S!release_in_order, S!release_winfo, S!search_schedtsk, S!TaskContext,
       S!TaskReturn, S!TpriPosition, S!TS_RUNNABLE, S!TS_SUSPENDED,
       S!TS_WAITING, S!TSTAT_SUSPENDED, S!TSTAT_WAITING, S!wait_complete,
       S!wait_complete_winfo, S!wait_dequeue_tmevtb, S!wobj_queue_insert,
       S!ZERO

LEMMA SameF ==
  /\ \A x : F!TSTAT_WAITING(x) <=> TSTAT_WAITING(x)
  /\ \A x : F!Members(x) = Members(x)
  /\ F!InTask <=> InTask
  /\ F!InInterrupt <=> InInterrupt
  /\ F!CanDispatch <=> CanDispatch
  /\ \A x : F!TaskReturn(x) <=> TaskReturn(x)
  /\ \A x : F!IntReturn(x) <=> IntReturn(x)
  /\ \A x, y : F!make_wait(x, y) <=> make_wait(x, y)
  /\ \A x : F!wobj_queue_insert(x) <=> wobj_queue_insert(x)
  /\ \A x : F!wait_complete(x) <=> wait_complete(x)
  /\ \A x : F!wait_complete_winfo(x) = wait_complete_winfo(x)
  /\ \A x : F!release_in_order(x) <=> release_in_order(x)
  /\ \A x, y : F!release_winfo(x, y) = release_winfo(x, y)
  /\ \A x : F!init_wait_queue(x) <=> init_wait_queue(x)
  /\ \A x : F!init_wait_queue_winfo(x) = init_wait_queue_winfo(x)
BY DEF bootVars, CanDispatch, ctxVars, Dispatch, DispatchRequired, E_OK,
       flagVars, InInterrupt, init_wait_queue, init_wait_queue_winfo, InTask,
       IntReturn, make_non_runnable, make_non_wait, make_runnable, make_wait,
       Members, NoTmevtb, Position, primap_search, QueueDelete,
       QueueInsertTpri, release_in_order, release_winfo, search_schedtsk,
       TaskContext, TaskReturn, TpriPosition, TS_RUNNABLE, TS_SUSPENDED,
       TS_WAITING, TSTAT_SUSPENDED, TSTAT_WAITING, wait_complete,
       wait_complete_winfo, wait_dequeue_tmevtb, wobj_queue_insert, ZERO,
       F!bootVars, F!CanDispatch, F!ctxVars, F!Dispatch, F!DispatchRequired,
       F!E_OK, F!flagVars, F!InInterrupt, F!init_wait_queue,
       F!init_wait_queue_winfo, F!InTask, F!IntReturn, F!make_non_runnable,
       F!make_non_wait, F!make_runnable, F!make_wait, F!Members, F!NoTmevtb,
       F!Position, F!primap_search, F!QueueDelete, F!QueueInsertTpri,
       F!release_in_order, F!release_winfo, F!search_schedtsk, F!TaskContext,
       F!TaskReturn, F!TpriPosition, F!TS_RUNNABLE, F!TS_SUSPENDED,
       F!TS_WAITING, F!TSTAT_SUSPENDED, F!TSTAT_WAITING, F!wait_complete,
       F!wait_complete_winfo, F!wait_dequeue_tmevtb, F!wobj_queue_insert,
       F!ZERO

LEMMA SameD ==
  /\ \A x : D!TSTAT_WAITING(x) <=> TSTAT_WAITING(x)
  /\ \A x : D!Members(x) = Members(x)
  /\ D!InTask <=> InTask
  /\ D!InInterrupt <=> InInterrupt
  /\ D!CanDispatch <=> CanDispatch
  /\ \A x : D!TaskReturn(x) <=> TaskReturn(x)
  /\ \A x : D!IntReturn(x) <=> IntReturn(x)
  /\ \A x, y : D!make_wait(x, y) <=> make_wait(x, y)
  /\ \A x : D!wobj_queue_insert(x) <=> wobj_queue_insert(x)
  /\ \A x : D!wait_complete(x) <=> wait_complete(x)
  /\ \A x : D!wait_complete_winfo(x) = wait_complete_winfo(x)
  /\ \A x : D!release_in_order(x) <=> release_in_order(x)
  /\ \A x, y : D!release_winfo(x, y) = release_winfo(x, y)
  /\ \A x : D!init_wait_queue(x) <=> init_wait_queue(x)
  /\ \A x : D!init_wait_queue_winfo(x) = init_wait_queue_winfo(x)
  /\ \A x : D!InScope(x) = Scope(x)
BY DEF Scope, D!InScope, bootVars, CanDispatch, ctxVars, Dispatch, DispatchRequired, E_OK,
       flagVars, InInterrupt, init_wait_queue, init_wait_queue_winfo, InTask,
       IntReturn, make_non_runnable, make_non_wait, make_runnable, make_wait,
       Members, NoTmevtb, Position, primap_search, QueueDelete,
       QueueInsertTpri, release_in_order, release_winfo, search_schedtsk,
       TaskContext, TaskReturn, TpriPosition, TS_RUNNABLE, TS_SUSPENDED,
       TS_WAITING, TSTAT_SUSPENDED, TSTAT_WAITING, wait_complete,
       wait_complete_winfo, wait_dequeue_tmevtb, wobj_queue_insert, ZERO,
       D!bootVars, D!CanDispatch, D!ctxVars, D!Dispatch, D!DispatchRequired,
       D!E_OK, D!flagVars, D!InInterrupt, D!init_wait_queue,
       D!init_wait_queue_winfo, D!InTask, D!IntReturn, D!make_non_runnable,
       D!make_non_wait, D!make_runnable, D!make_wait, D!Members, D!NoTmevtb,
       D!Position, D!primap_search, D!QueueDelete, D!QueueInsertTpri,
       D!release_in_order, D!release_winfo, D!search_schedtsk, D!TaskContext,
       D!TaskReturn, D!TpriPosition, D!TS_RUNNABLE, D!TS_SUSPENDED,
       D!TS_WAITING, D!TSTAT_SUSPENDED, D!TSTAT_WAITING, D!wait_complete,
       D!wait_complete_winfo, D!wait_dequeue_tmevtb, D!wobj_queue_insert,
       D!ZERO

LEMMA SameP ==
  /\ \A x : P!TSTAT_WAITING(x) <=> TSTAT_WAITING(x)
  /\ \A x : P!Members(x) = Members(x)
  /\ P!InTask <=> InTask
  /\ P!InInterrupt <=> InInterrupt
  /\ P!CanDispatch <=> CanDispatch
  /\ \A x : P!TaskReturn(x) <=> TaskReturn(x)
  /\ \A x : P!IntReturn(x) <=> IntReturn(x)
  /\ \A x, y : P!make_wait(x, y) <=> make_wait(x, y)
  /\ \A x : P!wobj_queue_insert(x) <=> wobj_queue_insert(x)
  /\ \A x : P!wait_complete(x) <=> wait_complete(x)
  /\ \A x : P!wait_complete_winfo(x) = wait_complete_winfo(x)
  /\ \A x : P!release_in_order(x) <=> release_in_order(x)
  /\ \A x, y : P!release_winfo(x, y) = release_winfo(x, y)
  /\ \A x : P!init_wait_queue(x) <=> init_wait_queue(x)
  /\ \A x : P!init_wait_queue_winfo(x) = init_wait_queue_winfo(x)
  /\ \A x : P!InScope(x) = Scope(x)
BY DEF Scope, P!InScope, bootVars, CanDispatch, ctxVars, Dispatch, DispatchRequired, E_OK,
       flagVars, InInterrupt, init_wait_queue, init_wait_queue_winfo, InTask,
       IntReturn, make_non_runnable, make_non_wait, make_runnable, make_wait,
       Members, NoTmevtb, Position, primap_search, QueueDelete,
       QueueInsertTpri, release_in_order, release_winfo, search_schedtsk,
       TaskContext, TaskReturn, TpriPosition, TS_RUNNABLE, TS_SUSPENDED,
       TS_WAITING, TSTAT_SUSPENDED, TSTAT_WAITING, wait_complete,
       wait_complete_winfo, wait_dequeue_tmevtb, wobj_queue_insert, ZERO,
       P!bootVars, P!CanDispatch, P!ctxVars, P!Dispatch, P!DispatchRequired,
       P!E_OK, P!flagVars, P!InInterrupt, P!init_wait_queue,
       P!init_wait_queue_winfo, P!InTask, P!IntReturn, P!make_non_runnable,
       P!make_non_wait, P!make_runnable, P!make_wait, P!Members, P!NoTmevtb,
       P!Position, P!primap_search, P!QueueDelete, P!QueueInsertTpri,
       P!release_in_order, P!release_winfo, P!search_schedtsk, P!TaskContext,
       P!TaskReturn, P!TpriPosition, P!TS_RUNNABLE, P!TS_SUSPENDED,
       P!TS_WAITING, P!TSTAT_SUSPENDED, P!TSTAT_WAITING, P!wait_complete,
       P!wait_complete_winfo, P!wait_dequeue_tmevtb, P!wobj_queue_insert,
       P!ZERO

LEMMA SameB ==
  /\ \A x : B!TSTAT_WAITING(x) <=> TSTAT_WAITING(x)
  /\ \A x : B!Members(x) = Members(x)
  /\ B!InTask <=> InTask
  /\ B!InInterrupt <=> InInterrupt
  /\ B!CanDispatch <=> CanDispatch
  /\ \A x : B!TaskReturn(x) <=> TaskReturn(x)
  /\ \A x : B!IntReturn(x) <=> IntReturn(x)
  /\ \A x, y : B!make_wait(x, y) <=> make_wait(x, y)
  /\ \A x : B!wobj_queue_insert(x) <=> wobj_queue_insert(x)
  /\ \A x : B!wait_complete(x) <=> wait_complete(x)
  /\ \A x : B!wait_complete_winfo(x) = wait_complete_winfo(x)
  /\ \A x : B!release_in_order(x) <=> release_in_order(x)
  /\ \A x, y : B!release_winfo(x, y) = release_winfo(x, y)
  /\ \A x : B!init_wait_queue(x) <=> init_wait_queue(x)
  /\ \A x : B!init_wait_queue_winfo(x) = init_wait_queue_winfo(x)
  /\ \A x : B!InScope(x) = Scope(x)
BY DEF Scope, B!InScope, bootVars, CanDispatch, ctxVars, Dispatch, DispatchRequired, E_OK,
       flagVars, InInterrupt, init_wait_queue, init_wait_queue_winfo, InTask,
       IntReturn, make_non_runnable, make_non_wait, make_runnable, make_wait,
       Members, NoTmevtb, Position, primap_search, QueueDelete,
       QueueInsertTpri, release_in_order, release_winfo, search_schedtsk,
       TaskContext, TaskReturn, TpriPosition, TS_RUNNABLE, TS_SUSPENDED,
       TS_WAITING, TSTAT_SUSPENDED, TSTAT_WAITING, wait_complete,
       wait_complete_winfo, wait_dequeue_tmevtb, wobj_queue_insert, ZERO,
       B!bootVars, B!CanDispatch, B!ctxVars, B!Dispatch, B!DispatchRequired,
       B!E_OK, B!flagVars, B!InInterrupt, B!init_wait_queue,
       B!init_wait_queue_winfo, B!InTask, B!IntReturn, B!make_non_runnable,
       B!make_non_wait, B!make_runnable, B!make_wait, B!Members, B!NoTmevtb,
       B!Position, B!primap_search, B!QueueDelete, B!QueueInsertTpri,
       B!release_in_order, B!release_winfo, B!search_schedtsk, B!TaskContext,
       B!TaskReturn, B!TpriPosition, B!TS_RUNNABLE, B!TS_SUSPENDED,
       B!TS_WAITING, B!TSTAT_SUSPENDED, B!TSTAT_WAITING, B!wait_complete,
       B!wait_complete_winfo, B!wait_dequeue_tmevtb, B!wobj_queue_insert,
       B!ZERO

LEMMA SameM ==
  /\ \A x : M!TSTAT_WAITING(x) <=> TSTAT_WAITING(x)
  /\ \A x : M!Members(x) = Members(x)
  /\ M!InTask <=> InTask
  /\ M!InInterrupt <=> InInterrupt
  /\ M!CanDispatch <=> CanDispatch
  /\ \A x : M!TaskReturn(x) <=> TaskReturn(x)
  /\ \A x : M!IntReturn(x) <=> IntReturn(x)
  /\ \A x, y : M!make_wait(x, y) <=> make_wait(x, y)
  /\ \A x : M!wobj_queue_insert(x) <=> wobj_queue_insert(x)
  /\ \A x : M!wait_complete(x) <=> wait_complete(x)
  /\ \A x : M!wait_complete_winfo(x) = wait_complete_winfo(x)
  /\ \A x : M!release_in_order(x) <=> release_in_order(x)
  /\ \A x, y : M!release_winfo(x, y) = release_winfo(x, y)
  /\ \A x : M!init_wait_queue(x) <=> init_wait_queue(x)
  /\ \A x : M!init_wait_queue_winfo(x) = init_wait_queue_winfo(x)
  /\ \A x : M!InScope(x) = Scope(x)
BY DEF Scope, M!InScope, bootVars, CanDispatch, ctxVars, Dispatch, DispatchRequired, E_OK,
       flagVars, InInterrupt, init_wait_queue, init_wait_queue_winfo, InTask,
       IntReturn, make_non_runnable, make_non_wait, make_runnable, make_wait,
       Members, NoTmevtb, Position, primap_search, QueueDelete,
       QueueInsertTpri, release_in_order, release_winfo, search_schedtsk,
       TaskContext, TaskReturn, TpriPosition, TS_RUNNABLE, TS_SUSPENDED,
       TS_WAITING, TSTAT_SUSPENDED, TSTAT_WAITING, wait_complete,
       wait_complete_winfo, wait_dequeue_tmevtb, wobj_queue_insert, ZERO,
       M!bootVars, M!CanDispatch, M!ctxVars, M!Dispatch, M!DispatchRequired,
       M!E_OK, M!flagVars, M!InInterrupt, M!init_wait_queue,
       M!init_wait_queue_winfo, M!InTask, M!IntReturn, M!make_non_runnable,
       M!make_non_wait, M!make_runnable, M!make_wait, M!Members, M!NoTmevtb,
       M!Position, M!primap_search, M!QueueDelete, M!QueueInsertTpri,
       M!release_in_order, M!release_winfo, M!search_schedtsk, M!TaskContext,
       M!TaskReturn, M!TpriPosition, M!TS_RUNNABLE, M!TS_SUSPENDED,
       M!TS_WAITING, M!TSTAT_SUSPENDED, M!TSTAT_WAITING, M!wait_complete,
       M!wait_complete_winfo, M!wait_dequeue_tmevtb, M!wobj_queue_insert,
       M!ZERO

----------------------------------------------------------------------------
(***************************************************************************)
(* Data queues.                                                            *)
(***************************************************************************)
DtqReceive == {dtq_rwait[d] : d \in Dataqueues}
DtqQueues  == {dtq_swait[d] : d \in Dataqueues} \cup DtqReceive

DtqKept ==
  /\ Got(winfo_dtq, DtqReceive)
  /\ DOMAIN dtqcb = Dataqueues
  /\ \A d \in Dataqueues :
       BufferAt(dtqcb[d], dtqcnt[d], dtq_swait[d], dtq_rwait[d])

LEMMA DtqFacts ==
  /\ dtqcnt \in [Dataqueues -> Nat] /\ UNINIT \notin Data /\ UNINIT # NULL
  /\ DtqReceive \in SUBSET WaitQueue /\ DtqQueues \in SUBSET WaitQueue
  /\ \A d \in Dataqueues :
       /\ TwoQueue(dtq_swait[d], dtq_rwait[d], DtqReceive)
       /\ dtq_rwait[d] \notin TpriQueue
       /\ {dtq_swait[d], dtq_rwait[d]} \subseteq DtqQueues
       /\ \A e \in Dataqueues \ {d} :
            {dtq_swait[e], dtq_rwait[e]} \cap {dtq_swait[d], dtq_rwait[d]} = {}
<1>1. /\ dtqcnt \in [Dataqueues -> Nat] /\ UNINIT \notin Data /\ UNINIT # NULL
      /\ dtq_swait \in [Dataqueues -> WaitQueue]
      /\ dtq_rwait \in [Dataqueues -> WaitQueue \ TpriQueue]
      /\ \A d, e \in Dataqueues : /\ dtq_swait[d] # dtq_rwait[e]
                                  /\ d # e => dtq_swait[d] # dtq_swait[e]
                                  /\ d # e => dtq_rwait[d] # dtq_rwait[e]
  BY ObjectsAssumption
     DEF D!DtqAssumption, D!TwoQueuesAssumption, D!Dtq
<1>2. QED
  BY <1>1 DEF DtqReceive, DtqQueues, TwoQueue

\* A step on other queues.
LEMMA DtqRests ==
  ASSUME ObjectKernel, ObjectKernel', DtqKept, NEW O \in SUBSET WaitQueue,
         StepOn(O), O \cap DtqQueues = {}, D!DtqRest
  PROVE  DtqKept'
<1>1. winfo_dtq' = Scope(winfo_dtq) /\ UNCHANGED dtqcb
  BY SameD DEF D!DtqRest
<1>2. GotNext(winfo_dtq', DtqReceive)
  BY <1>1, DtqFacts, GotRest DEF DtqKept, DtqQueues
<1>3. ASSUME NEW d \in Dataqueues
      PROVE  BufferNext(dtqcb[d], dtqcnt[d], dtq_swait[d], dtq_rwait[d])
  BY DtqFacts, BufferRest DEF DtqKept, TwoQueue
<1>4. QED
  BY <1>1, <1>2, <1>3
     DEF DtqKept, Got, GotNext, Pending, PendingNext, Missing, BufferAt,
         BufferNext, Buffer, Idle, IdleNext, DtqReceive

\* A call on one data queue, when cb is its new control block.
DtqStep(d, cb) ==
  /\ TwoCall(cb, dtqcnt[d], dtq_swait[d], dtq_rwait[d], winfo_dtq', DtqReceive)
  /\ Sets(dtqcb', dtqcb, d, cb)

LEMMA DtqCalls ==
  ASSUME ObjectKernel, DtqKept, NEW d \in Dataqueues, NEW cb, DtqStep(d, cb)
  PROVE  /\ ObjectKernel' /\ StepOn({dtq_swait[d], dtq_rwait[d]})
         /\ DtqKept'
<1>1. /\ ObjectKernel' /\ StepOn({dtq_swait[d], dtq_rwait[d]})
      /\ BufferNext(cb, dtqcnt[d], dtq_swait[d], dtq_rwait[d])
      /\ GotNext(winfo_dtq', DtqReceive) /\ Sets(dtqcb', dtqcb, d, cb)
  BY DEF DtqStep, TwoCall
<1>2. DOMAIN dtqcb' = Dataqueues
  BY <1>1 DEF DtqKept, Sets
<1>3. ASSUME NEW e \in Dataqueues
      PROVE  BufferNext(dtqcb'[e], dtqcnt[e], dtq_swait[e], dtq_rwait[e])
  <2>1. CASE e = d
    BY <1>1, <2>1 DEF DtqKept, Sets
  <2>2. CASE e # d
    <3>1. dtqcb'[e] = dtqcb[e]
      BY <1>1, <2>2 DEF DtqKept, Sets
    <3>2. QED
      BY <1>1, <2>2, <3>1, DtqFacts, BufferRest DEF DtqKept, TwoQueue
  <2>3. QED
    BY <2>1, <2>2
<1>4. QED
  BY <1>1, <1>2, <1>3
     DEF DtqKept, Got, GotNext, Pending, PendingNext, Missing, BufferAt,
         BufferNext, Buffer, Idle, IdleNext, DtqReceive

\* What the operations on the ring buffer do to its count.
LEMMA EnqueueCount ==
  ASSUME NEW cb, NEW d, NEW data, "count" \in DOMAIN cb
  PROVE  /\ "count" \in DOMAIN D!enqueue_data(d, cb, data)
         /\ D!enqueue_data(d, cb, data).count = cb.count + 1
         /\ "count" \in DOMAIN D!force_enqueue_data(d, cb, data)
         /\ D!force_enqueue_data(d, cb, data).count
              = IF cb.count >= dtqcnt[d] THEN cb.count ELSE cb.count + 1
         /\ "count" \in DOMAIN D!dequeue_data(d, cb)
         /\ D!dequeue_data(d, cb).count = cb.count - 1
BY DEF D!enqueue_data, D!force_enqueue_data, D!dequeue_data

LEMMA DtqSends ==
  ASSUME ObjectKernel, DtqKept, NEW d \in Dataqueues, NEW data \in Data,
         D!send_data(d, data) \/ D!force_send_data(d, data),
         Returns(D!ReleaseWinfo(dtq_rwait[d])),
         winfo_dtq' = D!InScope(D!Handed(d, data)),
         UNCHANGED << priority, queVars >>
  PROVE  \E cb : DtqStep(d, cb)
<1> DEFINE s == dtq_swait[d]
           r == dtq_rwait[d]
           cnt == dtqcnt[d]
<1>1. /\ TwoQueue(s, r, DtqReceive) /\ DtqReceive \in SUBSET WaitQueue
      /\ UNINIT # NULL /\ data # UNINIT /\ cnt \in Nat
  BY DtqFacts
<1>2. /\ BufferAt(dtqcb[d], cnt, s, r) /\ Got(winfo_dtq, DtqReceive)
      /\ DOMAIN dtqcb = Dataqueues
  BY DEF DtqKept
<1>3. CASE D!Hand(d, data)
  <2>1. /\ Hands(r) /\ UNCHANGED dtqcb
        /\ winfo_dtq' = Scope([winfo_dtq EXCEPT ![Head(wait_queue[r])] = data])
    BY <1>3, SameD DEF D!Hand, D!Release, D!ReleaseWinfo, D!Handed, D!Receiver,
                       Hands
  <2>2. Sets(dtqcb', dtqcb, d, dtqcb[d])
    BY <2>1 DEF Sets
  <2> HIDE DEF s, r, cnt
  <2>3. TwoCall(dtqcb[d], cnt, s, r,
                Scope([winfo_dtq EXCEPT ![Head(wait_queue[r])] = data]),
                DtqReceive)
    BY <1>1, <1>2, <2>1, TwoHand
  <2>4. QED
    BY <2>1, <2>2, <2>3 DEF DtqStep, s, r, cnt
<1>4. ASSUME NEW cb, D!Store(d, cb), BufferAt(cb, cnt, s, r)
      PROVE  DtqStep(d, cb)
  <2>1. /\ UNCHANGED << sched, tstat, tmevt, wait_queue >> /\ Returns(winfo)
        /\ winfo_dtq' = Scope(winfo_dtq)
        /\ dtqcb' = [dtqcb EXCEPT ![d] = cb]
    BY <1>4, SameD DEF D!Store, D!NoRelease, D!ReleaseWinfo, D!Handed,
                       D!Receiver
  <2> HIDE DEF s, r, cnt
  <2>2. QED
    BY <1>1, <1>2, <1>4, <2>1, TwoStore, SetsExcept DEF DtqStep, s, r, cnt
<1>5. ASSUME D!Room(d), wait_queue[r] = << >>
      PROVE  BufferAt(D!enqueue_data(d, dtqcb[d], data), cnt, s, r)
  BY <1>1, <1>2, <1>5, EnqueueCount
     DEF D!Room, BufferAt, Buffer, Idle
<1>6. ASSUME wait_queue[r] = << >>
      PROVE  BufferAt(D!force_enqueue_data(d, dtqcb[d], data), cnt, s, r)
  BY <1>1, <1>2, <1>6, EnqueueCount
     DEF BufferAt, Buffer, Idle
<1>7. QED
  BY <1>3, <1>4, <1>5, <1>6
     DEF D!send_data, D!force_send_data, D!Store, D!Receiver

LEMMA DtqReceives ==
  ASSUME ObjectKernel, DtqKept, NEW d \in Dataqueues, D!receive_data(d),
         Returns(D!ReleaseWinfo(dtq_swait[d])),
         winfo_dtq' = D!InScope(winfo_dtq),
         UNCHANGED << priority, queVars >>
  PROVE  \E cb : DtqStep(d, cb)
<1> DEFINE s == dtq_swait[d]
           r == dtq_rwait[d]
           cnt == dtqcnt[d]
           cb == dtqcb[d]
           less == D!dequeue_data(d, cb)
<1>1. /\ TwoQueue(s, r, DtqReceive) /\ DtqReceive \in SUBSET WaitQueue
      /\ UNINIT # NULL /\ cnt \in Nat
  BY DtqFacts
<1>2. /\ BufferAt(cb, cnt, s, r) /\ Got(winfo_dtq, DtqReceive)
      /\ DOMAIN dtqcb = Dataqueues /\ winfo_dtq' = Scope(winfo_dtq)
  BY SameD DEF DtqKept
<1>3. "count" \in DOMAIN less /\ less.count = cb.count - 1
  BY <1>2, EnqueueCount DEF BufferAt, Buffer
<1>4. CASE /\ cb.count > 0 /\ wait_queue[s] = << >>
           /\ dtqcb' = [dtqcb EXCEPT ![d] = less] /\ D!NoRelease
  <2>1. /\ UNCHANGED << sched, tstat, tmevt, wait_queue >> /\ Returns(winfo)
        /\ Sets(dtqcb', dtqcb, d, less)
    BY <1>2, <1>4, SetsExcept DEF D!NoRelease, D!ReleaseWinfo
  <2>2. BufferAt(less, cnt, s, r)
    BY <1>1, <1>2, <1>3, <1>4 DEF BufferAt, Buffer, Idle
  <2> HIDE DEF s, r, cnt, cb, less
  <2>3. TwoCall(less, cnt, s, r, winfo_dtq', DtqReceive)
    BY <1>1, <1>2, <2>1, <2>2, TwoStore
  <2>4. QED
    BY <2>1, <2>3 DEF DtqStep, s, r, cnt
<1>5. ASSUME NEW cbN, Buffer(cbN, cnt), cbN.count = cb.count, D!Release(s),
             Sets(dtqcb', dtqcb, d, cbN)
      PROVE  DtqStep(d, cbN)
  <2>1. Hands(s)
    BY <1>5, SameD DEF D!Release, D!ReleaseWinfo, Hands
  <2> HIDE DEF s, r, cnt, cb
  <2>2. TwoCall(cbN, cnt, s, r, winfo_dtq', DtqReceive)
    BY <1>1, <1>2, <1>5, <2>1, TwoTake
  <2>3. QED
    BY <1>5, <2>2 DEF DtqStep, s, r, cnt
<1>6. CASE /\ cb.count > 0 /\ wait_queue[s] # << >>
           /\ dtqcb' = [dtqcb EXCEPT ![d] = D!Refilled(d)] /\ D!Release(s)
  <2> DEFINE n == D!enqueue_data(d, less, winfo_dtq[Head(D!Sender(d))])
  <2>1. D!Refilled(d) = n
    BY <1>6 DEF D!Refilled, D!Sender
  <2>2. "count" \in DOMAIN n /\ n.count = less.count + 1
    BY <1>3, EnqueueCount
  <2> HIDE DEF n
  <2>3. Buffer(n, cnt) /\ n.count = cb.count
    BY <1>1, <1>2, <1>3, <2>2 DEF BufferAt, Buffer
  <2>4. Sets(dtqcb', dtqcb, d, n)
    BY <1>2, <1>6, <2>1, SetsExcept
  <2>5. QED
    BY <1>5, <1>6, <2>3, <2>4
<1>7. CASE D!Release(s) /\ UNCHANGED dtqcb
  <2>1. Sets(dtqcb', dtqcb, d, cb) /\ Buffer(cb, cnt)
    BY <1>2, <1>7 DEF Sets, BufferAt
  <2>2. QED
    BY <1>5, <1>7, <2>1
<1>8. QED
  BY <1>4, <1>6, <1>7 DEF D!receive_data, D!Refilled, D!Sender

LEMMA DtqWaits ==
  ASSUME ObjectKernel, DtqKept, NEW d \in Dataqueues,
         NEW f \in {"SDTQ", "RDTQ"}, NEW callback \in {"none", "wait_tmout"},
         NEW q, f = "SDTQ" => q = dtq_swait[d] /\ wait_queue[dtq_rwait[d]] = << >>
                                /\ ~D!Room(d),
         f = "RDTQ" => q = dtq_rwait[d] /\ wait_queue[dtq_swait[d]] = << >>
                         /\ dtqcb[d].count = 0,
         Waits(f, callback, q), NEW x, x = UNINIT => f = "RDTQ",
         winfo_dtq' = Scope([winfo_dtq EXCEPT ![p_runtsk] = x]),
         UNCHANGED dtqcb
  PROVE  \E cb : DtqStep(d, cb)
<1> DEFINE s == dtq_swait[d]
           r == dtq_rwait[d]
           cnt == dtqcnt[d]
           cb == dtqcb[d]
<1>1. /\ TwoQueue(s, r, DtqReceive) /\ DtqReceive \in SUBSET WaitQueue
      /\ UNINIT # NULL /\ cnt \in Nat /\ r \notin TpriQueue
  BY DtqFacts
<1>2. BufferAt(cb, cnt, s, r) /\ Got(winfo_dtq, DtqReceive)
  BY DEF DtqKept
<1>3. q = s => wait_queue[r] = << >> /\ cb.count = cnt
  BY <1>1, <1>2 DEF D!Room, BufferAt, Buffer, TwoQueue
<1>4. q = r => wait_queue[s] = << >> /\ cb.count = 0
  BY <1>1 DEF TwoQueue
<1>5. /\ f \in WobjFactor
      /\ q \in TpriQueue => f \in WobjcbFactor
      /\ q \in {s, r}
      /\ x = UNINIT => q = r
  BY <1>1 DEF WobjFactor, WobjcbFactor
<1>6. Sets(dtqcb', dtqcb, d, cb)
  BY DEF Sets
<1> HIDE DEF s, r, cnt, cb
<1>7. TwoCall(cb, cnt, s, r, winfo_dtq', DtqReceive)
  BY <1>1, <1>2, <1>3, <1>4, <1>5, TwoWait
<1>8. QED
  BY <1>6, <1>7 DEF DtqStep, s, r, cnt

LEMMA ini_dtqCall ==
  ASSUME ObjectKernel, DtqKept, NEW d \in Dataqueues, D!ini_dtq(d)
  PROVE  \E cb : DtqStep(d, cb)
<1> DEFINE s == dtq_swait[d]
           r == dtq_rwait[d]
           cnt == dtqcnt[d]
           cb == [dtqcb[d] EXCEPT !.count = 0, !.head = 0, !.tail = 0]
<1>1. /\ TwoQueue(s, r, DtqReceive) /\ DtqReceive \in SUBSET WaitQueue
      /\ UNINIT # NULL /\ cnt \in Nat
  BY DtqFacts
<1>2. /\ Buffer(dtqcb[d], cnt) /\ Got(winfo_dtq, DtqReceive)
      /\ DOMAIN dtqcb = Dataqueues
  BY DEF DtqKept, BufferAt
<1>3. Buffer(cb, cnt)
  BY <1>1, <1>2 DEF Buffer
<1>4. DeletesTwo(s, r) /\ winfo_dtq' = Scope(winfo_dtq)
  BY SameD DEF D!ini_dtq, D!init_wait_queues, D!init_wait_queues_winfo,
               D!ini_queues, D!Sender, D!Receiver, D!queVars, queVars,
               DeletesTwo, Returns
<1>5. Sets(dtqcb', dtqcb, d, cb)
  BY <1>2 DEF D!ini_dtq, Sets
<1> HIDE DEF s, r, cnt, cb
<1>6. TwoCall(cb, cnt, s, r, winfo_dtq', DtqReceive)
  BY <1>1, <1>2, <1>3, <1>4, TwoIni
<1>7. QED
  BY <1>5, <1>6 DEF DtqStep, s, r, cnt

\* The calls that send without waiting.
LEMMA DtqSendCall ==
  ASSUME NEW d \in Dataqueues, NEW data \in Data,
         \/ D!CanDispatch /\ D!send_data(d, data) /\ D!SendReturn(d, data)
         \/ D!psnd_dtq(d, data) \/ D!ipsnd_dtq(d, data)
         \/ D!fsnd_dtq(d, data) \/ D!ifsnd_dtq(d, data)
  PROVE  /\ D!send_data(d, data) \/ D!force_send_data(d, data)
         /\ Returns(D!ReleaseWinfo(dtq_rwait[d]))
         /\ winfo_dtq' = D!InScope(D!Handed(d, data))
         /\ UNCHANGED << priority, queVars >>
BY SameD DEF D!psnd_dtq, D!ipsnd_dtq, D!fsnd_dtq, D!ifsnd_dtq, D!SendReturn,
             D!ISendReturn, D!queVars, queVars, CanDispatch, Returns

LEMMA DtqCallStep ==
  ASSUME ObjectKernel, DtqKept, NEW d \in Dataqueues, D!DtqCall(d)
  PROVE  /\ ObjectKernel' /\ StepOn({dtq_swait[d], dtq_rwait[d]})
         /\ DtqKept'
<1> DEFINE Goal == \E cb : DtqStep(d, cb)
<1>1. ASSUME NEW data \in Data, NEW callback \in {"none", "wait_tmout"},
             D!SendOrWait(d, data, callback)
      PROVE  Goal
  <2>1. CASE D!send_data(d, data) /\ D!SendReturn(d, data)
    BY <1>1, <2>1, DtqSendCall, DtqSends DEF D!SendOrWait
  <2>2. CASE /\ D!Receiver(d) = << >> /\ ~D!Room(d)
             /\ D!make_wait("SDTQ", callback)
             /\ D!wobj_queue_insert(dtq_swait[d])
             /\ winfo_dtq' = D!InScope([winfo_dtq EXCEPT ![p_runtsk] = data])
             /\ UNCHANGED << queVars, dtqcb >>
    <3>1. /\ Waits("SDTQ", callback, dtq_swait[d])
          /\ winfo_dtq' = Scope([winfo_dtq EXCEPT ![p_runtsk] = data])
          /\ wait_queue[dtq_rwait[d]] = << >> /\ UNCHANGED dtqcb
      BY <1>1, <2>2, SameD DEF D!SendOrWait, D!Receiver, Waits
    <3>2. data # UNINIT
      BY DtqFacts
    <3>3. QED
      BY <2>2, <3>1, <3>2, DtqWaits
  <2>3. QED
    BY <1>1, <2>1, <2>2 DEF D!SendOrWait, D!queVars, queVars
<1>2. ASSUME NEW callback \in {"none", "wait_tmout"}, D!ReceiveOrWait(d, callback)
      PROVE  Goal
  <2>1. CASE D!receive_data(d) /\ D!ReceiveReturn(d)
    <3>1. /\ Returns(D!ReleaseWinfo(dtq_swait[d]))
          /\ winfo_dtq' = D!InScope(winfo_dtq)
          /\ UNCHANGED << priority, queVars >>
      BY <1>2, <2>1, SameD DEF D!ReceiveOrWait, D!ReceiveReturn, D!queVars,
                               queVars, CanDispatch, Returns
    <3>2. QED
      BY <2>1, <3>1, DtqReceives
  <2>2. CASE /\ dtqcb[d].count = 0 /\ D!Sender(d) = << >>
             /\ D!make_wait("RDTQ", callback)
             /\ D!wobj_queue_insert(dtq_rwait[d])
             /\ winfo_dtq' = D!InScope([winfo_dtq EXCEPT ![p_runtsk] = UNINIT])
             /\ UNCHANGED << queVars, dtqcb >>
    <3>1. /\ Waits("RDTQ", callback, dtq_rwait[d])
          /\ winfo_dtq' = Scope([winfo_dtq EXCEPT ![p_runtsk] = UNINIT])
          /\ wait_queue[dtq_swait[d]] = << >> /\ UNCHANGED dtqcb
      BY <1>2, <2>2, SameD DEF D!ReceiveOrWait, D!Sender, Waits
    <3>2. QED
      BY <2>2, <3>1, DtqWaits
  <2>3. QED
    BY <1>2, <2>1, <2>2 DEF D!ReceiveOrWait, D!queVars, queVars
<1>3. ASSUME D!prcv_dtq(d) PROVE Goal
  <2>1. /\ D!receive_data(d) /\ Returns(D!ReleaseWinfo(dtq_swait[d]))
        /\ winfo_dtq' = D!InScope(winfo_dtq)
        /\ UNCHANGED << priority, queVars >>
    BY <1>3, SameD DEF D!prcv_dtq, D!ReceiveReturn, D!queVars, queVars, Returns
  <2>2. QED
    BY <2>1, DtqReceives
<1>4. ASSUME NEW data \in Data,
             \/ D!psnd_dtq(d, data) \/ D!ipsnd_dtq(d, data)
             \/ D!fsnd_dtq(d, data) \/ D!ifsnd_dtq(d, data)
      PROVE  Goal
  BY <1>4, DtqSendCall, DtqSends
<1>5. ASSUME D!ini_dtq(d) PROVE Goal
  BY <1>5, ini_dtqCall
<1> HIDE DEF Goal
<1>6. Goal
  BY <1>1, <1>2, <1>3, <1>4, <1>5
     DEF D!DtqCall, D!snd_dtq, D!tsnd_dtq, D!rcv_dtq, D!trcv_dtq
<1>7. QED
  BY <1>6, DtqCalls DEF Goal

----------------------------------------------------------------------------
(***************************************************************************)
(* Priority data queues.                                                   *)
(***************************************************************************)
PdqReceive == {pdq_rwait[q] : q \in PriDataqs}
PdqQueues  == {pdq_swait[q] : q \in PriDataqs} \cup PdqReceive

PdqKept ==
  /\ Got(winfo_pdq, PdqReceive)
  /\ DOMAIN pdqcb = PriDataqs
  /\ \A q \in PriDataqs :
       BufferAt(pdqcb[q], pdqcnt[q], pdq_swait[q], pdq_rwait[q])

LEMMA PdqFacts ==
  /\ pdqcnt \in [PriDataqs -> Nat] /\ UNINIT \notin PriData /\ UNINIT # NULL
  /\ PdqReceive \in SUBSET WaitQueue /\ PdqQueues \in SUBSET WaitQueue
  /\ \A q \in PriDataqs :
       /\ TwoQueue(pdq_swait[q], pdq_rwait[q], PdqReceive)
       /\ pdq_rwait[q] \notin TpriQueue
       /\ {pdq_swait[q], pdq_rwait[q]} \subseteq PdqQueues
       /\ \A e \in PriDataqs \ {q} :
            {pdq_swait[e], pdq_rwait[e]} \cap {pdq_swait[q], pdq_rwait[q]} = {}
<1>1. /\ pdqcnt \in [PriDataqs -> Nat] /\ UNINIT \notin PriData /\ UNINIT # NULL
      /\ pdq_swait \in [PriDataqs -> WaitQueue]
      /\ pdq_rwait \in [PriDataqs -> WaitQueue \ TpriQueue]
      /\ \A q, e \in PriDataqs : /\ pdq_swait[q] # pdq_rwait[e]
                                 /\ q # e => pdq_swait[q] # pdq_swait[e]
                                 /\ q # e => pdq_rwait[q] # pdq_rwait[e]
  BY ObjectsAssumption
     DEF P!PdqAssumption, P!TwoQueuesAssumption, P!Pdq
<1>2. QED
  BY <1>1 DEF PdqReceive, PdqQueues, TwoQueue

\* A step on other queues.
LEMMA PdqRests ==
  ASSUME ObjectKernel, ObjectKernel', PdqKept, NEW O \in SUBSET WaitQueue,
         StepOn(O), O \cap PdqQueues = {}, P!PdqRest
  PROVE  PdqKept'
<1>1. winfo_pdq' = Scope(winfo_pdq) /\ UNCHANGED pdqcb
  BY SameP DEF P!PdqRest
<1>2. GotNext(winfo_pdq', PdqReceive)
  BY <1>1, PdqFacts, GotRest DEF PdqKept, PdqQueues
<1>3. ASSUME NEW q \in PriDataqs
      PROVE  BufferNext(pdqcb[q], pdqcnt[q], pdq_swait[q], pdq_rwait[q])
  BY PdqFacts, BufferRest DEF PdqKept, TwoQueue
<1>4. QED
  BY <1>1, <1>2, <1>3
     DEF PdqKept, Got, GotNext, Pending, PendingNext, Missing, BufferAt,
         BufferNext, Buffer, Idle, IdleNext, PdqReceive

\* A call on one queue, when cb is its new control block.
PdqStep(q, cb) ==
  /\ TwoCall(cb, pdqcnt[q], pdq_swait[q], pdq_rwait[q], winfo_pdq', PdqReceive)
  /\ Sets(pdqcb', pdqcb, q, cb)

LEMMA PdqCalls ==
  ASSUME ObjectKernel, PdqKept, NEW q \in PriDataqs, NEW cb, PdqStep(q, cb)
  PROVE  /\ ObjectKernel' /\ StepOn({pdq_swait[q], pdq_rwait[q]})
         /\ PdqKept'
<1>1. /\ ObjectKernel' /\ StepOn({pdq_swait[q], pdq_rwait[q]})
      /\ BufferNext(cb, pdqcnt[q], pdq_swait[q], pdq_rwait[q])
      /\ GotNext(winfo_pdq', PdqReceive) /\ Sets(pdqcb', pdqcb, q, cb)
  BY DEF PdqStep, TwoCall
<1>2. DOMAIN pdqcb' = PriDataqs
  BY <1>1 DEF PdqKept, Sets
<1>3. ASSUME NEW e \in PriDataqs
      PROVE  BufferNext(pdqcb'[e], pdqcnt[e], pdq_swait[e], pdq_rwait[e])
  <2>1. CASE e = q
    BY <1>1, <2>1 DEF PdqKept, Sets
  <2>2. CASE e # q
    <3>1. pdqcb'[e] = pdqcb[e]
      BY <1>1, <2>2 DEF PdqKept, Sets
    <3>2. QED
      BY <1>1, <2>2, <3>1, PdqFacts, BufferRest DEF PdqKept, TwoQueue
  <2>3. QED
    BY <2>1, <2>2
<1>4. QED
  BY <1>1, <1>2, <1>3
     DEF PdqKept, Got, GotNext, Pending, PendingNext, Missing, BufferAt,
         BufferNext, Buffer, Idle, IdleNext, PdqReceive

\* What the operations on the list of the data do to its count.
LEMMA EnqueuePriCount ==
  ASSUME NEW cb, NEW data, "count" \in DOMAIN cb
  PROVE  /\ "count" \in DOMAIN P!enqueue_pridata(cb, data)
         /\ P!enqueue_pridata(cb, data).count = cb.count + 1
         /\ "count" \in DOMAIN P!dequeue_pridata(cb)
         /\ P!dequeue_pridata(cb).count = cb.count - 1
BY DEF P!enqueue_pridata, P!dequeue_pridata

LEMMA PdqSends ==
  ASSUME ObjectKernel, PdqKept, NEW q \in PriDataqs, NEW data \in PriData,
         P!send_pridata(q, data), Returns(P!ReleaseWinfo(pdq_rwait[q])),
         winfo_pdq' = P!InScope(P!Handed(q, data)),
         UNCHANGED << priority, queVars >>
  PROVE  \E cb : PdqStep(q, cb)
<1> DEFINE s == pdq_swait[q]
           r == pdq_rwait[q]
           cnt == pdqcnt[q]
           cb == pdqcb[q]
           n == P!enqueue_pridata(cb, data)
<1>1. /\ TwoQueue(s, r, PdqReceive) /\ PdqReceive \in SUBSET WaitQueue
      /\ UNINIT # NULL /\ data # UNINIT /\ cnt \in Nat
  BY PdqFacts
<1>2. /\ BufferAt(cb, cnt, s, r) /\ Got(winfo_pdq, PdqReceive)
      /\ DOMAIN pdqcb = PriDataqs
  BY DEF PdqKept
<1>3. CASE P!Release(r) /\ UNCHANGED pdqcb
  <2>1. /\ Hands(r)
        /\ winfo_pdq' = Scope([winfo_pdq EXCEPT ![Head(wait_queue[r])] = data])
    BY <1>3, SameP DEF P!Release, P!ReleaseWinfo, P!Handed, P!Receiver, Hands
  <2>2. Sets(pdqcb', pdqcb, q, cb)
    BY <1>3 DEF Sets
  <2> HIDE DEF s, r, cnt, cb, n
  <2>3. TwoCall(cb, cnt, s, r,
                Scope([winfo_pdq EXCEPT ![Head(wait_queue[r])] = data]),
                PdqReceive)
    BY <1>1, <1>2, <2>1, TwoHand
  <2>4. QED
    BY <2>1, <2>2, <2>3 DEF PdqStep, s, r, cnt
<1>4. CASE /\ wait_queue[r] = << >> /\ P!Room(q) /\ P!NoRelease
           /\ pdqcb' = [pdqcb EXCEPT ![q] = n]
  <2>1. /\ UNCHANGED << sched, tstat, tmevt, wait_queue >> /\ Returns(winfo)
        /\ winfo_pdq' = Scope(winfo_pdq)
    BY <1>4, SameP DEF P!NoRelease, P!ReleaseWinfo, P!Handed, P!Receiver
  <2>2. BufferAt(n, cnt, s, r)
    BY <1>1, <1>2, <1>4, EnqueuePriCount DEF P!Room, BufferAt, Buffer, Idle
  <2>3. Sets(pdqcb', pdqcb, q, n)
    BY <1>2, <1>4, SetsExcept
  <2> HIDE DEF s, r, cnt, cb, n
  <2>4. TwoCall(n, cnt, s, r, winfo_pdq', PdqReceive)
    BY <1>1, <1>2, <2>1, <2>2, TwoStore
  <2>5. QED
    BY <2>3, <2>4 DEF PdqStep, s, r, cnt
<1>5. QED
  BY <1>3, <1>4 DEF P!send_pridata, P!Receiver

LEMMA PdqReceives ==
  ASSUME ObjectKernel, PdqKept, NEW q \in PriDataqs, P!receive_pridata(q),
         Returns(P!ReleaseWinfo(pdq_swait[q])),
         winfo_pdq' = P!InScope(winfo_pdq),
         UNCHANGED << priority, queVars >>
  PROVE  \E cb : PdqStep(q, cb)
<1> DEFINE s == pdq_swait[q]
           r == pdq_rwait[q]
           cnt == pdqcnt[q]
           cb == pdqcb[q]
           less == P!dequeue_pridata(cb)
<1>1. /\ TwoQueue(s, r, PdqReceive) /\ PdqReceive \in SUBSET WaitQueue
      /\ UNINIT # NULL /\ cnt \in Nat
  BY PdqFacts
<1>2. /\ BufferAt(cb, cnt, s, r) /\ Got(winfo_pdq, PdqReceive)
      /\ DOMAIN pdqcb = PriDataqs /\ winfo_pdq' = Scope(winfo_pdq)
  BY SameP DEF PdqKept
<1>3. "count" \in DOMAIN less /\ less.count = cb.count - 1
  BY <1>2, EnqueuePriCount DEF BufferAt, Buffer
<1>4. CASE /\ cb.count > 0 /\ wait_queue[s] = << >>
           /\ pdqcb' = [pdqcb EXCEPT ![q] = less] /\ P!NoRelease
  <2>1. /\ UNCHANGED << sched, tstat, tmevt, wait_queue >> /\ Returns(winfo)
        /\ Sets(pdqcb', pdqcb, q, less)
    BY <1>2, <1>4, SetsExcept DEF P!NoRelease, P!ReleaseWinfo
  <2>2. BufferAt(less, cnt, s, r)
    BY <1>1, <1>2, <1>3, <1>4 DEF BufferAt, Buffer, Idle
  <2> HIDE DEF s, r, cnt, cb, less
  <2>3. TwoCall(less, cnt, s, r, winfo_pdq', PdqReceive)
    BY <1>1, <1>2, <2>1, <2>2, TwoStore
  <2>4. QED
    BY <2>1, <2>3 DEF PdqStep, s, r, cnt
<1>5. ASSUME NEW cbN, Buffer(cbN, cnt), cbN.count = cb.count, P!Release(s),
             Sets(pdqcb', pdqcb, q, cbN)
      PROVE  PdqStep(q, cbN)
  <2>1. Hands(s)
    BY <1>5, SameP DEF P!Release, P!ReleaseWinfo, Hands
  <2> HIDE DEF s, r, cnt, cb
  <2>2. TwoCall(cbN, cnt, s, r, winfo_pdq', PdqReceive)
    BY <1>1, <1>2, <1>5, <2>1, TwoTake
  <2>3. QED
    BY <1>5, <2>2 DEF PdqStep, s, r, cnt
<1>6. CASE /\ cb.count > 0 /\ wait_queue[s] # << >>
           /\ pdqcb' = [pdqcb EXCEPT ![q] = P!Refilled(q)] /\ P!Release(s)
  <2> DEFINE n == P!enqueue_pridata(less, winfo_pdq[Head(P!Sender(q))])
  <2>1. P!Refilled(q) = n
    BY <1>6 DEF P!Refilled, P!Sender
  <2>2. "count" \in DOMAIN n /\ n.count = less.count + 1
    BY <1>3, EnqueuePriCount
  <2> HIDE DEF n
  <2>3. Buffer(n, cnt) /\ n.count = cb.count
    BY <1>1, <1>2, <1>3, <2>2 DEF BufferAt, Buffer
  <2>4. Sets(pdqcb', pdqcb, q, n)
    BY <1>2, <1>6, <2>1, SetsExcept
  <2>5. QED
    BY <1>5, <1>6, <2>3, <2>4
<1>7. CASE P!Release(s) /\ UNCHANGED pdqcb
  <2>1. Sets(pdqcb', pdqcb, q, cb) /\ Buffer(cb, cnt)
    BY <1>2, <1>7 DEF Sets, BufferAt
  <2>2. QED
    BY <1>5, <1>7, <2>1
<1>8. QED
  BY <1>4, <1>6, <1>7 DEF P!receive_pridata, P!Refilled, P!Sender

LEMMA PdqWaits ==
  ASSUME ObjectKernel, PdqKept, NEW q \in PriDataqs,
         NEW f \in {"SPDQ", "RPDQ"}, NEW callback \in {"none", "wait_tmout"},
         NEW o, f = "SPDQ" => o = pdq_swait[q] /\ wait_queue[pdq_rwait[q]] = << >>
                                /\ ~P!Room(q),
         f = "RPDQ" => o = pdq_rwait[q] /\ wait_queue[pdq_swait[q]] = << >>
                         /\ pdqcb[q].count = 0,
         Waits(f, callback, o), NEW x, x = UNINIT => f = "RPDQ",
         winfo_pdq' = Scope([winfo_pdq EXCEPT ![p_runtsk] = x]),
         UNCHANGED pdqcb
  PROVE  \E cb : PdqStep(q, cb)
<1> DEFINE s == pdq_swait[q]
           r == pdq_rwait[q]
           cnt == pdqcnt[q]
           cb == pdqcb[q]
<1>1. /\ TwoQueue(s, r, PdqReceive) /\ PdqReceive \in SUBSET WaitQueue
      /\ UNINIT # NULL /\ cnt \in Nat /\ r \notin TpriQueue
  BY PdqFacts
<1>2. BufferAt(cb, cnt, s, r) /\ Got(winfo_pdq, PdqReceive)
  BY DEF PdqKept
<1>3. o = s => wait_queue[r] = << >> /\ cb.count = cnt
  BY <1>1, <1>2 DEF P!Room, BufferAt, Buffer, TwoQueue
<1>4. o = r => wait_queue[s] = << >> /\ cb.count = 0
  BY <1>1 DEF TwoQueue
<1>5. /\ f \in WobjFactor
      /\ o \in TpriQueue => f \in WobjcbFactor
      /\ o \in {s, r}
      /\ x = UNINIT => o = r
  BY <1>1 DEF WobjFactor, WobjcbFactor
<1>6. Sets(pdqcb', pdqcb, q, cb)
  BY DEF Sets
<1> HIDE DEF s, r, cnt, cb
<1>7. TwoCall(cb, cnt, s, r, winfo_pdq', PdqReceive)
  BY <1>1, <1>2, <1>3, <1>4, <1>5, TwoWait
<1>8. QED
  BY <1>6, <1>7 DEF PdqStep, s, r, cnt

LEMMA ini_pdqCall ==
  ASSUME ObjectKernel, PdqKept, NEW q \in PriDataqs, P!ini_pdq(q)
  PROVE  \E cb : PdqStep(q, cb)
<1> DEFINE s == pdq_swait[q]
           r == pdq_rwait[q]
           cnt == pdqcnt[q]
           cb == P!Reset(pdqcb[q])
<1>1. /\ TwoQueue(s, r, PdqReceive) /\ PdqReceive \in SUBSET WaitQueue
      /\ UNINIT # NULL /\ cnt \in Nat
  BY PdqFacts
<1>2. Got(winfo_pdq, PdqReceive) /\ DOMAIN pdqcb = PriDataqs
  BY DEF PdqKept
<1>3. Buffer(cb, cnt)
  BY <1>1 DEF P!Reset, P!Initialised, Buffer
<1>4. DeletesTwo(s, r) /\ winfo_pdq' = Scope(winfo_pdq)
  BY SameP DEF P!ini_pdq, P!init_wait_queues, P!init_wait_queues_winfo,
               P!ini_queues, P!Sender, P!Receiver, P!queVars, queVars,
               DeletesTwo, Returns
<1>5. pdqcb' = [pdqcb EXCEPT ![q] = cb]
  BY DEF P!ini_pdq
<1> HIDE DEF s, r, cnt, cb
<1>6. TwoCall(cb, cnt, s, r, winfo_pdq', PdqReceive)
  BY <1>1, <1>2, <1>3, <1>4, TwoIni
<1>7. QED
  BY <1>2, <1>5, <1>6, SetsExcept DEF PdqStep, s, r, cnt

LEMMA PdqCallStep ==
  ASSUME ObjectKernel, PdqKept, NEW q \in PriDataqs, P!PdqCall(q)
  PROVE  /\ ObjectKernel' /\ StepOn({pdq_swait[q], pdq_rwait[q]})
         /\ PdqKept'
<1> DEFINE Goal == \E cb : PdqStep(q, cb)
<1>1. ASSUME NEW data \in PriData, P!send_pridata(q, data),
             winfo_pdq' = P!InScope(P!Handed(q, data)),
             UNCHANGED << priority, queVars >>,
             \/ P!InTask /\ P!TaskReturn(P!ReleaseWinfo(pdq_rwait[q]))
             \/ P!InInterrupt /\ P!IntReturn(P!ReleaseWinfo(pdq_rwait[q]))
      PROVE  Goal
  <2>1. Returns(P!ReleaseWinfo(pdq_rwait[q]))
    BY <1>1, SameP DEF Returns
  <2>2. QED
    BY <1>1, <2>1, PdqSends
<1>2. ASSUME NEW data \in PriData, NEW callback \in {"none", "wait_tmout"},
             P!SendOrWait(q, data, callback)
      PROVE  Goal
  <2>1. CASE /\ P!send_pridata(q, data)
             /\ P!TaskReturn(P!ReleaseWinfo(pdq_rwait[q]))
             /\ winfo_pdq' = P!InScope(P!Handed(q, data))
             /\ UNCHANGED << priority, queVars >>
    <3>1. P!InTask
      BY <1>2, SameP DEF P!SendOrWait, CanDispatch
    <3>2. QED
      BY <1>1, <2>1, <3>1
  <2>2. CASE /\ P!Receiver(q) = << >> /\ ~P!Room(q)
             /\ P!make_wait("SPDQ", callback)
             /\ P!wobj_queue_insert(pdq_swait[q])
             /\ winfo_pdq' = P!InScope([winfo_pdq EXCEPT ![p_runtsk] = data])
             /\ UNCHANGED << queVars, pdqcb >>
    <3>1. /\ Waits("SPDQ", callback, pdq_swait[q])
          /\ winfo_pdq' = Scope([winfo_pdq EXCEPT ![p_runtsk] = data])
          /\ wait_queue[pdq_rwait[q]] = << >> /\ UNCHANGED pdqcb
      BY <1>2, <2>2, SameP DEF P!SendOrWait, P!Receiver, Waits
    <3>2. data # UNINIT
      BY PdqFacts
    <3>3. QED
      BY <2>2, <3>1, <3>2, PdqWaits
  <2>3. QED
    BY <1>2, <2>1, <2>2 DEF P!SendOrWait, P!queVars, queVars
<1>3. ASSUME NEW callback \in {"none", "wait_tmout"}, P!ReceiveOrWait(q, callback)
      PROVE  Goal
  <2>1. CASE P!receive_pridata(q) /\ P!ReceiveReturn(q)
    <3>1. /\ Returns(P!ReleaseWinfo(pdq_swait[q]))
          /\ winfo_pdq' = P!InScope(winfo_pdq)
          /\ UNCHANGED << priority, queVars >>
      BY <1>3, <2>1, SameP DEF P!ReceiveOrWait, P!ReceiveReturn, P!queVars,
                               queVars, CanDispatch, Returns
    <3>2. QED
      BY <2>1, <3>1, PdqReceives
  <2>2. CASE /\ pdqcb[q].count = 0 /\ P!Sender(q) = << >>
             /\ P!make_wait("RPDQ", callback)
             /\ P!wobj_queue_insert(pdq_rwait[q])
             /\ winfo_pdq' = P!InScope([winfo_pdq EXCEPT ![p_runtsk] = UNINIT])
             /\ UNCHANGED << queVars, pdqcb >>
    <3>1. /\ Waits("RPDQ", callback, pdq_rwait[q])
          /\ winfo_pdq' = Scope([winfo_pdq EXCEPT ![p_runtsk] = UNINIT])
          /\ wait_queue[pdq_swait[q]] = << >> /\ UNCHANGED pdqcb
      BY <1>3, <2>2, SameP DEF P!ReceiveOrWait, P!Sender, Waits
    <3>2. QED
      BY <2>2, <3>1, PdqWaits
  <2>3. QED
    BY <1>3, <2>1, <2>2 DEF P!ReceiveOrWait, P!queVars, queVars
<1>4. ASSUME P!prcv_pdq(q) PROVE Goal
  <2>1. /\ P!receive_pridata(q) /\ Returns(P!ReleaseWinfo(pdq_swait[q]))
        /\ winfo_pdq' = P!InScope(winfo_pdq)
        /\ UNCHANGED << priority, queVars >>
    BY <1>4, SameP DEF P!prcv_pdq, P!ReceiveReturn, P!queVars, queVars, Returns
  <2>2. QED
    BY <2>1, PdqReceives
<1>5. ASSUME NEW data \in PriData, P!psnd_pdq(q, data) \/ P!ipsnd_pdq(q, data)
      PROVE  Goal
  BY <1>1, <1>5 DEF P!psnd_pdq, P!ipsnd_pdq, P!queVars, queVars
<1>6. ASSUME P!ini_pdq(q) PROVE Goal
  BY <1>6, ini_pdqCall
<1> HIDE DEF Goal
<1>7. Goal
  BY <1>2, <1>3, <1>4, <1>5, <1>6
     DEF P!PdqCall, P!snd_pdq, P!tsnd_pdq, P!rcv_pdq, P!trcv_pdq
<1>8. QED
  BY <1>7, PdqCalls DEF Goal

----------------------------------------------------------------------------
(***************************************************************************)
(* Objects with one queue.                                                 *)
(***************************************************************************)
LEMMA OthersEmpty ==
  ASSUME ObjectKernel, ObjectKernel', NEW O, StepOn(O)
  PROVE  \A q \in WaitQueue \ O : wait_queue'[q] # << >> => wait_queue[q] # << >>
BY StaysEmpty

LEMMA GotStill ==
  ASSUME UNCHANGED vars, NEW d, NEW Q, Got(d, Q)
  PROVE  GotNext(d, Q)
BY DEF vars, Got, GotNext, Pending, PendingNext

\* The application does not call, or the call does nothing to the kernel.
LEMMA StillOn ==
  ASSUME ObjectKernel, UNCHANGED vars, NEW q
  PROVE  ObjectKernel' /\ StepOn({q}) /\ UNCHANGED wait_queue
BY StillCall, StepOnMore DEF vars

----------------------------------------------------------------------------
(***************************************************************************)
(* Mailboxes.                                                              *)
(***************************************************************************)
\* No two tasks were handed the same message.
Distinct(d) ==
  \A t, u \in Task : t # u /\ d[t] \in Msg => d[u] # d[t]

MbxKept ==
  /\ Got(winfo_mbx, Mbx) /\ Distinct(winfo_mbx)
  /\ DOMAIN pk_head = Mbx
  /\ B!NoIdleMessage

LEMMA MbxFacts ==
  /\ Mbx \in SUBSET WaitQueue /\ UNINIT # NULL
  /\ UNINIT \notin Msg /\ NULL \notin Msg
BY ObjectsAssumption DEF B!MbxAssumption

LEMMA DistinctScope ==
  ASSUME NEW d, Distinct(d)
  PROVE  Distinct(Scope(d))
BY MbxFacts DEF Distinct, Scope

\* MbxKept after a step, from its parts.
LEMMA MbxKeptNext ==
  ASSUME GotNext(winfo_mbx', Mbx), Distinct(winfo_mbx'), DOMAIN pk_head' = Mbx,
         \A m \in Mbx : wait_queue'[m] # << >> => pk_head'[m] = NULL
  PROVE  MbxKept'
BY DEF MbxKept, Got, GotNext, Pending, PendingNext, Missing, Distinct,
       B!NoIdleMessage

LEMMA MbxRests ==
  ASSUME ObjectKernel, ObjectKernel', MbxKept, NEW O \in SUBSET WaitQueue,
         StepOn(O), O \cap Mbx = {}, B!MbxRest
  PROVE  MbxKept'
<1>1. winfo_mbx' = Scope(winfo_mbx) /\ UNCHANGED pk_head
  BY SameB DEF B!MbxRest, B!msgVars
<1>2. GotNext(winfo_mbx', Mbx)
  BY <1>1, MbxFacts, GotRest DEF MbxKept
<1>3. Distinct(winfo_mbx')
  BY <1>1, DistinctScope DEF MbxKept
<1>4. \A m \in Mbx : wait_queue'[m] # << >> => pk_head'[m] = NULL
  BY <1>1, MbxFacts, OthersEmpty DEF MbxKept, B!NoIdleMessage
<1>5. QED
  BY <1>1, <1>2, <1>3, <1>4, MbxKeptNext DEF MbxKept

\* The steps of the calls on m.
MbxStep(m) == ObjectKernel' /\ StepOn({m}) /\ MbxKept'

LEMMA MbxSend ==
  ASSUME ObjectKernel, MbxKept, NEW m \in Mbx, NEW msg \in Msg, B!snd_mbx(m, msg)
  PROVE  MbxStep(m)
<1> DEFINE t == Head(wait_queue[m])
           h == [winfo_mbx EXCEPT ![t] = msg]
<1>1. m \in WaitQueue /\ UNINIT # NULL /\ msg # UNINIT /\ Mbx \in SUBSET WaitQueue
  BY MbxFacts
<1>2. \A u \in Task : winfo_mbx[u] # msg
  BY DEF B!snd_mbx, B!Owned
<1>3. CASE Hands(m) /\ winfo_mbx' = Scope(h) /\ UNCHANGED pk_head
  <2>1. /\ ObjectKernel' /\ StepOn({m}) /\ t \in Task
    BY <1>1, <1>3, HandCall
  <2>2. GotNext(Scope(h), Mbx)
    BY <1>1, <1>3, GotHand DEF MbxKept
  <2>3. DOMAIN winfo_mbx = Task /\ wait_queue[m] # << >>
    BY <1>3 DEF MbxKept, Got, Hands
  <2> HIDE DEF t
  <2>4. Distinct(h)
    BY <1>2, <2>1, <2>3 DEF MbxKept, Distinct
  <2> HIDE DEF h
  <2>5. Distinct(Scope(h))
    BY <2>4, DistinctScope
  <2>6. \A n \in Mbx : wait_queue'[n] # << >> => pk_head'[n] = NULL
    BY <1>1, <1>3, <2>1, <2>3, OthersEmpty DEF MbxKept, B!NoIdleMessage
  <2>7. QED
    BY <1>3, <2>1, <2>2, <2>5, <2>6, MbxKeptNext DEF MbxStep, MbxKept
<1>4. CASE /\ wait_queue[m] = << >>
           /\ B!enqueue_msg_pri(m, msg) \/ B!enqueue_msg(m, msg)
           /\ UNCHANGED << winfo_mbx, vars >>
  <2>1. ObjectKernel' /\ StepOn({m}) /\ UNCHANGED wait_queue
    BY <1>4, StillOn
  <2>2. GotNext(winfo_mbx', Mbx) /\ Distinct(winfo_mbx')
    BY <1>4, GotStill DEF MbxKept, Distinct
  <2>3. \E g : pk_head' = pk_head \/ pk_head' = [pk_head EXCEPT ![m] = g]
    BY <1>4 DEF B!enqueue_msg_pri, B!enqueue_msg
  <2>4. /\ DOMAIN pk_head' = Mbx
        /\ \A n \in Mbx \ {m} : pk_head'[n] = pk_head[n]
    BY <2>3 DEF MbxKept
  <2>5. \A n \in Mbx : wait_queue'[n] # << >> => pk_head'[n] = NULL
    BY <1>4, <2>1, <2>4 DEF MbxKept, B!NoIdleMessage
  <2>6. QED
    BY <2>1, <2>2, <2>4, <2>5, MbxKeptNext DEF MbxStep
<1>5. QED
  <2>1. B!InTask
    BY DEF B!snd_mbx
  <2>2. CASE wait_queue[m] # << >>
    <3>1. Hands(m) /\ winfo_mbx' = Scope(h) /\ UNCHANGED pk_head
      BY <2>1, <2>2, SameB DEF B!snd_mbx, B!Handed, B!msgVars, B!queVars,
                               queVars, Hands, Returns
    <3>2. QED
      BY <1>3, <3>1
  <2>3. CASE wait_queue[m] = << >>
    BY <1>4, <2>3 DEF B!snd_mbx, B!vars, B!queVars, B!flagVars, B!ctxVars,
       B!bootVars, vars, queVars, flagVars, ctxVars, bootVars
  <2>4. QED
    BY <2>2, <2>3

LEMMA MbxReceive ==
  ASSUME ObjectKernel, MbxKept, NEW m \in Mbx, B!Receive(m)
  PROVE  MbxStep(m)
<1>1. /\ pk_head[m] # NULL /\ UNCHANGED << winfo_mbx, vars >>
      /\ pk_head' = [pk_head EXCEPT ![m] = pk_next[pk_head[m]]]
  BY DEF B!Receive, B!vars, B!queVars, B!flagVars, B!ctxVars,
     B!bootVars, vars, queVars, flagVars, ctxVars, bootVars
<1>2. ObjectKernel' /\ StepOn({m}) /\ UNCHANGED wait_queue
  BY <1>1, StillOn
<1>3. GotNext(winfo_mbx', Mbx) /\ Distinct(winfo_mbx')
  BY <1>1, GotStill DEF MbxKept, Distinct
<1>4. DOMAIN pk_head' = Mbx /\ \A n \in Mbx \ {m} : pk_head'[n] = pk_head[n]
  BY <1>1 DEF MbxKept
<1>5. \A n \in Mbx : wait_queue'[n] # << >> => pk_head'[n] = NULL
  BY <1>1, <1>2, <1>4 DEF MbxKept, B!NoIdleMessage
<1>6. QED
  BY <1>2, <1>3, <1>4, <1>5, MbxKeptNext DEF MbxStep

LEMMA MbxWait ==
  ASSUME ObjectKernel, MbxKept, NEW m \in Mbx,
         NEW callback \in {"none", "wait_tmout"}, Waits("MBX", callback, m),
         pk_head[m] = NULL, UNCHANGED pk_head,
         winfo_mbx' = Scope([winfo_mbx EXCEPT ![p_runtsk] = UNINIT])
  PROVE  MbxStep(m)
<1> DEFINE h == [winfo_mbx EXCEPT ![p_runtsk] = UNINIT]
<1>1. /\ m \in WaitQueue /\ UNINIT # NULL /\ UNINIT \notin Msg
      /\ Mbx \in SUBSET WaitQueue
      /\ "MBX" \in WobjFactor /\ "MBX" \in WobjcbFactor
  BY MbxFacts DEF WobjFactor, WobjcbFactor
<1>2. ObjectKernel' /\ StepOn({m}) /\ BeginsToWait(m)
  BY <1>1, WaitCall DEF Waits
<1>3. GotNext(Scope(h), Mbx)
  BY <1>1, <1>2, GotWait DEF MbxKept
<1>4. DOMAIN winfo_mbx = Task /\ p_runtsk \in Task
  BY <1>2 DEF MbxKept, Got, BeginsToWait
<1>5. Distinct(h)
  BY <1>1, <1>4 DEF MbxKept, Distinct
<1> HIDE DEF h
<1>6. Distinct(Scope(h))
  BY <1>5, DistinctScope
<1>7. \A n \in Mbx : wait_queue'[n] # << >> => pk_head'[n] = NULL
  BY <1>1, <1>2, OthersEmpty DEF MbxKept, B!NoIdleMessage
<1>8. QED
  BY <1>2, <1>3, <1>6, <1>7, MbxKeptNext DEF MbxStep, MbxKept, h

LEMMA ini_mbxStep ==
  ASSUME ObjectKernel, MbxKept, NEW m \in Mbx, B!ini_mbx(m)
  PROVE  MbxStep(m)
<1>1. /\ m \in WaitQueue /\ UNINIT # NULL /\ Mbx \in SUBSET WaitQueue
  BY MbxFacts
<1>2. /\ Deletes(m) /\ winfo_mbx' = Scope(winfo_mbx)
      /\ pk_head' = [pk_head EXCEPT ![m] = NULL]
  BY SameB DEF B!ini_mbx, B!queVars, queVars, Deletes, Returns
<1>3. /\ ObjectKernel' /\ StepOn({m}) /\ wait_queue'[m] = << >>
      /\ \E entry : ReleasesTasks(entry, "E_DLT")
  BY <1>1, <1>2, IniCall
<1>4. GotNext(winfo_mbx', Mbx)
  BY <1>1, <1>2, <1>3, GotDelete DEF MbxKept
<1>5. Distinct(winfo_mbx')
  BY <1>2, DistinctScope DEF MbxKept
<1>6. DOMAIN pk_head' = Mbx /\ \A n \in Mbx \ {m} : pk_head'[n] = pk_head[n]
  BY <1>2 DEF MbxKept
<1>7. \A n \in Mbx : wait_queue'[n] # << >> => pk_head'[n] = NULL
  BY <1>1, <1>3, <1>6, OthersEmpty DEF MbxKept, B!NoIdleMessage
<1>8. QED
  BY <1>3, <1>4, <1>5, <1>6, <1>7, MbxKeptNext DEF MbxStep

LEMMA MbxCallStep ==
  ASSUME ObjectKernel, MbxKept, NEW m \in Mbx, B!MbxCall(m)
  PROVE  ObjectKernel' /\ StepOn({m}) /\ MbxKept'
<1>1. ASSUME NEW callback \in {"none", "wait_tmout"}, B!ReceiveOrWait(m, callback)
      PROVE  MbxStep(m)
  <2>1. CASE B!Receive(m)
    BY <2>1, MbxReceive
  <2>2. CASE ~B!Receive(m)
    <3>1. /\ Waits("MBX", callback, m) /\ pk_head[m] = NULL /\ UNCHANGED pk_head
          /\ winfo_mbx' = Scope([winfo_mbx EXCEPT ![p_runtsk] = UNINIT])
      BY <1>1, <2>2, SameB DEF B!ReceiveOrWait, B!queVars, queVars, B!msgVars,
                               Waits
    <3>2. QED
      BY <3>1, MbxWait
  <2>3. QED
    BY <2>1, <2>2
<1>2. MbxStep(m)
  BY <1>1, MbxSend, MbxReceive, ini_mbxStep
     DEF B!MbxCall, B!rcv_mbx, B!trcv_mbx, B!prcv_mbx
<1>3. QED
  BY <1>2 DEF MbxStep

----------------------------------------------------------------------------
(***************************************************************************)
(* Fixed-size memory pools.                                                *)
(***************************************************************************)
MpfKept ==
  /\ Got(winfo_mpf, Mpf)
  /\ DOMAIN mpfcb = Mpf
  /\ \A m \in Mpf : "fblkcnt" \in DOMAIN mpfcb[m]
  /\ M!NoIdleBlock

LEMMA MpfFacts ==
  /\ Mpf \in SUBSET WaitQueue /\ UNINIT # NULL
  /\ \A m \in Mpf : UNINIT \notin M!Blk(m)
BY MbxFacts, ObjectsAssumption DEF M!MpfAssumption, M!Blk

\* MpfKept after a step, from its parts.
LEMMA MpfKeptNext ==
  ASSUME GotNext(winfo_mpf', Mpf), DOMAIN mpfcb' = Mpf,
         \A m \in Mpf : "fblkcnt" \in DOMAIN mpfcb'[m],
         \A m \in Mpf : wait_queue'[m] # << >> => mpfcb'[m].fblkcnt = 0
  PROVE  MpfKept'
BY DEF MpfKept, Got, GotNext, Pending, PendingNext, Missing, M!NoIdleBlock

LEMMA MpfRests ==
  ASSUME ObjectKernel, ObjectKernel', MpfKept, NEW O \in SUBSET WaitQueue,
         StepOn(O), O \cap Mpf = {}, M!MpfRest
  PROVE  MpfKept'
<1>1. winfo_mpf' = Scope(winfo_mpf) /\ UNCHANGED mpfcb
  BY SameM DEF M!MpfRest
<1>2. GotNext(winfo_mpf', Mpf)
  <2>1. GotNext(Scope(winfo_mpf), Mpf)
    BY MpfFacts, GotRest DEF MpfKept
  <2>2. QED
    BY <1>1, <2>1
<1>3. \A m \in Mpf : wait_queue'[m] # << >> => mpfcb'[m].fblkcnt = 0
  BY <1>1, MpfFacts, OthersEmpty DEF MpfKept, M!NoIdleBlock
<1>4. QED
  BY <1>1, <1>2, <1>3, MpfKeptNext DEF MpfKept

\* The steps of the calls on m.
MpfStep(m) == ObjectKernel' /\ StepOn({m}) /\ MpfKept'

\* A call that changes the number of the free blocks of m, and no task.
LEMMA MpfStill ==
  ASSUME ObjectKernel, MpfKept, NEW m \in Mpf, UNCHANGED << winfo_mpf, vars >>,
         NEW cb, "fblkcnt" \in DOMAIN cb, mpfcb' = [mpfcb EXCEPT ![m] = cb],
         wait_queue[m] # << >> => cb.fblkcnt = 0
  PROVE  MpfStep(m)
<1>1. ObjectKernel' /\ StepOn({m}) /\ UNCHANGED wait_queue
  BY StillOn
<1>2. GotNext(winfo_mpf', Mpf)
  BY GotStill DEF MpfKept
<1>3. /\ DOMAIN mpfcb' = Mpf /\ mpfcb'[m] = cb
      /\ \A n \in Mpf \ {m} : mpfcb'[n] = mpfcb[n]
  BY DEF MpfKept
<1>4. \A n \in Mpf : wait_queue'[n] # << >> => mpfcb'[n].fblkcnt = 0
  BY <1>1, <1>3 DEF MpfKept, M!NoIdleBlock
<1>5. \A n \in Mpf : "fblkcnt" \in DOMAIN mpfcb'[n]
  BY <1>3 DEF MpfKept
<1>6. QED
  BY <1>1, <1>2, <1>3, <1>4, <1>5, MpfKeptNext DEF MpfStep

LEMMA MpfGet ==
  ASSUME ObjectKernel, MpfKept, NEW m \in Mpf, M!Get(m)
  PROVE  MpfStep(m)
<1> DEFINE cb == M!get_mpf_block(mpfcb[m])
<1>1. /\ mpfcb[m].fblkcnt > 0 /\ UNCHANGED << winfo_mpf, vars >>
      /\ mpfcb' = [mpfcb EXCEPT ![m] = cb]
  BY DEF MpfKept, M!Get, M!vars, M!queVars, M!flagVars, M!ctxVars,
     M!bootVars, vars, queVars, flagVars, ctxVars, bootVars
<1>2. "fblkcnt" \in DOMAIN cb
  BY DEF MpfKept, M!get_mpf_block
<1>3. wait_queue[m] = << >>
  BY <1>1 DEF MpfKept, M!NoIdleBlock
<1> HIDE DEF cb
<1>4. QED
  BY <1>1, <1>2, <1>3, MpfStill

LEMMA MpfRelease ==
  ASSUME ObjectKernel, MpfKept, NEW m \in Mpf, NEW blk \in M!Blk(m),
         M!rel_mpf(m, blk)
  PROVE  MpfStep(m)
<1> DEFINE t == Head(wait_queue[m])
<1>1. m \in WaitQueue /\ UNINIT # NULL /\ blk # UNINIT /\ Mpf \in SUBSET WaitQueue
  BY MpfFacts
<1>2. CASE wait_queue[m] # << >>
  <2>1. /\ Hands(m) /\ winfo_mpf' = Scope([winfo_mpf EXCEPT ![t] = blk])
        /\ UNCHANGED mpfcb
    BY <1>2, SameM DEF M!rel_mpf, M!Handed, M!PutBack, M!queVars, queVars,
                       Hands, Returns
  <2>2. ObjectKernel' /\ StepOn({m})
    BY <1>1, <2>1, HandCall
  <2>3. GotNext(winfo_mpf', Mpf)
    <3>1. GotNext(Scope([winfo_mpf EXCEPT ![t] = blk]), Mpf)
      BY <1>1, <2>1, GotHand DEF MpfKept
    <3>2. QED
      BY <2>1, <3>1
  <2>4. \A n \in Mpf : wait_queue'[n] # << >> => mpfcb'[n].fblkcnt = 0
    BY <1>1, <1>2, <2>1, <2>2, OthersEmpty DEF MpfKept, M!NoIdleBlock
  <2>5. QED
    BY <2>1, <2>2, <2>3, <2>4, MpfKeptNext DEF MpfStep, MpfKept
<1>3. CASE wait_queue[m] = << >>
  <2> DEFINE cb == [mpfcb[m] EXCEPT !.fblkcnt = @ + 1,
                                    !.next[blk] = mpfcb[m].freelist,
                                    !.freelist = blk]
  <2>1. UNCHANGED << winfo_mpf, vars >> /\ mpfcb' = [mpfcb EXCEPT ![m] = cb]
    BY <1>3 DEF M!rel_mpf, M!PutBack, M!vars, M!queVars, M!flagVars, M!ctxVars,
       M!bootVars, vars, queVars, flagVars, ctxVars, bootVars, MpfKept
  <2>2. "fblkcnt" \in DOMAIN cb
    BY DEF MpfKept
  <2> HIDE DEF cb
  <2>3. QED
    BY <1>3, <2>1, <2>2, MpfStill
<1>4. QED
  BY <1>2, <1>3

LEMMA MpfCheck ==
  ASSUME ObjectKernel, MpfKept, NEW m \in Mpf, NEW blk \in M!Blk(m),
         M!rel_mpf_check(m, blk)
  PROVE  MpfStep(m)
<1>1. UNCHANGED << mpfcb, winfo_mpf, vars >>
  BY DEF M!rel_mpf_check, M!vars, M!queVars, M!flagVars, M!ctxVars,
     M!bootVars, vars, queVars, flagVars, ctxVars, bootVars
<1>2. ObjectKernel' /\ StepOn({m}) /\ UNCHANGED wait_queue
  BY <1>1, StillOn
<1>3. GotNext(winfo_mpf', Mpf)
  BY <1>1, GotStill DEF MpfKept
<1>4. QED
  BY <1>1, <1>2, <1>3, MpfKeptNext DEF MpfStep, MpfKept, M!NoIdleBlock

LEMMA MpfWait ==
  ASSUME ObjectKernel, MpfKept, NEW m \in Mpf,
         NEW callback \in {"none", "wait_tmout"}, Waits("MPF", callback, m),
         mpfcb[m].fblkcnt = 0, UNCHANGED mpfcb,
         winfo_mpf' = Scope([winfo_mpf EXCEPT ![p_runtsk] = UNINIT])
  PROVE  MpfStep(m)
<1>1. /\ m \in WaitQueue /\ UNINIT # NULL /\ Mpf \in SUBSET WaitQueue
      /\ "MPF" \in WobjFactor /\ "MPF" \in WobjcbFactor
  BY MpfFacts DEF WobjFactor, WobjcbFactor
<1>2. ObjectKernel' /\ StepOn({m}) /\ BeginsToWait(m)
  BY <1>1, WaitCall DEF Waits
<1>3. GotNext(winfo_mpf', Mpf)
  <2>1. GotNext(Scope([winfo_mpf EXCEPT ![p_runtsk] = UNINIT]), Mpf)
    BY <1>1, <1>2, GotWait DEF MpfKept
  <2>2. QED
    BY <2>1
<1>4. \A n \in Mpf : wait_queue'[n] # << >> => mpfcb'[n].fblkcnt = 0
  BY <1>1, <1>2, OthersEmpty DEF MpfKept, M!NoIdleBlock
<1>5. QED
  BY <1>2, <1>3, <1>4, MpfKeptNext DEF MpfStep, MpfKept

LEMMA ini_mpfStep ==
  ASSUME ObjectKernel, MpfKept, NEW m \in Mpf, M!ini_mpf(m)
  PROVE  MpfStep(m)
<1> DEFINE cb == M!Reset(m)
<1>1. m \in WaitQueue /\ UNINIT # NULL /\ Mpf \in SUBSET WaitQueue
  BY MpfFacts
<1>2. /\ Deletes(m) /\ winfo_mpf' = Scope(winfo_mpf)
      /\ mpfcb' = [mpfcb EXCEPT ![m] = cb]
  BY SameM DEF M!ini_mpf, M!queVars, queVars, Deletes, Returns
<1>3. /\ ObjectKernel' /\ StepOn({m}) /\ wait_queue'[m] = << >>
      /\ \E entry : ReleasesTasks(entry, "E_DLT")
  BY <1>1, <1>2, IniCall
<1>4. GotNext(Scope(winfo_mpf), Mpf)
  BY <1>1, <1>3, GotDelete DEF MpfKept
<1>5. "fblkcnt" \in DOMAIN cb
  BY DEF M!Reset, M!Initialised
<1> HIDE DEF cb
<1>6. /\ DOMAIN mpfcb' = Mpf /\ mpfcb'[m] = cb
      /\ \A n \in Mpf \ {m} : mpfcb'[n] = mpfcb[n]
  BY <1>2 DEF MpfKept
<1>7. \A n \in Mpf : wait_queue'[n] # << >> => mpfcb'[n].fblkcnt = 0
  BY <1>1, <1>3, <1>6, OthersEmpty DEF MpfKept, M!NoIdleBlock
<1>8. \A n \in Mpf : "fblkcnt" \in DOMAIN mpfcb'[n]
  BY <1>5, <1>6 DEF MpfKept
<1>9. GotNext(winfo_mpf', Mpf)
  BY <1>2, <1>4
<1>10. QED
  BY <1>3, <1>6, <1>7, <1>8, <1>9, MpfKeptNext DEF MpfStep

LEMMA MpfCallStep ==
  ASSUME ObjectKernel, MpfKept, NEW m \in Mpf, M!MpfCall(m)
  PROVE  ObjectKernel' /\ StepOn({m}) /\ MpfKept'
<1>1. ASSUME NEW callback \in {"none", "wait_tmout"}, M!GetOrWait(m, callback)
      PROVE  MpfStep(m)
  <2>1. CASE M!Get(m)
    BY <2>1, MpfGet
  <2>2. CASE ~M!Get(m)
    <3>1. /\ Waits("MPF", callback, m) /\ mpfcb[m].fblkcnt = 0 /\ UNCHANGED mpfcb
          /\ winfo_mpf' = Scope([winfo_mpf EXCEPT ![p_runtsk] = UNINIT])
      BY <1>1, <2>2, SameM DEF M!GetOrWait, M!queVars, queVars, Waits
    <3>2. QED
      BY <3>1, MpfWait
  <2>3. QED
    BY <2>1, <2>2
<1>2. MpfStep(m)
  BY <1>1, MpfGet, MpfRelease, MpfCheck, ini_mpfStep
     DEF M!MpfCall, M!get_mpf, M!tget_mpf, M!pget_mpf
<1>3. QED
  BY <1>2 DEF MpfStep

----------------------------------------------------------------------------
(***************************************************************************)
(* Semaphores.                                                             *)
(***************************************************************************)
SemKept == semcnt \in [Sem -> Nat] /\ S!NoIdleUnit

LEMMA SemFacts ==
  /\ Sem \in SUBSET WaitQueue
  /\ isemcnt \in [Sem -> Nat] /\ maxsem \in [Sem -> Nat \ {0}]
  /\ \A s \in Sem : isemcnt[s] <= maxsem[s]
BY ObjectsAssumption DEF S!SemAssumption

LEMMA SemRests ==
  ASSUME ObjectKernel, ObjectKernel', SemKept, NEW O \in SUBSET WaitQueue,
         StepOn(O), O \cap Sem = {}, S!SemRest
  PROVE  SemKept'
<1>1. UNCHANGED semcnt
  BY DEF S!SemRest
<1>2. \A s \in Sem : wait_queue'[s] # << >> => wait_queue[s] # << >>
  BY SemFacts, OthersEmpty
<1>3. QED
  BY <1>1, <1>2 DEF SemKept, S!NoIdleUnit

\* The steps of the calls on s.
SemStep(s) == ObjectKernel' /\ StepOn({s}) /\ SemKept'

\* A call after which s has c units.
LEMMA SemKeptNext ==
  ASSUME ObjectKernel, ObjectKernel', SemKept, NEW s \in Sem, StepOn({s}),
         NEW c \in Nat, semcnt' = [semcnt EXCEPT ![s] = c], c <= maxsem[s],
         c > 0 => wait_queue'[s] = << >>
  PROVE  SemKept'
<1>1. \A r \in Sem \ {s} : wait_queue'[r] # << >> => wait_queue[r] # << >>
  BY SemFacts, OthersEmpty
<1>2. /\ semcnt' \in [Sem -> Nat] /\ semcnt'[s] = c
      /\ \A r \in Sem \ {s} : semcnt'[r] = semcnt[r]
  BY DEF SemKept
<1>3. QED
  BY <1>1, <1>2 DEF SemKept, S!NoIdleUnit

LEMMA SemSignal ==
  ASSUME ObjectKernel, SemKept, NEW s \in Sem, S!sig_sem(s) \/ S!isig_sem(s)
  PROVE  SemStep(s)
<1>1. s \in WaitQueue
  BY SemFacts
<1>2. CASE wait_queue[s] # << >>
  <2>1. Hands(s) /\ UNCHANGED semcnt
    BY <1>2, SameS DEF S!sig_sem, S!isig_sem, S!Signal, S!SignalWinfo, S!queVars,
                       queVars, Hands, Returns
  <2>2. ObjectKernel' /\ StepOn({s})
    BY <1>1, <2>1, HandCall
  <2>3. \A r \in Sem : wait_queue'[r] # << >> => wait_queue[r] # << >>
    BY <1>2, <2>2, SemFacts, OthersEmpty
  <2>4. QED
    BY <2>1, <2>2, <2>3 DEF SemStep, SemKept, S!NoIdleUnit
<1>3. CASE wait_queue[s] = << >>
  <2> DEFINE c == semcnt[s] + 1
  <2>1. /\ UNCHANGED << sched, tstat, tmevt, wait_queue >> /\ Returns(winfo)
        /\ UNCHANGED << priority, queVars >> /\ semcnt[s] < maxsem[s]
        /\ semcnt' = [semcnt EXCEPT ![s] = c]
    BY <1>3, SameS DEF S!sig_sem, S!isig_sem, S!Signal, S!SignalWinfo, S!queVars,
                       queVars, Returns
  <2>2. ObjectKernel' /\ StepOn({})
    BY <2>1, NoneCall
  <2>3. StepOn({s})
    BY <2>2, StepOnMore
  <2>4. c \in Nat /\ c <= maxsem[s]
    <3>1. semcnt[s] \in Nat /\ maxsem[s] \in Nat
      BY SemFacts DEF SemKept
    <3>2. QED
      BY <2>1, <3>1
  <2> HIDE DEF c
  <2>5. QED
    BY <1>3, <2>1, <2>2, <2>3, <2>4, SemKeptNext DEF SemStep
<1>4. QED
  BY <1>2, <1>3

LEMMA SemAcquire ==
  ASSUME ObjectKernel, SemKept, NEW s \in Sem, S!Acquire(s)
  PROVE  SemStep(s)
<1> DEFINE c == semcnt[s] - 1
<1>1. semcnt[s] >= 1 /\ semcnt' = [semcnt EXCEPT ![s] = c] /\ UNCHANGED vars
  BY DEF S!Acquire, S!vars, S!queVars, S!flagVars, S!ctxVars,
     S!bootVars, vars, queVars, flagVars, ctxVars, bootVars
<1>2. ObjectKernel' /\ StepOn({s}) /\ UNCHANGED wait_queue
  BY <1>1, StillOn
<1>3. c \in Nat /\ c <= maxsem[s] /\ wait_queue[s] = << >>
  <2>1. semcnt[s] \in Nat /\ maxsem[s] \in Nat
    BY SemFacts DEF SemKept
  <2>2. semcnt[s] > 0 => wait_queue[s] = << >> /\ semcnt[s] <= maxsem[s]
    BY DEF SemKept, S!NoIdleUnit
  <2>3. QED
    BY <1>1, <2>1, <2>2
<1> HIDE DEF c
<1>4. QED
  BY <1>1, <1>2, <1>3, SemKeptNext DEF SemStep

LEMMA SemWait ==
  ASSUME ObjectKernel, SemKept, NEW s \in Sem,
         NEW callback \in {"none", "wait_tmout"}, Waits("SEM", callback, s),
         semcnt[s] = 0, UNCHANGED semcnt
  PROVE  SemStep(s)
<1>1. s \in WaitQueue /\ "SEM" \in WobjFactor /\ "SEM" \in WobjcbFactor
  BY SemFacts DEF WobjFactor, WobjcbFactor
<1>2. ObjectKernel' /\ StepOn({s})
  BY <1>1, WaitCall DEF Waits
<1>3. \A r \in Sem \ {s} : wait_queue'[r] # << >> => wait_queue[r] # << >>
  BY <1>2, SemFacts, OthersEmpty
<1>4. QED
  BY <1>2, <1>3 DEF SemStep, SemKept, S!NoIdleUnit

LEMMA ini_semCall ==
  ASSUME ObjectKernel, SemKept, NEW s \in Sem, S!ini_sem(s)
  PROVE  SemStep(s)
<1>1. s \in WaitQueue /\ isemcnt[s] \in Nat /\ isemcnt[s] <= maxsem[s]
  BY SemFacts
<1>2. Deletes(s) /\ semcnt' = [semcnt EXCEPT ![s] = isemcnt[s]]
  BY SameS DEF S!ini_sem, S!queVars, queVars, Deletes, Returns
<1>3. ObjectKernel' /\ StepOn({s}) /\ wait_queue'[s] = << >>
  BY <1>1, <1>2, IniCall
<1>4. QED
  BY <1>1, <1>2, <1>3, SemKeptNext DEF SemStep

LEMMA SemObjectStep ==
  ASSUME ObjectKernel, SemKept, NEW s \in Sem, S!SemCall(s)
  PROVE  ObjectKernel' /\ StepOn({s}) /\ SemKept'
<1>1. ASSUME NEW callback \in {"none", "wait_tmout"}, S!Wait(s, callback)
      PROVE  SemStep(s)
  <2>1. CASE S!Acquire(s)
    BY <2>1, SemAcquire
  <2>2. CASE ~S!Acquire(s)
    <3>1. Waits("SEM", callback, s) /\ semcnt[s] = 0 /\ UNCHANGED semcnt
      BY <1>1, <2>2, SameS DEF S!Wait, S!queVars, queVars, Waits
    <3>2. QED
      BY <3>1, SemWait
  <2>3. QED
    BY <2>1, <2>2
<1>2. SemStep(s)
  BY <1>1, SemSignal, SemAcquire, ini_semCall
     DEF S!SemCall, S!wai_sem, S!twai_sem, S!pol_sem
<1>3. QED
  BY <1>2 DEF SemStep

----------------------------------------------------------------------------
(***************************************************************************)
(* The loop of set_flg over the queue of a flag.                           *)
(***************************************************************************)
LEMMA AppendKeeps ==
  ASSUME NEW v \in Seq(Task), NoDuplicates(v), NEW t \in Task,
         t \notin Members(v), NEW pri
  PROVE  LET a == Append(v, t)
         IN  /\ a \in Seq(Task) /\ NoDuplicates(a)
             /\ Members(a) = Members(v) \cup {t}
             /\ /\ Ordered(v, pri) /\ \A u \in Members(v) : pri[u] <= pri[t]
                => Ordered(a, pri)
<1> DEFINE a == Append(v, t)
<1>1. /\ a \in Seq(Task) /\ Len(a) = Len(v) + 1 /\ Len(v) \in Nat
      /\ a[Len(a)] = t /\ \A i \in 1 .. Len(v) : a[i] = v[i]
  OBVIOUS
<1> HIDE DEF a
<1>2. \A i \in 1 .. Len(a) : i \in 1 .. Len(v) \/ i = Len(a)
  BY <1>1
<1>3. NoDuplicates(a) /\ Members(a) = Members(v) \cup {t}
  BY AppendLemma DEF a
<1>5. ASSUME Ordered(v, pri), \A u \in Members(v) : pri[u] <= pri[t]
      PROVE  Ordered(a, pri)
  <2> SUFFICES ASSUME NEW i \in 1 .. Len(a), NEW j \in 1 .. Len(a), i < j
               PROVE  pri[a[i]] <= pri[a[j]]
    BY DEF Ordered
  <2>1. i \in 1 .. Len(v)
    BY <1>1
  <2>2. CASE j \in 1 .. Len(v)
    BY <1>1, <1>5, <2>1, <2>2 DEF Ordered
  <2>3. CASE j = Len(a)
    <3>1. v[i] \in Members(v) /\ a[i] = v[i] /\ a[j] = t
      BY <1>1, <2>1, <2>3 DEF Members
    <3>2. QED
      BY <1>5, <3>1
  <2>4. QED
    BY <1>2, <2>2, <2>3
<1>6. QED
  BY <1>1, <1>3, <1>5 DEF a

\* What the loop keeps of the first n tasks of q.
Kept(f, q, X, n) ==
  IF n = 0 THEN << >>
  ELSE IF q[n] \in X THEN Append(f[n - 1], q[n]) ELSE f[n - 1]

KeptAt(v, q, X, n) ==
  /\ v \in Seq(Task) /\ NoDuplicates(v)
  /\ \A t : t \in Members(v) <=> \E i \in 1 .. n : q[i] = t /\ t \in X
  /\ \A pri : Ordered(q, pri) => Ordered(v, pri)

LEMMA KeptStep ==
  ASSUME NEW q \in Seq(Task), NoDuplicates(q), NEW X, NEW n \in 1 .. Len(q),
         NEW v, KeptAt(v, q, X, n - 1)
  PROVE  KeptAt(IF q[n] \in X THEN Append(v, q[n]) ELSE v, q, X, n)
<1>1. /\ v \in Seq(Task) /\ NoDuplicates(v) /\ n \in Nat /\ q[n] \in Task
      /\ \A t : t \in Members(v) <=> \E i \in 1 .. n - 1 : q[i] = t /\ t \in X
      /\ \A pri : Ordered(q, pri) => Ordered(v, pri)
      /\ Len(q) \in Nat
  BY DEF KeptAt
<1>2. \A i \in 1 .. n : i \in 1 .. n - 1 \/ i = n
  BY <1>1
<1>3. \A i \in 1 .. n - 1 : i \in 1 .. n /\ i \in 1 .. Len(q) /\ i < n /\ i # n
  BY <1>1
<1>4. CASE q[n] \notin X
  <2>1. \A t : (\E i \in 1 .. n : q[i] = t /\ t \in X)
                 <=> \E i \in 1 .. n - 1 : q[i] = t /\ t \in X
    BY <1>2, <1>3, <1>4
  <2>2. QED
    BY <1>1, <1>4, <2>1 DEF KeptAt
<1>5. CASE q[n] \in X
  <2> DEFINE a == Append(v, q[n])
  <2>1. q[n] \notin Members(v)
    BY <1>1, <1>3 DEF NoDuplicates
  <2>2. /\ a \in Seq(Task) /\ NoDuplicates(a)
        /\ Members(a) = Members(v) \cup {q[n]}
        /\ \A pri : /\ Ordered(v, pri) /\ \A u \in Members(v) : pri[u] <= pri[q[n]]
                    => Ordered(a, pri)
    BY <1>1, <2>1, AppendKeeps
  <2> HIDE DEF a
  <2>3. n \in 1 .. n
    BY <1>1
  <2>4. \A t : t \in Members(a) <=> \E i \in 1 .. n : q[i] = t /\ t \in X
    BY <1>1, <1>2, <1>3, <1>5, <2>2, <2>3
  <2>5. ASSUME NEW pri, Ordered(q, pri) PROVE Ordered(a, pri)
    <3>1. \A u \in Members(v) : pri[u] <= pri[q[n]]
      BY <1>1, <1>3, <2>5 DEF Ordered
    <3>2. QED
      BY <1>1, <2>2, <2>5, <3>1
  <2>6. QED
    BY <1>5, <2>2, <2>4, <2>5 DEF KeptAt, a
<1>6. QED
  BY <1>4, <1>5

LEMMA KeptExist ==
  ASSUME NEW q \in Seq(Task), NoDuplicates(q), NEW X
  PROVE  /\ \E f : f = [n \in 0 .. Len(q) |-> Kept(f, q, X, n)]
         /\ \A f : f = [n \in 0 .. Len(q) |-> Kept(f, q, X, n)] =>
              KeptAt(f[Len(q)], q, X, Len(q))
<1> DEFINE Fn(f, N) == f = [n \in 0 .. N |-> Kept(f, q, X, n)]
<1>1. Len(q) \in Nat
  OBVIOUS
<1>2. \E f : Fn(f, Len(q))
  <2> DEFINE Bad == {N \in Nat : N <= Len(q) /\ ~ \E f : Fn(f, N)}
  <2>1. ASSUME Bad # {} PROVE FALSE
    <3>1. PICK N \in Bad : \A K \in Bad : N <= K
      <4>1. Bad \in SUBSET Nat
        OBVIOUS
      <4> HIDE DEF Bad
      <4>2. QED
        BY <2>1, <4>1, SmallestLemma
    <3>2. N \in Nat /\ N <= Len(q) /\ ~ \E f : Fn(f, N)
      BY <3>1
    <3>3. CASE N = 0
      <4> DEFINE f == [n \in 0 .. 0 |-> << >>]
      <4>1. Fn(f, 0)
        BY DEF Kept
      <4> HIDE DEF f, Fn
      <4>2. QED
        BY <3>2, <3>3, <4>1
    <3>4. CASE N # 0
      <4>1. N - 1 \in Nat /\ N - 1 <= Len(q) /\ ~(N <= N - 1)
        BY <1>1, <3>2, <3>4
      <4>2. N - 1 \notin Bad
        <5> HIDE DEF Bad
        <5> QED BY <3>1, <4>1
      <4>3. PICK f : Fn(f, N - 1)
        <5> HIDE DEF Fn
        <5> QED BY <4>1, <4>2
      <4> DEFINE x == IF q[N] \in X THEN Append(f[N - 1], q[N]) ELSE f[N - 1]
                 g == [n \in 0 .. N |-> IF n < N THEN f[n] ELSE x]
      <4>4. \A n \in 0 .. N - 1 : f[n] = Kept(f, q, X, n)
        BY <4>3
      <4> HIDE DEF x
      <4>5. ASSUME NEW n \in 0 .. N PROVE g[n] = Kept(g, q, X, n)
        <5>1. CASE n = 0
          <6>1. g[n] = f[0] /\ f[0] = Kept(f, q, X, 0)
            BY <3>2, <3>4, <4>4, <5>1
          <6>2. QED
            BY <5>1, <6>1 DEF Kept
        <5>2. CASE n # 0 /\ n < N
          <6>1. g[n] = f[n] /\ g[n - 1] = f[n - 1] /\ f[n] = Kept(f, q, X, n)
            BY <3>2, <4>4, <5>2
          <6> HIDE DEF g
          <6>2. QED
            BY <5>2, <6>1 DEF Kept
        <5>3. CASE n = N
          <6>1. g[n] = x /\ g[n - 1] = f[n - 1]
            BY <3>2, <3>4, <5>3
          <6> HIDE DEF g
          <6>2. QED
            BY <3>4, <5>3, <6>1 DEF Kept, x
        <5>4. QED
          BY <3>2, <5>1, <5>2, <5>3
      <4>6. Fn(g, N)
        <5>1. g = [n \in 0 .. N |-> g[n]]
          OBVIOUS
        <5> HIDE DEF g
        <5>2. QED
          BY <4>5, <5>1
      <4> HIDE DEF Fn, g
      <4>7. QED
        BY <3>2, <4>6
    <3>5. QED
      BY <3>3, <3>4
  <2>2. QED
    <3> HIDE DEF Fn
    <3> QED BY <1>1, <2>1
<1>3. ASSUME NEW f, Fn(f, Len(q)) PROVE KeptAt(f[Len(q)], q, X, Len(q))
  <2> DEFINE Bad == {N \in Nat : N <= Len(q) /\ ~KeptAt(f[N], q, X, N)}
  <2>1. \A n \in 0 .. Len(q) : f[n] = Kept(f, q, X, n)
    BY <1>3
  <2> HIDE DEF Fn
  <2>2. ASSUME Bad # {} PROVE FALSE
    <3>1. PICK N \in Bad : \A K \in Bad : N <= K
      <4>1. Bad \in SUBSET Nat
        OBVIOUS
      <4> HIDE DEF Bad
      <4>2. QED
        BY <2>2, <4>1, SmallestLemma
    <3>2. N \in Nat /\ N <= Len(q) /\ ~KeptAt(f[N], q, X, N)
      BY <3>1
    <3>3. f[N] = Kept(f, q, X, N)
      BY <1>1, <2>1, <3>2
    <3>4. CASE N = 0
      <4>1. f[N] = << >>
        BY <3>3, <3>4 DEF Kept
      <4>2. /\ << >> \in Seq(Task) /\ NoDuplicates(<< >>) /\ Members(<< >>) = {}
            /\ \A pri : Ordered(<< >>, pri)
        BY DEF NoDuplicates, Members, Ordered
      <4>3. \A i \in 1 .. 0 : FALSE
        OBVIOUS
      <4>4. KeptAt(<< >>, q, X, 0)
        BY <4>2, <4>3 DEF KeptAt
      <4>5. QED
        BY <3>2, <3>4, <4>1, <4>4
    <3>5. CASE N # 0
      <4>1. N - 1 \in Nat /\ N - 1 <= Len(q) /\ ~(N <= N - 1) /\ N \in 1 .. Len(q)
        BY <1>1, <3>2, <3>5
      <4>2. N - 1 \notin Bad
        <5> HIDE DEF Bad
        <5> QED BY <3>1, <4>1
      <4>3. KeptAt(f[N - 1], q, X, N - 1)
        BY <4>1, <4>2
      <4>4. f[N] = IF q[N] \in X THEN Append(f[N - 1], q[N]) ELSE f[N - 1]
        BY <3>3, <3>5 DEF Kept
      <4>5. KeptAt(f[N], q, X, N)
        BY <4>1, <4>3, <4>4, KeptStep
      <4>6. QED
        BY <3>2, <4>5
    <3>6. QED
      BY <3>4, <3>5
  <2>3. QED
    BY <1>1, <2>2
<1>4. QED
  BY <1>2, <1>3

LEMMA FilterLemma ==
  ASSUME NEW q \in Seq(Task), NoDuplicates(q), NEW X
  PROVE  LET v == F!Filter(q, X)
         IN  /\ v \in Seq(Task) /\ NoDuplicates(v)
             /\ Members(v) = Members(q) \cap X
             /\ \A pri : Ordered(q, pri) => Ordered(v, pri)
<1> DEFINE f == CHOOSE f : f = [n \in 0 .. Len(q) |-> Kept(f, q, X, n)]
<1>1. F!Filter(q, X) = f[Len(q)]
  BY DEF F!Filter, Kept
<1>2. f = [n \in 0 .. Len(q) |-> Kept(f, q, X, n)]
  BY KeptExist
<1> HIDE DEF f
<1>3. KeptAt(f[Len(q)], q, X, Len(q))
  BY <1>2, KeptExist
<1>4. Members(f[Len(q)]) = Members(q) \cap X
  BY <1>3 DEF KeptAt, Members
<1>5. QED
  BY <1>1, <1>3, <1>4 DEF KeptAt

----------------------------------------------------------------------------
(***************************************************************************)
(* Event flags.                                                            *)
(***************************************************************************)
Modes == {"TWF_ORW", "TWF_ANDW"}
Info  == [waiptn : F!Pattern, wfmode : Modes, flgptn : SUBSET Bit]

\* The tasks whose WINFO_FLG.flgptn does not meet their condition.
Unmet(h) == {t \in Task : h[t] # F!NoWait /\ ~F!Meets(h[t].flgptn, h[t])}

FlgKept ==
  /\ flgptn \in [Flg -> SUBSET Bit] /\ flgwait \in [Task -> Info \cup {F!NoWait}]
  /\ \A f \in Flg : \A t \in Members(wait_queue[f]) :
       flgwait[t] \in Info /\ ~F!Condition(flgptn[f], flgwait[t])
  /\ Pending(Unmet(flgwait), Flg)

FlgKeptNext ==
  /\ flgptn' \in [Flg -> SUBSET Bit] /\ flgwait' \in [Task -> Info \cup {F!NoWait}]
  /\ \A f \in Flg : \A t \in Members(wait_queue'[f]) :
       flgwait'[t] \in Info /\ ~F!Condition(flgptn'[f], flgwait'[t])
  /\ PendingNext(Unmet(flgwait'), Flg)

LEMMA FlgKeptPrime == FlgKeptNext <=> FlgKept'
BY DEF FlgKeptNext, FlgKept, PendingNext, Pending, Unmet, Info, Modes, Members,
       F!NoWait, F!Meets, F!Condition, F!Pattern

LEMMA FlgFacts ==
  /\ Flg \in SUBSET WaitQueue /\ iflgptn \in [Flg -> SUBSET Bit]
  /\ F!NoWait \notin Info
BY ObjectsAssumption DEF F!FlgAssumption, F!NoWait, Info, Modes

\* A pattern meets a condition exactly when it has the bits that it asks for.
LEMMA ConditionFacts ==
  ASSUME NEW w \in Info, NEW ptn
  PROVE  /\ F!Condition(ptn, w) => F!Meets(ptn, w)
         /\ ~F!Condition({}, w)
         /\ \A less : less \subseteq ptn /\ F!Condition(less, w) => F!Condition(ptn, w)
<1>1. /\ w.wfmode \in {"TWF_ORW", "TWF_ANDW"} /\ w.waiptn # {}
  BY DEF Info, Modes, F!Pattern
<1>2. QED
  BY <1>1 DEF F!Condition, F!Meets

\* What a step makes of the WINFO_FLG of the waiting tasks.
LEMMA FlgStepKept ==
  ASSUME ObjectKernel, ObjectKernel', FlgKept, NEW O \in SUBSET WaitQueue,
         StepOn(O), NEW h \in [Task -> Info \cup {F!NoWait}],
         flgwait' = F!InScope(h), flgptn' \in [Flg -> SUBSET Bit],
         \A f \in Flg : \A t \in Members(wait_queue'[f]) :
           h[t] \in Info /\ ~F!Condition(flgptn'[f], h[t]),
         \A t \in Unmet(h) :
           \/ TSTAT_WAITING(tstat'[t]) /\ \E q \in Flg : t \in Members(wait_queue'[q])
           \/ t \in Unmet(flgwait) /\ KeepsMissing(t, Flg \cap O)
  PROVE  FlgKept'
<1> DEFINE Pnd  == Unmet(flgwait)
           PndN == Unmet(flgwait')
<1>1. \A t \in Task : flgwait'[t] = IF winfo'[t] = "none" THEN F!NoWait ELSE h[t]
  BY DEF F!InScope
<1>2. flgwait' \in [Task -> Info \cup {F!NoWait}]
  <2>1. \A t \in Task : h[t] \in Info \cup {F!NoWait}
    OBVIOUS
  <2>2. QED
    BY <2>1 DEF F!InScope
<1>3. \A f \in Flg : \A t \in Members(wait_queue'[f]) :
        flgwait'[t] \in Info /\ ~F!Condition(flgptn'[f], flgwait'[t])
  BY <1>1, FlgFacts, QueuedNext
<1>4. Pnd \in SUBSET Task /\ PndN \in SUBSET Task /\ Pending(Pnd, Flg)
  BY DEF Unmet, FlgKept
<1>5. \A t \in PndN : winfo'[t] # "none" /\ t \in Unmet(h)
  BY <1>1 DEF Unmet
<1>6. \A t \in PndN : winfo'[t] # "none" /\
        \/ TSTAT_WAITING(tstat'[t]) /\ \E q \in Flg : t \in Members(wait_queue'[q])
        \/ t \in Pnd /\ KeepsMissing(t, Flg \cap O)
  BY <1>5
<1> HIDE DEF Pnd, PndN
<1>7. PendingNext(PndN, Flg)
  BY <1>4, <1>6, FlgFacts, PendingKept
<1>8. FlgKeptNext
  BY <1>2, <1>3, <1>7 DEF FlgKeptNext, PndN
<1>9. QED
  BY <1>8, FlgKeptPrime

\* A step on the queues O that does not hand a pattern to a task, and in which
\* no task begins to wait.
LEMMA FlgSame ==
  ASSUME ObjectKernel, ObjectKernel', FlgKept, NEW O \in SUBSET WaitQueue,
         StepOn(O), flgwait' = F!InScope(flgwait),
         flgptn' \in [Flg -> SUBSET Bit],
         \A f \in Flg : wait_queue'[f] # << >> =>
           /\ Members(wait_queue'[f]) \subseteq Members(wait_queue[f])
           /\ flgptn'[f] = flgptn[f],
         \A t \in Task : KeepsMissing(t, Flg \cap O)
  PROVE  FlgKept'
<1>1. flgwait \in [Task -> Info \cup {F!NoWait}]
  BY DEF FlgKept
<1>2. \A f \in Flg : \A t \in Members(wait_queue'[f]) :
        flgwait[t] \in Info /\ ~F!Condition(flgptn'[f], flgwait[t])
  <2>1. Members(<< >>) = {}
    BY DEF Members
  <2>2. QED
    BY <2>1 DEF FlgKept
<1>3. \A t \in Unmet(flgwait) : t \in Task
  BY DEF Unmet
<1>4. QED
  BY <1>1, <1>2, <1>3, FlgStepKept

LEMMA FlgRests ==
  ASSUME ObjectKernel, ObjectKernel', FlgKept, NEW O \in SUBSET WaitQueue,
         StepOn(O), O \cap Flg = {}, F!FlgRest
  PROVE  FlgKept'
<1>1. flgwait' = F!InScope(flgwait) /\ UNCHANGED flgptn
  BY DEF F!FlgRest
<1>2. \A t \in Task : KeepsMissing(t, Flg \cap O)
  BY DEF KeepsMissing
<1>3. \A f \in Flg : Members(wait_queue'[f]) \subseteq Members(wait_queue[f])
  BY FlgFacts DEF StepOn
<1>4. flgptn' \in [Flg -> SUBSET Bit]
  BY <1>1 DEF FlgKept
<1>5. QED
  BY <1>1, <1>2, <1>3, <1>4, FlgSame

\* The steps of the calls on f.
FlgStep(f) == ObjectKernel' /\ StepOn({f}) /\ FlgKept'

\* A call that takes bits from the pattern, and does nothing to the tasks.
LEMMA FlgTakes ==
  ASSUME ObjectKernel, FlgKept, NEW f \in Flg, UNCHANGED << flgwait, vars >>,
         NEW ptn, ptn \subseteq flgptn[f], flgptn' = [flgptn EXCEPT ![f] = ptn]
  PROVE  FlgStep(f)
<1>1. ObjectKernel' /\ StepOn({f}) /\ UNCHANGED wait_queue
  BY StillOn
<1>2. /\ flgptn' \in [Flg -> SUBSET Bit] /\ UNCHANGED flgwait
      /\ \A g \in Flg : flgptn'[g] \subseteq flgptn[g]
  BY DEF FlgKept
<1>3. \A g \in Flg : \A t \in Members(wait_queue'[g]) :
        flgwait'[t] \in Info /\ ~F!Condition(flgptn'[g], flgwait'[t])
  BY <1>1, <1>2, ConditionFacts DEF FlgKept
<1>4. UNCHANGED << winfo, tstat >>
  BY DEF vars
<1>5. PendingNext(Unmet(flgwait'), Flg)
  <2>1. Unmet(flgwait') = Unmet(flgwait)
    BY <1>2
  <2>2. QED
    BY <1>1, <1>4, <2>1 DEF FlgKept, Pending, PendingNext
<1>6. FlgKeptNext
  BY <1>2, <1>3, <1>5 DEF FlgKeptNext, FlgKept
<1>7. QED
  BY <1>1, <1>6, FlgKeptPrime DEF FlgStep

LEMMA FlgWait ==
  ASSUME ObjectKernel, FlgKept, NEW f \in Flg, NEW w \in Info,
         NEW callback \in {"none", "wait_tmout"}, Waits("FLG", callback, f),
         ~F!Condition(flgptn[f], w), UNCHANGED flgptn,
         flgwait' = F!InScope([flgwait EXCEPT ![p_runtsk] = w])
  PROVE  FlgStep(f)
<1> DEFINE h == [flgwait EXCEPT ![p_runtsk] = w]
<1>1. /\ f \in WaitQueue /\ "FLG" \in WobjFactor /\ "FLG" \in WobjcbFactor
      /\ Flg \in SUBSET WaitQueue
  BY FlgFacts DEF WobjFactor, WobjcbFactor
<1>2. ObjectKernel' /\ StepOn({f}) /\ BeginsToWait(f)
  BY <1>1, WaitCall DEF Waits
<1>3. p_runtsk \in Task
  BY <1>2 DEF BeginsToWait
<1>4. /\ h \in [Task -> Info \cup {F!NoWait}] /\ h[p_runtsk] = w
      /\ \A t \in Task \ {p_runtsk} : h[t] = flgwait[t]
  BY <1>3 DEF FlgKept
<1>5. flgwait' = F!InScope(h)
  OBVIOUS
<1> HIDE DEF h
<1>6. ASSUME NEW g \in Flg, NEW t \in Members(wait_queue'[g])
      PROVE  h[t] \in Info /\ ~F!Condition(flgptn'[g], h[t])
  <2>1. t \in Task
    BY <1>1, <1>2, <1>6, QueuedNext
  <2>2. CASE t = p_runtsk
    <3>1. g = f
      BY <1>1, <1>2, <2>2 DEF BeginsToWait
    <3>2. QED
      BY <1>4, <2>2, <3>1
  <2>3. CASE t # p_runtsk
    <3>1. t \in Members(wait_queue[g])
      BY <1>1, <1>2, <2>3 DEF BeginsToWait
    <3>2. QED
      BY <1>4, <2>1, <2>3, <3>1 DEF FlgKept
  <2>4. QED
    BY <2>2, <2>3
<1>7. ASSUME NEW t \in Unmet(h)
      PROVE  \/ TSTAT_WAITING(tstat'[t]) /\ \E q \in Flg : t \in Members(wait_queue'[q])
             \/ t \in Unmet(flgwait) /\ KeepsMissing(t, Flg \cap {f})
  <2>1. CASE t = p_runtsk
    BY <1>2, <2>1 DEF BeginsToWait
  <2>2. CASE t # p_runtsk
    <3>1. t \in Task /\ tstat'[t] = tstat[t]
      BY <1>2, <2>2 DEF BeginsToWait, Unmet
    <3>2. KeepsMissing(t, Flg \cap {f})
      BY <1>1, <3>1, NotReleased
    <3>3. t \in Unmet(flgwait)
      BY <1>4, <2>2, <3>1 DEF Unmet
    <3>4. QED
      BY <3>2, <3>3
  <2>3. QED
    BY <2>1, <2>2
<1>8. flgptn' \in [Flg -> SUBSET Bit]
  BY DEF FlgKept
<1>9. {f} \in SUBSET WaitQueue
  BY <1>1
<1>10. FlgKept'
  BY <1>2, <1>4, <1>5, <1>6, <1>7, <1>8, <1>9, FlgStepKept
<1>11. QED
  BY <1>2, <1>10 DEF FlgStep

LEMMA ini_flgStep ==
  ASSUME ObjectKernel, FlgKept, NEW f \in Flg, F!ini_flg(f)
  PROVE  FlgStep(f)
<1>1. f \in WaitQueue /\ Flg \in SUBSET WaitQueue /\ iflgptn[f] \in SUBSET Bit
  BY FlgFacts
<1>2. /\ Deletes(f) /\ flgwait' = F!InScope(flgwait)
      /\ flgptn' = [flgptn EXCEPT ![f] = iflgptn[f]]
  BY SameF DEF F!ini_flg, F!queVars, queVars, Deletes, Returns
<1>3. /\ ObjectKernel' /\ StepOn({f})
      /\ wait_queue' = [wait_queue EXCEPT ![f] = << >>]
      /\ wait_queue'[f] = << >>
  BY <1>1, <1>2, IniCall
<1>4. PICK entry : ReleasesTasks(entry, "E_DLT")
  BY <1>1, <1>2, IniCall
<1>5. ASSUME NEW t \in Task PROVE KeepsMissing(t, Flg \cap {f})
  <2>1. CASE t \in Members(entry)
    BY <1>4, <2>1 DEF ReleasesTasks, KeepsMissing, E_OK, ZERO
  <2>2. CASE t \notin Members(entry)
    BY <1>1, <1>4, <2>2, NotReleased DEF ReleasesTasks
  <2>3. QED
    BY <2>1, <2>2
<1>6. /\ flgptn' \in [Flg -> SUBSET Bit]
      /\ \A g \in Flg \ {f} : flgptn'[g] = flgptn[g]
  BY <1>1, <1>2 DEF FlgKept
<1>7. \A g \in Flg \ {f} : wait_queue'[g] = wait_queue[g]
  BY <1>1, <1>3, TypesOf DEF ObjectKernel
<1>8. FlgKept'
  BY <1>1, <1>2, <1>3, <1>5, <1>6, <1>7, FlgSame
<1>9. QED
  BY <1>3, <1>8 DEF FlgStep

\* The tasks that set_flg finds in the queue of f, and those that it releases.
LEMMA ReleasedFacts ==
  ASSUME ObjectKernel, NEW f \in Flg, NEW ptn
  PROVE  LET entry == F!Released(f, ptn)
             X     == {t \in Task : F!Condition(ptn, flgwait[t])}
         IN  /\ entry \in Seq(Task) /\ NoDuplicates(entry)
             /\ Members(entry) \subseteq Members(wait_queue[f]) \cap X
             /\ \/ Members(entry) = Members(wait_queue[f]) \cap X
                \/ f \in TaClr /\ entry # << >>
<1> DEFINE X   == {t \in Task : F!Condition(ptn, flgwait[t])}
           met == F!Met(f, ptn)
           q   == wait_queue[f]
<1>1. q \in Seq(Task) /\ NoDuplicates(q)
  BY FlgFacts, QueueFacts DEF ObjectKernel
<1>2. met = F!Filter(q, X)
  BY DEF F!Met
<1>3. met \in Seq(Task) /\ NoDuplicates(met) /\ Members(met) = Members(q) \cap X
  BY <1>1, <1>2, FilterLemma
<1>4. F!Released(f, ptn) = IF f \in TaClr /\ met # << >> THEN << Head(met) >> ELSE met
  BY DEF F!Released
<1> HIDE DEF met, q, X
<1>5. CASE f \in TaClr /\ met # << >>
  <2>1. Head(met) \in Task /\ Head(met) \in Members(met)
    BY <1>3, <1>5, HeadMemberLemma
  <2> DEFINE t == Head(met)
  <2> HIDE DEF t
  <2>2. /\ << t >> \in Seq(Task) /\ NoDuplicates(<< t >>)
        /\ Members(<< t >>) = {t} /\ << t >> # << >>
    BY <2>1 DEF NoDuplicates, Members, t
  <2>3. QED
    BY <1>3, <1>4, <1>5, <2>1, <2>2 DEF t, q, X
<1>6. CASE ~(f \in TaClr /\ met # << >>)
  BY <1>3, <1>4, <1>6 DEF q, X
<1>7. QED
  BY <1>5, <1>6

LEMMA FlgSet ==
  ASSUME ObjectKernel, FlgKept, NEW f \in Flg, NEW setptn \in F!Pattern,
         F!set_flg(f, setptn) \/ F!iset_flg(f, setptn)
  PROVE  FlgStep(f)
<1> DEFINE ptn   == flgptn[f] \cup setptn
           entry == F!Released(f, ptn)
           X     == {t \in Task : F!Condition(ptn, flgwait[t])}
           h     == F!Hand(f, setptn)
<1>1. f \in WaitQueue /\ {f} \in SUBSET WaitQueue /\ Flg \in SUBSET WaitQueue
  BY FlgFacts
<1>2. /\ wait_queue' = [wait_queue EXCEPT
                          ![f] = F!Filter(wait_queue[f], Task \ Members(entry))]
      /\ release_in_order(entry)
      /\ flgptn' = [flgptn EXCEPT ![f] = IF entry = << >> THEN ptn
                                                          ELSE F!Leaves(f, ptn)]
      /\ Returns(release_winfo(entry, E_OK))
      /\ flgwait' = F!InScope(h)
      /\ UNCHANGED << priority, queVars >>
  <2>1. F!E_OK = E_OK
    BY DEF F!E_OK, E_OK, F!ZERO, ZERO
  <2>2. QED
    BY <2>1, SameF DEF F!set_flg, F!iset_flg, F!Set, F!SetWinfo, F!queVars,
                       queVars, Returns
<1>3. /\ entry \in Seq(Task) /\ NoDuplicates(entry)
      /\ Members(entry) \subseteq Members(wait_queue[f]) \cap X
      /\ \/ Members(entry) = Members(wait_queue[f]) \cap X
         \/ f \in TaClr /\ entry # << >>
  BY ReleasedFacts
<1>4. /\ h = [t \in Task |-> IF t \in Members(entry)
                               THEN [flgwait[t] EXCEPT !.flgptn = ptn]
                               ELSE flgwait[t]]
  BY SameF DEF F!Hand
<1>5. ptn \in SUBSET Bit
  BY DEF FlgKept, F!Pattern
<1> HIDE DEF entry, h, ptn
<1>6. TakenFrom(entry, {f})
  BY <1>1, <1>3 DEF TakenFrom
<1>7. LeavesQueues(entry)
  <2> DEFINE v == F!Filter(wait_queue[f], Task \ Members(entry))
  <2>1. /\ wait_queue[f] \in Seq(Task) /\ NoDuplicates(wait_queue[f])
        /\ Members(wait_queue[f]) \subseteq Task
    BY <1>1, QueueFacts DEF ObjectKernel
  <2>2. /\ v \in Seq(Task) /\ NoDuplicates(v)
        /\ Members(v) = Members(wait_queue[f]) \cap (Task \ Members(entry))
        /\ \A pri : Ordered(wait_queue[f], pri) => Ordered(v, pri)
    BY <2>1, FilterLemma
  <2> HIDE DEF v
  <2>3. wait_queue' = [wait_queue EXCEPT ![f] = v]
    BY <1>2 DEF v
  <2>4. /\ wait_queue' \in [WaitQueue -> Seq(Task)] /\ wait_queue'[f] = v
        /\ \A q \in WaitQueue \ {f} : wait_queue'[q] = wait_queue[q]
    BY <1>1, <2>2, <2>3, TypesOf DEF ObjectKernel
  <2>5. ASSUME NEW q \in WaitQueue
        PROVE  /\ NoDuplicates(wait_queue'[q])
               /\ Members(wait_queue'[q]) = Members(wait_queue[q]) \ Members(entry)
               /\ q \in TpriQueue => Ordered(wait_queue'[q], priority)
    <3>1. CASE q = f
      <4>1. f \in TpriQueue => Ordered(wait_queue[f], priority)
        BY QueueFacts DEF ObjectKernel
      <4>2. QED
        BY <2>1, <2>2, <2>4, <3>1, <4>1
    <3>2. CASE q # f
      <4>1. ASSUME NEW t \in Members(wait_queue[q]), t \in Members(entry)
            PROVE  FALSE
        <5>1. t \in Members(wait_queue[f]) /\ t \in Task
          BY <1>3, <2>1, <4>1
        <5>2. LinkAt(t, tstat, wait_queue)
          BY <5>1, QueueFacts DEF ObjectKernel
        <5>3. QED
          BY <1>1, <3>2, <4>1, <5>1, <5>2 DEF LinkAt
      <4>2. wait_queue'[q] = wait_queue[q]
        BY <2>4, <3>2
      <4>3. QED
        BY <4>1, <4>2, QueueFacts DEF ObjectKernel
    <3>3. QED
      BY <3>1, <3>2
  <2>6. QED
    BY <2>4, <2>5 DEF LeavesQueues
<1>8. ObjectKernel' /\ StepOn({f}) /\ ReleasesTasks(entry, E_OK)
  BY <1>2, <1>6, <1>7, ReleaseCall
<1>9. Members(entry) \subseteq Task
  BY <1>3
<1>10. ASSUME NEW t \in Members(entry)
       PROVE  /\ flgwait[t] \in Info /\ h[t] \in Info
              /\ F!Meets(h[t].flgptn, h[t])
  <2>1. /\ flgwait[t] \in Info /\ F!Condition(ptn, flgwait[t]) /\ t \in Task
        /\ h[t] = [flgwait[t] EXCEPT !.flgptn = ptn]
    BY <1>3, <1>4, <1>9 DEF FlgKept
  <2>2. F!Meets(ptn, flgwait[t])
    BY <2>1, ConditionFacts
  <2>3. /\ h[t] \in Info /\ h[t].flgptn = ptn
        /\ h[t].waiptn = flgwait[t].waiptn /\ h[t].wfmode = flgwait[t].wfmode
    BY <1>5, <2>1 DEF Info
  <2>4. QED
    BY <2>1, <2>2, <2>3 DEF F!Meets
<1>11. \A t \in Task \ Members(entry) : h[t] = flgwait[t]
  BY <1>4
<1>12. h \in [Task -> Info \cup {F!NoWait}]
  <2>1. \A t \in Task : h[t] \in Info \cup {F!NoWait}
    BY <1>10, <1>11 DEF FlgKept
  <2>2. h = [t \in Task |-> h[t]]
    BY <1>4
  <2>3. QED
    BY <2>1, <2>2
<1>13. /\ flgptn' \in [Flg -> SUBSET Bit]
       /\ flgptn'[f] = IF entry = << >> THEN ptn ELSE F!Leaves(f, ptn)
       /\ \A g \in Flg \ {f} : flgptn'[g] = flgptn[g]
  BY <1>2, <1>5 DEF FlgKept, F!Leaves
<1>14. ASSUME NEW g \in Flg, NEW t \in Members(wait_queue'[g])
       PROVE  h[t] \in Info /\ ~F!Condition(flgptn'[g], h[t])
  <2>1. t \in Members(wait_queue[g]) /\ t \notin Members(entry)
    BY <1>1, <1>7 DEF LeavesQueues
  <2>2. /\ t \in Task /\ h[t] = flgwait[t] /\ flgwait[t] \in Info
        /\ ~F!Condition(flgptn[g], flgwait[t])
    BY <1>1, <1>11, <2>1, QueueFacts DEF FlgKept, ObjectKernel
  <2>3. CASE g # f
    BY <1>13, <2>2, <2>3
  <2>4. CASE g = f
    <3>1. CASE Members(entry) = Members(wait_queue[f]) \cap X
      <4>1. ~F!Condition(ptn, flgwait[t])
        BY <2>1, <2>2, <2>4, <3>1
      <4>2. flgptn'[f] = ptn \/ flgptn'[f] = {}
        BY <1>13 DEF F!Leaves
      <4>3. QED
        BY <2>2, <2>4, <4>1, <4>2, ConditionFacts
    <3>2. CASE f \in TaClr /\ entry # << >>
      <4>1. flgptn'[f] = {}
        BY <1>13, <3>2 DEF F!Leaves
      <4>2. QED
        BY <2>2, <2>4, <4>1, ConditionFacts
    <3>3. QED
      BY <1>3, <3>1, <3>2
  <2>5. QED
    BY <2>3, <2>4
<1>15. ASSUME NEW t \in Unmet(h)
       PROVE  t \in Unmet(flgwait) /\ KeepsMissing(t, Flg \cap {f})
  <2>1. t \in Task /\ t \notin Members(entry)
    BY <1>10, <1>15 DEF Unmet
  <2>2. h[t] = flgwait[t] /\ tstat'[t] = tstat[t]
    BY <1>8, <1>11, <2>1 DEF ReleasesTasks
  <2>3. t \in Unmet(flgwait)
    BY <1>15, <2>1, <2>2 DEF Unmet
  <2>4. KeepsMissing(t, Flg \cap {f})
    BY <1>1, <2>1, <2>2, NotReleased
  <2>5. QED
    BY <2>3, <2>4
<1>16. FlgKept'
  BY <1>1, <1>2, <1>8, <1>12, <1>13, <1>14, <1>15, FlgStepKept
<1>17. QED
  BY <1>8, <1>16 DEF FlgStep

LEMMA FlgCallStep ==
  ASSUME ObjectKernel, FlgKept, NEW f \in Flg, F!FlgCall(f)
  PROVE  ObjectKernel' /\ StepOn({f}) /\ FlgKept'
<1>0. /\ UNCHANGED F!vars => UNCHANGED vars
      /\ UNCHANGED F!queVars => UNCHANGED queVars
  BY DEF F!vars, F!queVars, F!flagVars, F!ctxVars, F!bootVars, vars, queVars,
         flagVars, ctxVars, bootVars
<1>1. ASSUME NEW ptn, F!clr_flg(f, ptn) PROVE FlgStep(f)
  <2>1. flgptn' = [flgptn EXCEPT ![f] = flgptn[f] \cap ptn]
        /\ UNCHANGED << flgwait, vars >>
    BY <1>0, <1>1 DEF F!clr_flg
  <2>2. QED
    BY <2>1, FlgTakes
<1>2. ASSUME flgptn' = [flgptn EXCEPT ![f] = F!Leaves(f, flgptn[f])],
             UNCHANGED << flgwait, F!vars >>
      PROVE  FlgStep(f)
  <2>1. F!Leaves(f, flgptn[f]) \subseteq flgptn[f]
    BY DEF F!Leaves
  <2>2. QED
    BY <1>0, <1>2, <2>1, FlgTakes
<1>3. ASSUME NEW w \in Info, F!pol_flg(f, w) PROVE FlgStep(f)
  BY <1>2, <1>3 DEF F!pol_flg
<1>4. ASSUME NEW w \in Info, NEW callback \in {"none", "wait_tmout"},
             F!Wait(f, w, callback)
      PROVE  FlgStep(f)
  <2>1. CASE F!Condition(flgptn[f], w)
    BY <1>2, <1>4, <2>1 DEF F!Wait
  <2>2. CASE ~F!Condition(flgptn[f], w)
    <3>1. /\ Waits("FLG", callback, f) /\ UNCHANGED flgptn
          /\ flgwait' = F!InScope([flgwait EXCEPT ![p_runtsk] = w])
      BY <1>0, <1>4, <2>2, SameF DEF F!Wait, Waits
    <3>2. QED
      BY <2>2, <3>1, FlgWait
  <2>3. QED
    BY <2>1, <2>2
<1>5. \A ptn \in F!Pattern, wfmode \in Modes : F!WinfoFlg(ptn, wfmode) \in Info
  BY DEF F!WinfoFlg, Info
<1>6. FlgStep(f)
  BY <1>1, <1>3, <1>4, <1>5, FlgSet, ini_flgStep
     DEF F!FlgCall, F!wai_flg, F!twai_flg, Modes
<1>7. QED
  BY <1>6 DEF FlgStep

----------------------------------------------------------------------------
(***************************************************************************)
(* What the call of a waiting task carries: d[t] is the datum that t waits *)
(* to send, when t is in one of the queues W.                              *)
(***************************************************************************)
Carried(X) == X \cup {UNINIT, NULL}

Carries(d, W, X) ==
  /\ d \in [Task -> Carried(X)]
  /\ \A w \in W : \A t \in Members(wait_queue[w]) : d[t] \in X

CarriesNext(d, W, X) ==
  /\ d \in [Task -> Carried(X)]
  /\ \A w \in W : \A t \in Members(wait_queue'[w]) : d[t] \in X

\* No task enters a queue of W.
NoneEnters(W) ==
  \A w \in W : Members(wait_queue'[w]) \subseteq Members(wait_queue[w])

LEMMA RestShrinks ==
  ASSUME NEW O, StepOn(O), NEW W \in SUBSET WaitQueue, W \cap O = {}
  PROVE  NoneEnters(W)
BY DEF StepOn, NoneEnters

LEMMA HandShrinks ==
  ASSUME ObjectKernel, NEW r \in WaitQueue, Hands(r), NEW W \in SUBSET WaitQueue
  PROVE  NoneEnters(W)
<1> SUFFICES ASSUME NEW w \in W
             PROVE  Members(wait_queue'[w]) \subseteq Members(wait_queue[w])
  BY DEF NoneEnters
<1>1. /\ wait_queue \in [WaitQueue -> Seq(Task)] /\ NoDuplicates(wait_queue[r])
      /\ wait_queue[r] \in Seq(Task) /\ wait_queue[r] # << >>
      /\ wait_queue' = [wait_queue EXCEPT ![r] = Tail(wait_queue[r])]
  BY TypesOf, QueueFacts DEF ObjectKernel, Hands
<1>2. Members(Tail(wait_queue[r])) \subseteq Members(wait_queue[r])
  BY <1>1, TailMembers
<1>3. CASE w = r
  BY <1>1, <1>2, <1>3
<1>4. CASE w # r
  BY <1>1, <1>4
<1>5. QED
  BY <1>3, <1>4

LEMMA DeleteShrinks ==
  ASSUME ObjectKernel, NEW s \in WaitQueue, NEW r \in WaitQueue,
         wait_queue' = [wait_queue EXCEPT ![s] = << >>, ![r] = << >>],
         NEW W \in SUBSET WaitQueue
  PROVE  NoneEnters(W)
<1>1. wait_queue \in [WaitQueue -> Seq(Task)] /\ Members(<< >>) = {}
  BY TypesOf DEF ObjectKernel, Members
<1>2. \A w \in W : wait_queue'[w] = wait_queue[w] \/ wait_queue'[w] = << >>
  BY <1>1
<1>3. QED
  BY <1>1, <1>2 DEF NoneEnters

LEMMA CarryNext ==
  ASSUME ObjectKernel', NEW W \in SUBSET WaitQueue, NEW X, NEW d, Carries(d, W, X),
         NEW h \in [Task -> Carried(X)],
         \A w \in W : \A t \in Members(wait_queue'[w]) :
           h[t] \in X \/ (h[t] = d[t] /\ t \in Members(wait_queue[w]))
  PROVE  CarriesNext(Scope(h), W, X)
<1>1. Scope(h) \in [Task -> Carried(X)]
  BY DEF Scope, Carried
<1>2. ASSUME NEW w \in W, NEW t \in Members(wait_queue'[w])
      PROVE  Scope(h)[t] \in X
  <2>1. t \in Task /\ winfo'[t] # "none"
    BY <1>2, QueuedNext
  <2>2. Scope(h)[t] = h[t]
    BY <2>1 DEF Scope
  <2>3. QED
    BY <1>2, <2>2 DEF Carries
<1>3. QED
  BY <1>1, <1>2 DEF CarriesNext

\* No task begins to wait to send; the call of t, if any, is handed x.
LEMMA CarrySame ==
  ASSUME ObjectKernel', NEW W \in SUBSET WaitQueue, NEW X, NEW d, Carries(d, W, X),
         NoneEnters(W)
  PROVE  CarriesNext(Scope(d), W, X)
<1>1. \A w \in W : \A t \in Members(wait_queue'[w]) : t \in Members(wait_queue[w])
  BY DEF NoneEnters
<1>2. d \in [Task -> Carried(X)]
  BY DEF Carries
<1>3. QED
  BY <1>1, <1>2, CarryNext

LEMMA CarryHand ==
  ASSUME ObjectKernel', NEW W \in SUBSET WaitQueue, NEW X, NEW d, Carries(d, W, X),
         NoneEnters(W), NEW u, NEW x \in X
  PROVE  CarriesNext(Scope([d EXCEPT ![u] = x]), W, X)
<1> DEFINE h == [d EXCEPT ![u] = x]
<1>1. d \in [Task -> Carried(X)]
  BY DEF Carries
<1>2. h \in [Task -> Carried(X)] /\ \A t \in Task : h[t] \in X \/ h[t] = d[t]
  BY <1>1 DEF Carried
<1> HIDE DEF h
<1>3. ASSUME NEW w \in W, NEW t \in Members(wait_queue'[w])
      PROVE  h[t] \in X \/ (h[t] = d[t] /\ t \in Members(wait_queue[w]))
  <2>1. t \in Task /\ t \in Members(wait_queue[w])
    BY <1>3, QueuedNext DEF NoneEnters
  <2>2. QED
    BY <1>2, <2>1
<1>4. CarriesNext(Scope(h), W, X)
  BY <1>2, <1>3, CarryNext
<1>5. QED
  BY <1>4 DEF h

\* The running task begins to wait in q.
LEMMA CarryWait ==
  ASSUME ObjectKernel', NEW W \in SUBSET WaitQueue, NEW X, NEW d, Carries(d, W, X),
         NEW q \in WaitQueue, BeginsToWait(q), NEW x \in Carried(X),
         q \in W => x \in X
  PROVE  CarriesNext(Scope([d EXCEPT ![p_runtsk] = x]), W, X)
<1> DEFINE p == p_runtsk
           h == [d EXCEPT ![p] = x]
<1>1. d \in [Task -> Carried(X)] /\ p \in Task
  BY DEF Carries, BeginsToWait
<1>2. h \in [Task -> Carried(X)] /\ h[p] = x /\ \A t \in Task \ {p} : h[t] = d[t]
  BY <1>1
<1>3. /\ \A w \in WaitQueue : p \notin Members(wait_queue[w])
      /\ Members(wait_queue'[q]) = Members(wait_queue[q]) \cup {p}
      /\ \A w \in WaitQueue \ {q} : wait_queue'[w] = wait_queue[w]
  BY DEF BeginsToWait
<1> HIDE DEF h, p
<1>4. ASSUME NEW w \in W, NEW t \in Members(wait_queue'[w])
      PROVE  h[t] \in X \/ (h[t] = d[t] /\ t \in Members(wait_queue[w]))
  <2>1. t \in Task
    BY <1>4, QueuedNext
  <2>2. CASE w = q
    BY <1>2, <1>3, <1>4, <2>1, <2>2
  <2>3. CASE w # q
    BY <1>2, <1>3, <1>4, <2>1, <2>3
  <2>4. QED
    BY <2>2, <2>3
<1>5. CarriesNext(Scope(h), W, X)
  BY <1>2, <1>4, CarryNext
<1>6. QED
  BY <1>5 DEF h, p

----------------------------------------------------------------------------
(***************************************************************************)
(* What else the event flags keep: the scope of each WINFO_FLG, and one    *)
(* task in the wait queue of a flag without TA_WMUL.                       *)
(***************************************************************************)
FlgScoped == \A t \in Task : winfo[t] = "none" => flgwait[t] = F!NoWait

OneWaits == \A f \in Flg \ TaWmul : \A t, u \in Members(wait_queue[f]) : t = u

LEMMA FlgScopedNext ==
  ASSUME NEW h, flgwait' = F!InScope(h)
  PROVE  FlgScoped'
BY DEF F!InScope, FlgScoped

LEMMA OneWaitsShrinks ==
  ASSUME OneWaits, NoneEnters(Flg)
  PROVE  OneWaits'
<1> SUFFICES ASSUME NEW f \in Flg \ TaWmul, NEW t \in Members(wait_queue'[f]),
                    NEW u \in Members(wait_queue'[f])
             PROVE  t = u
  BY DEF OneWaits, Members
<1>1. t \in Members(wait_queue[f]) /\ u \in Members(wait_queue[f])
  BY DEF NoneEnters
<1>2. QED
  BY <1>1 DEF OneWaits

LEMMA FlgMoreWait ==
  ASSUME ObjectKernel, OneWaits, NEW f \in Flg, F!Usable(f),
         NEW callback \in {"none", "wait_tmout"}, Waits("FLG", callback, f)
  PROVE  OneWaits'
<1>1. /\ f \in WaitQueue /\ Flg \in SUBSET WaitQueue /\ "FLG" \in WobjFactor
      /\ "FLG" \in WobjcbFactor
  BY FlgFacts DEF WobjFactor, WobjcbFactor
<1>2. BeginsToWait(f)
  BY <1>1, WaitCall DEF Waits
<1>3. /\ Members(wait_queue'[f]) = Members(wait_queue[f]) \cup {p_runtsk}
      /\ \A g \in Flg \ {f} : wait_queue'[g] = wait_queue[g]
  BY <1>1, <1>2 DEF BeginsToWait
<1>4. f \notin TaWmul => Members(wait_queue'[f]) = {p_runtsk}
  BY <1>3 DEF F!Usable, Members
<1> SUFFICES ASSUME NEW g \in Flg \ TaWmul, NEW t \in Members(wait_queue'[g]),
                    NEW u \in Members(wait_queue'[g])
             PROVE  t = u
  BY DEF OneWaits, Members
<1>5. CASE g = f
  BY <1>4, <1>5
<1>6. CASE g # f
  BY <1>3, <1>6 DEF OneWaits
<1>7. QED
  BY <1>5, <1>6

LEMMA FlgSetShrinks ==
  ASSUME ObjectKernel, NEW f \in Flg, NEW X,
         wait_queue' = [wait_queue EXCEPT ![f] = F!Filter(wait_queue[f], X)]
  PROVE  NoneEnters(Flg)
<1>1. /\ Flg \in SUBSET WaitQueue /\ wait_queue \in [WaitQueue -> Seq(Task)]
      /\ wait_queue[f] \in Seq(Task) /\ NoDuplicates(wait_queue[f])
  BY FlgFacts, TypesOf, QueueFacts DEF ObjectKernel
<1>2. Members(F!Filter(wait_queue[f], X)) \subseteq Members(wait_queue[f])
  <2>1. Members(F!Filter(wait_queue[f], X)) = Members(wait_queue[f]) \cap X
    BY <1>1, FilterLemma
  <2>2. QED
    BY <2>1
<1> SUFFICES ASSUME NEW g \in Flg
             PROVE  Members(wait_queue'[g]) \subseteq Members(wait_queue[g])
  BY DEF NoneEnters
<1>3. CASE g = f
  BY <1>1, <1>2, <1>3
<1>4. CASE g # f
  BY <1>1, <1>4
<1>5. QED
  BY <1>3, <1>4

LEMMA FlgMoreCall ==
  ASSUME ObjectKernel, FlgScoped, OneWaits, NEW f \in Flg, F!FlgCall(f)
  PROVE  FlgScoped' /\ OneWaits'
<1> DEFINE Goal == FlgScoped' /\ OneWaits'
<1>0. /\ UNCHANGED F!vars => UNCHANGED vars
      /\ UNCHANGED F!queVars => UNCHANGED queVars
  BY DEF F!vars, F!queVars, F!flagVars, F!ctxVars, F!bootVars, vars, queVars,
         flagVars, ctxVars, bootVars
<1>1. ASSUME UNCHANGED << flgwait, F!vars >> PROVE Goal
  <2>1. UNCHANGED << flgwait, winfo, wait_queue >>
    BY <1>0, <1>1 DEF vars
  <2>2. QED
    BY <2>1 DEF FlgScoped, OneWaits
<1>2. ASSUME NEW setptn, F!set_flg(f, setptn) \/ F!iset_flg(f, setptn) PROVE Goal
  <2>1. flgwait' = F!InScope(F!Hand(f, setptn))
    BY <1>2 DEF F!set_flg, F!iset_flg
  <2>2. PICK X : wait_queue' = [wait_queue EXCEPT ![f] = F!Filter(wait_queue[f], X)]
    BY <1>2 DEF F!set_flg, F!iset_flg, F!Set
  <2>3. QED
    BY <2>1, <2>2, FlgScopedNext, FlgSetShrinks, OneWaitsShrinks
<1>3. ASSUME F!ini_flg(f) PROVE Goal
  <2>1. Deletes(f) /\ flgwait' = F!InScope(flgwait)
    BY <1>0, <1>3, SameF DEF F!ini_flg, Deletes, Returns
  <2>2. wait_queue' = [wait_queue EXCEPT ![f] = << >>] /\ f \in WaitQueue
    BY <2>1, FlgFacts, IniCall
  <2>3. wait_queue' = [wait_queue EXCEPT ![f] = << >>, ![f] = << >>]
    BY <2>2
  <2>4. NoneEnters(Flg)
    BY <2>2, <2>3, FlgFacts, DeleteShrinks
  <2>5. QED
    BY <2>1, <2>4, FlgScopedNext, OneWaitsShrinks
<1>4. ASSUME NEW w, NEW callback \in {"none", "wait_tmout"}, F!Wait(f, w, callback)
      PROVE  Goal
  <2>1. CASE F!Condition(flgptn[f], w)
    BY <1>1, <1>4, <2>1 DEF F!Wait
  <2>2. CASE ~F!Condition(flgptn[f], w)
    <3>1. /\ Waits("FLG", callback, f) /\ F!Usable(f)
          /\ flgwait' = F!InScope([flgwait EXCEPT ![p_runtsk] = w])
      BY <1>0, <1>4, <2>2, SameF DEF F!Wait, Waits
    <3>2. QED
      BY <3>1, FlgMoreWait, FlgScopedNext
  <2>3. QED
    BY <2>1, <2>2
<1> HIDE DEF Goal
<1>5. Goal
  BY <1>1, <1>2, <1>3, <1>4
     DEF F!FlgCall, F!clr_flg, F!pol_flg, F!wai_flg, F!twai_flg
<1>6. QED
  BY <1>5 DEF Goal

LEMMA FlgMoreRest ==
  ASSUME FlgScoped, OneWaits, NEW O, StepOn(O), O \cap Flg = {}, F!FlgRest
  PROVE  FlgScoped' /\ OneWaits'
<1>1. NoneEnters(Flg)
  BY FlgFacts, RestShrinks
<1>2. QED
  BY <1>1, OneWaitsShrinks, FlgScopedNext DEF F!FlgRest

LEMMA FlgMoreStill ==
  ASSUME FlgScoped, OneWaits, UNCHANGED << winfo, flgwait, wait_queue >>
  PROVE  FlgScoped' /\ OneWaits'
BY DEF FlgScoped, OneWaits

LEMMA FlgMoreInit ==
  ASSUME F!FlgInit, \A w \in WaitQueue : wait_queue[w] = << >>
  PROVE  FlgScoped /\ OneWaits
<1>1. flgwait = [t \in Task |-> F!NoWait]
  BY DEF F!FlgInit
<1>2. \A f \in Flg : Members(wait_queue[f]) = {}
  BY FlgFacts DEF Members
<1>3. QED
  BY <1>1, <1>2 DEF FlgScoped, OneWaits

LEMMA FlgMoreMean ==
  ASSUME ObjectKernel, FlgKept, FlgScoped, OneWaits
  PROVE  /\ F!SingleWaiter
         /\ flgptn \in [Flg -> SUBSET Bit]
         /\ \A t \in Task :
              \/ flgwait[t] = F!NoWait
              \/ /\ flgwait[t].waiptn \in F!Pattern
                 /\ flgwait[t].wfmode \in {"TWF_ORW", "TWF_ANDW"}
                 /\ flgwait[t].flgptn \subseteq Bit
                 /\ winfo[t] # "none"
<1>1. ASSUME NEW f \in Flg \ TaWmul PROVE Len(wait_queue[f]) <= 1
  <2> DEFINE s == wait_queue[f]
             n == Len(s)
  <2>1. s \in Seq(Task) /\ NoDuplicates(s)
    BY FlgFacts, QueueFacts DEF ObjectKernel
  <2>2. \A t, u \in Members(s) : t = u
    BY DEF OneWaits
  <2> HIDE DEF s
  <2>3. n \in Nat
    BY <2>1
  <2>4. ASSUME n > 1 PROVE FALSE
    <3>1. 1 \in 1 .. n /\ 2 \in 1 .. n
      BY <2>3, <2>4
    <3>2. s[1] = s[2]
      BY <2>2, <3>1 DEF Members
    <3>3. QED
      BY <2>1, <3>1, <3>2 DEF NoDuplicates
  <2>5. QED
    BY <2>3, <2>4 DEF s
<1>2. \A t \in Task : flgwait[t] \in Info \cup {F!NoWait}
  BY DEF FlgKept
<1>3. QED
  BY <1>1, <1>2 DEF FlgKept, FlgScoped, F!SingleWaiter, Info, Modes

----------------------------------------------------------------------------
(***************************************************************************)
(* All objects together.                                                   *)
(***************************************************************************)
AllKept ==
  SemKept /\ FlgKept /\ DtqKept /\ PdqKept /\ MbxKept /\ MpfKept

ObjectInv == ObjectKernel /\ AllKept

AllRests ==
  S!SemRest /\ F!FlgRest /\ D!DtqRest /\ P!PdqRest /\ B!MbxRest /\ M!MpfRest

\* An object has its queues for itself.
LEMMA OwnQueueFacts ==
  /\ Sem \cap Flg = {} /\ Sem \cap DtqQueues = {} /\ Sem \cap PdqQueues = {}
  /\ Sem \cap Mbx = {} /\ Sem \cap Mpf = {}
  /\ Flg \cap DtqQueues = {} /\ Flg \cap PdqQueues = {} /\ Flg \cap Mbx = {}
  /\ Flg \cap Mpf = {}
  /\ DtqQueues \cap PdqQueues = {} /\ DtqQueues \cap Mbx = {}
  /\ DtqQueues \cap Mpf = {}
  /\ PdqQueues \cap Mbx = {} /\ PdqQueues \cap Mpf = {}
  /\ Mbx \cap Mpf = {}
<1> DEFINE DtqSend == {dtq_swait[d] : d \in Dataqueues}
           PdqSend == {pdq_swait[q] : q \in PriDataqs}
           queues  == << Sem, Flg, DtqSend, DtqReceive, PdqSend, PdqReceive,
                         Mbx, Mpf >>
<1>1. \A i, j \in DOMAIN queues : i # j => queues[i] \cap queues[j] = {}
  BY OwnQueues DEF DtqReceive, PdqReceive
<1>2. DtqQueues = DtqSend \cup DtqReceive /\ PdqQueues = PdqSend \cup PdqReceive
  BY DEF DtqQueues, PdqQueues
<1> HIDE DEF DtqSend, PdqSend
<1>3. /\ \A i \in 1 .. 8 : i \in DOMAIN queues
      /\ queues[1] = Sem /\ queues[2] = Flg
      /\ queues[3] = DtqSend /\ queues[4] = DtqReceive
      /\ queues[5] = PdqSend /\ queues[6] = PdqReceive
      /\ queues[7] = Mbx /\ queues[8] = Mpf
  OBVIOUS
<1> HIDE DEF queues
<1>4. \A i, j \in 1 .. 8 : i # j => queues[i] \cap queues[j] = {}
  BY <1>1, <1>3
<1>5. /\ \A i \in 2 .. 8 : Sem \cap queues[i] = {}
      /\ \A i \in 3 .. 8 : Flg \cap queues[i] = {}
      /\ \A i \in 5 .. 8 : DtqSend \cap queues[i] = {}
      /\ \A i \in 5 .. 8 : DtqReceive \cap queues[i] = {}
      /\ \A i \in 7 .. 8 : PdqSend \cap queues[i] = {}
      /\ \A i \in 7 .. 8 : PdqReceive \cap queues[i] = {}
      /\ Mbx \cap queues[8] = {}
  BY <1>3, <1>4
<1>6. /\ {2, 3, 4, 5, 6, 7, 8} \subseteq 2 .. 8
      /\ {3, 4, 5, 6, 7, 8} \subseteq 3 .. 8
      /\ {5, 6, 7, 8} \subseteq 5 .. 8 /\ {7, 8} \subseteq 7 .. 8
  OBVIOUS
<1>7. /\ \A X \in {Flg, DtqSend, DtqReceive, PdqSend, PdqReceive, Mbx, Mpf} :
           Sem \cap X = {}
      /\ \A X \in {DtqSend, DtqReceive, PdqSend, PdqReceive, Mbx, Mpf} :
           Flg \cap X = {}
      /\ \A X \in {PdqSend, PdqReceive, Mbx, Mpf} :
           DtqSend \cap X = {} /\ DtqReceive \cap X = {}
      /\ \A X \in {Mbx, Mpf} : PdqSend \cap X = {} /\ PdqReceive \cap X = {}
      /\ Mbx \cap Mpf = {}
  BY <1>3, <1>5, <1>6
<1>8. QED
  BY <1>2, <1>7

LEMMA ObjectFacts ==
  /\ Sem \in SUBSET WaitQueue /\ Flg \in SUBSET WaitQueue
  /\ DtqQueues \in SUBSET WaitQueue /\ PdqQueues \in SUBSET WaitQueue
  /\ Mbx \in SUBSET WaitQueue /\ Mpf \in SUBSET WaitQueue
  /\ \A d \in Dataqueues : {dtq_swait[d], dtq_rwait[d]} \subseteq DtqQueues
  /\ \A q \in PriDataqs : {pdq_swait[q], pdq_rwait[q]} \subseteq PdqQueues
BY SemFacts, FlgFacts, DtqFacts, PdqFacts, MbxFacts, MpfFacts

\* A call on an object of one kind.
LEMMA CallInv ==
  ASSUME ObjectInv, NEW o \in Object, Call(o)
  PROVE  ObjectInv'
<1>0. ObjectKernel /\ AllKept
  BY DEF ObjectInv
<1>1. CASE o \in Sem /\ S!SemCall(o) /\ F!FlgRest /\ D!DtqRest /\ P!PdqRest
             /\ B!MbxRest /\ M!MpfRest
  <2>1. ObjectKernel' /\ StepOn({o}) /\ SemKept'
    BY <1>0, <1>1, SemObjectStep DEF AllKept
  <2>2. /\ {o} \in SUBSET WaitQueue
        /\ {o} \cap Flg = {} /\ {o} \cap DtqQueues = {} /\ {o} \cap PdqQueues = {}
        /\ {o} \cap Mbx = {} /\ {o} \cap Mpf = {}
    BY <1>1, OwnQueueFacts, ObjectFacts
  <2>3. FlgKept' /\ DtqKept' /\ PdqKept' /\ MbxKept' /\ MpfKept'
    BY <1>0, <1>1, <2>1, <2>2, FlgRests, DtqRests, PdqRests, MbxRests, MpfRests
       DEF AllKept
  <2>4. QED
    BY <2>1, <2>3 DEF ObjectInv, AllKept
<1>2. CASE o \in Flg /\ F!FlgCall(o) /\ S!SemRest /\ D!DtqRest /\ P!PdqRest
             /\ B!MbxRest /\ M!MpfRest
  <2>1. ObjectKernel' /\ StepOn({o}) /\ FlgKept'
    BY <1>0, <1>2, FlgCallStep DEF AllKept
  <2>2. /\ {o} \in SUBSET WaitQueue
        /\ {o} \cap Sem = {} /\ {o} \cap DtqQueues = {} /\ {o} \cap PdqQueues = {}
        /\ {o} \cap Mbx = {} /\ {o} \cap Mpf = {}
    BY <1>2, OwnQueueFacts, ObjectFacts
  <2>3. SemKept' /\ DtqKept' /\ PdqKept' /\ MbxKept' /\ MpfKept'
    BY <1>0, <1>2, <2>1, <2>2, SemRests, DtqRests, PdqRests, MbxRests, MpfRests
       DEF AllKept
  <2>4. QED
    BY <2>1, <2>3 DEF ObjectInv, AllKept
<1>3. CASE o \in Dataqueues /\ D!DtqCall(o) /\ S!SemRest /\ F!FlgRest
             /\ P!PdqRest /\ B!MbxRest /\ M!MpfRest
  <2> DEFINE O == {dtq_swait[o], dtq_rwait[o]}
  <2>1. ObjectKernel' /\ StepOn(O) /\ DtqKept'
    BY <1>0, <1>3, DtqCallStep DEF AllKept
  <2>2. O \subseteq DtqQueues
    BY <1>3, ObjectFacts
  <2> HIDE DEF O
  <2>3. /\ O \in SUBSET WaitQueue
        /\ O \cap Sem = {} /\ O \cap Flg = {} /\ O \cap PdqQueues = {}
        /\ O \cap Mbx = {} /\ O \cap Mpf = {}
    BY <2>2, OwnQueueFacts, ObjectFacts
  <2>4. SemKept' /\ FlgKept' /\ PdqKept' /\ MbxKept' /\ MpfKept'
    BY <1>0, <1>3, <2>1, <2>3, SemRests, FlgRests, PdqRests, MbxRests, MpfRests
       DEF AllKept
  <2>5. QED
    BY <2>1, <2>4 DEF ObjectInv, AllKept
<1>4. CASE o \in PriDataqs /\ P!PdqCall(o) /\ S!SemRest /\ F!FlgRest
             /\ D!DtqRest /\ B!MbxRest /\ M!MpfRest
  <2> DEFINE O == {pdq_swait[o], pdq_rwait[o]}
  <2>1. ObjectKernel' /\ StepOn(O) /\ PdqKept'
    BY <1>0, <1>4, PdqCallStep DEF AllKept
  <2>2. O \subseteq PdqQueues
    BY <1>4, ObjectFacts
  <2> HIDE DEF O
  <2>3. /\ O \in SUBSET WaitQueue
        /\ O \cap Sem = {} /\ O \cap Flg = {} /\ O \cap DtqQueues = {}
        /\ O \cap Mbx = {} /\ O \cap Mpf = {}
    BY <2>2, OwnQueueFacts, ObjectFacts
  <2>4. SemKept' /\ FlgKept' /\ DtqKept' /\ MbxKept' /\ MpfKept'
    BY <1>0, <1>4, <2>1, <2>3, SemRests, FlgRests, DtqRests, MbxRests, MpfRests
       DEF AllKept
  <2>5. QED
    BY <2>1, <2>4 DEF ObjectInv, AllKept
<1>5. CASE o \in Mbx /\ B!MbxCall(o) /\ S!SemRest /\ F!FlgRest /\ D!DtqRest
             /\ P!PdqRest /\ M!MpfRest
  <2>1. ObjectKernel' /\ StepOn({o}) /\ MbxKept'
    BY <1>0, <1>5, MbxCallStep DEF AllKept
  <2>2. /\ {o} \in SUBSET WaitQueue
        /\ {o} \cap Sem = {} /\ {o} \cap Flg = {} /\ {o} \cap DtqQueues = {}
        /\ {o} \cap PdqQueues = {} /\ {o} \cap Mpf = {}
    BY <1>5, OwnQueueFacts, ObjectFacts
  <2>3. SemKept' /\ FlgKept' /\ DtqKept' /\ PdqKept' /\ MpfKept'
    BY <1>0, <1>5, <2>1, <2>2, SemRests, FlgRests, DtqRests, PdqRests, MpfRests
       DEF AllKept
  <2>4. QED
    BY <2>1, <2>3 DEF ObjectInv, AllKept
<1>6. CASE o \in Mpf /\ M!MpfCall(o) /\ S!SemRest /\ F!FlgRest /\ D!DtqRest
             /\ P!PdqRest /\ B!MbxRest
  <2>1. ObjectKernel' /\ StepOn({o}) /\ MpfKept'
    BY <1>0, <1>6, MpfCallStep DEF AllKept
  <2>2. /\ {o} \in SUBSET WaitQueue
        /\ {o} \cap Sem = {} /\ {o} \cap Flg = {} /\ {o} \cap DtqQueues = {}
        /\ {o} \cap PdqQueues = {} /\ {o} \cap Mbx = {}
    BY <1>6, OwnQueueFacts, ObjectFacts
  <2>3. SemKept' /\ FlgKept' /\ DtqKept' /\ PdqKept' /\ MbxKept'
    BY <1>0, <1>6, <2>1, <2>2, SemRests, FlgRests, DtqRests, PdqRests, MbxRests
       DEF AllKept
  <2>4. QED
    BY <2>1, <2>3 DEF ObjectInv, AllKept
<1>7. QED
  BY <1>1, <1>2, <1>3, <1>4, <1>5, <1>6 DEF Call

\* A step of the kernel itself is a step on no object.
LEMMA KernelStepInv ==
  ASSUME ObjectInv, KernelStep
  PROVE  ObjectInv'
<1>1. ObjectKernel /\ AllKept /\ Next /\ AllRests
  BY DEF ObjectInv, KernelStep, AllRests
<1>2. ObjectKernel' /\ StepOn({})
  BY <1>1, KernelObject
<1>3. /\ {} \in SUBSET WaitQueue /\ {} \cap Sem = {} /\ {} \cap Flg = {}
      /\ {} \cap DtqQueues = {} /\ {} \cap PdqQueues = {}
      /\ {} \cap Mbx = {} /\ {} \cap Mpf = {}
  OBVIOUS
<1>4. SemKept' /\ FlgKept' /\ DtqKept'
  BY <1>1, <1>2, <1>3, SemRests, FlgRests, DtqRests DEF AllKept, AllRests
<1>5. PdqKept' /\ MbxKept' /\ MpfKept'
  BY <1>1, <1>2, <1>3, PdqRests, MbxRests, MpfRests DEF AllKept, AllRests
<1>6. QED
  BY <1>2, <1>4, <1>5 DEF ObjectInv, AllKept

LEMMA StutterInv ==
  ASSUME ObjectInv, UNCHANGED objVars
  PROVE  ObjectInv'
<1>1. /\ UNCHANGED vars
      /\ UNCHANGED << semcnt, flgptn, flgwait, dtqcb, winfo_dtq, pdqcb, winfo_pdq,
                      pk_head, winfo_mbx, mpfcb, winfo_mpf >>
  BY DEF objVars, S!semVars, F!flgVars, D!dtqVars, P!pdqVars, B!mbxVars,
     B!msgVars, M!mpfVars, S!vars, S!queVars, S!flagVars, S!ctxVars, S!bootVars,
     vars, queVars, flagVars, ctxVars, bootVars
<1>2. ObjectKernel'
  BY <1>1, StillCall DEF ObjectInv
<1>3. UNCHANGED << winfo, tstat, wait_queue >>
  BY <1>1 DEF vars
<1>4. SemKept' /\ FlgKept'
  BY <1>1, <1>3 DEF ObjectInv, AllKept, SemKept, S!NoIdleUnit, FlgKept, Pending,
     Unmet
<1>5. DtqKept' /\ PdqKept'
  BY <1>1, <1>3 DEF ObjectInv, AllKept, DtqKept, PdqKept, Got, Pending,
     Missing, BufferAt, Buffer, Idle
<1>6. MbxKept' /\ MpfKept'
  BY <1>1, <1>3 DEF ObjectInv, AllKept, MbxKept, MpfKept, Got, Pending,
     Missing, Distinct, B!NoIdleMessage, M!NoIdleBlock
<1>7. QED
  BY <1>2, <1>4, <1>5, <1>6 DEF ObjectInv, AllKept

\* At first all queues are empty, and no task is in a call.
LEMMA ObjectInitInv ==
  ASSUME ObjInit
  PROVE  ObjectInv
<1>1. Init
  BY DEF ObjInit, S!SemInit, S!Init, S!EmptySched, S!TS_DORMANT, S!TPri, Init,
         EmptySched, TS_DORMANT, TPri
<1>2. ObjectKernel
  BY <1>1, InitLemma, InitWaits, InitQueues, InitRequests DEF ObjectKernel
<1>3. \A q \in WaitQueue : wait_queue[q] = << >>
  BY <1>1 DEF Init
<1>4. SemKept
  BY <1>3, SemFacts
     DEF ObjInit, S!SemInit, S!initialize_semaphore, SemKept, S!NoIdleUnit
<1>5. FlgKept
  <2>1. flgptn = iflgptn /\ flgwait = [t \in Task |-> F!NoWait]
    BY DEF ObjInit, F!FlgInit
  <2>2. Members(<< >>) = {}
    BY DEF Members
  <2>3. Unmet(flgwait) = {}
    BY <2>1 DEF Unmet
  <2>4. Pending({}, Flg)
    BY DEF Pending
  <2>5. flgwait \in [Task -> Info \cup {F!NoWait}]
    BY <2>1
  <2>6. \A f \in Flg : Members(wait_queue[f]) = {}
    BY <1>3, <2>2, FlgFacts
  <2>7. QED
    BY <2>1, <2>3, <2>4, <2>5, <2>6, FlgFacts DEF FlgKept
<1>6. ASSUME NEW d, d = [t \in Task |-> NULL], NEW Q PROVE Got(d, Q)
  BY <1>6, MbxFacts DEF Got, Missing, Pending
<1>7. DtqKept
  <2>1. Got(winfo_dtq, DtqReceive)
    BY <1>6 DEF ObjInit, D!DtqInit
  <2>2. /\ DOMAIN dtqcb = Dataqueues
        /\ \A d \in Dataqueues : "count" \in DOMAIN dtqcb[d] /\ dtqcb[d].count = 0
    BY DEF ObjInit, D!DtqInit, D!Dtq
  <2>3. \A d \in Dataqueues :
          /\ dtqcnt[d] \in Nat /\ wait_queue[dtq_rwait[d]] = << >>
          /\ wait_queue[dtq_swait[d]] = << >>
    BY <1>3, DtqFacts DEF TwoQueue
  <2>4. QED
    BY <2>1, <2>2, <2>3 DEF DtqKept, BufferAt, Buffer, Idle
<1>8. PdqKept
  <2>1. Got(winfo_pdq, PdqReceive)
    BY <1>6 DEF ObjInit, P!PdqInit
  <2>2. /\ DOMAIN pdqcb = PriDataqs
        /\ \A q \in PriDataqs : "count" \in DOMAIN pdqcb[q] /\ pdqcb[q].count = 0
    BY DEF ObjInit, P!PdqInit, P!Initialised, P!Pdq
  <2>3. \A q \in PriDataqs :
          /\ pdqcnt[q] \in Nat /\ wait_queue[pdq_rwait[q]] = << >>
          /\ wait_queue[pdq_swait[q]] = << >>
    BY <1>3, PdqFacts DEF TwoQueue
  <2>4. QED
    BY <2>1, <2>2, <2>3 DEF PdqKept, BufferAt, Buffer, Idle
<1>9. MbxKept
  <2>1. Got(winfo_mbx, Mbx)
    BY <1>6 DEF ObjInit, B!MbxInit
  <2>2. winfo_mbx = [t \in Task |-> NULL] /\ DOMAIN pk_head = Mbx
    BY DEF ObjInit, B!MbxInit
  <2>3. Distinct(winfo_mbx)
    BY <2>2, MbxFacts DEF Distinct
  <2>4. \A m \in Mbx : wait_queue[m] = << >>
    BY <1>3, MbxFacts
  <2>5. QED
    BY <2>1, <2>2, <2>3, <2>4 DEF MbxKept, B!NoIdleMessage
<1>10. MpfKept
  <2>1. Got(winfo_mpf, Mpf)
    BY <1>6 DEF ObjInit, M!MpfInit
  <2>2. /\ DOMAIN mpfcb = Mpf
        /\ \A m \in Mpf : "fblkcnt" \in DOMAIN mpfcb[m]
    BY DEF ObjInit, M!MpfInit, M!Initialised
  <2>3. \A m \in Mpf : wait_queue[m] = << >>
    BY <1>3, MpfFacts
  <2>4. QED
    BY <2>1, <2>2, <2>3 DEF MpfKept, M!NoIdleBlock
<1>11. QED
  BY <1>2, <1>4, <1>5, <1>7, <1>8, <1>9, <1>10 DEF ObjectInv, AllKept

\* The kernel's invariants and those of all objects hold together.
THEOREM ObjectInvariance == ObjSpec => []ObjectInv
<1>1. ObjInit => ObjectInv
  BY ObjectInitInv
<1>2. ObjectInv /\ [ObjNext]_objVars => ObjectInv'
  BY CallInv, KernelStepInv, StutterInv DEF ObjNext
<1>3. QED
  BY <1>1, <1>2, PTL DEF ObjSpec

\* No task waits for what an object has: what a call makes available goes to a
\* waiting task in that call, and no timeout, termination, forced release or
\* initialisation leaves a unit, an event, a datum, room, a message or a block
\* beside a task that waits for it (NothingIdle; sig_sem, set_flg, snd_dtq,
\* rcv_dtq, snd_pdq, rcv_pdq, snd_mbx, rel_mpf and the ini_ calls).
THEOREM NothingIdleCorrect == ObjSpec => []NothingIdle
<1>1. ObjectInv => NothingIdle
  <2> SUFFICES ASSUME ObjectInv PROVE NothingIdle
    OBVIOUS
  <2>1. S!NoIdleUnit /\ B!NoIdleMessage /\ M!NoIdleBlock
    BY DEF ObjectInv, AllKept, SemKept, MbxKept, MpfKept
  <2>2. F!NoMissedEvent
    BY SameF DEF ObjectInv, AllKept, FlgKept, F!NoMissedEvent
  <2>3. D!NoIdleSlot
    BY DEF ObjectInv, AllKept, DtqKept, BufferAt, Idle, D!NoIdleSlot,
           D!Receiver, D!Sender, D!Dtq
  <2>4. P!NoIdleNode
    BY DEF ObjectInv, AllKept, PdqKept, BufferAt, Idle, P!NoIdleNode,
           P!Receiver, P!Sender, P!Pdq
  <2>5. QED
    BY <2>1, <2>2, <2>3, <2>4 DEF NothingIdle
<1>2. QED
  BY <1>1, ObjectInvariance, PTL

\* A waiting call that ends normally has what it waited for: a pattern that
\* meets its condition, a datum, a message that no other task was handed, a
\* block, also when the object changes, or is initialised, before the task runs
\* again (ReturnsWhatItGot; wait_complete and the copies that set_flg, snd_dtq,
\* snd_pdq, snd_mbx and rel_mpf make into the WINFO of the task).
THEOREM ReturnsCorrect == ObjSpec => []ReturnsWhatItGot
<1>1. ObjectInv => ReturnsWhatItGot
  <2> SUFFICES ASSUME ObjectInv PROVE ReturnsWhatItGot
    OBVIOUS
  <2>1. /\ Got(winfo_dtq, DtqReceive) /\ Got(winfo_pdq, PdqReceive)
        /\ Got(winfo_mbx, Mbx) /\ Got(winfo_mpf, Mpf) /\ Distinct(winfo_mbx)
        /\ Pending(Unmet(flgwait), Flg)
    BY DEF ObjectInv, AllKept, FlgKept, DtqKept, PdqKept, MbxKept, MpfKept
  <2>2. ASSUME NEW t \in Task, winfo[t] = E_OK, ~TSTAT_WAITING(tstat[t])
        PROVE  /\ winfo_dtq[t] # UNINIT /\ winfo_pdq[t] # UNINIT
               /\ winfo_mbx[t] # UNINIT /\ winfo_mpf[t] # UNINIT
               /\ t \notin Unmet(flgwait)
    <3>1. t \notin Unmet(flgwait)
      BY <2>1, <2>2 DEF Pending
    <3>2. QED
      BY <2>1, <2>2, <3>1, GotIs
  <2>3. /\ D!HasDatum /\ P!HasDatum /\ M!HasBlock
    BY <2>2 DEF D!HasDatum, P!HasDatum, M!HasBlock, D!E_OK, P!E_OK, M!E_OK,
       E_OK, D!ZERO, P!ZERO, M!ZERO, ZERO, D!TSTAT_WAITING, P!TSTAT_WAITING,
       M!TSTAT_WAITING, TSTAT_WAITING
  <2>4. B!HasMessage
    BY <2>1, <2>2 DEF Distinct, B!HasMessage, B!E_OK, E_OK, B!ZERO, ZERO,
       B!TSTAT_WAITING, TSTAT_WAITING
  <2>5. F!ReturnedPattern
    <3>1. \A t \in Task : F!Returned(t) =>
            winfo[t] = E_OK /\ ~TSTAT_WAITING(tstat[t]) /\ flgwait[t] # F!NoWait
      BY DEF F!Returned, F!E_OK, E_OK, F!ZERO, ZERO, F!TSTAT_WAITING,
         TSTAT_WAITING
    <3>2. QED
      BY <2>2, <3>1 DEF Unmet, F!ReturnedPattern
  <2>6. QED
    BY <2>3, <2>4, <2>5 DEF ReturnsWhatItGot
<1>2. QED
  BY <1>1, ObjectInvariance, PTL
=============================================================================
