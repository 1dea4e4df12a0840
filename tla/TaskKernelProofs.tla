-------------------------- MODULE TaskKernelProofs --------------------------
(***************************************************************************)
(* The invariants of the scheduler and of dispatching of TaskKernel, for   *)
(* any number of tasks, priorities, wait queues and nested interrupts.     *)
(*                                                                         *)
(* KernelInv is inductive together with WaitInv.  The ready queue part     *)
(* does not need the rest except that the running task is runnable; the    *)
(* dispatching part needs what initialize_task has not set up yet.         *)
(* RequestsInv then follows, with what the running task's WINFO is.        *)
(*                                                                         *)
(* The wait queues: a step lets a set of tasks leave their queues, or lets *)
(* the running task enter one, or moves a task in its queue.  KernelQueues *)
(* also says which tasks chg_pri moves and which ones wait_tmout_ok may    *)
(* release without touching a queue.                                       *)
(*                                                                         *)
(* On the same invariant: TaskKernel implements Dispatching, NoPreemption, *)
(* and KeepsPlace, from what each function of task.c does to the order of  *)
(* the ready queues.                                                       *)
(*                                                                         *)
(* At the end, what the objects need to know of a step of the kernel or of *)
(* another object: StepOn(O) says it for a step on an object with the      *)
(* queues O.  The calls of the objects hand something to a task (Hands),   *)
(* release all tasks of a queue (Deletes), or let the running task wait    *)
(* (Waits).                                                                *)
(***************************************************************************)
EXTENDS TaskKernel, Links, SequenceTheorems, FiniteSetTheorems,
        WellFoundedInduction, TLAPS

----------------------------------------------------------------------------
(***************************************************************************)
(* The functions of kernel/task.c keep the scheduler record consistent     *)
(* with the set of runnable tasks, for any number of tasks and priorities. *)
(***************************************************************************)
LEMMA PositionIsIndex ==
  ASSUME NEW q, NEW t \in Members(q)
  PROVE  Position(q, t) \in 1 .. Len(q) /\ q[Position(q, t)] = t
BY DEF Members, Position

LEMMA EmptyMembersLemma ==
  ASSUME NEW q \in Seq(Task)
  PROVE  q = << >> <=> Members(q) = {}
BY EmptySeq DEF Members

LEMMA HeadMemberLemma ==
  ASSUME NEW q \in Seq(Task), q # << >>
  PROVE  Head(q) \in Members(q)
BY DEF Members

\* Removing an entry from a queue without duplicates leaves a queue of the
\* others.
LEMMA QueueDeleteLemma ==
  ASSUME NEW q \in Seq(Task), NEW t, NoDuplicates(q), t \in Members(q)
  PROVE  /\ QueueDelete(q, t) \in Seq(Task)
         /\ Len(QueueDelete(q, t)) = Len(q) - 1
         /\ NoDuplicates(QueueDelete(q, t))
         /\ Members(QueueDelete(q, t)) = Members(q) \ {t}
<1> DEFINE p == Position(q, t)
           d == QueueDelete(q, t)
<1>1. p \in 1 .. Len(q) /\ q[p] = t
  BY PositionIsIndex
<1>2. d = [i \in 1 .. Len(q) - 1 |-> IF i < p THEN q[i] ELSE q[i + 1]]
  BY DEF QueueDelete
<1> HIDE DEF p, d
<1>3. Len(q) \in Nat /\ \A i \in 1 .. Len(q) : q[i] \in Task
  OBVIOUS
<1>4. d \in Seq(Task) /\ Len(d) = Len(q) - 1
  BY <1>1, <1>2, <1>3
<1>5. NoDuplicates(d)
  BY <1>1, <1>2, <1>3, <1>4 DEF NoDuplicates
<1>6. Members(d) = Members(q) \ {t}
  <2>1. ASSUME NEW x \in Members(d) PROVE x \in Members(q) \ {t}
    <3>1. PICK i \in 1 .. Len(q) - 1 : x = d[i]
      BY <2>1, <1>4 DEF Members
    <3>2. QED
      BY <3>1, <1>1, <1>2, <1>3 DEF Members, NoDuplicates
  <2>2. ASSUME NEW x \in Members(q) \ {t} PROVE x \in Members(d)
    <3>1. PICK i \in 1 .. Len(q) : x = q[i]
      BY <2>2 DEF Members
    <3>2. i # p
      BY <3>1, <1>1, <2>2
    <3>3. CASE i < p
      BY <3>1, <3>3, <1>1, <1>2, <1>3, <1>4 DEF Members
    <3>4. CASE i > p
      <4>1. i - 1 \in 1 .. Len(q) - 1 /\ d[i - 1] = q[i]
        BY <3>1, <3>4, <1>1, <1>2, <1>3
      <4>2. QED
        BY <4>1, <3>1, <1>4 DEF Members
    <3>5. QED
      BY <3>2, <3>3, <3>4, <1>1, <1>3
  <2>3. QED
    BY <2>1, <2>2
<1>7. QED
  BY <1>4, <1>5, <1>6 DEF d

\* Removing a later entry leaves the head.
LEMMA DeleteHeadLemma ==
  ASSUME NEW q \in Seq(Task), NEW t \in Members(q), NoDuplicates(q),
         Head(q) # t
  PROVE  QueueDelete(q, t) # << >> /\ Head(QueueDelete(q, t)) = Head(q)
<1> DEFINE p == Position(q, t)
           d == QueueDelete(q, t)
<1>1. p \in 1 .. Len(q) /\ q[p] = t
  BY PositionIsIndex
<1>2. 1 \in 1 .. Len(q) /\ Head(q) = q[1] /\ Len(q) \in Nat
  BY DEF Members
<1>3. p > 1
  BY <1>1, <1>2
<1>4. d = [i \in 1 .. Len(q) - 1 |-> IF i < p THEN q[i] ELSE q[i + 1]]
  BY DEF QueueDelete
<1>5. d \in Seq(Task) /\ Len(d) = Len(q) - 1
  BY QueueDeleteLemma
<1> HIDE DEF p, d
<1>6. d[1] = q[1] /\ 1 \in 1 .. Len(d)
  BY <1>1, <1>2, <1>3, <1>4, <1>5
<1>7. QED
  BY <1>2, <1>5, <1>6 DEF d

\* Appending a task that is not linked there.
LEMMA AppendLemma ==
  ASSUME NEW q \in Seq(Task), NEW t \in Task, NoDuplicates(q),
         t \notin Members(q)
  PROVE  /\ Append(q, t) \in Seq(Task)
         /\ Append(q, t) # << >>
         /\ NoDuplicates(Append(q, t))
         /\ Members(Append(q, t)) = Members(q) \cup {t}
         /\ Head(Append(q, t)) = IF q = << >> THEN t ELSE Head(q)
<1> DEFINE a == Append(q, t)
<1>1. /\ a \in Seq(Task) /\ Len(a) = Len(q) + 1 /\ Len(q) \in Nat
      /\ \A i \in 1 .. Len(q) : a[i] = q[i] /\ q[i] \in Task
      /\ a[Len(q) + 1] = t
  OBVIOUS
<1> HIDE DEF a
<1>2. NoDuplicates(a)
  BY <1>1 DEF NoDuplicates, Members
<1>3. Members(a) = Members(q) \cup {t}
  BY <1>1 DEF Members
<1>4. a # << >> /\ Head(a) = IF q = << >> THEN t ELSE Head(q)
  BY <1>1
<1>5. QED
  BY <1>1, <1>2, <1>3, <1>4 DEF a

----------------------------------------------------------------------------
\* A nonempty bitmap has a lowest bit, which primap_search returns.
LEMMA PrimapSearchLemma ==
  ASSUME NEW map \in SUBSET TPri, map # {}
  PROVE  /\ primap_search(map) \in map
         /\ \A q \in map : primap_search(map) <= q
<1>1. map \subseteq Nat
  BY TpriAssumption DEF TPri
<1>2. PICK x \in map : \A y \in map : ~ (<< y, x >> \in OpToRel(<, Nat))
  <2> HIDE DEF OpToRel
  <2> QED BY <1>1, NatLessThanWellFounded, WFMin
<1>3. \A y \in map : x <= y
  <2>1. OpToRel(<, Nat) = {ss \in Nat \X Nat : ss[1] < ss[2]}
    BY DEF OpToRel
  <2> SUFFICES ASSUME NEW y \in map, y < x PROVE FALSE
    BY <1>1
  <2>2. << y, x >> \in {ss \in Nat \X Nat : ss[1] < ss[2]}
    BY <1>1
  <2> HIDE DEF OpToRel
  <2>3. QED
    BY <1>2, <2>1, <2>2
<1>4. QED
  BY <1>3 DEF primap_search

\* A set bit of the bitmap has a task behind it, a runnable task a set bit.
LEMMA BitLemma ==
  ASSUME NEW s \in SchedType, NEW prio \in [Task -> TPri],
         NEW R \in SUBSET Task, Consistent(s, prio, R)
  PROVE  /\ \A t \in R : prio[t] \in s.ready_primap
         /\ \A p \in s.ready_primap :
              /\ p \in TPri /\ s.ready_queue[p] \in Seq(Task)
              /\ s.ready_queue[p] # << >>
              /\ Head(s.ready_queue[p]) \in R
              /\ prio[Head(s.ready_queue[p])] = p
<1>1. ASSUME NEW t \in R PROVE prio[t] \in s.ready_primap
  <2>1. prio[t] \in TPri /\ t \in Members(s.ready_queue[prio[t]])
    BY DEF Consistent, QueuesHold
  <2>2. s.ready_queue[prio[t]] # << >>
    BY <2>1 DEF Members
  <2>3. QED
    BY <2>1, <2>2 DEF Consistent, PrimapMatches
<1>2. ASSUME NEW p \in s.ready_primap
      PROVE  /\ p \in TPri /\ s.ready_queue[p] \in Seq(Task)
             /\ s.ready_queue[p] # << >>
             /\ Head(s.ready_queue[p]) \in R
             /\ prio[Head(s.ready_queue[p])] = p
  <2>1. p \in TPri /\ s.ready_queue[p] \in Seq(Task) /\ s.ready_queue[p] # << >>
    BY DEF Consistent, PrimapMatches, SchedType
  <2>2. Head(s.ready_queue[p]) \in Members(s.ready_queue[p])
    BY <2>1 DEF Members
  <2>3. QED
    BY <2>1, <2>2 DEF Consistent, QueuesHold
<1>3. QED
  BY <1>1, <1>2

\* What p_schedtsk is: NULL when no task is runnable, otherwise a runnable
\* task of the highest priority, at the head of its queue.
LEMMA SchedtskLemma ==
  ASSUME NEW s \in SchedType, NEW prio \in [Task -> TPri],
         NEW R \in SUBSET Task, Consistent(s, prio, R)
  PROVE  /\ s.p_schedtsk = NULL <=> R = {}
         /\ s.p_schedtsk # NULL =>
              /\ s.p_schedtsk \in R
              /\ s.p_schedtsk = Head(s.ready_queue[prio[s.p_schedtsk]])
              /\ \A t \in R : prio[s.p_schedtsk] <= prio[t]
<1>1. CASE s.ready_primap = {}
  <2>1. R = {}
    BY <1>1, BitLemma
  <2>2. s.p_schedtsk = NULL
    BY <1>1 DEF Consistent, SchedtskIsTop
  <2>3. QED
    BY <2>1, <2>2
<1>2. CASE s.ready_primap # {}
  <2>1. PICK p \in s.ready_primap : /\ \A q \in s.ready_primap : p <= q
                                    /\ s.p_schedtsk = Head(s.ready_queue[p])
    BY <1>2 DEF Consistent, SchedtskIsTop
  <2>2. s.p_schedtsk \in R /\ prio[s.p_schedtsk] = p
    BY <2>1, BitLemma
  <2>3. \A t \in R : p <= prio[t]
    BY <2>1, BitLemma
  <2>4. QED
    BY <2>1, <2>2, <2>3, NullAssumption
<1>3. QED
  BY <1>1, <1>2

\* Conversely, a record with the right queues and bitmap is consistent when
\* p_schedtsk is the first task of the lowest bit.
LEMMA TopIntroLemma ==
  ASSUME NEW s \in SchedType, NEW prio \in [Task -> TPri],
         NEW R \in SUBSET Task,
         QueuesHold(s.ready_queue, prio, R),
         PrimapMatches(s.ready_queue, s.ready_primap),
         s.p_schedtsk \in R,
         s.p_schedtsk = Head(s.ready_queue[prio[s.p_schedtsk]]),
         \A t \in R : prio[s.p_schedtsk] <= prio[t]
  PROVE  Consistent(s, prio, R)
<1> DEFINE p == prio[s.p_schedtsk]
<1>1. p \in TPri /\ s.p_schedtsk \in Members(s.ready_queue[p])
  BY DEF QueuesHold
<1>2. p \in s.ready_primap
  BY <1>1 DEF PrimapMatches, Members
<1>3. ASSUME NEW q \in s.ready_primap PROVE p <= q
  <2>1. q \in TPri /\ s.ready_queue[q] \in Seq(Task) /\ s.ready_queue[q] # << >>
    BY DEF PrimapMatches, SchedType
  <2>2. Head(s.ready_queue[q]) \in Members(s.ready_queue[q])
    BY <2>1 DEF Members
  <2>3. QED
    BY <2>1, <2>2 DEF QueuesHold
<1>4. QED
  BY <1>2, <1>3 DEF Consistent, SchedtskIsTop

\* The scheduler of no tasks.
LEMMA EmptySchedLemma ==
  ASSUME NEW prio \in [Task -> TPri]
  PROVE  EmptySched \in SchedType /\ Consistent(EmptySched, prio, {})
BY DEF EmptySched, SchedType, Consistent, QueuesHold, PrimapMatches,
       SchedtskIsTop, NoDuplicates, Members

\* A task that is not runnable is in no ready queue, so that its priority may
\* change without touching the scheduler.
LEMMA PriorityFrameLemma ==
  ASSUME NEW s, NEW prio, NEW R, NEW newpriority,
         Consistent(s, prio, R), \A t \in R : newpriority[t] = prio[t]
  PROVE  Consistent(s, newpriority, R)
BY DEF Consistent, QueuesHold

----------------------------------------------------------------------------
\* make_runnable adds a task that is not runnable.
LEMMA MakeRunnableLemma ==
  ASSUME NEW s \in SchedType, NEW prio \in [Task -> TPri],
         NEW R \in SUBSET Task, NEW t \in Task,
         Consistent(s, prio, R), t \notin R
  PROVE  /\ make_runnable(s, prio, t) \in SchedType
         /\ Consistent(make_runnable(s, prio, t), prio, R \cup {t})
<1> DEFINE pri == prio[t]
           q   == s.ready_queue[pri]
           n   == make_runnable(s, prio, t)
<1>1. /\ pri \in TPri /\ q \in Seq(Task)
      /\ NoDuplicates(q) /\ Members(q) = {u \in R : prio[u] = pri}
  BY DEF SchedType, Consistent, QueuesHold
<1>2. /\ Append(q, t) \in Seq(Task)
      /\ Append(q, t) # << >>
      /\ NoDuplicates(Append(q, t))
      /\ Members(Append(q, t)) = Members(q) \cup {t}
      /\ Head(Append(q, t)) = IF q = << >> THEN t ELSE Head(q)
  BY <1>1, AppendLemma
<1>3. /\ n.ready_queue = [s.ready_queue EXCEPT ![pri] = Append(q, t)]
      /\ n.ready_primap = s.ready_primap \cup {pri}
      /\ n.p_schedtsk = IF s.p_schedtsk = NULL \/ pri < prio[s.p_schedtsk]
                          THEN t ELSE s.p_schedtsk
  BY DEF make_runnable
<1>4. /\ n \in SchedType
      /\ s.ready_queue \in [TPri -> Seq(Task)]
      /\ s.ready_primap \subseteq TPri
  BY <1>1, <1>2 DEF SchedType, make_runnable
<1>5. QueuesHold(n.ready_queue, prio, R \cup {t})
  BY <1>1, <1>2, <1>3, <1>4 DEF Consistent, QueuesHold
<1>6. PrimapMatches(n.ready_queue, n.ready_primap)
  BY <1>1, <1>2, <1>3, <1>4 DEF Consistent, PrimapMatches
<1>7. /\ s.p_schedtsk = NULL <=> R = {}
      /\ s.p_schedtsk # NULL =>
           /\ s.p_schedtsk \in R
           /\ s.p_schedtsk = Head(s.ready_queue[prio[s.p_schedtsk]])
           /\ \A u \in R : prio[s.p_schedtsk] <= prio[u]
  BY SchedtskLemma
<1>8. \A u \in Task : prio[u] \in Int
  BY TpriAssumption DEF TPri
<1> HIDE DEF pri, q, n
<1>9. CASE s.p_schedtsk = NULL \/ pri < prio[s.p_schedtsk]
  <2>1. n.p_schedtsk = t
    BY <1>9, <1>3
  <2>2. \A u \in R \cup {t} : pri <= prio[u]
    <3>1. pri \in Int /\ pri <= pri /\ R \subseteq Task
      BY <1>8 DEF pri
    <3>2. ASSUME NEW u \in R PROVE pri <= prio[u]
      BY <3>1, <1>7, <1>8, <1>9
    <3>3. QED
      BY <3>1, <3>2 DEF pri
  <2>3. q = << >>
    <3>1. Members(q) = {}
      <4> SUFFICES ASSUME NEW u \in R, prio[u] = pri PROVE FALSE
        BY <1>1
      <4> QED BY <1>1, <1>7, <1>8, <1>9
    <3>2. QED
      BY <1>1, <3>1, EmptyMembersLemma
  <2>4. t = Head(n.ready_queue[pri])
    BY <1>1, <1>2, <1>3, <1>4, <2>3
  <2>5. QED
    BY <1>4, <1>5, <1>6, <2>1, <2>2, <2>4, TopIntroLemma DEF pri, n
<1>10. CASE ~(s.p_schedtsk = NULL \/ pri < prio[s.p_schedtsk])
  <2>1. n.p_schedtsk = s.p_schedtsk /\ s.p_schedtsk \in R
    BY <1>10, <1>3, <1>7
  <2>2. \A u \in R \cup {t} : prio[s.p_schedtsk] <= prio[u]
    <3>1. prio[s.p_schedtsk] \in Int /\ pri \in Int
      BY <1>8, <2>1 DEF pri
    <3>2. prio[s.p_schedtsk] <= pri
      BY <3>1, <1>10
    <3>3. QED
      BY <3>2, <1>7, <1>10 DEF pri
  <2>3. s.p_schedtsk = Head(n.ready_queue[prio[s.p_schedtsk]])
    <3>1. CASE prio[s.p_schedtsk] = pri
      <4>1. q # << >>
        BY <1>1, <2>1, <3>1 DEF Members
      <4>2. QED
        BY <1>1, <1>2, <1>3, <1>4, <1>7, <2>1, <3>1, <4>1, NullAssumption DEF q
    <3>2. CASE prio[s.p_schedtsk] # pri
      BY <1>3, <1>4, <1>7, <2>1, <3>2, NullAssumption
    <3>3. QED
      BY <3>1, <3>2
  <2>4. QED
    BY <1>4, <1>5, <1>6, <2>1, <2>2, <2>3, TopIntroLemma DEF n
<1>11. QED
  BY <1>4, <1>5, <1>6, <1>9, <1>10 DEF n

\* make_non_runnable removes a runnable task.
LEMMA MakeNonRunnableLemma ==
  ASSUME NEW s \in SchedType, NEW prio \in [Task -> TPri],
         NEW R \in SUBSET Task, NEW t \in R, Consistent(s, prio, R)
  PROVE  /\ make_non_runnable(s, prio, t) \in SchedType
         /\ Consistent(make_non_runnable(s, prio, t), prio, R \ {t})
<1> DEFINE pri   == prio[t]
           q     == s.ready_queue[pri]
           d     == QueueDelete(q, t)
           queue == [s.ready_queue EXCEPT ![pri] = d]
           map   == IF d = << >> THEN s.ready_primap \ {pri}
                                 ELSE s.ready_primap
           n     == make_non_runnable(s, prio, t)
<1>1. /\ pri \in TPri /\ q \in Seq(Task)
      /\ NoDuplicates(q) /\ Members(q) = {u \in R : prio[u] = pri}
      /\ t \in Members(q)
  BY DEF SchedType, Consistent, QueuesHold
<1>2. d \in Seq(Task) /\ NoDuplicates(d) /\ Members(d) = Members(q) \ {t}
  BY <1>1, QueueDeleteLemma
<1>3. /\ s.ready_queue \in [TPri -> Seq(Task)]
      /\ s.ready_primap \subseteq TPri
      /\ s.p_schedtsk \in Task \cup {NULL}
  BY DEF SchedType
<1>4. /\ n.ready_queue = queue
      /\ n.ready_primap = map
      /\ n.p_schedtsk = IF s.p_schedtsk # t THEN s.p_schedtsk
                        ELSE IF d # << >> THEN Head(d)
                        ELSE IF map = {} THEN NULL
                        ELSE Head(queue[primap_search(map)])
  BY <1>1, <1>3 DEF make_non_runnable, search_schedtsk
<1>5. n = [ready_queue |-> queue, ready_primap |-> map,
           p_schedtsk |-> n.p_schedtsk]
  BY <1>1, <1>3, <1>4 DEF make_non_runnable
<1>6. /\ s.p_schedtsk = NULL <=> R = {}
      /\ s.p_schedtsk # NULL =>
           /\ s.p_schedtsk \in R
           /\ s.p_schedtsk = Head(s.ready_queue[prio[s.p_schedtsk]])
           /\ \A u \in R : prio[s.p_schedtsk] <= prio[u]
  BY SchedtskLemma
<1>7. TPri \subseteq Int
  BY TpriAssumption DEF TPri
<1>8. /\ queue \in [TPri -> Seq(Task)] /\ map \subseteq TPri
      /\ queue[pri] = d /\ \A p \in TPri \ {pri} : queue[p] = s.ready_queue[p]
  BY <1>1, <1>2, <1>3
<1>9. QueuesHold(queue, prio, R \ {t})
  BY <1>1, <1>2, <1>8 DEF Consistent, QueuesHold
<1>10. PrimapMatches(queue, map)
  <2>1. s.ready_primap = {p \in TPri : s.ready_queue[p] # << >>}
    BY DEF Consistent, PrimapMatches
  <2>2. q # << >>
    BY <1>1, EmptyMembersLemma
  <2>3. pri \in s.ready_primap
    BY <1>1, <2>1, <2>2
  <2> HIDE DEF pri, d, queue
  <2>4. QED
    BY <1>1, <1>8, <2>1, <2>3 DEF PrimapMatches
<1>11. \A p \in map : /\ p \in TPri /\ queue[p] \in Seq(Task)
                      /\ queue[p] # << >>
  BY <1>8, <1>10 DEF PrimapMatches
<1>12. \A p \in map : /\ Head(queue[p]) \in R \ {t}
                      /\ prio[Head(queue[p])] = p
  <2> SUFFICES ASSUME NEW p \in map
               PROVE  Head(queue[p]) \in R \ {t} /\ prio[Head(queue[p])] = p
    OBVIOUS
  <2> HIDE DEF queue, map
  <2>1. Head(queue[p]) \in Members(queue[p])
    BY <1>11, HeadMemberLemma
  <2>2. QED
    BY <1>9, <1>11, <2>1 DEF QueuesHold
<1>13. \A u \in R \ {t} : prio[u] \in map
  <2> SUFFICES ASSUME NEW u \in R \ {t} PROVE prio[u] \in map
    OBVIOUS
  <2> HIDE DEF queue, map
  <2>1. u \in Members(queue[prio[u]]) /\ prio[u] \in TPri
    BY <1>9 DEF QueuesHold
  <2>2. QED
    BY <1>10, <2>1 DEF PrimapMatches, Members
<1> HIDE DEF pri, q, d, queue, map, n
<1>14. CASE s.p_schedtsk # t
  <2>1. s.p_schedtsk \in R \ {t} /\ n.p_schedtsk = s.p_schedtsk
    BY <1>14, <1>4, <1>6
  <2>2. s.p_schedtsk = Head(queue[prio[s.p_schedtsk]])
    <3>1. CASE prio[s.p_schedtsk] = pri
      <4>1. s.p_schedtsk = Head(q)
        BY <1>6, <2>1, <3>1, NullAssumption DEF q
      <4>2. d # << >> /\ Head(d) = Head(q)
        BY <1>1, <4>1, <1>14, DeleteHeadLemma DEF d
      <4>3. QED
        BY <1>8, <3>1, <4>1, <4>2
    <3>2. CASE prio[s.p_schedtsk] # pri
      BY <1>6, <1>8, <2>1, <3>2, NullAssumption
    <3>3. QED
      BY <3>1, <3>2
  <2>3. \A u \in R \ {t} : prio[s.p_schedtsk] <= prio[u]
    BY <1>6, <2>1, NullAssumption
  <2>4. n \in SchedType
    BY <1>3, <1>5, <1>8, <2>1 DEF SchedType
  <2>5. QED
    BY <1>4, <1>9, <1>10, <2>1, <2>2, <2>3, <2>4, TopIntroLemma DEF n
<1>15. CASE s.p_schedtsk = t /\ map = {}
  <2>1. d = << >>
    BY <1>8, <1>10, <1>15, <1>1 DEF PrimapMatches
  <2>2. n.p_schedtsk = NULL
    BY <2>1, <1>4, <1>15
  <2>3. n \in SchedType
    BY <1>5, <1>8, <2>2 DEF SchedType
  <2>4. SchedtskIsTop(n)
    BY <1>4, <1>15, <2>2 DEF SchedtskIsTop
  <2>5. QED
    BY <1>4, <1>9, <1>10, <2>3, <2>4 DEF Consistent, n
<1>16. CASE s.p_schedtsk = t /\ map # {}
  <2>1. primap_search(map) \in map /\ \A p \in map : primap_search(map) <= p
    BY <1>8, <1>16, PrimapSearchLemma
  <2>2. n.p_schedtsk = Head(queue[primap_search(map)])
    <3>1. CASE d = << >>
      BY <3>1, <1>4, <1>16
    <3>2. CASE d # << >>
      <4>1. pri \in map
        BY <3>2, <1>1, <1>8, <1>10 DEF PrimapMatches
      <4>2. \A p \in map : pri <= p
        BY <1>6, <1>12, <1>16, NullAssumption DEF pri
      <4>3. primap_search(map) = pri
        <5>1. primap_search(map) \in map /\ map \subseteq Int
          BY <2>1, <1>7, <1>8
        <5>2. primap_search(map) <= pri
          BY <2>1, <4>1
        <5>3. pri <= primap_search(map)
          BY <4>2, <5>1
        <5>4. primap_search(map) \in Int /\ pri \in Int
          BY <4>1, <5>1
        <5> DEFINE found == primap_search(map)
        <5>5. found \in Int /\ pri \in Int /\ found <= pri /\ pri <= found
          BY <5>2, <5>3, <5>4
        <5> HIDE DEF found, pri
        <5>6. found = pri
          BY <5>5
        <5>7. QED
          BY <5>6 DEF found
      <4>4. QED
        BY <3>2, <4>3, <1>4, <1>8, <1>16
    <3>3. QED
      BY <3>1, <3>2
  <2>3. n.p_schedtsk \in R \ {t} /\ prio[n.p_schedtsk] = primap_search(map)
    BY <2>1, <2>2, <1>12
  <2>4. \A u \in R \ {t} : prio[n.p_schedtsk] <= prio[u]
    BY <2>1, <2>3, <1>13
  <2>5. n \in SchedType
    BY <1>5, <1>8, <2>3 DEF SchedType
  <2>6. QED
    BY <1>4, <1>9, <1>10, <2>2, <2>3, <2>4, <2>5, TopIntroLemma DEF n
<1>17. QED
  BY <1>14, <1>15, <1>16 DEF n

\* The search of a nonempty bitmap gives the right p_schedtsk.
LEMMA SearchIntroLemma ==
  ASSUME NEW s \in SchedType, NEW prio \in [Task -> TPri],
         NEW R \in SUBSET Task,
         QueuesHold(s.ready_queue, prio, R),
         PrimapMatches(s.ready_queue, s.ready_primap),
         s.ready_primap # {},
         s.p_schedtsk = search_schedtsk(s.ready_queue, s.ready_primap)
  PROVE  Consistent(s, prio, R)
<1>1. s.ready_primap \in SUBSET TPri
  BY DEF SchedType
<1>2. QED
  BY <1>1, PrimapSearchLemma DEF Consistent, SchedtskIsTop, search_schedtsk

\* change_priority of a runnable task, together with the assignment to its
\* priority.
LEMMA ChangeReadyPriorityLemma ==
  ASSUME NEW s \in SchedType, NEW prio \in [Task -> TPri],
         NEW R \in SUBSET Task, NEW t \in R, NEW newpri \in TPri,
         Consistent(s, prio, R)
  PROVE  /\ change_ready_priority(s, prio, t, newpri) \in SchedType
         /\ Consistent(change_ready_priority(s, prio, t, newpri),
                       [prio EXCEPT ![t] = newpri], R)
<1> DEFINE oldpri == prio[t]
           newpriority == [prio EXCEPT ![t] = newpri]
           q     == s.ready_queue[oldpri]
           d     == QueueDelete(q, t)
           del   == [s.ready_queue EXCEPT ![oldpri] = d]
           b     == del[newpri]
           queue == [del EXCEPT ![newpri] = Append(b, t)]
           map   == (IF d = << >> THEN s.ready_primap \ {oldpri}
                                  ELSE s.ready_primap) \cup {newpri}
           n     == change_ready_priority(s, prio, t, newpri)
<1>1. /\ oldpri \in TPri /\ q \in Seq(Task)
      /\ NoDuplicates(q) /\ Members(q) = {u \in R : prio[u] = oldpri}
      /\ t \in Members(q)
  BY DEF SchedType, Consistent, QueuesHold
<1>2. d \in Seq(Task) /\ NoDuplicates(d) /\ Members(d) = Members(q) \ {t}
  BY <1>1, QueueDeleteLemma
<1>3. /\ s.ready_queue \in [TPri -> Seq(Task)]
      /\ s.ready_primap \subseteq TPri
      /\ s.p_schedtsk \in Task \cup {NULL}
  BY DEF SchedType
<1>4. /\ del \in [TPri -> Seq(Task)]
      /\ del[oldpri] = d
      /\ \A p \in TPri \ {oldpri} : del[p] = s.ready_queue[p]
  BY <1>1, <1>2, <1>3
<1>5. /\ n.ready_queue = queue
      /\ n.ready_primap = map
      /\ n.p_schedtsk =
           IF s.p_schedtsk = t
             THEN IF newpri >= oldpri THEN search_schedtsk(queue, map) ELSE t
             ELSE IF newpri < prio[s.p_schedtsk] THEN t ELSE s.p_schedtsk
      /\ n = [ready_queue |-> queue, ready_primap |-> map,
              p_schedtsk |-> n.p_schedtsk]
  BY <1>1, <1>3 DEF change_ready_priority
<1>6. /\ s.p_schedtsk \in R
      /\ s.p_schedtsk = Head(s.ready_queue[prio[s.p_schedtsk]])
      /\ \A u \in R : prio[s.p_schedtsk] <= prio[u]
  BY SchedtskLemma
<1>7. QueuesHold(del, prio, R \ {t})
  BY <1>1, <1>2, <1>4 DEF Consistent, QueuesHold
<1>8. /\ newpriority \in [Task -> TPri] /\ newpriority[t] = newpri
      /\ \A u \in R \ {t} : newpriority[u] = prio[u]
  OBVIOUS
<1>9. /\ b \in Seq(Task) /\ NoDuplicates(b)
      /\ Members(b) = {u \in R \ {t} : prio[u] = newpri}
  BY <1>4, <1>7 DEF QueuesHold
<1> HIDE DEF oldpri, newpriority, q, d, n
<1>10. /\ Append(b, t) \in Seq(Task) /\ Append(b, t) # << >>
       /\ NoDuplicates(Append(b, t))
       /\ Members(Append(b, t)) = Members(b) \cup {t}
       /\ Head(Append(b, t)) = IF b = << >> THEN t ELSE Head(b)
  <2> HIDE DEF b
  <2> QED BY <1>9, AppendLemma
<1>11. /\ queue \in [TPri -> Seq(Task)]
       /\ queue[newpri] = Append(b, t)
       /\ \A p \in TPri \ {newpri} : queue[p] = del[p]
  BY <1>4, <1>10
<1>12. map \subseteq TPri /\ map # {}
  BY <1>3
<1>13. \A u \in Task : prio[u] \in Int /\ newpriority[u] \in Int
  BY <1>8, TpriAssumption DEF TPri
<1>14. newpri \in Int /\ oldpri \in Int
  BY <1>1, TpriAssumption DEF TPri
<1>15. PrimapMatches(queue, map)
  <2>1. s.ready_primap = {p \in TPri : s.ready_queue[p] # << >>}
    BY DEF Consistent, PrimapMatches
  <2>2. oldpri \in s.ready_primap
    BY <1>1, <2>1, EmptyMembersLemma DEF q
  <2> DEFINE m == IF d = << >> THEN s.ready_primap \ {oldpri}
                               ELSE s.ready_primap
  <2>3. m = {p \in TPri : del[p] # << >>}
    <3> HIDE DEF del
    <3> QED BY <1>1, <1>4, <2>1, <2>2
  <2>4. map = m \cup {newpri}
    OBVIOUS
  <2> HIDE DEF del, queue, b, map, m
  <2>5. QED
    BY <1>10, <1>11, <2>3, <2>4 DEF PrimapMatches
<1> HIDE DEF del, b, queue, map
<1>16. QueuesHold(queue, newpriority, R)
  <2>1. ASSUME NEW p \in TPri
        PROVE  /\ NoDuplicates(queue[p])
               /\ Members(queue[p]) = {u \in R : newpriority[u] = p}
    <3>1. CASE p = newpri
      BY <3>1, <1>8, <1>9, <1>10, <1>11
    <3>2. CASE p # newpri
      <4>1. /\ NoDuplicates(queue[p])
            /\ Members(queue[p]) = {u \in R \ {t} : prio[u] = p}
        BY <3>2, <1>7, <1>11 DEF QueuesHold
      <4>2. {u \in R \ {t} : prio[u] = p} = {u \in R : newpriority[u] = p}
        BY <3>2, <1>8
      <4>3. QED
        BY <4>1, <4>2
    <3>3. QED
      BY <3>1, <3>2
  <2>2. QED
    BY <2>1 DEF QueuesHold
<1>17. ASSUME n.p_schedtsk = t, \A u \in R \ {t} : newpri < prio[u]
       PROVE  n \in SchedType /\ Consistent(n, newpriority, R)
  <2>1. Members(b) = {}
    BY <1>9, <1>13, <1>14, <1>17
  <2>2. t = Head(queue[newpri])
    BY <1>9, <1>10, <1>11, <2>1, EmptyMembersLemma
  <2>3. ASSUME NEW u \in R PROVE newpri <= newpriority[u]
    <3>1. CASE u = t
      BY <3>1, <1>8, <1>14
    <3>2. CASE u # t
      <4>1. newpri < prio[u] /\ newpriority[u] = prio[u]
        BY <3>2, <1>8, <1>17
      <4>2. prio[u] \in Int
        BY <1>13
      <4>3. QED
        BY <4>1, <4>2, <1>14
    <3>3. QED
      BY <3>1, <3>2
  <2>4. n \in SchedType
    BY <1>5, <1>11, <1>12, <1>17 DEF SchedType
  <2>5. QED
    BY <1>5, <1>8, <1>15, <1>16, <1>17, <2>2, <2>3, <2>4, TopIntroLemma
<1>18. CASE s.p_schedtsk = t /\ newpri >= oldpri
  <2>1. n.p_schedtsk = search_schedtsk(queue, map)
    BY <1>5, <1>18
  <2>2. n.p_schedtsk \in Task
    <3>1. primap_search(map) \in map
      BY <1>12, PrimapSearchLemma
    <3>2. /\ queue[primap_search(map)] \in Seq(Task)
          /\ queue[primap_search(map)] # << >>
      BY <3>1, <1>11, <1>12, <1>15 DEF PrimapMatches
    <3>3. QED
      BY <3>2, <2>1 DEF search_schedtsk
  <2>3. n \in SchedType
    BY <1>5, <1>11, <1>12, <2>2 DEF SchedType
  <2>4. QED
    BY <1>5, <1>8, <1>12, <1>15, <1>16, <2>1, <2>3, SearchIntroLemma
       DEF n, newpriority
<1>19. CASE s.p_schedtsk = t /\ ~(newpri >= oldpri)
  <2>1. n.p_schedtsk = t
    BY <1>5, <1>19
  <2>2. ASSUME NEW u \in R \ {t} PROVE newpri < prio[u]
    <3>1. oldpri <= prio[u] /\ prio[u] \in Int
      BY <1>6, <1>13, <1>19 DEF oldpri
    <3>2. QED
      BY <3>1, <1>14, <1>19
  <2>3. QED
    BY <1>17, <2>1, <2>2 DEF n, newpriority
<1>20. CASE s.p_schedtsk # t /\ newpri < prio[s.p_schedtsk]
  <2>1. n.p_schedtsk = t
    BY <1>5, <1>20
  <2>2. ASSUME NEW u \in R \ {t} PROVE newpri < prio[u]
    <3>1. /\ prio[s.p_schedtsk] <= prio[u]
          /\ prio[u] \in Int /\ prio[s.p_schedtsk] \in Int
      BY <1>6, <1>13
    <3>2. QED
      BY <3>1, <1>14, <1>20
  <2>3. QED
    BY <1>17, <2>1, <2>2 DEF n, newpriority
<1>21. CASE s.p_schedtsk # t /\ ~(newpri < prio[s.p_schedtsk])
  <2> DEFINE p == prio[s.p_schedtsk]
  <2>1. n.p_schedtsk = s.p_schedtsk /\ s.p_schedtsk \in R \ {t}
    BY <1>5, <1>6, <1>21
  <2>2. newpriority[s.p_schedtsk] = p /\ p \in TPri
    BY <1>8, <2>1
  <2>3. \A u \in R : p <= newpriority[u]
    <3>1. p <= newpri
      BY <1>13, <1>14, <1>21, <2>1
    <3>2. QED
      BY <3>1, <1>6, <1>8
  <2>4. del[p] # << >> /\ Head(del[p]) = s.p_schedtsk
    <3>1. CASE p = oldpri
      BY <3>1, <1>1, <1>4, <1>6, <1>21, DeleteHeadLemma DEF q, d
    <3>2. CASE p # oldpri
      BY <3>2, <1>4, <1>6, <2>1, <2>2, BitLemma
         DEF Consistent, PrimapMatches
    <3>3. QED
      BY <3>1, <3>2
  <2>5. Head(queue[p]) = s.p_schedtsk
    <3>1. CASE p = newpri
      BY <3>1, <1>10, <1>11, <2>4 DEF b
    <3>2. CASE p # newpri
      BY <3>2, <1>11, <2>2, <2>4
    <3>3. QED
      BY <3>1, <3>2
  <2>6. n \in SchedType
    BY <1>5, <1>11, <1>12, <2>1 DEF SchedType
  <2> HIDE DEF p
  <2>7. QED
    BY <1>5, <1>8, <1>15, <1>16, <2>1, <2>2, <2>3, <2>5, <2>6, TopIntroLemma
       DEF n, newpriority
<1>22. QED
  BY <1>18, <1>19, <1>20, <1>21

\* Moving the head of a queue of several tasks to its tail.
LEMMA RotationLemma ==
  ASSUME NEW q \in Seq(Task), NoDuplicates(q), ~(Len(q) < 2)
  PROVE  /\ Append(Tail(q), Head(q)) \in Seq(Task)
         /\ Append(Tail(q), Head(q)) # << >>
         /\ NoDuplicates(Append(Tail(q), Head(q)))
         /\ Members(Append(Tail(q), Head(q))) = Members(q)
         /\ Head(Append(Tail(q), Head(q))) \in Members(q)
<1> DEFINE entry == Head(q)
           tail  == Tail(q)
<1>1. Len(q) \in Nat /\ q # << >>
  OBVIOUS
<1>2. entry \in Task /\ entry = q[1] /\ entry \in Members(q)
  BY <1>1, HeadMemberLemma
<1>3. /\ tail \in Seq(Task) /\ Len(tail) = Len(q) - 1
      /\ \A i \in 1 .. Len(tail) : tail[i] = q[i + 1]
  BY <1>1, HeadTailProperties
<1> HIDE DEF entry, tail
<1>4. NoDuplicates(tail)
  BY <1>1, <1>3 DEF NoDuplicates
<1>5. ASSUME NEW x \in Members(tail) PROVE x \in Members(q) \ {entry}
  <2>1. PICK i \in 1 .. Len(tail) : x = tail[i]
    BY DEF Members
  <2>2. x = q[i + 1] /\ i + 1 \in 1 .. Len(q) /\ i + 1 # 1
    BY <1>1, <1>3, <2>1
  <2>3. QED
    BY <1>1, <1>2, <2>2 DEF Members, NoDuplicates
<1>6. ASSUME NEW x \in Members(q) \ {entry} PROVE x \in Members(tail)
  <2>1. PICK i \in 1 .. Len(q) : x = q[i]
    BY DEF Members
  <2>2. i # 1
    BY <1>2, <2>1
  <2>3. i - 1 \in 1 .. Len(tail) /\ (i - 1) + 1 = i
    BY <1>1, <1>3, <2>1, <2>2
  <2>4. tail[i - 1] = q[i]
    BY <1>3, <2>3
  <2>5. QED
    BY <2>1, <2>3, <2>4 DEF Members
<1>7. Members(tail) = Members(q) \ {entry}
  BY <1>5, <1>6
<1>8. tail # << >> /\ Head(tail) \in Members(tail)
  <2>1. tail # << >>
    BY <1>1, <1>3, EmptySeq
  <2>2. QED
    BY <1>3, <2>1, HeadMemberLemma
<1>9. /\ Append(tail, entry) \in Seq(Task)
      /\ Append(tail, entry) # << >>
      /\ NoDuplicates(Append(tail, entry))
      /\ Members(Append(tail, entry)) = Members(tail) \cup {entry}
      /\ Head(Append(tail, entry)) = Head(tail)
  BY <1>2, <1>3, <1>4, <1>7, <1>8, AppendLemma
<1>10. QED
  BY <1>2, <1>7, <1>8, <1>9 DEF entry, tail

\* rotate_ready_queue keeps the set of runnable tasks.
LEMMA RotateReadyQueueLemma ==
  ASSUME NEW s \in SchedType, NEW prio \in [Task -> TPri],
         NEW R \in SUBSET Task, NEW pri \in TPri,
         Consistent(s, prio, R)
  PROVE  /\ rotate_ready_queue(s, pri) \in SchedType
         /\ Consistent(rotate_ready_queue(s, pri), prio, R)
<1> DEFINE q     == s.ready_queue[pri]
           entry == Head(q)
           tail  == Tail(q)
           rot   == Append(tail, entry)
           n     == rotate_ready_queue(s, pri)
<1>1. /\ q \in Seq(Task) /\ Len(q) \in Nat
      /\ NoDuplicates(q) /\ Members(q) = {u \in R : prio[u] = pri}
  BY DEF SchedType, Consistent, QueuesHold
<1>2. CASE Len(q) < 2
  BY <1>2 DEF rotate_ready_queue
<1>3. CASE ~(Len(q) < 2)
  <2>1. q # << >> /\ entry \in Task /\ entry \in Members(q)
    BY <1>1, <1>3, HeadMemberLemma
  <2> HIDE DEF q, entry, tail, rot, n
  <2>5. /\ rot \in Seq(Task) /\ rot # << >> /\ NoDuplicates(rot)
        /\ Members(rot) = Members(q) /\ Head(rot) \in Members(q)
    BY <1>1, <1>3, RotationLemma DEF entry, tail, rot
  <2>6. /\ s.ready_queue \in [TPri -> Seq(Task)]
        /\ s.ready_primap \subseteq TPri
        /\ s.p_schedtsk \in Task \cup {NULL}
    BY DEF SchedType
  <2>7. /\ n.ready_queue = [s.ready_queue EXCEPT ![pri] = rot]
        /\ n.ready_primap = s.ready_primap
        /\ n.p_schedtsk = IF s.p_schedtsk = entry THEN Head(rot)
                                                  ELSE s.p_schedtsk
        /\ n = [ready_queue |-> n.ready_queue, ready_primap |-> s.ready_primap,
                p_schedtsk |-> n.p_schedtsk]
    BY <1>3, <2>6 DEF rotate_ready_queue, SchedType, q, entry, tail, rot, n
  <2>8. s.p_schedtsk # NULL /\ entry \in R /\ prio[entry] = pri
    BY <1>1, <2>1, SchedtskLemma
  <2>9. /\ s.p_schedtsk \in R
        /\ s.p_schedtsk = Head(s.ready_queue[prio[s.p_schedtsk]])
        /\ \A u \in R : prio[s.p_schedtsk] <= prio[u]
    BY <2>8, SchedtskLemma
  <2>15. n.ready_queue \in [TPri -> Seq(Task)]
    BY <2>5, <2>6, <2>7
  <2>10. QueuesHold(n.ready_queue, prio, R)
    BY <1>1, <2>5, <2>6, <2>7 DEF Consistent, QueuesHold, q
  <2>11. PrimapMatches(n.ready_queue, n.ready_primap)
    <3>1. s.ready_primap = {p \in TPri : s.ready_queue[p] # << >>}
      BY DEF Consistent, PrimapMatches
    <3>2. QED
      BY <2>1, <2>5, <2>6, <2>7, <3>1 DEF PrimapMatches, q
  <2>12. CASE s.p_schedtsk = entry
    <3>1. /\ n.p_schedtsk = Head(rot) /\ n.p_schedtsk \in R
          /\ prio[n.p_schedtsk] = pri
      BY <1>1, <2>5, <2>7, <2>12
    <3>2. n \in SchedType
      BY <2>6, <2>7, <2>15, <3>1 DEF SchedType
    <3>3. \A u \in R : prio[n.p_schedtsk] <= prio[u]
      BY <2>8, <2>9, <2>12, <3>1
    <3>4. QED
      BY <2>6, <2>7, <2>10, <2>11, <3>1, <3>2, <3>3, TopIntroLemma DEF n
  <2>13. CASE s.p_schedtsk # entry
    <3>1. n.p_schedtsk = s.p_schedtsk /\ prio[s.p_schedtsk] # pri
      BY <2>7, <2>9, <2>13 DEF q, entry
    <3>2. n \in SchedType
      BY <2>6, <2>7, <2>15, <3>1 DEF SchedType
    <3>3. QED
      <4>1. s.p_schedtsk = Head(n.ready_queue[prio[s.p_schedtsk]])
        BY <2>6, <2>7, <2>9, <3>1
      <4>2. QED
        BY <2>7, <2>9, <2>10, <2>11, <3>1, <3>2, <4>1, TopIntroLemma DEF n
  <2>14. QED
    BY <2>12, <2>13
<1>4. QED
  BY <1>2, <1>3

----------------------------------------------------------------------------
(***************************************************************************)
(* The kernel.                                                             *)
(***************************************************************************)
\* Before the kernel starts, the tasks still to be set up are dormant and
\* every system state is the initial one.
BootInv ==
  ~kerflg =>
    /\ \A i \in tskini + 1 .. Len(torder) : tstat[torder[i]] = TS_DORMANT
    /\ p_runtsk = NULL /\ ~reqflg /\ nest = 0

KernelInv == TypeOK /\ ReadyQueueInv /\ DispatchInv /\ BootInv

----------------------------------------------------------------------------
(***************************************************************************)
(* Task states and queues.                                                 *)
(***************************************************************************)
LEMMA TstatCases ==
  ASSUME NEW ts \in TstatType
  PROVE  \/ ts \in {TS_DORMANT, TS_RUNNABLE, TS_SUSPENDED}
         \/ \E f \in WaitFactor :
              \/ ts = TS_WAITING(f)
              \/ ts = TS_WAITING(f) \cup TS_SUSPENDED
BY DEF TstatType

LEMMA FactorLemma ==
  ASSUME NEW f \in WaitFactor
  PROVE  /\ f # "RUNNABLE" /\ f # "SUSPENDED" /\ f # "WAITING"
         /\ TS_WAITING(f) \in TstatType
         /\ TS_WAITING(f) \cup TS_SUSPENDED \in TstatType
         /\ (TS_WAITING(f) \cup TS_SUSPENDED) \ TS_SUSPENDED = TS_WAITING(f)
<1>1. f # "RUNNABLE" /\ f # "SUSPENDED" /\ f # "WAITING"
  BY DEF WaitFactor, WobjFactor, WobjcbFactor
<1>2. /\ TS_WAITING(f) \in TstatType
      /\ TS_WAITING(f) \cup TS_SUSPENDED \in TstatType
  BY DEF TstatType
<1>3. (TS_WAITING(f) \cup TS_SUSPENDED) \ TS_SUSPENDED = TS_WAITING(f)
  BY <1>1 DEF TS_WAITING, TS_SUSPENDED
<1>4. QED
  BY <1>1, <1>2, <1>3

LEMMA TstatLemma ==
  /\ TS_DORMANT \in TstatType /\ TS_RUNNABLE \in TstatType
  /\ TS_SUSPENDED \in TstatType
  /\ TSTAT_RUNNABLE(TS_RUNNABLE) /\ ~TSTAT_RUNNABLE(TS_DORMANT)
  /\ ~TSTAT_RUNNABLE(TS_SUSPENDED) /\ ~TSTAT_WAITING(TS_RUNNABLE)
  /\ ~TSTAT_WAITING(TS_DORMANT) /\ ~TSTAT_WAITING(TS_SUSPENDED)
  /\ TS_RUNNABLE # TS_DORMANT /\ TS_SUSPENDED # TS_DORMANT
BY DEF TstatType, TS_DORMANT, TS_RUNNABLE, TS_SUSPENDED, TSTAT_RUNNABLE,
       TSTAT_WAITING

LEMMA WaitingLemma ==
  ASSUME NEW f \in WaitFactor
  PROVE  /\ ~TSTAT_RUNNABLE(TS_WAITING(f))
         /\ TSTAT_WAITING(TS_WAITING(f))
         /\ ~TSTAT_SUSPENDED(TS_WAITING(f))
         /\ TS_WAITING(f) # TS_DORMANT
         /\ ~TSTAT_RUNNABLE(TS_WAITING(f) \cup TS_SUSPENDED)
         /\ TSTAT_WAITING(TS_WAITING(f) \cup TS_SUSPENDED)
         /\ TSTAT_SUSPENDED(TS_WAITING(f) \cup TS_SUSPENDED)
BY FactorLemma DEF TSTAT_RUNNABLE, TSTAT_WAITING, TSTAT_SUSPENDED, TS_WAITING,
                   TS_SUSPENDED, TS_DORMANT

\* The macros of task.h exclude each other as the states do.
LEMMA TstatExclusion ==
  ASSUME NEW ts \in TstatType
  PROVE  /\ TSTAT_RUNNABLE(ts) => ~TSTAT_WAITING(ts) /\ ~TSTAT_SUSPENDED(ts)
         /\ TSTAT_RUNNABLE(ts) => ts = TS_RUNNABLE
         /\ TSTAT_WAITING(ts) \/ TSTAT_RUNNABLE(ts) => ~TSTAT_DORMANT(ts)
         /\ TSTAT_WAITING(ts) /\ ~TSTAT_SUSPENDED(ts)
              => /\ ts \cup TS_SUSPENDED \in TstatType
                 /\ ~TSTAT_RUNNABLE(ts \cup TS_SUSPENDED)
         /\ TSTAT_WAITING(ts) /\ TSTAT_SUSPENDED(ts)
              => /\ ts \ TS_SUSPENDED \in TstatType
                 /\ ~TSTAT_RUNNABLE(ts \ TS_SUSPENDED)
<1>1. CASE ts \in {TS_DORMANT, TS_RUNNABLE, TS_SUSPENDED}
  BY <1>1 DEF TSTAT_RUNNABLE, TSTAT_WAITING, TSTAT_SUSPENDED, TSTAT_DORMANT,
              TS_DORMANT, TS_RUNNABLE, TS_SUSPENDED
<1>2. ASSUME NEW f \in WaitFactor, ts = TS_WAITING(f)
      PROVE  /\ ~TSTAT_RUNNABLE(ts) /\ ~TSTAT_SUSPENDED(ts)
             /\ ~TSTAT_DORMANT(ts)
             /\ ts \cup TS_SUSPENDED \in TstatType
             /\ ~TSTAT_RUNNABLE(ts \cup TS_SUSPENDED)
  BY <1>2, FactorLemma, WaitingLemma DEF TSTAT_DORMANT
<1>3. ASSUME NEW f \in WaitFactor, ts = TS_WAITING(f) \cup TS_SUSPENDED
      PROVE  /\ ~TSTAT_RUNNABLE(ts) /\ TSTAT_SUSPENDED(ts)
             /\ ~TSTAT_DORMANT(ts)
             /\ ts \ TS_SUSPENDED \in TstatType
             /\ ~TSTAT_RUNNABLE(ts \ TS_SUSPENDED)
  <2>1. ts # TS_DORMANT
    BY <1>3 DEF TS_DORMANT, TS_SUSPENDED
  <2>2. QED
    BY <1>3, <2>1, FactorLemma, WaitingLemma DEF TSTAT_DORMANT
<1>4. QED
  BY <1>1, <1>2, <1>3, TstatCases

\* Unlinking an entry, and linking one by priority, give a queue again.
LEMMA QueueDeleteType ==
  ASSUME NEW q \in Seq(Task), NEW t
  PROVE  QueueDelete(q, t) \in Seq(Task)
<1>1. CASE t \notin Members(q)
  BY <1>1 DEF QueueDelete
<1>2. CASE t \in Members(q)
  <2>1. Position(q, t) \in 1 .. Len(q) /\ Len(q) \in Nat
    BY <1>2, PositionIsIndex
  <2>2. QED
    BY <1>2, <2>1 DEF QueueDelete
<1>3. QED
  BY <1>1, <1>2

LEMMA TpriPositionLemma ==
  ASSUME NEW q \in Seq(Task), NEW t \in Task, NEW pri \in [Task -> TPri]
  PROVE  /\ TpriPosition(q, pri, t) \in 1 .. Len(q) + 1
         /\ \A j \in 1 .. TpriPosition(q, pri, t) - 1 : ~(pri[t] < pri[q[j]])
         /\ TpriPosition(q, pri, t) <= Len(q)
              => pri[t] < pri[q[TpriPosition(q, pri, t)]]
<1> DEFINE Lower == {i \in 1 .. Len(q) + 1 : i <= Len(q) => pri[t] < pri[q[i]]}
<1>1. Len(q) \in Nat /\ Len(q) + 1 \in Lower
  OBVIOUS
<1>2. PICK i \in Lower : \A j \in Lower : ~ (<< j, i >> \in OpToRel(<, Nat))
  <2>1. Lower \subseteq Nat
    BY <1>1
  <2> HIDE DEF OpToRel, Lower
  <2> QED BY <1>1, <2>1, NatLessThanWellFounded, WFMin
<1>3. ASSUME NEW j \in 1 .. i - 1 PROVE ~(pri[t] < pri[q[j]])
  <2>1. OpToRel(<, Nat) = {ss \in Nat \X Nat : ss[1] < ss[2]}
    BY DEF OpToRel
  <2>2. << j, i >> \in {ss \in Nat \X Nat : ss[1] < ss[2]}
    BY <1>1
  <2>3. j \notin Lower
    BY <1>2, <2>1, <2>2
  <2>4. QED
    BY <1>1, <2>3
<1>4. QED
  BY <1>1, <1>3 DEF TpriPosition

LEMMA QueueInsertTpriType ==
  ASSUME NEW q \in Seq(Task), NEW t \in Task, NEW pri \in [Task -> TPri]
  PROVE  QueueInsertTpri(q, pri, t) \in Seq(Task)
<1> DEFINE p == TpriPosition(q, pri, t)
<1>1. p \in 1 .. Len(q) + 1 /\ Len(q) \in Nat
  BY TpriPositionLemma
<1>2. \A i \in 1 .. Len(q) : q[i] \in Task
  OBVIOUS
<1> HIDE DEF p
<1>3. [i \in 1 .. Len(q) + 1 |->
         IF i < p THEN q[i] ELSE IF i = p THEN t ELSE q[i - 1]] \in Seq(Task)
  BY <1>1, <1>2
<1>4. QED
  BY <1>3 DEF QueueInsertTpri, p

----------------------------------------------------------------------------
(***************************************************************************)
(* The ways in which an action changes the set of runnable tasks.          *)
(***************************************************************************)
LEMMA RunnableType == Runnable \in SUBSET Task
BY DEF Runnable

\* A task that is not runnable enters the ready queue.
LEMMA EntersReadyQueue ==
  ASSUME TypeOK, ReadyQueueInv, NEW t \in Task, t \notin Runnable,
         tstat' = [tstat EXCEPT ![t] = TS_RUNNABLE],
         sched' = make_runnable(sched, priority, t),
         priority' = priority
  PROVE  /\ sched' \in SchedType
         /\ tstat' \in [Task -> TstatType]
         /\ ReadyQueueInv'
         /\ Runnable' = Runnable \cup {t}
<1>1. tstat' \in [Task -> TstatType]
  BY TstatLemma DEF TypeOK
<1>2. Runnable' = Runnable \cup {t}
  BY <1>1, TstatLemma DEF Runnable, TypeOK
<1>3. /\ sched' \in SchedType
      /\ Consistent(sched', priority, Runnable \cup {t})
  BY MakeRunnableLemma, RunnableType DEF TypeOK, ReadyQueueInv
<1>4. QED
  BY <1>1, <1>2, <1>3 DEF ReadyQueueInv

\* A runnable task leaves it, for a state that is not runnable.
LEMMA LeavesReadyQueue ==
  ASSUME TypeOK, ReadyQueueInv, NEW t \in Runnable, NEW ts \in TstatType,
         ~TSTAT_RUNNABLE(ts),
         tstat' = [tstat EXCEPT ![t] = ts],
         sched' = make_non_runnable(sched, priority, t),
         priority' = priority
  PROVE  /\ sched' \in SchedType
         /\ tstat' \in [Task -> TstatType]
         /\ ReadyQueueInv'
         /\ Runnable' = Runnable \ {t}
<1>1. tstat' \in [Task -> TstatType]
  BY DEF TypeOK
<1>2. Runnable' = Runnable \ {t}
  BY <1>1 DEF Runnable, TypeOK
<1>3. /\ sched' \in SchedType
      /\ Consistent(sched', priority, Runnable \ {t})
  BY MakeNonRunnableLemma, RunnableType DEF TypeOK, ReadyQueueInv
<1>4. QED
  BY <1>1, <1>2, <1>3 DEF ReadyQueueInv

\* The state of a task changes among those that are not runnable.
LEMMA StaysOffReadyQueue ==
  ASSUME TypeOK, ReadyQueueInv, NEW t \in Task, t \notin Runnable,
         NEW ts \in TstatType, ~TSTAT_RUNNABLE(ts),
         tstat' = [tstat EXCEPT ![t] = ts],
         sched' = sched,
         priority' = priority
  PROVE  /\ sched' \in SchedType
         /\ tstat' \in [Task -> TstatType]
         /\ ReadyQueueInv'
         /\ Runnable' = Runnable
<1>1. tstat' \in [Task -> TstatType]
  BY DEF TypeOK
<1>2. Runnable' = Runnable
  BY <1>1 DEF Runnable, TypeOK
<1>3. QED
  BY <1>1, <1>2 DEF ReadyQueueInv, TypeOK

\* Nothing that the scheduler depends on changes.
LEMMA SchedFrame ==
  ASSUME TypeOK, ReadyQueueInv, UNCHANGED << sched, tstat, priority >>
  PROVE  /\ sched' \in SchedType
         /\ tstat' \in [Task -> TstatType]
         /\ ReadyQueueInv'
         /\ Runnable' = Runnable
BY DEF ReadyQueueInv, Runnable, TypeOK

\* make_non_wait never takes a task off the ready queue.
LEMMA MakeNonWaitLemma ==
  ASSUME TypeOK, ReadyQueueInv, NEW t \in Task, TSTAT_WAITING(tstat[t]),
         make_non_wait(t), priority' = priority
  PROVE  /\ sched' \in SchedType
         /\ tstat' \in [Task -> TstatType]
         /\ ReadyQueueInv'
         /\ Runnable \subseteq Runnable'
<1>1. t \notin Runnable
  BY TstatExclusion DEF TypeOK, Runnable
<1>2. CASE TSTAT_SUSPENDED(tstat[t])
  <2>1. tstat' = [tstat EXCEPT ![t] = TS_SUSPENDED] /\ sched' = sched
    BY <1>2 DEF make_non_wait
  <2>2. QED
    BY <1>1, <2>1, StaysOffReadyQueue, TstatLemma
<1>3. CASE ~TSTAT_SUSPENDED(tstat[t])
  <2>1. /\ tstat' = [tstat EXCEPT ![t] = TS_RUNNABLE]
        /\ sched' = make_runnable(sched, priority, t)
    BY <1>3 DEF make_non_wait
  <2>2. QED
    BY <1>1, <2>1, EntersReadyQueue
<1>4. QED
  BY <1>2, <1>3

\* Terminate puts a task that the scheduler record s no longer links in the
\* dormant state, or back at the tail with its initial priority.
LEMMA TerminateLemma ==
  ASSUME TypeOK, NEW t \in Task, NEW s \in SchedType,
         Consistent(s, priority, Runnable \ {t}), Terminate(t, s)
  PROVE  /\ sched' \in SchedType
         /\ tstat' \in [Task -> TstatType]
         /\ priority' \in [Task -> TPri]
         /\ actque' \in [Task -> BOOLEAN] /\ wupque' \in [Task -> BOOLEAN]
         /\ ReadyQueueInv'
         /\ Runnable \ {t} \subseteq Runnable'
<1> DEFINE dormant == [priority EXCEPT ![t] = ipriority[t]]
           R == Runnable \ {t}
<1>1. /\ dormant \in [Task -> TPri] /\ priority' = dormant
      /\ actque' \in [Task -> BOOLEAN] /\ wupque' \in [Task -> BOOLEAN]
  BY IpriAssumption DEF TypeOK, Terminate
<1>2. R \in SUBSET Task /\ \A u \in R : dormant[u] = priority[u]
  BY RunnableType DEF TypeOK
<1>3. Consistent(s, dormant, R)
  <2> HIDE DEF dormant
  <2> QED BY <1>2, PriorityFrameLemma
<1>4. CASE actque[t]
  <2>1. /\ tstat' = [tstat EXCEPT ![t] = TS_RUNNABLE]
        /\ sched' = make_runnable(s, dormant, t)
    BY <1>4 DEF Terminate
  <2>2. tstat' \in [Task -> TstatType] /\ Runnable' = R \cup {t}
    BY <2>1, TstatLemma DEF TypeOK, Runnable
  <2> HIDE DEF dormant
  <2>3. /\ sched' \in SchedType
        /\ Consistent(sched', dormant, R \cup {t})
    BY <1>1, <1>2, <1>3, <2>1, MakeRunnableLemma
  <2>4. QED
    BY <1>1, <2>2, <2>3 DEF ReadyQueueInv
<1>5. CASE ~actque[t]
  <2>1. tstat' = [tstat EXCEPT ![t] = TS_DORMANT] /\ sched' = s
    BY <1>5 DEF Terminate
  <2>2. tstat' \in [Task -> TstatType] /\ Runnable' = R
    BY <2>1, TstatLemma DEF TypeOK, Runnable
  <2>3. QED
    BY <1>1, <1>3, <2>1, <2>2 DEF ReadyQueueInv
<1>6. QED
  BY <1>4, <1>5

----------------------------------------------------------------------------
(***************************************************************************)
(* The ways in which an action ends.                                       *)
(***************************************************************************)
LEMMA SchedtskRunnable ==
  ASSUME TypeOK, ReadyQueueInv
  PROVE  sched.p_schedtsk # NULL => sched.p_schedtsk \in Runnable
BY SchedtskLemma, RunnableType DEF TypeOK, ReadyQueueInv

LEMMA SchedtskRunnableNext ==
  ASSUME sched' \in SchedType, priority' \in [Task -> TPri], ReadyQueueInv'
  PROVE  sched'.p_schedtsk # NULL => sched'.p_schedtsk \in Runnable'
<1>1. Runnable' \in SUBSET Task
  BY DEF Runnable
<1>2. QED
  BY <1>1, SchedtskLemma DEF ReadyQueueInv

LEMMA DispatchType ==
  ASSUME NEW t, NEW w \in [Task -> WinfoType], Dispatch(t, w)
  PROVE  winfo' \in [Task -> WinfoType] /\ p_runtsk' = t
BY DEF Dispatch, WinfoType

\* What a task may rely on when it calls the kernel.
LEMMA InTaskFacts ==
  ASSUME KernelInv, TaskContext
  PROVE  /\ kerflg /\ nest = 0 /\ ~reqflg
         /\ p_runtsk \in Runnable /\ p_runtsk \in Task /\ p_runtsk # NULL
         /\ dspflg => p_runtsk = sched.p_schedtsk
BY RunnableType DEF KernelInv, DispatchInv, RunningInv, DispatchedInv,
                    TaskContext

LEMMA InInterruptFacts ==
  ASSUME KernelInv, InInterrupt
  PROVE  kerflg /\ nest > 0 /\ nest \in Nat
BY NestAssumption DEF KernelInv, BootInv, InInterrupt, TypeOK

\* A call of a task that ends with the dispatch its scheduling change needs.
LEMMA TaskReturnLemma ==
  ASSUME KernelInv, TaskContext, NEW w \in [Task -> WinfoType], TaskReturn(w),
         sched' \in SchedType, tstat' \in [Task -> TstatType],
         priority' \in [Task -> TPri], ReadyQueueInv',
         actque' \in [Task -> BOOLEAN], wupque' \in [Task -> BOOLEAN],
         tmevt' \in [Task -> TmevtType],
         wait_queue' \in [WaitQueue -> Seq(Task)],
         dspflg \/ p_runtsk \in Runnable'
  PROVE  KernelInv'
<1>1. /\ UNCHANGED << reqflg, cpulock, nest, ipmflg, disdsp, dspflg, kerflg,
                      tskini >>
      /\ winfo' \in [Task -> WinfoType]
      /\ p_runtsk' = IF DispatchRequired THEN sched'.p_schedtsk ELSE p_runtsk
  BY DEF TaskReturn, ctxVars, flagVars, bootVars, Dispatch, WinfoType
<1>2. sched'.p_schedtsk \in Task \cup {NULL}
  BY DEF SchedType
<1>3. TypeOK'
  BY <1>1, <1>2 DEF TypeOK, KernelInv
<1>4. sched'.p_schedtsk # NULL => sched'.p_schedtsk \in Runnable'
  BY SchedtskRunnableNext
<1>5. /\ kerflg /\ nest = 0 /\ ~reqflg
      /\ p_runtsk \in Runnable /\ p_runtsk \in Task /\ p_runtsk # NULL
      /\ dspflg => p_runtsk = sched.p_schedtsk
  BY InTaskFacts
<1>6. DspflgInv'
  BY <1>1 DEF DspflgInv, KernelInv, DispatchInv
<1>7. dspflg => p_runtsk' = sched'.p_schedtsk
  BY <1>1, <1>5 DEF DispatchRequired
<1>8. ~dspflg => p_runtsk' = p_runtsk
  BY <1>1 DEF DispatchRequired
<1>9. RunningInv'
  BY <1>4, <1>7, <1>8 DEF RunningInv
<1>10. DispatchedInv'
  BY <1>1, <1>5, <1>7 DEF DispatchedInv
<1>11. RequestInv'
  BY <1>1, <1>7 DEF RequestInv
<1>12. IdleInv'
  BY <1>1, <1>5, <1>8 DEF IdleInv
<1>13. MaskInv'
  <2>1. dspflg' => ipmflg'
    BY <1>6 DEF DspflgInv
  <2>2. QED
    BY <1>1, <1>5, <1>12, <2>1 DEF MaskInv, IdleInv
<1>14. BootInv'
  BY <1>1, <1>5 DEF BootInv
<1>15. QED
  BY <1>3, <1>6, <1>9, <1>10, <1>11, <1>12, <1>13, <1>14
     DEF KernelInv, DispatchInv

\* A call of a handler that requests the dispatch its change needs.
LEMMA IntReturnLemma ==
  ASSUME KernelInv, InInterrupt, NEW w \in [Task -> WinfoType], IntReturn(w),
         sched' \in SchedType, tstat' \in [Task -> TstatType],
         priority' = priority, ReadyQueueInv',
         actque' \in [Task -> BOOLEAN], wupque' \in [Task -> BOOLEAN],
         tmevt' \in [Task -> TmevtType],
         wait_queue' \in [WaitQueue -> Seq(Task)],
         Runnable \subseteq Runnable'
  PROVE  KernelInv'
<1>1. /\ UNCHANGED << p_runtsk, cpulock, nest, ipmflg, disdsp, dspflg, kerflg,
                      tskini >>
      /\ winfo' = w
      /\ reqflg' = (reqflg \/ DispatchRequired)
  BY DEF IntReturn, flagVars, bootVars
<1>2. TypeOK'
  <2>1. reqflg' \in BOOLEAN
    BY <1>1 DEF TypeOK, KernelInv, DispatchRequired
  <2>2. QED
    BY <1>1, <2>1 DEF TypeOK, KernelInv
<1>3. kerflg /\ nest > 0 /\ nest \in Nat
  BY InInterruptFacts
<1>4. DspflgInv' /\ RunningInv' /\ IdleInv'
  BY <1>1 DEF KernelInv, DispatchInv, DspflgInv, RunningInv, IdleInv
<1>5. DispatchedInv' /\ BootInv'
  BY <1>1, <1>3 DEF DispatchedInv, TaskContext, BootInv
<1>6. RequestInv'
  BY <1>1 DEF KernelInv, DispatchInv, RequestInv, DispatchRequired
<1>7. MaskInv'
  BY <1>1 DEF KernelInv, DispatchInv, MaskInv, DspflgInv, DispatchRequired
<1>8. QED
  BY <1>2, <1>4, <1>5, <1>6, <1>7 DEF KernelInv, DispatchInv

\* The types that an action leaves alone.
LEMMA TypesOf ==
  ASSUME KernelInv
  PROVE  /\ TypeOK /\ ReadyQueueInv
         /\ sched \in SchedType /\ tstat \in [Task -> TstatType]
         /\ priority \in [Task -> TPri]
         /\ actque \in [Task -> BOOLEAN] /\ wupque \in [Task -> BOOLEAN]
         /\ winfo \in [Task -> WinfoType] /\ tmevt \in [Task -> TmevtType]
         /\ wait_queue \in [WaitQueue -> Seq(Task)]
BY DEF KernelInv, TypeOK

----------------------------------------------------------------------------
(***************************************************************************)
(* Every action preserves KernelInv.  Start-up first.                      *)
(***************************************************************************)
LEMMA InitLemma == Init => KernelInv
<1> SUFFICES ASSUME Init PROVE KernelInv
  OBVIOUS
<1> USE DEF Init
<1>1. sched \in SchedType /\ Consistent(sched, priority, {})
  BY EmptySchedLemma, IpriAssumption
<1>2. Runnable = {}
  BY TstatLemma DEF Runnable
<1>3. Len(torder) \in Nat /\ MaxNest \in Nat
  BY TorderAssumption, NestAssumption
<1>4. TypeOK
  <2>1. [q \in WaitQueue |-> << >>] \in [WaitQueue -> Seq(Task)]
    OBVIOUS
  <2>2. tstat \in [Task -> TstatType]
    BY TstatLemma
  <2>3. winfo \in [Task -> WinfoType] /\ tmevt \in [Task -> TmevtType]
    BY DEF WinfoType, TmevtType
  <2>4. actque \in [Task -> BOOLEAN] /\ wupque \in [Task -> BOOLEAN]
    OBVIOUS
  <2>5. nest \in 0 .. MaxNest /\ tskini \in 0 .. Len(torder)
    BY <1>3
  <2>6. QED
    BY <1>1, <2>1, <2>2, <2>3, <2>4, <2>5, IpriAssumption DEF TypeOK
<1>5. ReadyQueueInv
  BY <1>1, <1>2 DEF ReadyQueueInv
<1>6. BootInv
  BY <1>3, TorderAssumption DEF BootInv, Members
<1>7. DispatchInv
  BY DEF DispatchInv, DspflgInv, RunningInv, DispatchedInv, RequestInv,
         MaskInv, IdleInv, TaskContext
<1>8. QED
  BY <1>4, <1>5, <1>6, <1>7 DEF KernelInv

LEMMA initialize_taskStep ==
  ASSUME KernelInv, initialize_task
  PROVE  KernelInv'
<1> DEFINE t == torder[tskini']
<1>1. /\ ~kerflg /\ tskini < Len(torder) /\ tskini' = tskini + 1
      /\ UNCHANGED << priority, actque, wupque, winfo, tmevt, wait_queue,
                      p_runtsk, ipmflg, disdsp, dspflg, reqflg, cpulock, nest,
                      kerflg >>
  BY DEF initialize_task, queVars, flagVars, ctxVars
<1>2. /\ TypeOK /\ ReadyQueueInv /\ tskini \in Nat /\ Len(torder) \in Nat
      /\ tskini' \in 0 .. Len(torder) /\ t \in Task
      /\ t = torder[tskini + 1]
  BY <1>1, TorderAssumption DEF KernelInv, TypeOK
<1>3. tstat[t] = TS_DORMANT
  BY <1>1, <1>2 DEF KernelInv, BootInv
<1>4. t \notin Runnable
  BY <1>3, TstatLemma DEF Runnable
<1>5. /\ sched' \in SchedType /\ tstat' \in [Task -> TstatType]
      /\ ReadyQueueInv'
      /\ \A u \in Task \ {t} : tstat'[u] = tstat[u]
  <2>1. CASE t \in TaAct
    <3>1. /\ tstat' = [tstat EXCEPT ![t] = TS_RUNNABLE]
          /\ sched' = make_runnable(sched, priority, t)
      BY <2>1 DEF initialize_task, make_active
    <3>2. QED
      BY <1>1, <1>2, <1>4, <3>1, EntersReadyQueue DEF TypeOK
  <2>2. CASE t \notin TaAct
    BY <1>1, <1>2, <2>2, SchedFrame DEF initialize_task
  <2>3. QED
    BY <2>1, <2>2
<1>6. TypeOK'
  BY <1>1, <1>2, <1>5 DEF TypeOK
<1>7. BootInv'
  <2> SUFFICES ASSUME NEW i \in tskini' + 1 .. Len(torder)
               PROVE  tstat'[torder[i]] = TS_DORMANT
    BY <1>1 DEF BootInv, KernelInv
  <2>1. i \in tskini + 1 .. Len(torder) /\ i # tskini + 1
    BY <1>1, <1>2
  <2>2. torder[i] \in Task \ {t}
    BY <1>2, <2>1, TorderAssumption DEF NoDuplicates
  <2>3. QED
    BY <1>1, <1>5, <2>1, <2>2 DEF KernelInv, BootInv
<1>8. p_runtsk = NULL
  BY <1>1 DEF KernelInv, BootInv
<1>9. DispatchInv'
  BY <1>1, <1>8 DEF KernelInv, DispatchInv, DspflgInv, RunningInv,
                    DispatchedInv, RequestInv, MaskInv, IdleInv, TaskContext
<1>10. QED
  BY <1>5, <1>6, <1>7, <1>9 DEF KernelInv

\* Starting the kernel, and the exits that serve a request, go to
\* p_schedtsk: every part of DispatchInv follows.
LEMMA DispatchLemma ==
  ASSUME KernelInv, UNCHANGED << sched, tstat, priority >>, TypeOK',
         kerflg', nest' \in Nat, ~reqflg', p_runtsk' = sched.p_schedtsk,
         DspflgInv', dspflg'
  PROVE  KernelInv'
<1>1. ReadyQueueInv' /\ Runnable' = Runnable /\ sched' = sched
  BY SchedFrame DEF KernelInv
<1>2. RunningInv'
  BY <1>1, SchedtskRunnable DEF RunningInv, KernelInv
<1>3. dspflg' => ipmflg'
  BY DEF DspflgInv
<1>4. DispatchedInv' /\ RequestInv' /\ MaskInv' /\ IdleInv' /\ BootInv'
  BY <1>1, <1>3 DEF DispatchedInv, RequestInv, MaskInv, IdleInv, BootInv
<1>5. QED
  BY <1>1, <1>2, <1>4 DEF KernelInv, DispatchInv

LEMMA start_dispatchStep ==
  ASSUME KernelInv, start_dispatch
  PROVE  KernelInv'
<1>1. /\ ~kerflg /\ kerflg' = TRUE
      /\ UNCHANGED << sched, tstat, priority, actque, wupque, tmevt,
                      wait_queue, ipmflg, disdsp, dspflg, reqflg, cpulock, nest,
                      tskini >>
      /\ Dispatch(sched.p_schedtsk, winfo)
  BY DEF start_dispatch, queVars, flagVars, ctxVars
<1>2. winfo' \in [Task -> WinfoType] /\ p_runtsk' = sched.p_schedtsk
  BY <1>1, DispatchType, TypesOf
<1>3. nest = 0 /\ ~reqflg /\ dspflg
  BY <1>1 DEF KernelInv, DispatchInv, BootInv, IdleInv
<1>4. sched.p_schedtsk \in Task \cup {NULL}
  BY TypesOf DEF SchedType
<1>5. TypeOK'
  BY <1>1, <1>2, <1>4 DEF TypeOK, KernelInv
<1>6. DspflgInv'
  BY <1>1 DEF DspflgInv, KernelInv, DispatchInv
<1>7. QED
  BY <1>1, <1>2, <1>3, <1>5, <1>6, DispatchLemma

----------------------------------------------------------------------------
(***************************************************************************)
(* task_manage.c                                                           *)
(***************************************************************************)
LEMMA ActivateLemma ==
  ASSUME KernelInv, NEW t \in Task, Activate(t), priority' = priority
  PROVE  /\ sched' \in SchedType /\ tstat' \in [Task -> TstatType]
         /\ ReadyQueueInv' /\ actque' \in [Task -> BOOLEAN]
         /\ Runnable \subseteq Runnable'
<1>1. CASE TSTAT_DORMANT(tstat[t])
  <2>1. /\ tstat' = [tstat EXCEPT ![t] = TS_RUNNABLE] /\ actque' = actque
        /\ sched' = make_runnable(sched, priority, t)
    BY <1>1 DEF Activate, make_active
  <2>2. t \notin Runnable
    BY <1>1, TstatExclusion, TypesOf DEF Runnable
  <2>3. QED
    BY <2>1, <2>2, EntersReadyQueue, TypesOf
<1>2. CASE ~TSTAT_DORMANT(tstat[t])
  BY <1>2, SchedFrame, TypesOf DEF Activate
<1>3. QED
  BY <1>1, <1>2

LEMMA act_tskStep ==
  ASSUME KernelInv, NEW t \in Task, act_tsk(t)
  PROVE  KernelInv'
<1>1. /\ TaskContext /\ Activate(t) /\ TaskReturn(winfo)
      /\ UNCHANGED << priority, wupque, tmevt, wait_queue >>
  BY DEF act_tsk, InTask
<1>2. p_runtsk \in Runnable'
  BY <1>1, ActivateLemma, InTaskFacts
<1>3. QED
  BY <1>1, <1>2, ActivateLemma, TaskReturnLemma, TypesOf

LEMMA iact_tskStep ==
  ASSUME KernelInv, NEW t \in Task, iact_tsk(t)
  PROVE  KernelInv'
<1>1. /\ InInterrupt /\ Activate(t) /\ IntReturn(winfo)
      /\ UNCHANGED << priority, wupque, tmevt, wait_queue >>
  BY DEF iact_tsk
<1>2. QED
  BY <1>1, ActivateLemma, IntReturnLemma, TypesOf

\* An action that leaves the scheduler, the dispatcher and the system states
\* alone.
LEMMA FrameLemma ==
  ASSUME KernelInv, UNCHANGED << sched, tstat, priority, p_runtsk, flagVars,
                                 ctxVars, bootVars >>, TypeOK'
  PROVE  KernelInv'
<1>1. UNCHANGED << ipmflg, disdsp, dspflg, reqflg, cpulock, nest, kerflg,
                   tskini >>
  BY DEF flagVars, ctxVars, bootVars
<1>2. ReadyQueueInv' /\ Runnable' = Runnable
  BY SchedFrame DEF KernelInv
<1>3. DispatchInv' /\ BootInv'
  BY <1>1, <1>2 DEF KernelInv, DispatchInv, DspflgInv, RunningInv,
     DispatchedInv, RequestInv, MaskInv, IdleInv, BootInv, TaskContext
<1>4. QED
  BY <1>2, <1>3 DEF KernelInv

LEMMA can_actStep ==
  ASSUME KernelInv, NEW t \in Task, can_act(t)
  PROVE  KernelInv'
<1>1. TypeOK'
  BY DEF KernelInv, TypeOK, can_act, flagVars, ctxVars, bootVars
<1>2. QED
  BY <1>1, FrameLemma DEF can_act

LEMMA ext_tskStep ==
  ASSUME KernelInv, ext_tsk
  PROVE  KernelInv'
<1> DEFINE s == make_non_runnable(sched, priority, p_runtsk)
<1>1. /\ TaskContext /\ Terminate(p_runtsk, s)
      /\ Dispatch(sched'.p_schedtsk, winfo)
      /\ ~cpulock' /\ cpulock' \in BOOLEAN /\ disdsp' = FALSE
      /\ ipmflg' = TRUE /\ dspflg' = TRUE
      /\ UNCHANGED << tmevt, wait_queue, reqflg, nest, kerflg, tskini >>
  BY DEF ext_tsk, bootVars
<1>2. /\ kerflg /\ nest = 0 /\ ~reqflg
      /\ p_runtsk \in Runnable /\ p_runtsk \in Task
  BY <1>1, InTaskFacts
<1>3. s \in SchedType /\ Consistent(s, priority, Runnable \ {p_runtsk})
  BY <1>2, MakeNonRunnableLemma, RunnableType, TypesOf DEF ReadyQueueInv
<1> HIDE DEF s
<1>4. /\ sched' \in SchedType
      /\ tstat' \in [Task -> TstatType]
      /\ priority' \in [Task -> TPri]
      /\ actque' \in [Task -> BOOLEAN] /\ wupque' \in [Task -> BOOLEAN]
      /\ ReadyQueueInv'
  BY <1>1, <1>2, <1>3, TerminateLemma, TypesOf
<1>5. winfo' \in [Task -> WinfoType] /\ p_runtsk' = sched'.p_schedtsk
  BY <1>1, DispatchType, TypesOf
<1>6. TypeOK'
  BY <1>1, <1>4, <1>5 DEF TypeOK, KernelInv, SchedType
<1>7. sched'.p_schedtsk # NULL => sched'.p_schedtsk \in Runnable'
  BY <1>4, SchedtskRunnableNext
<1>8. DispatchInv' /\ BootInv'
  BY <1>1, <1>2, <1>5, <1>7 DEF DispatchInv, DspflgInv, RunningInv,
     DispatchedInv, RequestInv, MaskInv, IdleInv, BootInv, TaskContext
<1>9. QED
  BY <1>4, <1>6, <1>8 DEF KernelInv

LEMMA wait_dequeue_wobjType ==
  ASSUME wait_queue \in [WaitQueue -> Seq(Task)], NEW t \in Task,
         wait_dequeue_wobj(t)
  PROVE  wait_queue' \in [WaitQueue -> Seq(Task)]
BY QueueDeleteType DEF wait_dequeue_wobj

LEMMA wait_dequeue_tmevtbType ==
  ASSUME tmevt \in [Task -> TmevtType], NEW t \in Task, NEW w,
         wait_dequeue_tmevtb(t, w)
  PROVE  tmevt' \in [Task -> TmevtType]
BY DEF wait_dequeue_tmevtb, TmevtType

LEMMA ter_tskStep ==
  ASSUME KernelInv, NEW t \in Task, ter_tsk(t)
  PROVE  KernelInv'
<1> DEFINE s == IF TSTAT_RUNNABLE(tstat[t])
                  THEN make_non_runnable(sched, priority, t) ELSE sched
           w == [winfo EXCEPT ![t] = "none"]
<1>1. /\ TaskContext /\ t # p_runtsk /\ Terminate(t, s)
      /\ IF TSTAT_WAITING(tstat[t])
           THEN wait_dequeue_wobj(t) /\ wait_dequeue_tmevtb(t, winfo)
           ELSE UNCHANGED << wait_queue, tmevt >>
      /\ IF dspflg /\ sched'.p_schedtsk # s.p_schedtsk
           THEN Dispatch(sched'.p_schedtsk, w)
           ELSE p_runtsk' = p_runtsk /\ winfo' = w
      /\ UNCHANGED << flagVars, ctxVars, bootVars >>
  BY DEF ter_tsk, InTask
<1>2. /\ p_runtsk \in Runnable
      /\ dspflg => p_runtsk = sched.p_schedtsk
  BY <1>1, InTaskFacts
<1>3. s \in SchedType /\ Consistent(s, priority, Runnable \ {t})
  <2>1. CASE TSTAT_RUNNABLE(tstat[t])
    <3>1. t \in Runnable
      BY <2>1 DEF Runnable
    <3>2. QED
      BY <2>1, <3>1, MakeNonRunnableLemma, RunnableType, TypesOf
         DEF ReadyQueueInv
  <2>2. CASE ~TSTAT_RUNNABLE(tstat[t])
    <3>1. Runnable \ {t} = Runnable
      BY <2>2 DEF Runnable
    <3>2. QED
      BY <2>2, <3>1, TypesOf DEF ReadyQueueInv
  <2>3. QED
    BY <2>1, <2>2
<1>4. dspflg => s.p_schedtsk = sched.p_schedtsk
  BY <1>1, <1>2 DEF make_non_runnable
<1>5. w \in [Task -> WinfoType]
  BY TypesOf DEF WinfoType
<1> HIDE DEF s, w
<1>6. TaskReturn(w)
  BY <1>1, <1>4 DEF TaskReturn, DispatchRequired
<1>7. tmevt' \in [Task -> TmevtType] /\ wait_queue' \in [WaitQueue -> Seq(Task)]
  BY <1>1, TypesOf, wait_dequeue_wobjType, wait_dequeue_tmevtbType
<1>8. /\ sched' \in SchedType
      /\ tstat' \in [Task -> TstatType]
      /\ priority' \in [Task -> TPri]
      /\ actque' \in [Task -> BOOLEAN] /\ wupque' \in [Task -> BOOLEAN]
      /\ ReadyQueueInv'
      /\ Runnable \ {t} \subseteq Runnable'
  BY <1>1, <1>3, TerminateLemma, TypesOf
<1>9. QED
  BY <1>1, <1>2, <1>5, <1>6, <1>7, <1>8, TaskReturnLemma

LEMMA wobj_change_priorityType ==
  ASSUME wait_queue \in [WaitQueue -> Seq(Task)], NEW t \in Task,
         NEW pri \in [Task -> TPri], wobj_change_priority(t, pri)
  PROVE  wait_queue' \in [WaitQueue -> Seq(Task)]
BY QueueDeleteType, QueueInsertTpriType DEF wobj_change_priority

LEMMA chg_priStep ==
  ASSUME KernelInv, NEW t \in Task, NEW newpri \in TPri, chg_pri(t, newpri)
  PROVE  KernelInv'
<1> DEFINE newpriority == [priority EXCEPT ![t] = newpri]
<1>1. /\ TaskContext /\ priority' = newpriority /\ TaskReturn(winfo)
      /\ sched' = IF TSTAT_RUNNABLE(tstat[t])
                    THEN change_ready_priority(sched, priority, t, newpri)
                    ELSE sched
      /\ IF TSTAT_WAIT_WOBJCB(tstat[t])
           THEN wobj_change_priority(t, newpriority)
           ELSE UNCHANGED wait_queue
      /\ UNCHANGED << tstat, actque, wupque, tmevt >>
  BY DEF chg_pri, InTask, queVars
<1>2. newpriority \in [Task -> TPri]
  BY TypesOf
<1>3. wait_queue' \in [WaitQueue -> Seq(Task)]
  <2> HIDE DEF newpriority
  <2> QED BY <1>1, <1>2, TypesOf, wobj_change_priorityType
<1>4. Runnable' = Runnable
  BY <1>1 DEF Runnable
<1>5. sched' \in SchedType /\ Consistent(sched', newpriority, Runnable)
  <2>1. CASE TSTAT_RUNNABLE(tstat[t])
    <3>1. t \in Runnable
      BY <2>1 DEF Runnable
    <3>2. QED
      BY <1>1, <2>1, <3>1, ChangeReadyPriorityLemma, RunnableType, TypesOf
         DEF ReadyQueueInv
  <2>2. CASE ~TSTAT_RUNNABLE(tstat[t])
    <3>1. \A u \in Runnable : newpriority[u] = priority[u]
      BY <2>2, TypesOf DEF Runnable
    <3> HIDE DEF newpriority
    <3>2. QED
      BY <1>1, <2>2, <3>1, PriorityFrameLemma, TypesOf DEF ReadyQueueInv
  <2>3. QED
    BY <2>1, <2>2
<1>6. ReadyQueueInv'
  BY <1>1, <1>4, <1>5 DEF ReadyQueueInv
<1>7. p_runtsk \in Runnable'
  BY <1>1, <1>4, InTaskFacts
<1> HIDE DEF newpriority
<1>8. QED
  BY <1>1, <1>2, <1>3, <1>5, <1>6, <1>7, TaskReturnLemma, TypesOf

----------------------------------------------------------------------------
(***************************************************************************)
(* task_sync.c                                                             *)
(***************************************************************************)
\* A wait of the running task is a TaskReturn: it is always dispatched away.
LEMMA make_waitLemma ==
  ASSUME KernelInv, TaskContext, dspflg, NEW f \in WaitFactor,
         NEW callback \in TmevtType, make_wait(f, callback),
         actque' \in [Task -> BOOLEAN], wupque' \in [Task -> BOOLEAN],
         wait_queue' \in [WaitQueue -> Seq(Task)]
  PROVE  KernelInv'
<1> DEFINE t == p_runtsk
           w == [winfo EXCEPT ![t] = IF callback = "none" THEN NoTmevtb
                                                          ELSE "tmevtb"]
<1>1. /\ tstat' = [tstat EXCEPT ![t] = TS_WAITING(f)]
      /\ sched' = make_non_runnable(sched, priority, t)
      /\ tmevt' = [tmevt EXCEPT ![t] = callback]
      /\ Dispatch(sched'.p_schedtsk, w)
      /\ UNCHANGED << priority, ctxVars, flagVars, bootVars >>
  BY DEF make_wait
<1>2. t \in Runnable /\ t \in Task /\ t = sched.p_schedtsk
  BY InTaskFacts
<1>3. TS_WAITING(f) \in TstatType /\ ~TSTAT_RUNNABLE(TS_WAITING(f))
  BY FactorLemma, WaitingLemma
<1>4. /\ sched' \in SchedType
      /\ tstat' \in [Task -> TstatType]
      /\ ReadyQueueInv'
      /\ Runnable' = Runnable \ {t}
  BY <1>1, <1>2, <1>3, LeavesReadyQueue, TypesOf
<1>5. sched'.p_schedtsk # sched.p_schedtsk
  <2>1. priority' \in [Task -> TPri]
    BY <1>1, TypesOf
  <2>2. sched'.p_schedtsk # NULL => sched'.p_schedtsk \in Runnable \ {t}
    BY <1>4, <2>1, SchedtskRunnableNext
  <2>3. QED
    BY <1>2, <2>2, NullAssumption
<1>6. w \in [Task -> WinfoType] /\ tmevt' \in [Task -> TmevtType]
  BY <1>1, TypesOf DEF WinfoType, NoTmevtb, ZERO
<1> HIDE DEF w
<1>7. TaskReturn(w)
  BY <1>1, <1>5 DEF TaskReturn, DispatchRequired
<1>8. priority' \in [Task -> TPri]
  BY <1>1, TypesOf
<1>9. QED
  BY <1>4, <1>6, <1>7, <1>8, TaskReturnLemma

LEMMA slp_tskStep ==
  ASSUME KernelInv, NEW callback \in {"none", "wait_tmout"}, slp_tsk(callback)
  PROVE  KernelInv'
<1>1. TaskContext /\ dspflg /\ UNCHANGED << actque, wait_queue >>
  BY DEF slp_tsk, CanDispatch, InTask
<1>2. CASE wupque[p_runtsk]
  <2>1. /\ wupque' = [wupque EXCEPT ![p_runtsk] = FALSE]
        /\ UNCHANGED << sched, tstat, priority, winfo, tmevt, p_runtsk,
                        flagVars, ctxVars, bootVars >>
    BY <1>2 DEF slp_tsk
  <2>2. TypeOK'
    BY <1>1, <2>1 DEF KernelInv, TypeOK, flagVars, ctxVars, bootVars
  <2>3. QED
    BY <2>1, <2>2, FrameLemma
<1>3. CASE ~wupque[p_runtsk]
  <2>1. make_wait("SLP", callback) /\ UNCHANGED wupque
    BY <1>3 DEF slp_tsk
  <2>2. "SLP" \in WaitFactor /\ callback \in TmevtType
    BY DEF WaitFactor, TmevtType
  <2>3. QED
    BY <1>1, <2>1, <2>2, make_waitLemma, TypesOf
<1>4. QED
  BY <1>2, <1>3

LEMMA dly_tskStep ==
  ASSUME KernelInv, dly_tsk
  PROVE  KernelInv'
<1>1. /\ TaskContext /\ dspflg /\ make_wait("DLY", "wait_tmout_ok")
      /\ UNCHANGED << actque, wupque, wait_queue >>
  BY DEF dly_tsk, CanDispatch, InTask, queVars
<1>2. "DLY" \in WaitFactor /\ "wait_tmout_ok" \in TmevtType
  BY DEF WaitFactor, TmevtType
<1>3. QED
  BY <1>1, <1>2, make_waitLemma, TypesOf

\* A task that sleeps waits.
LEMMA SleepWaits ==
  ASSUME KernelInv, NEW t \in Task, TSTAT_WAIT_SLP(tstat[t])
  PROVE  TSTAT_WAITING(tstat[t])
<1>1. "SLP" \in tstat[t]
  BY DEF TSTAT_WAIT_SLP
<1>2. tstat[t] \notin {TS_DORMANT, TS_RUNNABLE, TS_SUSPENDED}
  BY <1>1 DEF TS_DORMANT, TS_RUNNABLE, TS_SUSPENDED
<1>3. tstat[t] \in TstatType
  BY TypesOf
<1>4. PICK f \in WaitFactor : \/ tstat[t] = TS_WAITING(f)
                              \/ tstat[t] = TS_WAITING(f) \cup TS_SUSPENDED
  BY <1>2, <1>3, TstatCases
<1>5. QED
  BY <1>4, WaitingLemma

LEMMA WakeupLemma ==
  ASSUME KernelInv, NEW t \in Task, Wakeup(t), priority' = priority
  PROVE  /\ sched' \in SchedType /\ tstat' \in [Task -> TstatType]
         /\ ReadyQueueInv' /\ wupque' \in [Task -> BOOLEAN]
         /\ tmevt' \in [Task -> TmevtType]
         /\ WakeupWinfo(t) \in [Task -> WinfoType]
         /\ Runnable \subseteq Runnable'
<1>1. WakeupWinfo(t) \in [Task -> WinfoType]
  BY TypesOf DEF WakeupWinfo, wait_complete_winfo, WinfoType, E_OK
<1>2. CASE WakesUp(t)
  <2>1. wait_dequeue_tmevtb(t, winfo) /\ make_non_wait(t) /\ UNCHANGED wupque
    BY <1>2 DEF Wakeup, wait_complete
  <2>2. TSTAT_WAITING(tstat[t])
    BY <1>2, SleepWaits DEF WakesUp
  <2>3. QED
    BY <1>1, <2>1, <2>2, MakeNonWaitLemma, wait_dequeue_tmevtbType, TypesOf
<1>3. CASE ~WakesUp(t)
  <2>1. wupque' = [wupque EXCEPT ![t] = TRUE] /\ UNCHANGED << sched, tstat, tmevt >>
    BY <1>3 DEF Wakeup
  <2>2. QED
    BY <1>1, <2>1, SchedFrame, TypesOf
<1>4. QED
  BY <1>2, <1>3

LEMMA wup_tskStep ==
  ASSUME KernelInv, NEW t \in Task, wup_tsk(t)
  PROVE  KernelInv'
<1>1. /\ TaskContext /\ Wakeup(t) /\ TaskReturn(WakeupWinfo(t))
      /\ UNCHANGED << priority, actque, wait_queue >>
  BY DEF wup_tsk, InTask
<1>2. p_runtsk \in Runnable'
  BY <1>1, WakeupLemma, InTaskFacts
<1>3. QED
  BY <1>1, <1>2, WakeupLemma, TaskReturnLemma, TypesOf

LEMMA iwup_tskStep ==
  ASSUME KernelInv, NEW t \in Task, iwup_tsk(t)
  PROVE  KernelInv'
<1>1. /\ InInterrupt /\ Wakeup(t) /\ IntReturn(WakeupWinfo(t))
      /\ UNCHANGED << priority, actque, wait_queue >>
  BY DEF iwup_tsk
<1>2. QED
  BY <1>1, WakeupLemma, IntReturnLemma, TypesOf

LEMMA can_wupStep ==
  ASSUME KernelInv, NEW t \in Task, can_wup(t)
  PROVE  KernelInv'
<1>1. TypeOK'
  BY DEF KernelInv, TypeOK, can_wup, flagVars, ctxVars, bootVars
<1>2. QED
  BY <1>1, FrameLemma DEF can_wup

LEMMA wait_releaseLemma ==
  ASSUME KernelInv, NEW t \in Task, TSTAT_WAITING(tstat[t]), wait_release(t),
         priority' = priority
  PROVE  /\ sched' \in SchedType /\ tstat' \in [Task -> TstatType]
         /\ ReadyQueueInv' /\ tmevt' \in [Task -> TmevtType]
         /\ wait_queue' \in [WaitQueue -> Seq(Task)]
         /\ wait_release_winfo(t) \in [Task -> WinfoType]
         /\ Runnable \subseteq Runnable'
<1>1. /\ wait_dequeue_wobj(t) /\ wait_dequeue_tmevtb(t, winfo)
      /\ make_non_wait(t)
  BY DEF wait_release
<1>2. wait_release_winfo(t) \in [Task -> WinfoType]
  BY TypesOf DEF wait_release_winfo, WinfoType
<1>3. QED
  BY <1>1, <1>2, MakeNonWaitLemma, wait_dequeue_wobjType,
     wait_dequeue_tmevtbType, TypesOf

LEMMA rel_waiStep ==
  ASSUME KernelInv, NEW t \in Task, rel_wai(t)
  PROVE  KernelInv'
<1>1. /\ TaskContext /\ TSTAT_WAITING(tstat[t]) /\ wait_release(t)
      /\ TaskReturn(wait_release_winfo(t))
      /\ UNCHANGED << priority, actque, wupque >>
  BY DEF rel_wai, InTask, queVars
<1>2. p_runtsk \in Runnable'
  BY <1>1, wait_releaseLemma, InTaskFacts
<1>3. QED
  BY <1>1, <1>2, wait_releaseLemma, TaskReturnLemma, TypesOf

LEMMA irel_waiStep ==
  ASSUME KernelInv, NEW t \in Task, irel_wai(t)
  PROVE  KernelInv'
<1>1. /\ InInterrupt /\ TSTAT_WAITING(tstat[t]) /\ wait_release(t)
      /\ IntReturn(wait_release_winfo(t))
      /\ UNCHANGED << priority, actque, wupque >>
  BY DEF irel_wai, queVars
<1>2. QED
  BY <1>1, wait_releaseLemma, IntReturnLemma, TypesOf

LEMMA sus_tskStep ==
  ASSUME KernelInv, NEW t \in Task, sus_tsk(t)
  PROVE  KernelInv'
<1>1. /\ TaskContext /\ ~(t = p_runtsk /\ ~dspflg) /\ TaskReturn(winfo)
      /\ UNCHANGED << priority, actque, wupque, tmevt, wait_queue >>
  BY DEF sus_tsk, InTask, queVars
<1>2. p_runtsk \in Runnable
  BY <1>1, InTaskFacts
<1>3. CASE TSTAT_RUNNABLE(tstat[t])
  <2>1. /\ tstat' = [tstat EXCEPT ![t] = TS_SUSPENDED]
        /\ sched' = make_non_runnable(sched, priority, t)
    BY <1>3, TstatExclusion, TypesOf DEF sus_tsk
  <2>2. t \in Runnable
    BY <1>3 DEF Runnable
  <2>3. /\ sched' \in SchedType
        /\ tstat' \in [Task -> TstatType]
        /\ ReadyQueueInv'
        /\ Runnable' = Runnable \ {t}
    BY <1>1, <2>1, <2>2, LeavesReadyQueue, TstatLemma, TypesOf
  <2>4. dspflg \/ p_runtsk \in Runnable'
    BY <1>1, <1>2, <2>3
  <2>5. QED
    BY <1>1, <2>3, <2>4, TaskReturnLemma, TypesOf
<1>4. CASE ~TSTAT_RUNNABLE(tstat[t])
  <2>1. /\ TSTAT_WAITING(tstat[t]) /\ ~TSTAT_SUSPENDED(tstat[t])
        /\ tstat' = [tstat EXCEPT ![t] = tstat[t] \cup TS_SUSPENDED]
        /\ sched' = sched
    BY <1>4 DEF sus_tsk
  <2>2. /\ tstat[t] \cup TS_SUSPENDED \in TstatType
        /\ ~TSTAT_RUNNABLE(tstat[t] \cup TS_SUSPENDED)
        /\ t \notin Runnable
    BY <1>4, <2>1, TstatExclusion, TypesOf DEF Runnable
  <2>3. /\ sched' \in SchedType
        /\ tstat' \in [Task -> TstatType]
        /\ ReadyQueueInv'
        /\ Runnable' = Runnable
    BY <1>1, <2>1, <2>2, StaysOffReadyQueue, TypesOf
  <2>4. QED
    BY <1>1, <1>2, <2>3, TaskReturnLemma, TypesOf
<1>5. QED
  BY <1>3, <1>4

LEMMA rsm_tskStep ==
  ASSUME KernelInv, NEW t \in Task, rsm_tsk(t)
  PROVE  KernelInv'
<1>1. /\ TaskContext /\ TSTAT_SUSPENDED(tstat[t]) /\ TaskReturn(winfo)
      /\ UNCHANGED << priority, actque, wupque, tmevt, wait_queue >>
  BY DEF rsm_tsk, InTask, queVars
<1>2. p_runtsk \in Runnable
  BY <1>1, InTaskFacts
<1>3. t \notin Runnable
  BY <1>1, TstatExclusion, TypesOf DEF Runnable
<1>4. CASE ~TSTAT_WAITING(tstat[t])
  <2>1. /\ tstat' = [tstat EXCEPT ![t] = TS_RUNNABLE]
        /\ sched' = make_runnable(sched, priority, t)
    BY <1>4 DEF rsm_tsk
  <2>2. /\ sched' \in SchedType
        /\ tstat' \in [Task -> TstatType]
        /\ ReadyQueueInv'
        /\ Runnable' = Runnable \cup {t}
    BY <1>1, <1>3, <2>1, EntersReadyQueue, TypesOf
  <2>3. QED
    BY <1>1, <1>2, <2>2, TaskReturnLemma, TypesOf
<1>5. CASE TSTAT_WAITING(tstat[t])
  <2>1. /\ tstat' = [tstat EXCEPT ![t] = tstat[t] \ TS_SUSPENDED]
        /\ sched' = sched
    BY <1>5 DEF rsm_tsk
  <2>2. /\ tstat[t] \ TS_SUSPENDED \in TstatType
        /\ ~TSTAT_RUNNABLE(tstat[t] \ TS_SUSPENDED)
    BY <1>1, <1>5, TstatExclusion, TypesOf
  <2>3. /\ sched' \in SchedType
        /\ tstat' \in [Task -> TstatType]
        /\ ReadyQueueInv'
        /\ Runnable' = Runnable
    BY <1>1, <1>3, <2>1, <2>2, StaysOffReadyQueue, TypesOf
  <2>4. QED
    BY <1>1, <1>2, <2>3, TaskReturnLemma, TypesOf
<1>6. QED
  BY <1>4, <1>5

----------------------------------------------------------------------------
(***************************************************************************)
(* sys_manage.c, interrupt.c and prc_support.S                             *)
(***************************************************************************)
LEMMA RotateLemma ==
  ASSUME KernelInv, NEW pri \in TPri, sched' = rotate_ready_queue(sched, pri),
         UNCHANGED << tstat, priority >>
  PROVE  sched' \in SchedType /\ ReadyQueueInv' /\ Runnable' = Runnable
<1>1. Runnable' = Runnable
  BY DEF Runnable
<1>2. QED
  BY <1>1, RotateReadyQueueLemma, RunnableType, TypesOf DEF ReadyQueueInv

LEMMA rot_rdqStep ==
  ASSUME KernelInv, NEW pri \in TPri, rot_rdq(pri)
  PROVE  KernelInv'
<1>1. /\ TaskContext /\ sched' = rotate_ready_queue(sched, pri)
      /\ TaskReturn(winfo)
      /\ UNCHANGED << tstat, priority, actque, wupque, tmevt, wait_queue >>
  BY DEF rot_rdq, InTask, queVars
<1>2. sched' \in SchedType /\ ReadyQueueInv' /\ Runnable' = Runnable
  BY <1>1, RotateLemma
<1>3. QED
  BY <1>1, <1>2, InTaskFacts, TaskReturnLemma, TypesOf

LEMMA irot_rdqStep ==
  ASSUME KernelInv, NEW pri \in TPri, irot_rdq(pri)
  PROVE  KernelInv'
<1>1. /\ InInterrupt /\ sched' = rotate_ready_queue(sched, pri)
      /\ IntReturn(winfo)
      /\ UNCHANGED << tstat, priority, actque, wupque, tmevt, wait_queue >>
  BY DEF irot_rdq, queVars
<1>2. sched' \in SchedType /\ ReadyQueueInv' /\ Runnable' = Runnable
  BY <1>1, RotateLemma
<1>3. QED
  BY <1>1, <1>2, IntReturnLemma, TypesOf

\* loc_cpu and unl_cpu change no variable that DispatchInv reads.
LEMMA CpulockLemma ==
  ASSUME KernelInv, cpulock' \in BOOLEAN,
         UNCHANGED << sched, tstat, priority, queVars, winfo, tmevt, wait_queue,
                      p_runtsk, flagVars, reqflg, nest, bootVars >>
  PROVE  KernelInv'
<1>1. UNCHANGED << actque, wupque, ipmflg, disdsp, dspflg, kerflg, tskini >>
  BY DEF queVars, flagVars, bootVars
<1>2. TypeOK'
  BY <1>1 DEF KernelInv, TypeOK
<1>3. ReadyQueueInv' /\ Runnable' = Runnable
  BY SchedFrame DEF KernelInv
<1>4. DispatchInv' /\ BootInv'
  BY <1>1, <1>3 DEF KernelInv, DispatchInv, DspflgInv, RunningInv,
     DispatchedInv, RequestInv, MaskInv, IdleInv, BootInv, TaskContext
<1>5. QED
  BY <1>2, <1>3, <1>4 DEF KernelInv

LEMMA loc_cpuStep ==
  ASSUME KernelInv, loc_cpu
  PROVE  KernelInv'
BY CpulockLemma DEF loc_cpu

LEMMA unl_cpuStep ==
  ASSUME KernelInv, unl_cpu
  PROVE  KernelInv'
BY CpulockLemma DEF unl_cpu

\* Raising a flag that holds dispatching back.
LEMMA HoldLemma ==
  ASSUME KernelInv, TaskContext, dspflg' = FALSE,
         ipmflg' \in BOOLEAN, disdsp' \in BOOLEAN, DspflgInv',
         UNCHANGED << sched, tstat, priority, queVars, winfo, tmevt, wait_queue,
                      p_runtsk, ctxVars, bootVars >>
  PROVE  KernelInv'
<1>1. UNCHANGED << actque, wupque, reqflg, cpulock, nest, kerflg, tskini >>
  BY DEF queVars, ctxVars, bootVars
<1>2. TypeOK'
  BY <1>1 DEF KernelInv, TypeOK
<1>3. ReadyQueueInv' /\ Runnable' = Runnable
  BY SchedFrame DEF KernelInv
<1>4. kerflg /\ ~reqflg /\ p_runtsk \in Runnable /\ p_runtsk # NULL
  BY InTaskFacts
<1>5. DispatchInv' /\ BootInv'
  BY <1>1, <1>3, <1>4 DEF DispatchInv, RunningInv, DispatchedInv, RequestInv,
     MaskInv, IdleInv, BootInv
<1>6. QED
  BY <1>2, <1>3, <1>5 DEF KernelInv

LEMMA dis_dspStep ==
  ASSUME KernelInv, dis_dsp
  PROVE  KernelInv'
<1>1. DspflgInv'
  BY DEF dis_dsp, DspflgInv
<1>2. ipmflg' \in BOOLEAN
  BY DEF dis_dsp, KernelInv, TypeOK
<1>3. QED
  BY <1>1, <1>2, HoldLemma DEF dis_dsp, InTask

\* Lowering it, with the dispatch that was held back.
LEMMA ReleaseLemma ==
  ASSUME KernelInv, TaskContext, dspflg' = TRUE, DispatchPending,
         ipmflg' = TRUE, disdsp' = FALSE,
         UNCHANGED << sched, tstat, priority, queVars, tmevt, wait_queue,
                      ctxVars, bootVars >>
  PROVE  KernelInv'
<1>1. UNCHANGED << actque, wupque, reqflg, cpulock, nest, kerflg, tskini >>
  BY DEF queVars, ctxVars, bootVars
<1>2. winfo' \in [Task -> WinfoType] /\ p_runtsk' = sched.p_schedtsk
  BY DispatchType, TypesOf DEF DispatchPending
<1>3. TypeOK'
  <2>1. sched.p_schedtsk \in Task \cup {NULL}
    BY TypesOf DEF SchedType
  <2>2. QED
    BY <1>1, <1>2, <2>1 DEF KernelInv, TypeOK
<1>4. kerflg /\ nest = 0 /\ ~reqflg
  BY InTaskFacts
<1>5. DspflgInv'
  BY DEF DspflgInv
<1>6. QED
  BY <1>1, <1>2, <1>3, <1>4, <1>5, DispatchLemma

LEMMA ena_dspStep ==
  ASSUME KernelInv, ena_dsp
  PROVE  KernelInv'
<1>1. /\ TaskContext /\ disdsp' = FALSE
      /\ IF ipmflg THEN dspflg' = TRUE /\ DispatchPending
                   ELSE UNCHANGED << dspflg, p_runtsk, winfo >>
      /\ UNCHANGED << sched, tstat, priority, queVars, tmevt, wait_queue,
                      ipmflg, ctxVars, bootVars >>
  BY DEF ena_dsp, InTask
<1>2. dspflg = (ipmflg /\ ~disdsp) /\ ipmflg \in BOOLEAN
  BY DEF KernelInv, DispatchInv, DspflgInv, TypeOK
<1>3. CASE ipmflg
  <2>1. ipmflg' = TRUE
    BY <1>1, <1>2, <1>3
  <2>2. QED
    BY <1>1, <1>3, <2>1, ReleaseLemma
<1>4. CASE ~ipmflg
  <2>1. dspflg' = FALSE /\ ipmflg' \in BOOLEAN
    BY <1>1, <1>2, <1>4
  <2>2. DspflgInv'
    BY <1>1, <1>4, <2>1 DEF DspflgInv
  <2>3. QED
    BY <1>1, <1>4, <2>1, <2>2, HoldLemma
<1>5. QED
  BY <1>3, <1>4

LEMMA chg_ipmStep ==
  ASSUME KernelInv, NEW enaall \in BOOLEAN, chg_ipm(enaall)
  PROVE  KernelInv'
<1>1. /\ TaskContext /\ ipmflg' = enaall
      /\ IF enaall
           THEN IF ~disdsp THEN dspflg' = TRUE /\ DispatchPending
                           ELSE UNCHANGED << dspflg, p_runtsk, winfo >>
           ELSE dspflg' = FALSE /\ UNCHANGED << p_runtsk, winfo >>
      /\ UNCHANGED << sched, tstat, priority, queVars, tmevt, wait_queue,
                      disdsp, ctxVars, bootVars >>
  BY DEF chg_ipm, InTask
<1>2. dspflg = (ipmflg /\ ~disdsp) /\ disdsp \in BOOLEAN
  BY DEF KernelInv, DispatchInv, DspflgInv, TypeOK
<1>3. CASE enaall /\ ~disdsp
  <2>1. ipmflg' = TRUE /\ disdsp' = FALSE
    BY <1>1, <1>2, <1>3
  <2>2. QED
    BY <1>1, <1>3, <2>1, ReleaseLemma
<1>4. CASE ~(enaall /\ ~disdsp)
  <2>1. dspflg' = FALSE /\ disdsp' \in BOOLEAN /\ UNCHANGED << p_runtsk, winfo >>
    BY <1>1, <1>2, <1>4
  <2>2. DspflgInv'
    BY <1>1, <1>4, <2>1 DEF DspflgInv
  <2>3. QED
    BY <1>1, <2>1, <2>2, HoldLemma
<1>5. QED
  BY <1>3, <1>4

LEMMA core_int_entryStep ==
  ASSUME KernelInv, core_int_entry
  PROVE  KernelInv'
<1>1. /\ kerflg /\ nest < MaxNest /\ nest' = nest + 1
      /\ UNCHANGED << sched, tstat, priority, actque, wupque, winfo, tmevt,
                      wait_queue, p_runtsk, ipmflg, disdsp, dspflg, reqflg,
                      cpulock, kerflg, tskini >>
  BY DEF core_int_entry, queVars, flagVars, bootVars
<1>2. nest \in Nat /\ nest' \in 0 .. MaxNest /\ nest' # 0
  BY <1>1, NestAssumption DEF KernelInv, TypeOK
<1>3. TypeOK'
  BY <1>1, <1>2 DEF KernelInv, TypeOK
<1>4. ReadyQueueInv' /\ Runnable' = Runnable
  BY <1>1, SchedFrame DEF KernelInv
<1>5. DispatchInv' /\ BootInv'
  BY <1>1, <1>2, <1>4 DEF KernelInv, DispatchInv, DspflgInv, RunningInv,
     DispatchedInv, RequestInv, MaskInv, IdleInv, BootInv, TaskContext
<1>6. QED
  BY <1>3, <1>4, <1>5 DEF KernelInv

LEMMA ret_intStep ==
  ASSUME KernelInv, ret_int
  PROVE  KernelInv'
<1>1. /\ nest' = nest - 1
      /\ UNCHANGED << sched, tstat, priority, actque, wupque, tmevt,
                      wait_queue, ipmflg, disdsp, dspflg, cpulock, kerflg,
                      tskini >>
  BY DEF ret_int, queVars, flagVars, bootVars
<1>2. kerflg /\ nest > 0 /\ nest \in Nat
  BY InInterruptFacts DEF ret_int
<1>3. nest' \in 0 .. MaxNest /\ nest' \in Nat
  BY <1>1, <1>2, NestAssumption DEF KernelInv, TypeOK
<1>4. ReadyQueueInv' /\ Runnable' = Runnable
  BY <1>1, SchedFrame DEF KernelInv
<1>5. DspflgInv'
  BY <1>1 DEF KernelInv, DispatchInv, DspflgInv
<1>6. CASE nest = 1 /\ p_runtsk # NULL /\ reqflg
  <2>1. reqflg' = FALSE
    BY <1>6 DEF ret_int
  <2>2. CASE dspflg
    <3>1. DispatchPending
      BY <1>6, <2>2 DEF ret_int
    <3>2. winfo' \in [Task -> WinfoType] /\ p_runtsk' = sched.p_schedtsk
      BY <3>1, DispatchType, TypesOf DEF DispatchPending
    <3>3. sched.p_schedtsk \in Task \cup {NULL}
      BY TypesOf DEF SchedType
    <3>4. TypeOK'
      BY <1>1, <1>3, <2>1, <3>2, <3>3 DEF KernelInv, TypeOK
    <3>5. QED
      BY <1>1, <1>2, <1>3, <1>5, <2>1, <2>2, <3>2, <3>4, DispatchLemma
  <2>3. CASE ~dspflg
    <3>1. UNCHANGED << p_runtsk, winfo >>
      BY <1>6, <2>3 DEF ret_int
    <3>2. TypeOK'
      BY <1>1, <1>3, <2>1, <3>1 DEF KernelInv, TypeOK
    <3>3. DispatchInv' /\ BootInv'
      BY <1>1, <1>2, <1>4, <1>5, <1>6, <2>1, <2>3, <3>1
         DEF KernelInv, DispatchInv, RunningInv, DispatchedInv, RequestInv,
             MaskInv, IdleInv, BootInv
    <3>4. QED
      BY <1>4, <3>2, <3>3 DEF KernelInv
  <2>4. QED
    BY <2>2, <2>3
<1>7. CASE ~(nest = 1 /\ p_runtsk # NULL /\ reqflg)
  <2>1. UNCHANGED << reqflg, p_runtsk, winfo >>
    BY <1>7 DEF ret_int
  <2>2. TypeOK'
    BY <1>1, <1>3, <2>1 DEF KernelInv, TypeOK
  <2>3. RunningInv' /\ RequestInv' /\ MaskInv' /\ IdleInv' /\ BootInv'
    BY <1>1, <1>2, <1>4, <2>1 DEF KernelInv, DispatchInv, RunningInv,
       RequestInv, MaskInv, IdleInv, BootInv
  <2>4. DispatchedInv'
    <3> SUFFICES ASSUME TaskContext'
                 PROVE  (dspflg' => p_runtsk' = sched'.p_schedtsk) /\ ~reqflg'
      BY DEF DispatchedInv
    <3>1. nest = 1 /\ p_runtsk # NULL
      BY <1>1, <1>2, <2>1 DEF TaskContext
    <3>2. ~reqflg
      BY <1>7, <3>1
    <3>3. QED
      BY <1>1, <1>2, <2>1, <3>2 DEF KernelInv, DispatchInv, RequestInv
  <2>5. QED
    BY <1>4, <1>5, <2>2, <2>3, <2>4 DEF KernelInv, DispatchInv
<1>8. QED
  BY <1>6, <1>7

LEMMA dispatcher_idleStep ==
  ASSUME KernelInv, dispatcher_idle
  PROVE  KernelInv'
<1>1. /\ kerflg /\ nest = 0 /\ p_runtsk = NULL /\ reqflg' = FALSE
      /\ Dispatch(sched.p_schedtsk, winfo)
      /\ UNCHANGED << sched, tstat, priority, actque, wupque, tmevt,
                      wait_queue, ipmflg, disdsp, dspflg, cpulock, nest, kerflg,
                      tskini >>
  BY DEF dispatcher_idle, queVars, flagVars, bootVars
<1>2. winfo' \in [Task -> WinfoType] /\ p_runtsk' = sched.p_schedtsk
  BY <1>1, DispatchType, TypesOf
<1>3. sched.p_schedtsk \in Task \cup {NULL}
  BY TypesOf DEF SchedType
<1>4. TypeOK'
  BY <1>1, <1>2, <1>3 DEF KernelInv, TypeOK
<1>5. DspflgInv' /\ dspflg
  BY <1>1 DEF KernelInv, DispatchInv, DspflgInv, IdleInv
<1>6. QED
  BY <1>1, <1>2, <1>4, <1>5, DispatchLemma

\* A task with a time event is waiting: the part of TimerInv that the
\* callbacks rely on.
LEMMA TmoutLemma ==
  ASSUME KernelInv, NEW t \in Task, TSTAT_WAITING(tstat[t]), InInterrupt,
         tmevt' = [tmevt EXCEPT ![t] = "none"], make_non_wait(t),
         NEW e \in WinfoType, IntReturn([winfo EXCEPT ![t] = e]),
         wait_queue' \in [WaitQueue -> Seq(Task)],
         UNCHANGED << priority, actque, wupque >>
  PROVE  KernelInv'
<1>1. tmevt' \in [Task -> TmevtType]
  BY TypesOf DEF TmevtType
<1>2. [winfo EXCEPT ![t] = e] \in [Task -> WinfoType]
  BY TypesOf
<1>3. QED
  BY <1>1, <1>2, MakeNonWaitLemma, IntReturnLemma, TypesOf

----------------------------------------------------------------------------
(***************************************************************************)
(* The waiting tasks' WINFO and time events.                               *)
(***************************************************************************)
\* TimerInv and WinfoInv of one task, for given values of the variables, so
\* that they can be stated before the dispatch at the end of a call.
WaitAt(t, ts, w, ev) ==
  /\ (ev[t] # "none") <=> (TSTAT_WAITING(ts[t]) /\ w[t] = "tmevtb")
  /\ IF TSTAT_WAITING(ts[t]) THEN w[t] \in {NoTmevtb, "tmevtb"}
                             ELSE w[t] # "tmevtb"

WaitProp(ts, w, ev) == \A t \in Task : WaitAt(t, ts, w, ev)

LEMMA WaitInvDef == WaitInv <=> WaitProp(tstat, winfo, tmevt)
BY DEF WaitInv, TimerInv, WinfoInv, WaitProp, WaitAt

\* The dispatch to a task that does not wait.
LEMMA WaitDispatchLemma ==
  ASSUME NEW w \in [Task -> WinfoType], NEW t \in Task \cup {NULL},
         t # NULL => t \in Runnable', tstat' \in [Task -> TstatType],
         WaitProp(tstat', w, tmevt'), Dispatch(t, w)
  PROVE  WaitInv'
<1>1. winfo' = [x \in Task |-> IF x = t THEN "none" ELSE w[x]]
  BY DEF Dispatch
<1>2. ASSUME NEW u \in Task PROVE WaitAt(u, tstat', winfo', tmevt')
  <2>1. WaitAt(u, tstat', w, tmevt')
    BY DEF WaitProp
  <2>2. CASE u # t
    BY <1>1, <2>1, <2>2 DEF WaitAt
  <2>3. CASE u = t
    <3>1. ~TSTAT_WAITING(tstat'[u])
      BY <2>3, TstatExclusion, NullAssumption DEF Runnable
    <3>2. QED
      BY <1>1, <2>1, <2>3, <3>1 DEF WaitAt
  <2>4. QED
    BY <2>2, <2>3
<1>3. QED
  BY <1>2, WaitInvDef DEF WaitInv, TimerInv, WinfoInv, WaitAt

LEMMA WaitTaskReturnLemma ==
  ASSUME KernelInv', NEW w \in [Task -> WinfoType], TaskReturn(w),
         WaitProp(tstat', w, tmevt')
  PROVE  WaitInv'
<1>1. /\ sched'.p_schedtsk \in Task \cup {NULL}
      /\ sched'.p_schedtsk # NULL => sched'.p_schedtsk \in Runnable'
      /\ tstat' \in [Task -> TstatType]
  BY SchedtskRunnableNext DEF KernelInv, TypeOK, SchedType
<1>2. CASE DispatchRequired
  BY <1>1, <1>2, WaitDispatchLemma DEF TaskReturn
<1>3. CASE ~DispatchRequired
  <2>1. winfo' = w
    BY <1>3 DEF TaskReturn
  <2>2. QED
    BY <2>1 DEF WaitProp, WaitAt, WaitInv, TimerInv, WinfoInv
<1>4. QED
  BY <1>2, <1>3

LEMMA WaitIntReturnLemma ==
  ASSUME NEW w, IntReturn(w), WaitProp(tstat', w, tmevt')
  PROVE  WaitInv'
BY DEF IntReturn, WaitProp, WaitAt, WaitInv, TimerInv, WinfoInv

\* The step begins and ends no wait.
SameWaits ==
  \A t \in Task : TSTAT_WAITING(tstat'[t]) <=> TSTAT_WAITING(tstat[t])

LEMMA WaitFrameLemma ==
  ASSUME WaitInv, SameWaits, tmevt' = tmevt
  PROVE  WaitProp(tstat', winfo, tmevt')
<1>1. \A t \in Task : WaitAt(t, tstat, winfo, tmevt)
  BY WaitInvDef DEF WaitProp
<1>2. QED
  BY <1>1 DEF WaitProp, WaitAt, SameWaits

\* wait_dequeue_tmevtb unregisters the time event of a waiting task if it has
\* one, so that its word can take the error code.
LEMMA WaitEndLemma ==
  ASSUME KernelInv, WaitInv, NEW t \in Task, TSTAT_WAITING(tstat[t]),
         wait_dequeue_tmevtb(t, winfo), NEW e, e # "tmevtb",
         NEW ts \in TstatType, ~TSTAT_WAITING(ts),
         tstat' = [tstat EXCEPT ![t] = ts]
  PROVE  WaitProp(tstat', [winfo EXCEPT ![t] = e], tmevt')
<1>1. WaitAt(t, tstat, winfo, tmevt)
  BY WaitInvDef DEF WaitProp
<1>2. tmevt'[t] = "none"
  BY <1>1, TypesOf DEF wait_dequeue_tmevtb, WaitAt, NoTmevtb, ZERO
<1>3. WaitAt(t, tstat', [winfo EXCEPT ![t] = e], tmevt')
  BY <1>2, TypesOf DEF WaitAt
<1>4. \A u \in Task \ {t} : /\ tstat'[u] = tstat[u] /\ tmevt'[u] = tmevt[u]
                            /\ [winfo EXCEPT ![t] = e][u] = winfo[u]
  BY TypesOf DEF wait_dequeue_tmevtb
<1>5. WaitProp(tstat, winfo, tmevt)
  BY WaitInvDef
<1> DEFINE w == [winfo EXCEPT ![t] = e]
<1> HIDE DEF w
<1>6. ASSUME NEW u \in Task PROVE WaitAt(u, tstat', w, tmevt')
  <2>1. CASE u = t
    BY <1>3, <2>1 DEF w
  <2>2. CASE u # t
    BY <1>4, <1>5, <2>2 DEF WaitProp, WaitAt, w
  <2>3. QED
    BY <2>1, <2>2
<1>7. QED
  BY <1>6 DEF WaitProp, w

\* The callback runs when the time event is already unregistered.
LEMMA WaitTmoutLemma ==
  ASSUME KernelInv, WaitInv, NEW t \in Task,
         tmevt' = [tmevt EXCEPT ![t] = "none"], NEW e, e # "tmevtb",
         NEW ts \in TstatType, ~TSTAT_WAITING(ts),
         tstat' = [tstat EXCEPT ![t] = ts]
  PROVE  WaitProp(tstat', [winfo EXCEPT ![t] = e], tmevt')
<1>1. WaitAt(t, tstat', [winfo EXCEPT ![t] = e], tmevt')
  BY TypesOf DEF WaitAt
<1>2. \A u \in Task \ {t} : /\ tstat'[u] = tstat[u] /\ tmevt'[u] = tmevt[u]
                            /\ [winfo EXCEPT ![t] = e][u] = winfo[u]
  BY TypesOf
<1>3. WaitProp(tstat, winfo, tmevt)
  BY WaitInvDef
<1> DEFINE w == [winfo EXCEPT ![t] = e]
<1> HIDE DEF w
<1>4. ASSUME NEW u \in Task PROVE WaitAt(u, tstat', w, tmevt')
  <2>1. CASE u = t
    BY <1>1, <2>1 DEF w
  <2>2. CASE u # t
    BY <1>2, <1>3, <2>2 DEF WaitProp, WaitAt, w
  <2>3. QED
    BY <2>1, <2>2
<1>5. QED
  BY <1>4 DEF WaitProp, w

LEMMA make_non_waitState ==
  ASSUME NEW t \in Task, make_non_wait(t)
  PROVE  \E ts \in TstatType : /\ ~TSTAT_WAITING(ts)
                               /\ tstat' = [tstat EXCEPT ![t] = ts]
BY TstatLemma DEF make_non_wait

LEMMA WaitKeepLemma ==
  ASSUME WaitInv, SameWaits, UNCHANGED << winfo, tmevt >>
  PROVE  WaitInv'
BY WaitFrameLemma DEF SameWaits, WaitProp, WaitAt, WaitInv, TimerInv, WinfoInv

LEMMA SameWaitsFrame ==
  ASSUME UNCHANGED tstat
  PROVE  SameWaits
BY DEF SameWaits

LEMMA ActivateWaits ==
  ASSUME KernelInv, NEW t \in Task, Activate(t)
  PROVE  SameWaits
<1>1. CASE TSTAT_DORMANT(tstat[t])
  <2>1. tstat' = [tstat EXCEPT ![t] = TS_RUNNABLE]
    BY <1>1 DEF Activate, make_active
  <2>2. ~TSTAT_WAITING(tstat[t])
    BY <1>1, TstatLemma DEF TSTAT_DORMANT
  <2>3. QED
    BY <2>1, <2>2, TstatLemma, TypesOf DEF SameWaits
<1>2. CASE ~TSTAT_DORMANT(tstat[t])
  BY <1>2, SameWaitsFrame DEF Activate
<1>3. QED
  BY <1>1, <1>2

LEMMA SuspendWaits ==
  ASSUME KernelInv, NEW t \in Task, sus_tsk(t) \/ rsm_tsk(t)
  PROVE  SameWaits
<1>1. CASE sus_tsk(t) /\ TSTAT_RUNNABLE(tstat[t])
  <2>1. tstat' = [tstat EXCEPT ![t] = TS_SUSPENDED] /\ ~TSTAT_WAITING(tstat[t])
    BY <1>1, TstatExclusion, TypesOf DEF sus_tsk
  <2>2. QED
    BY <2>1, TstatLemma, TypesOf DEF SameWaits
<1>2. CASE sus_tsk(t) /\ ~TSTAT_RUNNABLE(tstat[t])
  <2>1. tstat' = [tstat EXCEPT ![t] = tstat[t] \cup TS_SUSPENDED]
    BY <1>2 DEF sus_tsk
  <2>2. QED
    BY <2>1, TypesOf DEF SameWaits, TSTAT_WAITING, TS_SUSPENDED
<1>3. CASE rsm_tsk(t) /\ TSTAT_WAITING(tstat[t])
  <2>1. tstat' = [tstat EXCEPT ![t] = tstat[t] \ TS_SUSPENDED]
    BY <1>3 DEF rsm_tsk
  <2>2. QED
    BY <2>1, TypesOf DEF SameWaits, TSTAT_WAITING, TS_SUSPENDED
<1>4. CASE rsm_tsk(t) /\ ~TSTAT_WAITING(tstat[t])
  <2>1. tstat' = [tstat EXCEPT ![t] = TS_RUNNABLE]
    BY <1>4 DEF rsm_tsk
  <2>2. QED
    BY <1>4, <2>1, TstatLemma, TypesOf DEF SameWaits
<1>5. QED
  BY <1>1, <1>2, <1>3, <1>4

\* The time event of a task that is no longer waiting has been unregistered,
\* and the word of its WINFO is not the pointer to it.
LEMMA TerminateWaits ==
  ASSUME KernelInv, WaitInv, NEW t \in Task, NEW s, Terminate(t, s),
         NEW w \in [Task -> WinfoType], w[t] # "tmevtb",
         \A u \in Task \ {t} : w[u] = winfo[u] /\ tmevt'[u] = tmevt[u],
         tmevt'[t] = "none"
  PROVE  WaitProp(tstat', w, tmevt')
<1>1. \/ tstat' = [tstat EXCEPT ![t] = TS_RUNNABLE]
      \/ tstat' = [tstat EXCEPT ![t] = TS_DORMANT]
  BY DEF Terminate
<1>2. ~TSTAT_WAITING(tstat'[t]) /\ \A u \in Task \ {t} : tstat'[u] = tstat[u]
  BY <1>1, TstatLemma, TypesOf
<1>3. WaitAt(t, tstat', w, tmevt')
  BY <1>2 DEF WaitAt
<1>4. ASSUME NEW u \in Task \ {t} PROVE WaitAt(u, tstat', w, tmevt')
  <2>1. WaitAt(u, tstat, winfo, tmevt)
    BY WaitInvDef DEF WaitProp
  <2>2. QED
    BY <1>2, <2>1 DEF WaitAt
<1>5. QED
  BY <1>3, <1>4 DEF WaitProp

LEMMA ext_tskWaits ==
  ASSUME KernelInv, WaitInv, ext_tsk, KernelInv'
  PROVE  WaitInv'
<1>1. /\ TaskContext /\ Dispatch(sched'.p_schedtsk, winfo) /\ tmevt' = tmevt
      /\ Terminate(p_runtsk, make_non_runnable(sched, priority, p_runtsk))
  BY DEF ext_tsk
<1>2. p_runtsk \in Task /\ p_runtsk \in Runnable
  BY <1>1, InTaskFacts
<1>3. ~TSTAT_WAITING(tstat[p_runtsk])
  BY <1>2, TstatExclusion, TypesOf DEF Runnable
<1>4. WaitAt(p_runtsk, tstat, winfo, tmevt)
  BY <1>2, WaitInvDef DEF WaitProp
<1>5. winfo[p_runtsk] # "tmevtb" /\ tmevt'[p_runtsk] = "none"
  BY <1>1, <1>3, <1>4 DEF WaitAt
<1>6. WaitProp(tstat', winfo, tmevt')
  BY <1>1, <1>2, <1>5, TerminateWaits, TypesOf
<1>7. /\ sched'.p_schedtsk \in Task \cup {NULL}
      /\ sched'.p_schedtsk # NULL => sched'.p_schedtsk \in Runnable'
      /\ tstat' \in [Task -> TstatType]
  BY SchedtskRunnableNext DEF KernelInv, TypeOK, SchedType
<1>8. QED
  BY <1>1, <1>6, <1>7, WaitDispatchLemma, TypesOf

LEMMA ter_tskWaits ==
  ASSUME KernelInv, WaitInv, NEW t \in Task, ter_tsk(t), KernelInv'
  PROVE  WaitInv'
<1> DEFINE s == IF TSTAT_RUNNABLE(tstat[t])
                  THEN make_non_runnable(sched, priority, t) ELSE sched
           w == [winfo EXCEPT ![t] = "none"]
<1>1. /\ Terminate(t, s)
      /\ IF TSTAT_WAITING(tstat[t]) THEN wait_dequeue_tmevtb(t, winfo)
                                    ELSE UNCHANGED tmevt
      /\ \/ Dispatch(sched'.p_schedtsk, w)
         \/ winfo' = w
  BY DEF ter_tsk
<1>2. WaitAt(t, tstat, winfo, tmevt)
  BY WaitInvDef DEF WaitProp
<1>3. tmevt'[t] = "none" /\ \A u \in Task \ {t} : tmevt'[u] = tmevt[u]
  BY <1>1, <1>2, TypesOf DEF WaitAt, wait_dequeue_tmevtb, NoTmevtb, ZERO
<1>4. /\ w \in [Task -> WinfoType] /\ w[t] # "tmevtb"
      /\ \A u \in Task \ {t} : w[u] = winfo[u]
  BY TypesOf DEF WinfoType
<1> HIDE DEF s, w
<1>5. WaitProp(tstat', w, tmevt')
  BY <1>1, <1>3, <1>4, TerminateWaits
<1>6. /\ sched'.p_schedtsk \in Task \cup {NULL}
      /\ sched'.p_schedtsk # NULL => sched'.p_schedtsk \in Runnable'
      /\ tstat' \in [Task -> TstatType]
  BY SchedtskRunnableNext DEF KernelInv, TypeOK, SchedType
<1>7. CASE Dispatch(sched'.p_schedtsk, w)
  BY <1>4, <1>5, <1>6, <1>7, WaitDispatchLemma
<1>8. CASE winfo' = w
  BY <1>5, <1>8 DEF WaitProp, WaitAt, WaitInv, TimerInv, WinfoInv
<1>9. QED
  BY <1>1, <1>7, <1>8

LEMMA make_waitWaits ==
  ASSUME KernelInv, WaitInv, TaskContext, NEW f \in WaitFactor,
         NEW callback \in TmevtType, make_wait(f, callback), KernelInv'
  PROVE  WaitInv'
<1> DEFINE t == p_runtsk
           w == [winfo EXCEPT ![t] = IF callback = "none" THEN NoTmevtb
                                                          ELSE "tmevtb"]
<1>1. /\ tstat' = [tstat EXCEPT ![t] = TS_WAITING(f)]
      /\ tmevt' = [tmevt EXCEPT ![t] = callback]
      /\ Dispatch(sched'.p_schedtsk, w)
  BY DEF make_wait
<1>2. t \in Task
  BY InTaskFacts
<1>3. TSTAT_WAITING(TS_WAITING(f))
  BY WaitingLemma
<1>4. w \in [Task -> WinfoType]
  BY TypesOf DEF WinfoType, NoTmevtb, ZERO
<1>5. WaitAt(t, tstat', w, tmevt')
  <2>1. tstat'[t] = TS_WAITING(f) /\ tmevt'[t] = callback
    BY <1>1, <1>2, TypesOf
  <2>2. w[t] = IF callback = "none" THEN NoTmevtb ELSE "tmevtb"
    BY <1>2, TypesOf
  <2> HIDE DEF w
  <2>3. QED
    BY <1>3, <2>1, <2>2 DEF WaitAt, NoTmevtb, ZERO
<1>6. ASSUME NEW u \in Task \ {t} PROVE WaitAt(u, tstat', w, tmevt')
  <2>1. WaitAt(u, tstat, winfo, tmevt)
    BY WaitInvDef DEF WaitProp
  <2>2. tstat'[u] = tstat[u] /\ tmevt'[u] = tmevt[u] /\ w[u] = winfo[u]
    BY <1>1, TypesOf
  <2>3. QED
    BY <2>1, <2>2 DEF WaitAt
<1>7. WaitProp(tstat', w, tmevt')
  BY <1>5, <1>6 DEF WaitProp
<1>8. /\ sched'.p_schedtsk \in Task \cup {NULL}
      /\ sched'.p_schedtsk # NULL => sched'.p_schedtsk \in Runnable'
      /\ tstat' \in [Task -> TstatType]
  BY SchedtskRunnableNext DEF KernelInv, TypeOK, SchedType
<1> HIDE DEF w
<1>9. QED
  BY <1>1, <1>4, <1>7, <1>8, WaitDispatchLemma

----------------------------------------------------------------------------
(***************************************************************************)
(* The callbacks of time events are what makes KernelInv depend on         *)
(* WaitInv: a task with a registered event is waiting.                     *)
(***************************************************************************)
LEMMA wait_tmoutStep ==
  ASSUME KernelInv, WaitInv, NEW t \in Task, wait_tmout(t) \/ wait_tmout_ok(t)
  PROVE  KernelInv' /\ WaitInv'
<1>1. tmevt[t] # "none"
  BY DEF wait_tmout, wait_tmout_ok
<1>2. TSTAT_WAITING(tstat[t])
  BY <1>1 DEF WaitInv, TimerInv
<1>3. PICK e \in {"E_TMOUT", E_OK} :
        /\ InInterrupt /\ tmevt' = [tmevt EXCEPT ![t] = "none"]
        /\ make_non_wait(t) /\ IntReturn([winfo EXCEPT ![t] = e])
        /\ UNCHANGED << priority, actque, wupque >>
        /\ wait_dequeue_wobj(t) \/ UNCHANGED wait_queue
  BY DEF wait_tmout, wait_tmout_ok, queVars
<1>4. e \in WinfoType /\ e # "tmevtb"
  BY DEF WinfoType, E_OK, ZERO
<1>5. wait_queue' \in [WaitQueue -> Seq(Task)]
  BY <1>3, wait_dequeue_wobjType, TypesOf
<1>6. KernelInv'
  BY <1>2, <1>3, <1>4, <1>5, TmoutLemma
<1>7. PICK ts \in TstatType : /\ ~TSTAT_WAITING(ts)
                              /\ tstat' = [tstat EXCEPT ![t] = ts]
  BY <1>3, make_non_waitState
<1>8. WaitProp(tstat', [winfo EXCEPT ![t] = e], tmevt')
  BY <1>3, <1>4, <1>7, WaitTmoutLemma
<1>9. WaitInv'
  BY <1>3, <1>8, WaitIntReturnLemma
<1>10. QED
  BY <1>6, <1>9

LEMMA WakeupWaits ==
  ASSUME KernelInv, WaitInv, NEW t \in Task, Wakeup(t)
  PROVE  WaitProp(tstat', WakeupWinfo(t), tmevt')
<1>1. CASE WakesUp(t)
  <2>1. /\ wait_dequeue_tmevtb(t, winfo) /\ make_non_wait(t)
        /\ WakeupWinfo(t) = [winfo EXCEPT ![t] = E_OK]
    BY <1>1 DEF Wakeup, wait_complete, WakeupWinfo, wait_complete_winfo
  <2>2. TSTAT_WAITING(tstat[t])
    BY <1>1, SleepWaits DEF WakesUp
  <2>3. PICK ts \in TstatType : /\ ~TSTAT_WAITING(ts)
                                /\ tstat' = [tstat EXCEPT ![t] = ts]
    BY <2>1, make_non_waitState
  <2>4. E_OK # "tmevtb"
    BY DEF E_OK, ZERO
  <2>5. QED
    BY <2>1, <2>2, <2>3, <2>4, WaitEndLemma
<1>2. CASE ~WakesUp(t)
  <2>1. UNCHANGED << tstat, tmevt >> /\ WakeupWinfo(t) = winfo
    BY <1>2 DEF Wakeup, WakeupWinfo
  <2>2. QED
    BY <2>1, WaitFrameLemma, SameWaitsFrame
<1>3. QED
  BY <1>1, <1>2

LEMMA wait_releaseWaits ==
  ASSUME KernelInv, WaitInv, NEW t \in Task, TSTAT_WAITING(tstat[t]),
         wait_release(t)
  PROVE  WaitProp(tstat', wait_release_winfo(t), tmevt')
<1>1. wait_dequeue_tmevtb(t, winfo) /\ make_non_wait(t)
  BY DEF wait_release
<1>2. PICK ts \in TstatType : /\ ~TSTAT_WAITING(ts)
                              /\ tstat' = [tstat EXCEPT ![t] = ts]
  BY <1>1, make_non_waitState
<1>3. QED
  BY <1>1, <1>2, WaitEndLemma DEF wait_release_winfo

\* An action that dispatches to p_schedtsk, or not at all, and leaves the
\* waits alone.
LEMMA WaitSwitchLemma ==
  ASSUME KernelInv, WaitInv, KernelInv', UNCHANGED << sched, tstat, tmevt >>,
         Dispatch(sched.p_schedtsk, winfo) \/ UNCHANGED winfo
  PROVE  WaitInv'
<1>1. CASE UNCHANGED winfo
  BY <1>1, WaitKeepLemma, SameWaitsFrame
<1>2. CASE Dispatch(sched.p_schedtsk, winfo)
  <2>1. WaitProp(tstat', winfo, tmevt')
    BY WaitFrameLemma, SameWaitsFrame
  <2>2. /\ sched.p_schedtsk \in Task \cup {NULL}
        /\ sched.p_schedtsk # NULL => sched.p_schedtsk \in Runnable'
        /\ tstat' \in [Task -> TstatType]
    BY SchedtskRunnableNext DEF KernelInv, TypeOK, SchedType
  <2>3. QED
    BY <1>2, <2>1, <2>2, WaitDispatchLemma, TypesOf
<1>3. QED
  BY <1>1, <1>2

LEMMA BootStep ==
  ASSUME KernelInv, WaitInv, Boot
  PROVE  KernelInv' /\ WaitInv'
<1>1. CASE initialize_task
  <2>1. KernelInv'
    BY <1>1, initialize_taskStep
  <2>2. UNCHANGED << winfo, tmevt >> /\ ~kerflg /\ tskini \in Nat
    BY <1>1 DEF initialize_task, KernelInv, TypeOK
  <2>3. SameWaits
    <3> DEFINE t == torder[tskini + 1]
    <3>1. tstat' = tstat \/ tstat' = [tstat EXCEPT ![t] = TS_RUNNABLE]
      BY <1>1 DEF initialize_task, make_active
    <3>2. tstat[t] = TS_DORMANT
      BY <1>1, <2>2, TorderAssumption DEF initialize_task, KernelInv, BootInv
    <3>3. QED
      BY <3>1, <3>2, TstatLemma, TypesOf DEF SameWaits
  <2>4. QED
    BY <2>1, <2>2, <2>3, WaitKeepLemma
<1>2. CASE start_dispatch
  <2>1. KernelInv'
    BY <1>2, start_dispatchStep
  <2>2. QED
    BY <1>2, <2>1, WaitSwitchLemma DEF start_dispatch
<1>3. QED
  BY <1>1, <1>2 DEF Boot

LEMMA TaskCallStep ==
  ASSUME KernelInv, WaitInv, TaskCall
  PROVE  KernelInv' /\ WaitInv'
<1>1. ASSUME NEW t \in Task, act_tsk(t) PROVE KernelInv' /\ WaitInv'
  <2>1. Activate(t) /\ TaskReturn(winfo) /\ UNCHANGED tmevt
    BY <1>1 DEF act_tsk
  <2>2. QED
    BY <1>1, <2>1, act_tskStep, ActivateWaits, WaitFrameLemma,
       WaitTaskReturnLemma, TypesOf
<1>2. ASSUME NEW t \in Task, can_act(t) PROVE KernelInv' /\ WaitInv'
  <2>1. UNCHANGED << tstat, winfo, tmevt >>
    BY <1>2 DEF can_act
  <2>2. QED
    BY <1>2, <2>1, can_actStep, WaitKeepLemma, SameWaitsFrame
<1>3. ASSUME NEW t \in Task, ter_tsk(t) PROVE KernelInv' /\ WaitInv'
  BY <1>3, ter_tskStep, ter_tskWaits
<1>4. ASSUME NEW t \in Task, wup_tsk(t) PROVE KernelInv' /\ WaitInv'
  <2>1. Wakeup(t) /\ TaskReturn(WakeupWinfo(t)) /\ UNCHANGED priority
    BY <1>4 DEF wup_tsk
  <2>2. WakeupWinfo(t) \in [Task -> WinfoType]
    BY <2>1, WakeupLemma
  <2>3. QED
    BY <1>4, <2>1, <2>2, wup_tskStep, WakeupWaits, WaitTaskReturnLemma
<1>5. ASSUME NEW t \in Task, can_wup(t) PROVE KernelInv' /\ WaitInv'
  <2>1. UNCHANGED << tstat, winfo, tmevt >>
    BY <1>5 DEF can_wup
  <2>2. QED
    BY <1>5, <2>1, can_wupStep, WaitKeepLemma, SameWaitsFrame
<1>6. ASSUME NEW t \in Task, rel_wai(t) PROVE KernelInv' /\ WaitInv'
  <2>1. /\ TSTAT_WAITING(tstat[t]) /\ wait_release(t)
        /\ TaskReturn(wait_release_winfo(t)) /\ UNCHANGED priority
    BY <1>6 DEF rel_wai
  <2>2. wait_release_winfo(t) \in [Task -> WinfoType]
    BY <2>1, wait_releaseLemma
  <2>3. QED
    BY <1>6, <2>1, <2>2, rel_waiStep, wait_releaseWaits, WaitTaskReturnLemma
<1>7. ASSUME NEW t \in Task, sus_tsk(t) PROVE KernelInv' /\ WaitInv'
  <2>1. TaskReturn(winfo) /\ UNCHANGED tmevt
    BY <1>7 DEF sus_tsk
  <2>2. QED
    BY <1>7, <2>1, sus_tskStep, SuspendWaits, WaitFrameLemma,
       WaitTaskReturnLemma, TypesOf
<1>8. ASSUME NEW t \in Task, rsm_tsk(t) PROVE KernelInv' /\ WaitInv'
  <2>1. TaskReturn(winfo) /\ UNCHANGED tmevt
    BY <1>8 DEF rsm_tsk
  <2>2. QED
    BY <1>8, <2>1, rsm_tskStep, SuspendWaits, WaitFrameLemma,
       WaitTaskReturnLemma, TypesOf
<1>9. ASSUME NEW t \in Task, NEW pri \in TPri, chg_pri(t, pri)
      PROVE  KernelInv' /\ WaitInv'
  <2>1. TaskReturn(winfo) /\ UNCHANGED << tstat, tmevt >>
    BY <1>9 DEF chg_pri
  <2>2. QED
    BY <1>9, <2>1, chg_priStep, SameWaitsFrame, WaitFrameLemma,
       WaitTaskReturnLemma, TypesOf
<1>10. ASSUME NEW pri \in TPri, rot_rdq(pri) PROVE KernelInv' /\ WaitInv'
  <2>1. TaskReturn(winfo) /\ UNCHANGED << tstat, tmevt >>
    BY <1>10 DEF rot_rdq
  <2>2. QED
    BY <1>10, <2>1, rot_rdqStep, SameWaitsFrame, WaitFrameLemma,
       WaitTaskReturnLemma, TypesOf
<1>11. ASSUME NEW callback \in {"none", "wait_tmout"}, slp_tsk(callback)
       PROVE  KernelInv' /\ WaitInv'
  <2>1. KernelInv'
    BY <1>11, slp_tskStep
  <2>2. CASE wupque[p_runtsk]
    <3>1. UNCHANGED << tstat, winfo, tmevt >>
      BY <1>11, <2>2 DEF slp_tsk
    <3>2. QED
      BY <2>1, <3>1, WaitKeepLemma, SameWaitsFrame
  <2>3. CASE ~wupque[p_runtsk]
    <3>1. TaskContext /\ make_wait("SLP", callback)
      BY <1>11, <2>3 DEF slp_tsk, CanDispatch, InTask
    <3>2. "SLP" \in WaitFactor /\ callback \in TmevtType
      BY DEF WaitFactor, TmevtType
    <3>3. QED
      BY <2>1, <3>1, <3>2, make_waitWaits
  <2>4. QED
    BY <2>2, <2>3
<1>12. ASSUME NEW enaall \in BOOLEAN, chg_ipm(enaall)
       PROVE  KernelInv' /\ WaitInv'
  <2>1. /\ UNCHANGED << sched, tstat, tmevt >>
        /\ Dispatch(sched.p_schedtsk, winfo) \/ UNCHANGED winfo
    BY <1>12 DEF chg_ipm, DispatchPending
  <2>2. QED
    BY <1>12, <2>1, chg_ipmStep, WaitSwitchLemma
<1>13. CASE ext_tsk
  BY <1>13, ext_tskStep, ext_tskWaits
<1>14. CASE dly_tsk
  <2>1. TaskContext /\ make_wait("DLY", "wait_tmout_ok")
    BY <1>14 DEF dly_tsk, CanDispatch, InTask
  <2>2. "DLY" \in WaitFactor /\ "wait_tmout_ok" \in TmevtType
    BY DEF WaitFactor, TmevtType
  <2>3. QED
    BY <1>14, <2>1, <2>2, dly_tskStep, make_waitWaits
<1>15. CASE dis_dsp
  <2>1. UNCHANGED << tstat, winfo, tmevt >>
    BY <1>15 DEF dis_dsp
  <2>2. QED
    BY <1>15, <2>1, dis_dspStep, WaitKeepLemma, SameWaitsFrame
<1>16. CASE ena_dsp
  <2>1. /\ UNCHANGED << sched, tstat, tmevt >>
        /\ Dispatch(sched.p_schedtsk, winfo) \/ UNCHANGED winfo
    BY <1>16 DEF ena_dsp, DispatchPending
  <2>2. QED
    BY <1>16, <2>1, ena_dspStep, WaitSwitchLemma
<1>17. QED
  BY <1>1, <1>2, <1>3, <1>4, <1>5, <1>6, <1>7, <1>8, <1>9, <1>10, <1>11,
     <1>12, <1>13, <1>14, <1>15, <1>16 DEF TaskCall

LEMMA IntCallStep ==
  ASSUME KernelInv, WaitInv, IntCall
  PROVE  KernelInv' /\ WaitInv'
<1>1. ASSUME NEW t \in Task, iact_tsk(t) PROVE KernelInv' /\ WaitInv'
  <2>1. Activate(t) /\ IntReturn(winfo) /\ UNCHANGED tmevt
    BY <1>1 DEF iact_tsk
  <2>2. QED
    BY <1>1, <2>1, iact_tskStep, ActivateWaits, WaitFrameLemma,
       WaitIntReturnLemma
<1>2. ASSUME NEW t \in Task, iwup_tsk(t) PROVE KernelInv' /\ WaitInv'
  <2>1. Wakeup(t) /\ IntReturn(WakeupWinfo(t))
    BY <1>2 DEF iwup_tsk
  <2>2. QED
    BY <1>2, <2>1, iwup_tskStep, WakeupWaits, WaitIntReturnLemma
<1>3. ASSUME NEW t \in Task, irel_wai(t) PROVE KernelInv' /\ WaitInv'
  <2>1. /\ TSTAT_WAITING(tstat[t]) /\ wait_release(t)
        /\ IntReturn(wait_release_winfo(t))
    BY <1>3 DEF irel_wai
  <2>2. QED
    BY <1>3, <2>1, irel_waiStep, wait_releaseWaits, WaitIntReturnLemma
<1>4. ASSUME NEW t \in Task, wait_tmout(t) \/ wait_tmout_ok(t)
      PROVE  KernelInv' /\ WaitInv'
  BY <1>4, wait_tmoutStep
<1>5. ASSUME NEW pri \in TPri, irot_rdq(pri) PROVE KernelInv' /\ WaitInv'
  <2>1. IntReturn(winfo) /\ UNCHANGED << tstat, tmevt >>
    BY <1>5 DEF irot_rdq
  <2>2. QED
    BY <1>5, <2>1, irot_rdqStep, SameWaitsFrame, WaitFrameLemma,
       WaitIntReturnLemma
<1>6. QED
  BY <1>1, <1>2, <1>3, <1>4, <1>5 DEF IntCall

LEMMA ContextStep ==
  ASSUME KernelInv, WaitInv, Context
  PROVE  KernelInv' /\ WaitInv'
<1>1. CASE loc_cpu
  <2>1. UNCHANGED << tstat, winfo, tmevt >>
    BY <1>1 DEF loc_cpu
  <2>2. QED
    BY <1>1, <2>1, loc_cpuStep, WaitKeepLemma, SameWaitsFrame
<1>2. CASE unl_cpu
  <2>1. UNCHANGED << tstat, winfo, tmevt >>
    BY <1>2 DEF unl_cpu
  <2>2. QED
    BY <1>2, <2>1, unl_cpuStep, WaitKeepLemma, SameWaitsFrame
<1>3. CASE core_int_entry
  <2>1. UNCHANGED << tstat, winfo, tmevt >>
    BY <1>3 DEF core_int_entry
  <2>2. QED
    BY <1>3, <2>1, core_int_entryStep, WaitKeepLemma, SameWaitsFrame
<1>4. CASE ret_int
  <2>1. /\ UNCHANGED << sched, tstat, tmevt >>
        /\ Dispatch(sched.p_schedtsk, winfo) \/ UNCHANGED winfo
    BY <1>4 DEF ret_int, DispatchPending
  <2>2. QED
    BY <1>4, <2>1, ret_intStep, WaitSwitchLemma
<1>5. CASE dispatcher_idle
  BY <1>5, dispatcher_idleStep, WaitSwitchLemma DEF dispatcher_idle
<1>6. QED
  BY <1>1, <1>2, <1>3, <1>4, <1>5 DEF Context

LEMMA StutterStep ==
  ASSUME KernelInv, WaitInv, UNCHANGED vars
  PROVE  KernelInv' /\ WaitInv'
<1>1. UNCHANGED << sched, tstat, priority, actque, wupque, winfo, tmevt,
                   wait_queue, p_runtsk, reqflg, ipmflg, disdsp, dspflg,
                   cpulock, nest, kerflg, tskini >>
  BY DEF vars, queVars, flagVars, ctxVars, bootVars
<1>2. TypeOK'
  BY <1>1 DEF KernelInv, TypeOK
<1>3. KernelInv'
  BY <1>1, <1>2, FrameLemma DEF flagVars, ctxVars, bootVars
<1>4. QED
  BY <1>1, <1>3, WaitKeepLemma, SameWaitsFrame

----------------------------------------------------------------------------
LEMMA InitWaits ==
  ASSUME Init
  PROVE  WaitInv
<1>1. \A t \in Task : /\ tmevt[t] = "none" /\ winfo[t] = "none"
                      /\ ~TSTAT_WAITING(tstat[t])
  BY TstatLemma DEF Init
<1>2. QED
  BY <1>1 DEF WaitInv, TimerInv, WinfoInv

\* KernelInv /\ WaitInv holds in every reachable state, whatever the number
\* of tasks, priorities and nested handlers.
THEOREM Invariance == Spec => [](KernelInv /\ WaitInv)
<1>1. Init => KernelInv /\ WaitInv
  BY InitLemma, InitWaits
<1>2. (KernelInv /\ WaitInv) /\ [Next]_vars => (KernelInv /\ WaitInv)'
  BY BootStep, TaskCallStep, IntCallStep, ContextStep, StutterStep DEF Next
<1>3. QED
  BY <1>1, <1>2, PTL DEF Spec

\* The variables keep their types (TypeOK).
THEOREM TypeCorrect == Spec => []TypeOK
BY Invariance, PTL DEF KernelInv

\* The ready queue, its bitmap and p_schedtsk always describe the runnable
\* tasks (ReadyQueueInv; make_runnable, make_non_runnable, change_priority
\* and rotate_ready_queue of task.c).
THEOREM ReadyQueueCorrect == Spec => []ReadyQueueInv
BY Invariance, PTL DEF KernelInv

\* In a task context with dispatching enabled the highest precedence task
\* runs and no dispatch request is left over; in a handler or the idle loop a
\* switch that is due is in reqflg; dspflg is what the manual says, and the
\* exits that serve a request may assume what they do (DispatchInv).
THEOREM DispatchCorrect == Spec => []DispatchInv
BY Invariance, PTL DEF KernelInv

\* Time events and WINFO unions belong to waiting tasks (WaitInv).
THEOREM TimeoutsCorrect == Spec => []WaitInv
BY Invariance, PTL

----------------------------------------------------------------------------
(***************************************************************************)
(* RequestsInv.  It is inductive together with the fact that the WINFO of  *)
(* the running task is out of scope: ext_tsk makes that task dormant.      *)
(***************************************************************************)
RunWinfoInv == p_runtsk # NULL => winfo[p_runtsk] = "none"

KernelRequests == RequestsInv /\ RunWinfoInv

\* RequestsInv of one task, for given values of the variables.
RequestAt(t, ts, pri, act, wup, w) ==
  /\ ~(wup[t] /\ TSTAT_WAIT_SLP(ts[t]))
  /\ TSTAT_DORMANT(ts[t]) =>
       ~act[t] /\ ~wup[t] /\ pri[t] = ipriority[t] /\ w[t] = "none"

LEMMA RequestsInvDef ==
  RequestsInv <=>
    \A t \in Task : RequestAt(t, tstat, priority, actque, wupque, winfo)
BY DEF RequestsInv, WakeupInv, DormantInv, RequestAt

\* The end of a call, whose WINFO unions are w before its dispatch.
EndsWith(w) ==
  \/ Dispatch(p_runtsk', w)
  \/ p_runtsk' = p_runtsk /\ winfo' = w

LEMMA TaskReturnEnds ==
  ASSUME NEW w, TaskReturn(w)
  PROVE  EndsWith(w)
<1>1. CASE DispatchRequired
  BY <1>1 DEF TaskReturn, EndsWith, Dispatch
<1>2. CASE ~DispatchRequired
  BY <1>2 DEF TaskReturn, EndsWith
<1>3. QED
  BY <1>1, <1>2

LEMMA IntReturnEnds ==
  ASSUME NEW w, IntReturn(w)
  PROVE  EndsWith(w)
BY DEF IntReturn, EndsWith

LEMMA RequestsEnd ==
  ASSUME TypeOK', NEW w, EndsWith(w),
         \A t \in Task : RequestAt(t, tstat', priority', actque', wupque', w),
         p_runtsk # NULL => \/ p_runtsk \in Task /\ w[p_runtsk] = "none"
                            \/ Dispatch(p_runtsk', w)
  PROVE  KernelRequests'
<1>1. p_runtsk' \in Task \cup {NULL}
  BY DEF TypeOK
<1>2. CASE Dispatch(p_runtsk', w)
  <2>1. winfo' = [x \in Task |-> IF x = p_runtsk' THEN "none" ELSE w[x]]
    BY <1>2 DEF Dispatch
  <2>2. \A t \in Task :
          RequestAt(t, tstat', priority', actque', wupque', winfo')
    BY <2>1 DEF RequestAt
  <2>3. RunWinfoInv'
    BY <1>1, <2>1 DEF RunWinfoInv
  <2>4. QED
    BY <2>2, <2>3 DEF KernelRequests, RequestsInv, WakeupInv, DormantInv,
                      RequestAt
<1>3. CASE ~Dispatch(p_runtsk', w)
  <2>1. p_runtsk' = p_runtsk /\ winfo' = w
    BY <1>3 DEF EndsWith
  <2>2. RunWinfoInv'
    BY <1>3, <2>1 DEF RunWinfoInv
  <2>3. QED
    BY <2>1, <2>2 DEF KernelRequests, RequestsInv, WakeupInv, DormantInv,
                      RequestAt
<1>4. QED
  BY <1>2, <1>3

\* The call changes the fields of one task, t, only.
OnlyTask(t, w) ==
  \A u \in Task \ {t} :
    /\ tstat'[u] = tstat[u] /\ priority'[u] = priority[u]
    /\ actque'[u] = actque[u] /\ wupque'[u] = wupque[u] /\ w[u] = winfo[u]

LEMMA OneTaskRequests ==
  ASSUME KernelInv, KernelInv', KernelRequests, NEW t \in Task, NEW w,
         OnlyTask(t, w),
         RequestAt(t, tstat', priority', actque', wupque', w),
         \/ EndsWith(w) /\ w[t] = winfo[t]
         \/ EndsWith(w) /\ t # p_runtsk
         \/ Dispatch(p_runtsk', w)
  PROVE  KernelRequests'
<1>1. ASSUME NEW u \in Task
      PROVE  RequestAt(u, tstat', priority', actque', wupque', w)
  <2>1. CASE u = t
    BY <2>1
  <2>2. CASE u # t
    <3>1. RequestAt(u, tstat, priority, actque, wupque, winfo)
      BY RequestsInvDef DEF KernelRequests
    <3>2. QED
      BY <2>2, <3>1 DEF OnlyTask, RequestAt
  <2>3. QED
    BY <2>1, <2>2
<1>2. EndsWith(w)
  BY DEF EndsWith
<1>3. p_runtsk \in Task \cup {NULL}
  BY DEF KernelInv, TypeOK
<1>4. p_runtsk # NULL => \/ p_runtsk \in Task /\ w[p_runtsk] = "none"
                         \/ Dispatch(p_runtsk', w)
  BY <1>3 DEF KernelRequests, RunWinfoInv, OnlyTask
<1>5. QED
  BY <1>1, <1>2, <1>4, RequestsEnd DEF KernelInv

\* The call changes none of the fields.
LEMMA SameRequests ==
  ASSUME KernelInv, KernelInv', KernelRequests, EndsWith(winfo),
         UNCHANGED << tstat, priority, actque, wupque >>
  PROVE  KernelRequests'
<1>1. \A t \in Task :
        RequestAt(t, tstat', priority', actque', wupque', winfo)
  BY RequestsInvDef DEF KernelRequests, RequestAt
<1>2. p_runtsk # NULL => p_runtsk \in Task /\ winfo[p_runtsk] = "none"
  BY DEF KernelRequests, RunWinfoInv, KernelInv, TypeOK
<1>3. QED
  BY <1>1, <1>2, RequestsEnd DEF KernelInv

\* The task waits for its end: runnable or suspended, and not the running one.
LEMMA WakingRequests ==
  ASSUME KernelInv, KernelInv', KernelRequests, NEW t \in Task,
         TSTAT_WAITING(tstat[t]), make_non_wait(t), NEW e,
         EndsWith([winfo EXCEPT ![t] = e]),
         UNCHANGED << priority, actque, wupque >>
  PROVE  KernelRequests'
<1> DEFINE w == [winfo EXCEPT ![t] = e]
<1>1. PICK ts \in {TS_RUNNABLE, TS_SUSPENDED} :
        tstat' = [tstat EXCEPT ![t] = ts]
  BY DEF make_non_wait
<1>2. ~TSTAT_WAIT_SLP(ts) /\ ~TSTAT_DORMANT(ts)
  BY DEF TSTAT_WAIT_SLP, TSTAT_DORMANT, TS_DORMANT, TS_RUNNABLE, TS_SUSPENDED
<1>3. tstat'[t] = ts /\ OnlyTask(t, w)
  BY <1>1, TypesOf DEF OnlyTask
<1>4. RequestAt(t, tstat', priority', actque', wupque', w)
  BY <1>2, <1>3 DEF RequestAt
<1>5. t # p_runtsk
  <2>1. ~TSTAT_RUNNABLE(tstat[t])
    BY TstatExclusion, TypesOf
  <2>2. QED
    BY <2>1, NullAssumption DEF KernelInv, DispatchInv, RunningInv, Runnable
<1> HIDE DEF w
<1>6. EndsWith(w)
  BY DEF w
<1>7. QED
  BY <1>3, <1>4, <1>5, <1>6, OneTaskRequests

LEMMA ActivateRequests ==
  ASSUME KernelInv, KernelInv', KernelRequests, NEW t \in Task, Activate(t),
         EndsWith(winfo), UNCHANGED << priority, wupque >>
  PROVE  KernelRequests'
<1>1. CASE TSTAT_DORMANT(tstat[t])
  <2>1. tstat' = [tstat EXCEPT ![t] = TS_RUNNABLE] /\ actque' = actque
    BY <1>1 DEF Activate, make_active
  <2>2. tstat'[t] = TS_RUNNABLE /\ OnlyTask(t, winfo)
    BY <2>1, TypesOf DEF OnlyTask
  <2>3. RequestAt(t, tstat', priority', actque', wupque', winfo)
    BY <2>2 DEF RequestAt, TSTAT_WAIT_SLP, TSTAT_DORMANT, TS_DORMANT,
                TS_RUNNABLE
  <2>4. QED
    BY <2>2, <2>3, OneTaskRequests
<1>2. CASE ~TSTAT_DORMANT(tstat[t])
  <2>1. tstat' = tstat /\ actque' = [actque EXCEPT ![t] = TRUE]
    BY <1>2 DEF Activate
  <2>2. OnlyTask(t, winfo)
    BY <2>1, TypesOf DEF OnlyTask
  <2>3. RequestAt(t, tstat, priority, actque, wupque, winfo)
    BY RequestsInvDef DEF KernelRequests
  <2>4. RequestAt(t, tstat', priority', actque', wupque', winfo)
    BY <1>2, <2>1, <2>3 DEF RequestAt
  <2>5. QED
    BY <2>2, <2>4, OneTaskRequests
<1>3. QED
  BY <1>1, <1>2

LEMMA WakeupRequests ==
  ASSUME KernelInv, KernelInv', KernelRequests, NEW t \in Task, Wakeup(t),
         EndsWith(WakeupWinfo(t)), UNCHANGED << priority, actque >>
  PROVE  KernelRequests'
<1>1. CASE WakesUp(t)
  <2>1. /\ make_non_wait(t) /\ UNCHANGED wupque
        /\ WakeupWinfo(t) = [winfo EXCEPT ![t] = E_OK]
    BY <1>1 DEF Wakeup, wait_complete, WakeupWinfo, wait_complete_winfo
  <2>2. TSTAT_WAITING(tstat[t])
    BY <1>1, SleepWaits DEF WakesUp
  <2>3. EndsWith([winfo EXCEPT ![t] = E_OK])
    BY <2>1
  <2>4. QED
    BY <2>1, <2>2, <2>3, WakingRequests
<1>2. CASE ~WakesUp(t)
  <2>1. /\ ~TSTAT_WAIT_SLP(tstat[t]) /\ ~TSTAT_DORMANT(tstat[t])
        /\ wupque' = [wupque EXCEPT ![t] = TRUE] /\ UNCHANGED tstat
        /\ EndsWith(winfo)
    BY <1>2 DEF Wakeup, WakesUp, WakeupWinfo
  <2>2. OnlyTask(t, winfo)
    BY <2>1, TypesOf DEF OnlyTask
  <2>3. RequestAt(t, tstat', priority', actque', wupque', winfo)
    BY <2>1 DEF RequestAt
  <2>4. QED
    BY <2>1, <2>2, <2>3, OneTaskRequests
<1>3. QED
  BY <1>1, <1>2

\* make_dormant resets every field; a queued activation finds them so.
LEMMA TerminateRequests ==
  ASSUME KernelInv, KernelInv', KernelRequests, NEW t \in Task, NEW s,
         Terminate(t, s), NEW w, w[t] = "none",
         \A u \in Task \ {t} : w[u] = winfo[u],
         \/ EndsWith(w) /\ t # p_runtsk
         \/ Dispatch(p_runtsk', w)
  PROVE  KernelRequests'
<1>1. /\ priority' = [priority EXCEPT ![t] = ipriority[t]]
      /\ wupque' = [wupque EXCEPT ![t] = FALSE]
      /\ actque' = [actque EXCEPT ![t] = FALSE]
      /\ \/ tstat' = [tstat EXCEPT ![t] = TS_RUNNABLE]
         \/ tstat' = [tstat EXCEPT ![t] = TS_DORMANT]
  BY DEF Terminate
<1>2. OnlyTask(t, w)
  BY <1>1, TypesOf DEF OnlyTask
<1>3. priority'[t] = ipriority[t] /\ ~wupque'[t] /\ ~actque'[t]
  BY <1>1, TypesOf
<1>4. RequestAt(t, tstat', priority', actque', wupque', w)
  BY <1>3 DEF RequestAt
<1>5. QED
  BY <1>2, <1>4, OneTaskRequests

LEMMA make_waitRequests ==
  ASSUME KernelInv, KernelInv', KernelRequests, TaskContext,
         NEW f \in WaitFactor, NEW callback, make_wait(f, callback),
         UNCHANGED << actque, wupque >>, f = "SLP" => ~wupque[p_runtsk]
  PROVE  KernelRequests'
<1> DEFINE t == p_runtsk
           w == [winfo EXCEPT ![t] = IF callback = "none" THEN NoTmevtb
                                                          ELSE "tmevtb"]
<1>1. /\ tstat' = [tstat EXCEPT ![t] = TS_WAITING(f)] /\ UNCHANGED priority
      /\ Dispatch(sched'.p_schedtsk, w)
  BY DEF make_wait
<1>2. t \in Task
  BY InTaskFacts
<1>3. tstat'[t] = TS_WAITING(f) /\ OnlyTask(t, w)
  BY <1>1, <1>2, TypesOf DEF OnlyTask
<1>4. RequestAt(t, tstat', priority', actque', wupque', w)
  <2>1. TSTAT_WAIT_SLP(TS_WAITING(f)) => f = "SLP"
    BY DEF TSTAT_WAIT_SLP, TS_WAITING
  <2>2. ~TSTAT_DORMANT(TS_WAITING(f))
    BY WaitingLemma DEF TSTAT_DORMANT
  <2>3. QED
    BY <1>3, <2>1, <2>2 DEF RequestAt
<1> HIDE DEF w
<1>5. Dispatch(p_runtsk', w)
  BY <1>1 DEF Dispatch
<1>6. QED
  BY <1>2, <1>3, <1>4, <1>5, OneTaskRequests

\* A suspension and its end neither begin nor end a sleep or an activation.
LEMMA SuspendRequests ==
  ASSUME KernelInv, KernelInv', KernelRequests, NEW t \in Task,
         sus_tsk(t) \/ rsm_tsk(t)
  PROVE  KernelRequests'
<1>1. PICK ts : /\ tstat' = [tstat EXCEPT ![t] = ts] /\ ts # {}
                /\ "SLP" \in ts => "SLP" \in tstat[t]
  <2>1. TS_SUSPENDED # {} /\ "SLP" \notin TS_SUSPENDED
        /\ TS_RUNNABLE # {} /\ "SLP" \notin TS_RUNNABLE
    BY DEF TS_SUSPENDED, TS_RUNNABLE
  <2>2. CASE sus_tsk(t)
    BY <2>1, <2>2 DEF sus_tsk
  <2>3. CASE rsm_tsk(t)
    <3>1. TSTAT_WAITING(tstat[t]) => tstat[t] \ TS_SUSPENDED # {}
      BY DEF TSTAT_WAITING, TS_SUSPENDED
    <3>2. QED
      BY <2>1, <2>3, <3>1 DEF rsm_tsk
  <2>4. QED
    BY <2>2, <2>3
<1>2. tstat'[t] = ts /\ OnlyTask(t, winfo)
  BY <1>1, TypesOf DEF OnlyTask, sus_tsk, rsm_tsk, queVars
<1>3. RequestAt(t, tstat, priority, actque, wupque, winfo)
  BY RequestsInvDef DEF KernelRequests
<1>4. UNCHANGED wupque
  BY DEF sus_tsk, rsm_tsk, queVars
<1>5. RequestAt(t, tstat', priority', actque', wupque', winfo)
  BY <1>1, <1>2, <1>3, <1>4 DEF RequestAt, TSTAT_WAIT_SLP, TSTAT_DORMANT,
                                TS_DORMANT
<1>6. EndsWith(winfo)
  BY TaskReturnEnds DEF sus_tsk, rsm_tsk
<1>7. QED
  BY <1>2, <1>5, <1>6, OneTaskRequests

LEMMA BootRequests ==
  ASSUME KernelInv, KernelInv', KernelRequests, Boot
  PROVE  KernelRequests'
<1>1. CASE initialize_task
  <2> DEFINE t == torder[tskini + 1]
  <2>1. /\ UNCHANGED << priority, actque, wupque, winfo, p_runtsk >>
        /\ \/ UNCHANGED tstat
           \/ tstat' = [tstat EXCEPT ![t] = TS_RUNNABLE]
    BY <1>1 DEF initialize_task, make_active, queVars
  <2>2. EndsWith(winfo)
    BY <2>1 DEF EndsWith
  <2>3. t \in Task
    BY <1>1, TorderAssumption DEF initialize_task, KernelInv, TypeOK
  <2>4. CASE UNCHANGED tstat
    BY <2>1, <2>2, <2>4, SameRequests
  <2>5. CASE tstat' = [tstat EXCEPT ![t] = TS_RUNNABLE]
    <3> HIDE DEF t
    <3>1. tstat'[t] = TS_RUNNABLE /\ OnlyTask(t, winfo)
      BY <2>1, <2>3, <2>5, TypesOf DEF OnlyTask
    <3>2. RequestAt(t, tstat', priority', actque', wupque', winfo)
      BY <3>1 DEF RequestAt, TSTAT_WAIT_SLP, TSTAT_DORMANT, TS_DORMANT,
                  TS_RUNNABLE
    <3>3. QED
      BY <2>2, <2>3, <3>1, <3>2, OneTaskRequests
  <2>6. QED
    BY <2>1, <2>4, <2>5
<1>2. CASE start_dispatch
  <2>1. EndsWith(winfo) /\ UNCHANGED << tstat, priority, actque, wupque >>
    BY <1>2 DEF start_dispatch, EndsWith, Dispatch, queVars
  <2>2. QED
    BY <2>1, SameRequests
<1>3. QED
  BY <1>1, <1>2 DEF Boot

LEMMA chg_priRequests ==
  ASSUME KernelInv, KernelInv', KernelRequests, NEW t \in Task,
         NEW pri \in TPri, chg_pri(t, pri)
  PROVE  KernelRequests'
<1>1. /\ ~TSTAT_DORMANT(tstat[t]) /\ priority' = [priority EXCEPT ![t] = pri]
      /\ UNCHANGED << tstat, actque, wupque >>
      /\ TaskReturn(winfo)
  BY DEF chg_pri, queVars
<1>2. OnlyTask(t, winfo)
  BY <1>1, TypesOf DEF OnlyTask
<1>3. RequestAt(t, tstat, priority, actque, wupque, winfo)
  BY RequestsInvDef DEF KernelRequests
<1>4. RequestAt(t, tstat', priority', actque', wupque', winfo)
  BY <1>1, <1>3 DEF RequestAt
<1>5. EndsWith(winfo)
  BY <1>1, TaskReturnEnds
<1>6. QED
  BY <1>2, <1>4, <1>5, OneTaskRequests

\* can_act and can_wup forget a request.
LEMMA CancelRequests ==
  ASSUME KernelInv, KernelInv', KernelRequests, NEW t \in Task,
         \/ actque' = [actque EXCEPT ![t] = FALSE] /\ UNCHANGED wupque
         \/ wupque' = [wupque EXCEPT ![t] = FALSE] /\ UNCHANGED actque,
         UNCHANGED << tstat, priority, winfo, p_runtsk >>
  PROVE  KernelRequests'
<1>1. OnlyTask(t, winfo)
  BY TypesOf DEF OnlyTask
<1>2. /\ actque'[t] => actque[t]
      /\ wupque'[t] => wupque[t]
  BY TypesOf
<1>3. RequestAt(t, tstat, priority, actque, wupque, winfo)
  BY RequestsInvDef DEF KernelRequests
<1>4. RequestAt(t, tstat', priority', actque', wupque', winfo)
  BY <1>2, <1>3 DEF RequestAt
<1>5. EndsWith(winfo)
  BY DEF EndsWith
<1>6. QED
  BY <1>1, <1>4, <1>5, OneTaskRequests

LEMMA ter_tskRequests ==
  ASSUME KernelInv, KernelInv', KernelRequests, NEW t \in Task, ter_tsk(t)
  PROVE  KernelRequests'
<1> DEFINE s == IF TSTAT_RUNNABLE(tstat[t])
                  THEN make_non_runnable(sched, priority, t) ELSE sched
           w == [winfo EXCEPT ![t] = "none"]
<1>1. /\ Terminate(t, s) /\ t # p_runtsk
      /\ \/ Dispatch(sched'.p_schedtsk, w)
         \/ p_runtsk' = p_runtsk /\ winfo' = w
  BY DEF ter_tsk
<1>2. w[t] = "none" /\ \A u \in Task \ {t} : w[u] = winfo[u]
  BY TypesOf
<1> HIDE DEF s, w
<1>3. EndsWith(w)
  BY <1>1 DEF EndsWith, Dispatch
<1>4. QED
  BY <1>1, <1>2, <1>3, TerminateRequests

LEMMA ext_tskRequests ==
  ASSUME KernelInv, KernelInv', KernelRequests, ext_tsk
  PROVE  KernelRequests'
<1>1. /\ TaskContext /\ Dispatch(sched'.p_schedtsk, winfo)
      /\ Terminate(p_runtsk, make_non_runnable(sched, priority, p_runtsk))
  BY DEF ext_tsk
<1>2. p_runtsk \in Task /\ winfo[p_runtsk] = "none"
  BY <1>1, InTaskFacts DEF KernelRequests, RunWinfoInv
<1>3. Dispatch(p_runtsk', winfo)
  BY <1>1 DEF Dispatch
<1>4. QED
  BY <1>1, <1>2, <1>3, TerminateRequests

LEMMA slp_tskRequests ==
  ASSUME KernelInv, KernelInv', KernelRequests, NEW callback,
         slp_tsk(callback)
  PROVE  KernelRequests'
<1>1. TaskContext /\ UNCHANGED actque
  BY DEF slp_tsk, CanDispatch, InTask
<1>2. CASE wupque[p_runtsk]
  <2>1. /\ wupque' = [wupque EXCEPT ![p_runtsk] = FALSE]
        /\ UNCHANGED << tstat, priority, winfo, p_runtsk >>
    BY <1>2 DEF slp_tsk
  <2>2. QED
    BY <1>1, <2>1, CancelRequests, InTaskFacts
<1>3. CASE ~wupque[p_runtsk]
  <2>1. make_wait("SLP", callback) /\ UNCHANGED wupque
    BY <1>3 DEF slp_tsk
  <2>2. "SLP" \in WaitFactor
    BY DEF WaitFactor
  <2>3. QED
    BY <1>1, <1>3, <2>1, <2>2, make_waitRequests
<1>4. QED
  BY <1>2, <1>3

LEMMA TaskCallRequests ==
  ASSUME KernelInv, KernelInv', KernelRequests, TaskCall
  PROVE  KernelRequests'
<1>1. ASSUME NEW t \in Task, act_tsk(t) PROVE KernelRequests'
  BY <1>1, ActivateRequests, TaskReturnEnds DEF act_tsk
<1>2. ASSUME NEW t \in Task, can_act(t) \/ can_wup(t) PROVE KernelRequests'
  BY <1>2, CancelRequests DEF can_act, can_wup
<1>3. ASSUME NEW t \in Task, wup_tsk(t) PROVE KernelRequests'
  BY <1>3, WakeupRequests, TaskReturnEnds DEF wup_tsk
<1>4. ASSUME NEW t \in Task, rel_wai(t) PROVE KernelRequests'
  <2>1. /\ TSTAT_WAITING(tstat[t]) /\ make_non_wait(t)
        /\ UNCHANGED << priority, actque, wupque >>
        /\ TaskReturn([winfo EXCEPT ![t] = "E_RLWAI"])
    BY <1>4 DEF rel_wai, wait_release, wait_release_winfo, queVars
  <2>2. QED
    BY <2>1, WakingRequests, TaskReturnEnds
<1>5. ASSUME NEW pri \in TPri, rot_rdq(pri) PROVE KernelRequests'
  BY <1>5, SameRequests, TaskReturnEnds DEF rot_rdq, queVars
<1>6. ASSUME NEW enaall \in BOOLEAN, chg_ipm(enaall) PROVE KernelRequests'
  <2>1. EndsWith(winfo)
    BY <1>6 DEF chg_ipm, DispatchPending, EndsWith, Dispatch
  <2>2. QED
    BY <1>6, <2>1, SameRequests DEF chg_ipm, queVars
<1>7. CASE dly_tsk
  <2>1. TaskContext /\ make_wait("DLY", "wait_tmout_ok")
    BY <1>7 DEF dly_tsk, CanDispatch, InTask
  <2>2. "DLY" \in WaitFactor
    BY DEF WaitFactor
  <2>3. QED
    BY <1>7, <2>1, <2>2, make_waitRequests DEF dly_tsk, queVars
<1>8. CASE dis_dsp
  <2>1. EndsWith(winfo)
    BY <1>8 DEF dis_dsp, EndsWith
  <2>2. QED
    BY <1>8, <2>1, SameRequests DEF dis_dsp, queVars
<1>9. CASE ena_dsp
  <2>1. EndsWith(winfo)
    BY <1>9 DEF ena_dsp, DispatchPending, EndsWith, Dispatch
  <2>2. QED
    BY <1>9, <2>1, SameRequests DEF ena_dsp, queVars
<1>10. QED
  BY <1>1, <1>2, <1>3, <1>4, <1>5, <1>6, <1>7, <1>8, <1>9, ter_tskRequests,
     SuspendRequests, chg_priRequests, slp_tskRequests, ext_tskRequests
     DEF TaskCall

LEMMA IntCallRequests ==
  ASSUME KernelInv, WaitInv, KernelInv', KernelRequests, IntCall
  PROVE  KernelRequests'
<1>1. ASSUME NEW t \in Task, iact_tsk(t) PROVE KernelRequests'
  BY <1>1, ActivateRequests, IntReturnEnds DEF iact_tsk
<1>2. ASSUME NEW t \in Task, iwup_tsk(t) PROVE KernelRequests'
  BY <1>2, WakeupRequests, IntReturnEnds DEF iwup_tsk
<1>3. ASSUME NEW t \in Task, irel_wai(t) PROVE KernelRequests'
  <2>1. /\ TSTAT_WAITING(tstat[t]) /\ make_non_wait(t)
        /\ UNCHANGED << priority, actque, wupque >>
        /\ IntReturn([winfo EXCEPT ![t] = "E_RLWAI"])
    BY <1>3 DEF irel_wai, wait_release, wait_release_winfo, queVars
  <2>2. QED
    BY <2>1, WakingRequests, IntReturnEnds
<1>4. ASSUME NEW t \in Task, wait_tmout(t) \/ wait_tmout_ok(t)
      PROVE  KernelRequests'
  <2>1. PICK e : /\ make_non_wait(t) /\ IntReturn([winfo EXCEPT ![t] = e])
                 /\ UNCHANGED << priority, actque, wupque >>
    BY <1>4 DEF wait_tmout, wait_tmout_ok, queVars
  <2>2. TSTAT_WAITING(tstat[t])
    BY <1>4 DEF wait_tmout, wait_tmout_ok, WaitInv, TimerInv
  <2>3. QED
    BY <2>1, <2>2, WakingRequests, IntReturnEnds
<1>5. ASSUME NEW pri \in TPri, irot_rdq(pri) PROVE KernelRequests'
  BY <1>5, SameRequests, IntReturnEnds DEF irot_rdq, queVars
<1>6. QED
  BY <1>1, <1>2, <1>3, <1>4, <1>5 DEF IntCall

LEMMA ContextRequests ==
  ASSUME KernelInv, KernelInv', KernelRequests, Context \/ UNCHANGED vars
  PROVE  KernelRequests'
<1>1. UNCHANGED << tstat, priority, actque, wupque >>
  BY DEF Context, loc_cpu, unl_cpu, core_int_entry, ret_int, dispatcher_idle,
         vars, queVars
<1>2. EndsWith(winfo)
  <2>1. CASE ret_int
    BY <2>1 DEF ret_int, DispatchPending, EndsWith, Dispatch
  <2>2. CASE dispatcher_idle
    BY <2>2 DEF dispatcher_idle, EndsWith, Dispatch
  <2>3. CASE loc_cpu \/ unl_cpu \/ core_int_entry \/ UNCHANGED vars
    BY <2>3 DEF loc_cpu, unl_cpu, core_int_entry, vars, EndsWith
  <2>4. QED
    BY <2>1, <2>2, <2>3 DEF Context
<1>3. QED
  BY <1>1, <1>2, SameRequests

LEMMA InitRequests ==
  ASSUME Init
  PROVE  KernelRequests
<1>1. RunWinfoInv
  BY DEF Init, RunWinfoInv
<1>2. \A t \in Task : RequestAt(t, tstat, priority, actque, wupque, winfo)
  BY DEF Init, RequestAt
<1>3. QED
  BY <1>1, <1>2, RequestsInvDef DEF KernelRequests

\* No wakeup and no activation is lost or left over: a task never sleeps with
\* a wakeup queued, and a dormant task's fields have their initial values
\* (RequestsInv; slp_tsk, wup_tsk, ext_tsk, ter_tsk, make_dormant).
THEOREM RequestsCorrect == Spec => []RequestsInv
<1>1. Init => KernelRequests
  BY InitRequests
<1>2. KernelInv /\ WaitInv /\ KernelInv' /\ KernelRequests /\ [Next]_vars
        => KernelRequests'
  BY BootRequests, TaskCallRequests, IntCallRequests, ContextRequests DEF Next
<1>3. KernelRequests => RequestsInv
  BY DEF KernelRequests
<1>4. QED
  BY <1>1, <1>2, <1>3, Invariance, PTL DEF Spec

----------------------------------------------------------------------------
(***************************************************************************)
(* Queues of different tasks.                                              *)
(***************************************************************************)
Ordered(q, pri) ==
  \A i, j \in 1 .. Len(q) : i < j => pri[q[i]] <= pri[q[j]]

LEMMA DeleteMembers ==
  ASSUME NEW q \in Seq(Task), NEW t, NoDuplicates(q)
  PROVE  /\ QueueDelete(q, t) \in Seq(Task)
         /\ NoDuplicates(QueueDelete(q, t))
         /\ Members(QueueDelete(q, t)) = Members(q) \ {t}
<1>1. CASE t \in Members(q)
  BY <1>1, QueueDeleteLemma
<1>2. CASE t \notin Members(q)
  BY <1>2 DEF QueueDelete
<1>3. QED
  BY <1>1, <1>2

\* The others keep their order, also when t gets another priority.
LEMMA DeleteOrdered ==
  ASSUME NEW q \in Seq(Task), NEW t, NoDuplicates(q),
         NEW pri \in [Task -> TPri], NEW new \in [Task -> TPri],
         Ordered(q, pri), \A u \in Members(q) \ {t} : new[u] = pri[u]
  PROVE  Ordered(QueueDelete(q, t), new)
<1> DEFINE d == QueueDelete(q, t)
<1>1. CASE t \notin Members(q)
  <2>1. d = q /\ \A i \in 1 .. Len(q) : q[i] \in Members(q) \ {t}
    BY <1>1 DEF QueueDelete, Members
  <2>2. QED
    BY <2>1 DEF Ordered
<1>2. CASE t \in Members(q)
  <2> DEFINE p == Position(q, t)
             k(i) == IF i < p THEN i ELSE i + 1
  <2>1. p \in 1 .. Len(q) /\ q[p] = t
    BY <1>2, PositionIsIndex
  <2>2. d = [i \in 1 .. Len(q) - 1 |-> IF i < p THEN q[i] ELSE q[i + 1]]
    BY <1>2 DEF QueueDelete
  <2>3. Len(q) \in Nat /\ Len(d) = Len(q) - 1
    BY <1>2, QueueDeleteLemma
  <2> HIDE DEF p, d
  <2>4. ASSUME NEW i \in 1 .. Len(d)
        PROVE  /\ k(i) \in 1 .. Len(q) /\ d[i] = q[k(i)]
               /\ new[q[k(i)]] = pri[q[k(i)]]
    <3>1. k(i) \in 1 .. Len(q) /\ d[i] = q[k(i)] /\ k(i) # p
      BY <2>1, <2>2, <2>3
    <3>2. q[k(i)] \in Members(q) \ {t}
      BY <2>1, <3>1 DEF Members, NoDuplicates
    <3>3. QED
      BY <3>1, <3>2
  <2>5. ASSUME NEW i \in 1 .. Len(d), NEW j \in 1 .. Len(d), i < j
        PROVE  new[d[i]] <= new[d[j]]
    <3>1. k(i) < k(j)
      BY <2>1, <2>3, <2>5
    <3>2. pri[q[k(i)]] <= pri[q[k(j)]]
      BY <2>4, <3>1 DEF Ordered
    <3>3. QED
      BY <2>4, <3>2
  <2>6. QED
    BY <2>5 DEF Ordered, d
<1>3. QED
  BY <1>1, <1>2

LEMMA InsertTpriLemma ==
  ASSUME NEW q \in Seq(Task), NEW t \in Task, NoDuplicates(q),
         t \notin Members(q), NEW pri \in [Task -> TPri], Ordered(q, pri)
  PROVE  /\ QueueInsertTpri(q, pri, t) \in Seq(Task)
         /\ NoDuplicates(QueueInsertTpri(q, pri, t))
         /\ Members(QueueInsertTpri(q, pri, t)) = Members(q) \cup {t}
         /\ Ordered(QueueInsertTpri(q, pri, t), pri)
<1> DEFINE p == TpriPosition(q, pri, t)
           n == QueueInsertTpri(q, pri, t)
<1>1. /\ p \in 1 .. Len(q) + 1
      /\ \A j \in 1 .. p - 1 : ~(pri[t] < pri[q[j]])
      /\ p <= Len(q) => pri[t] < pri[q[p]]
  BY TpriPositionLemma
<1>2. n = [i \in 1 .. Len(q) + 1 |->
             IF i < p THEN q[i] ELSE IF i = p THEN t ELSE q[i - 1]]
  BY DEF QueueInsertTpri
<1>3. Len(q) \in Nat /\ \A i \in 1 .. Len(q) : q[i] \in Task /\ q[i] # t
  BY DEF Members
<1>4. n \in Seq(Task)
  BY QueueInsertTpriType
<1> HIDE DEF p, n
<1>5. Len(n) = Len(q) + 1
  BY <1>2, <1>3, <1>4
<1>6. /\ \A i \in 1 .. p - 1 : i \in 1 .. Len(q) /\ n[i] = q[i]
      /\ n[p] = t
      /\ \A i \in p + 1 .. Len(n) : i - 1 \in 1 .. Len(q) /\ n[i] = q[i - 1]
  BY <1>1, <1>2, <1>3, <1>5
<1>7. NoDuplicates(n)
  BY <1>1, <1>2, <1>3, <1>5 DEF NoDuplicates
<1>8. Members(n) = Members(q) \cup {t}
  <2>1. ASSUME NEW x \in Members(n) PROVE x \in Members(q) \cup {t}
    <3>1. PICK i \in 1 .. Len(n) : x = n[i]
      BY <2>1 DEF Members
    <3>2. QED
      BY <3>1, <1>1, <1>3, <1>5, <1>6 DEF Members
  <2>2. ASSUME NEW x \in Members(q) PROVE x \in Members(n)
    <3>1. PICK i \in 1 .. Len(q) : x = q[i]
      BY <2>2 DEF Members
    <3>2. CASE i < p
      BY <3>1, <3>2, <1>1, <1>2, <1>3, <1>5 DEF Members
    <3>3. CASE i >= p
      <4>1. i + 1 \in 1 .. Len(n) /\ n[i + 1] = q[i]
        BY <3>1, <3>3, <1>1, <1>2, <1>3, <1>5
      <4>2. QED
        BY <4>1, <3>1 DEF Members
    <3>4. QED
      BY <3>2, <3>3, <1>1, <1>3
  <2>3. t \in Members(n)
    BY <1>1, <1>3, <1>5, <1>6 DEF Members
  <2>4. QED
    BY <2>1, <2>2, <2>3
<1>9. ASSUME NEW i \in 1 .. Len(n), NEW j \in 1 .. Len(n), i < j
      PROVE  pri[n[i]] <= pri[n[j]]
  <2>1. pri[t] \in Nat /\ \A m \in 1 .. Len(q) : pri[q[m]] \in Nat
    BY <1>3, TpriAssumption DEF TPri
  <2>2. CASE j < p
    <3>1. n[i] = q[i] /\ n[j] = q[j] /\ i \in 1 .. Len(q) /\ j \in 1 .. Len(q)
      BY <1>1, <1>3, <1>5, <1>6, <1>9, <2>2
    <3>2. QED
      BY <1>9, <3>1 DEF Ordered
  <2>3. CASE j = p
    <3>1. n[i] = q[i] /\ i \in 1 .. Len(q) /\ ~(pri[t] < pri[q[i]])
      BY <1>1, <1>3, <1>5, <1>6, <1>9, <2>3
    <3>2. QED
      BY <1>6, <2>1, <2>3, <3>1
  <2>4. CASE j > p /\ i < p
    <3>1. /\ n[i] = q[i] /\ i \in 1 .. Len(q)
          /\ n[j] = q[j - 1] /\ j - 1 \in 1 .. Len(q)
      BY <1>1, <1>3, <1>5, <1>6, <2>4
    <3>2. i < j - 1
      BY <1>1, <1>3, <2>4
    <3>3. QED
      BY <3>1, <3>2 DEF Ordered
  <2>5. CASE j > p /\ i = p
    <3>1. n[j] = q[j - 1] /\ j - 1 \in 1 .. Len(q) /\ p \in 1 .. Len(q)
      BY <1>1, <1>3, <1>5, <1>6, <2>5
    <3>2. pri[q[p]] <= pri[q[j - 1]]
      BY <1>3, <2>1, <2>5, <3>1 DEF Ordered
    <3>3. pri[t] < pri[q[p]]
      BY <1>1, <3>1
    <3>4. QED
      BY <1>6, <2>1, <2>5, <3>1, <3>2, <3>3
  <2>6. CASE i > p
    <3>1. /\ n[i] = q[i - 1] /\ i - 1 \in 1 .. Len(q)
          /\ n[j] = q[j - 1] /\ j - 1 \in 1 .. Len(q)
      BY <1>1, <1>3, <1>5, <1>6, <1>9, <2>6
    <3>2. i - 1 < j - 1
      BY <1>3, <1>9
    <3>3. QED
      BY <3>1, <3>2 DEF Ordered
  <2>7. QED
    BY <1>1, <1>3, <1>5, <1>9, <2>2, <2>3, <2>4, <2>5, <2>6
<1>10. QED
  BY <1>4, <1>7, <1>8, <1>9 DEF Ordered, n

\* sig_sem takes the first entry, which is the one that QueueDelete takes.
LEMMA TailIsDelete ==
  ASSUME NEW q \in Seq(Task), NoDuplicates(q), q # << >>
  PROVE  Tail(q) = QueueDelete(q, Head(q))
<1> DEFINE t == Head(q)
<1>1. 1 \in 1 .. Len(q) /\ q[1] = t /\ Len(q) \in Nat /\ t \in Members(q)
  BY DEF Members
<1>2. Position(q, t) = 1
  BY <1>1, PositionIsIndex DEF NoDuplicates
<1>3. QueueDelete(q, t) = [i \in 1 .. Len(q) - 1 |-> q[i + 1]]
  BY <1>1, <1>2 DEF QueueDelete
<1>4. /\ QueueDelete(q, t) \in Seq(Task)
      /\ Len(QueueDelete(q, t)) = Len(q) - 1
  BY <1>1, QueueDeleteLemma
<1>5. /\ Tail(q) \in Seq(Task) /\ Len(Tail(q)) = Len(q) - 1
      /\ \A i \in 1 .. Len(Tail(q)) : Tail(q)[i] = q[i + 1]
  BY HeadTailProperties
<1>6. \A i \in 1 .. Len(Tail(q)) : Tail(q)[i] = QueueDelete(q, t)[i]
  BY <1>1, <1>3, <1>5
<1> HIDE DEF t
<1>7. QED
  BY <1>4, <1>5, <1>6, SeqEqual DEF t

----------------------------------------------------------------------------
(***************************************************************************)
(* KernelQueues and the ways in which a step changes the queues.           *)
(***************************************************************************)
\* chg_pri moves the tasks of the queues ordered by priority: the factors
\* that TSTAT_WAIT_WOBJCB tells are those of tasks in such queues.
CbInv ==
  \A q \in TpriQueue : \A t \in Members(wait_queue[q]) :
    TSTAT_WAIT_WOBJCB(tstat[t])

\* wait_tmout_ok is the callback of dly_tsk, which waits for no object.
TmoutOkInv ==
  \A t \in Task : tmevt[t] = "wait_tmout_ok" => ~TSTAT_WAIT_WOBJ(tstat[t])

KernelQueues == QueuesInv /\ CbInv /\ TmoutOkInv

\* WaitQueueInv of one task.
LinkAt(t, ts, wq) ==
  IF TSTAT_WAIT_WOBJ(ts[t])
    THEN \E q \in WaitQueue :
           \A r \in WaitQueue : (t \in Members(wq[r])) <=> r = q
    ELSE \A q \in WaitQueue : t \notin Members(wq[q])

LEMMA WaitQueueDef ==
  WaitQueueInv <=> /\ \A q \in WaitQueue : NoDuplicates(wait_queue[q])
                   /\ \A t \in Task : LinkAt(t, tstat, wait_queue)
BY DEF WaitQueueInv, LinkAt

LEMMA TpriOrderDef ==
  TpriOrderInv <=> \A q \in TpriQueue : Ordered(wait_queue[q], priority)
BY DEF TpriOrderInv, Ordered

LEMMA QueueFacts ==
  ASSUME KernelInv, KernelQueues
  PROVE  /\ \A q \in WaitQueue : /\ wait_queue[q] \in Seq(Task)
                                 /\ NoDuplicates(wait_queue[q])
                                 /\ Members(wait_queue[q]) \subseteq Task
         /\ \A q \in TpriQueue : /\ q \in WaitQueue
                                 /\ Ordered(wait_queue[q], priority)
         /\ \A t \in Task : LinkAt(t, tstat, wait_queue)
<1>1. \A q \in WaitQueue : /\ wait_queue[q] \in Seq(Task)
                           /\ NoDuplicates(wait_queue[q])
  BY WaitQueueDef, TypesOf DEF KernelQueues, QueuesInv
<1>2. \A q \in WaitQueue : Members(wait_queue[q]) \subseteq Task
  BY <1>1 DEF Members
<1>3. QED
  BY <1>1, <1>2, WaitQueueDef, TpriOrderDef, QueueAssumption
     DEF KernelQueues, QueuesInv

\* The factors of a waiting task, and of one that does not wait.
LEMMA FactorStates ==
  /\ ~TSTAT_WAIT_WOBJ(TS_RUNNABLE) /\ ~TSTAT_WAIT_WOBJCB(TS_RUNNABLE)
  /\ ~TSTAT_WAIT_WOBJ(TS_SUSPENDED) /\ ~TSTAT_WAIT_WOBJCB(TS_SUSPENDED)
  /\ ~TSTAT_WAIT_WOBJ(TS_DORMANT) /\ ~TSTAT_WAIT_WOBJCB(TS_DORMANT)
  /\ ~TSTAT_WAIT_WOBJ(TS_WAITING("SLP")) /\ ~TSTAT_WAIT_WOBJ(TS_WAITING("DLY"))
BY DEF TSTAT_WAIT_WOBJ, TSTAT_WAIT_WOBJCB, TS_RUNNABLE, TS_SUSPENDED,
       TS_DORMANT, TS_WAITING, WobjFactor, WobjcbFactor

LEMMA WobjWaits ==
  ASSUME NEW ts \in TstatType
  PROVE  /\ TSTAT_WAIT_WOBJCB(ts) => TSTAT_WAIT_WOBJ(ts)
         /\ TSTAT_WAIT_WOBJ(ts) => TSTAT_WAITING(ts) /\ ~TSTAT_WAIT_SLP(ts)
<1>1. TSTAT_WAIT_WOBJCB(ts) => TSTAT_WAIT_WOBJ(ts)
  BY DEF TSTAT_WAIT_WOBJ, TSTAT_WAIT_WOBJCB, WobjFactor
<1>2. CASE ts \in {TS_DORMANT, TS_RUNNABLE, TS_SUSPENDED}
  BY <1>1, <1>2, FactorStates
<1>3. ASSUME NEW f \in WaitFactor,
             ts = TS_WAITING(f) \/ ts = TS_WAITING(f) \cup TS_SUSPENDED
      PROVE  /\ TSTAT_WAITING(ts)
             /\ TSTAT_WAIT_WOBJ(ts) => ~TSTAT_WAIT_SLP(ts)
  <2>1. TSTAT_WAITING(ts)
    BY <1>3, WaitingLemma
  <2>2. ASSUME NEW g \in ts, g \in WobjFactor, "SLP" \in ts PROVE FALSE
    <3>1. g = f /\ "SLP" = f
      BY <1>3, <2>2 DEF TS_WAITING, TS_SUSPENDED, WobjFactor, WobjcbFactor
    <3>2. QED
      BY <2>2, <3>1 DEF WobjFactor, WobjcbFactor
  <2>3. QED
    BY <2>1, <2>2 DEF TSTAT_WAIT_WOBJ, TSTAT_WAIT_SLP
<1>4. QED
  BY <1>1, <1>2, <1>3, TstatCases

\* The tasks of W leave their queues, the others keep their place.
LEMMA QueuesLeave ==
  ASSUME KernelInv, KernelInv', KernelQueues, NEW W \in SUBSET Task,
         \A q \in WaitQueue :
           /\ NoDuplicates(wait_queue'[q])
           /\ Members(wait_queue'[q]) = Members(wait_queue[q]) \ W,
         \A q \in TpriQueue : Ordered(wait_queue'[q], priority'),
         \A t \in W : ~TSTAT_WAIT_WOBJ(tstat'[t]),
         \A t \in Task \ W :
           /\ TSTAT_WAIT_WOBJ(tstat'[t]) <=> TSTAT_WAIT_WOBJ(tstat[t])
           /\ TSTAT_WAIT_WOBJCB(tstat'[t]) <=> TSTAT_WAIT_WOBJCB(tstat[t]),
         \A t \in Task : tmevt'[t] \in {tmevt[t], "none"}
  PROVE  KernelQueues'
<1>1. ASSUME NEW t \in Task PROVE LinkAt(t, tstat', wait_queue')
  <2>1. CASE t \in W
    BY <2>1 DEF LinkAt
  <2>2. CASE t \notin W
    <3>1. /\ LinkAt(t, tstat, wait_queue)
          /\ \A q \in WaitQueue :
               t \in Members(wait_queue'[q]) <=> t \in Members(wait_queue[q])
      BY <2>2, QueueFacts
    <3>2. QED
      BY <2>2, <3>1 DEF LinkAt
  <2>3. QED
    BY <2>1, <2>2
<1>2. QueuesInv'
  <2>1. WaitQueueInv'
    BY <1>1 DEF WaitQueueInv, LinkAt
  <2>2. TpriOrderInv'
    BY DEF TpriOrderInv, Ordered
  <2>3. QED
    BY <2>1, <2>2 DEF QueuesInv
<1>3. CbInv'
  BY QueueFacts DEF KernelQueues, CbInv
<1>4. TmoutOkInv'
  BY DEF KernelQueues, TmoutOkInv
<1>5. QED
  BY <1>2, <1>3, <1>4 DEF KernelQueues

\* No queue changes, and no task begins or ends to wait for an object.
LEMMA QueuesKeep ==
  ASSUME KernelInv, KernelInv', KernelQueues, UNCHANGED wait_queue,
         \A t \in Task :
           /\ TSTAT_WAIT_WOBJ(tstat'[t]) <=> TSTAT_WAIT_WOBJ(tstat[t])
           /\ TSTAT_WAIT_WOBJCB(tstat'[t]) <=> TSTAT_WAIT_WOBJCB(tstat[t])
           /\ TSTAT_WAIT_WOBJCB(tstat[t]) => priority'[t] = priority[t]
           /\ tmevt'[t] \in {tmevt[t], "none"}
  PROVE  KernelQueues'
<1>1. ASSUME NEW q \in TpriQueue PROVE Ordered(wait_queue'[q], priority')
  <2>1. \A i \in 1 .. Len(wait_queue[q]) :
          priority'[wait_queue[q][i]] = priority[wait_queue[q][i]]
    BY QueueFacts DEF KernelQueues, CbInv, Members
  <2>2. QED
    BY <2>1, QueueFacts DEF Ordered
<1>2. \A q \in WaitQueue :
        /\ NoDuplicates(wait_queue'[q])
        /\ Members(wait_queue'[q]) = Members(wait_queue[q]) \ {}
  BY QueueFacts
<1>3. {} \in SUBSET Task /\ Task \ {} = Task
  OBVIOUS
<1>4. QED
  BY <1>1, <1>2, <1>3, QueuesLeave

\* The same when one task changes its state.
LEMMA OneTaskKeeps ==
  ASSUME KernelInv, KernelInv', KernelQueues, UNCHANGED wait_queue,
         NEW t \in Task, NEW ts, tstat' = [tstat EXCEPT ![t] = ts],
         TSTAT_WAIT_WOBJ(ts) <=> TSTAT_WAIT_WOBJ(tstat[t]),
         TSTAT_WAIT_WOBJCB(ts) <=> TSTAT_WAIT_WOBJCB(tstat[t]),
         TSTAT_WAIT_WOBJCB(tstat[t]) => priority'[t] = priority[t],
         \A u \in Task \ {t} : priority'[u] = priority[u],
         \A u \in Task : tmevt'[u] \in {tmevt[u], "none"}
  PROVE  KernelQueues'
<1>1. tstat'[t] = ts /\ \A u \in Task \ {t} : tstat'[u] = tstat[u]
  BY TypesOf
<1>2. QED
  BY <1>1, QueuesKeep

\* One task ends its wait, whatever its priority is then.
LEMMA OneTaskLeaves ==
  ASSUME KernelInv, KernelInv', KernelQueues, NEW t \in Task,
         wait_queue' = [q \in WaitQueue |-> QueueDelete(wait_queue[q], t)],
         NEW ts, ~TSTAT_WAIT_WOBJ(ts), tstat' = [tstat EXCEPT ![t] = ts],
         \A u \in Task \ {t} : priority'[u] = priority[u],
         \A u \in Task : tmevt'[u] \in {tmevt[u], "none"}
  PROVE  KernelQueues'
<1>1. tstat'[t] = ts /\ \A u \in Task \ {t} : tstat'[u] = tstat[u]
  BY TypesOf
<1>2. \A q \in WaitQueue :
        /\ NoDuplicates(wait_queue'[q])
        /\ Members(wait_queue'[q]) = Members(wait_queue[q]) \ {t}
  BY QueueFacts, DeleteMembers
<1>3. \A q \in TpriQueue : Ordered(wait_queue'[q], priority')
  <2>1. priority \in [Task -> TPri] /\ priority' \in [Task -> TPri]
    BY DEF KernelInv, TypeOK
  <2>2. QED
    BY <2>1, QueueFacts, DeleteOrdered
<1>4. QED
  BY <1>1, <1>2, <1>3, QueuesLeave

\* A task that waits for no object is in no queue, so that unlinking it from
\* all of them is what wait_dequeue_wobj does.
LEMMA NotLinked ==
  ASSUME KernelInv, KernelQueues, NEW t \in Task,
         ~TSTAT_WAIT_WOBJ(tstat[t])
  PROVE  wait_queue = [q \in WaitQueue |-> QueueDelete(wait_queue[q], t)]
<1>1. \A q \in WaitQueue : t \notin Members(wait_queue[q])
  BY QueueFacts DEF LinkAt
<1>2. \A q \in WaitQueue : QueueDelete(wait_queue[q], t) = wait_queue[q]
  BY <1>1 DEF QueueDelete
<1>3. QED
  BY <1>2, TypesOf

LEMMA DequeueLemma ==
  ASSUME KernelInv, KernelQueues, NEW t \in Task, wait_dequeue_wobj(t)
  PROVE  wait_queue' = [q \in WaitQueue |-> QueueDelete(wait_queue[q], t)]
BY NotLinked DEF wait_dequeue_wobj

\* The first task of a queue leaves it.
LEMMA TakeHeadLemma ==
  ASSUME KernelInv, KernelQueues, NEW s \in WaitQueue, wait_queue[s] # << >>
  PROVE  /\ Head(wait_queue[s]) \in Task
         /\ TSTAT_WAIT_WOBJ(tstat[Head(wait_queue[s])])
         /\ [wait_queue EXCEPT ![s] = Tail(wait_queue[s])]
              = [q \in WaitQueue |->
                   QueueDelete(wait_queue[q], Head(wait_queue[s]))]
<1> DEFINE t == Head(wait_queue[s])
<1>1. t \in Members(wait_queue[s]) /\ t \in Task
  BY QueueFacts, HeadMemberLemma
<1>2. TSTAT_WAIT_WOBJ(tstat[t])
  BY <1>1, QueueFacts DEF LinkAt
<1>3. \A q \in WaitQueue : q # s => t \notin Members(wait_queue[q])
  BY <1>1, <1>2, QueueFacts DEF LinkAt
<1>4. \A q \in WaitQueue : q # s => QueueDelete(wait_queue[q], t) = wait_queue[q]
  BY <1>3 DEF QueueDelete
<1>5. Tail(wait_queue[s]) = QueueDelete(wait_queue[s], t)
  BY QueueFacts, TailIsDelete
<1> HIDE DEF t
<1>6. [wait_queue EXCEPT ![s] = Tail(wait_queue[s])]
        = [q \in WaitQueue |-> QueueDelete(wait_queue[q], t)]
  BY <1>4, <1>5, TypesOf
<1>7. QED
  BY <1>1, <1>2, <1>6 DEF t

----------------------------------------------------------------------------
(***************************************************************************)
(* No action of TaskKernel makes a queue longer, and every one keeps       *)
(* KernelQueues.                                                           *)
(***************************************************************************)
Shrinks ==
  \A q \in WaitQueue : Members(wait_queue'[q]) \subseteq Members(wait_queue[q])

LEMMA UnlinkShrinks ==
  ASSUME KernelInv, KernelQueues, NEW t \in Task,
         wait_queue' = [q \in WaitQueue |-> QueueDelete(wait_queue[q], t)]
  PROVE  Shrinks
BY QueueFacts, DeleteMembers DEF Shrinks

LEMMA SameShrinks ==
  ASSUME UNCHANGED wait_queue
  PROVE  Shrinks
BY DEF Shrinks

\* The end of a wait of t by release, timeout, termination or completion.
LEMMA MakeNonWaitState ==
  ASSUME NEW t \in Task, make_non_wait(t)
  PROVE  \E ts : /\ tstat' = [tstat EXCEPT ![t] = ts]
                 /\ ~TSTAT_WAIT_WOBJ(ts) /\ ~TSTAT_WAIT_WOBJCB(ts)
BY FactorStates DEF make_non_wait

LEMMA WaitEnds ==
  ASSUME KernelInv, KernelInv', KernelQueues, NEW t \in Task,
         make_non_wait(t), wait_dequeue_wobj(t), UNCHANGED priority,
         \/ wait_dequeue_tmevtb(t, winfo)
         \/ tmevt' = [tmevt EXCEPT ![t] = "none"]
  PROVE  KernelQueues' /\ Shrinks
<1>1. PICK ts : /\ tstat' = [tstat EXCEPT ![t] = ts]
                /\ ~TSTAT_WAIT_WOBJ(ts) /\ ~TSTAT_WAIT_WOBJCB(ts)
  BY MakeNonWaitState
<1>2. wait_queue' = [q \in WaitQueue |-> QueueDelete(wait_queue[q], t)]
  BY DequeueLemma
<1>3. \A u \in Task : tmevt'[u] \in {tmevt[u], "none"}
  BY TypesOf DEF wait_dequeue_tmevtb
<1>4. QED
  BY <1>1, <1>2, <1>3, OneTaskLeaves, UnlinkShrinks

\* A wait for no object ends: slp_tsk and dly_tsk.
LEMMA PlainWaitEnds ==
  ASSUME KernelInv, KernelInv', KernelQueues, NEW t \in Task,
         ~TSTAT_WAIT_WOBJ(tstat[t]), make_non_wait(t),
         UNCHANGED << priority, wait_queue >>,
         \/ wait_dequeue_tmevtb(t, winfo)
         \/ tmevt' = [tmevt EXCEPT ![t] = "none"]
  PROVE  KernelQueues' /\ Shrinks
<1>1. wait_dequeue_wobj(t)
  BY DEF wait_dequeue_wobj
<1>2. QED
  BY <1>1, WaitEnds

LEMMA RunnableFactors ==
  ASSUME KernelInv, NEW t \in Task,
         TSTAT_RUNNABLE(tstat[t]) \/ TSTAT_DORMANT(tstat[t])
  PROVE  ~TSTAT_WAIT_WOBJ(tstat[t]) /\ ~TSTAT_WAIT_WOBJCB(tstat[t])
BY TstatExclusion, FactorStates, TypesOf DEF TSTAT_DORMANT

LEMMA ActivateQueues ==
  ASSUME KernelInv, KernelInv', KernelQueues, NEW t \in Task, Activate(t),
         UNCHANGED << priority, tmevt, wait_queue >>
  PROVE  KernelQueues' /\ Shrinks
<1>1. CASE TSTAT_DORMANT(tstat[t])
  <2>1. tstat' = [tstat EXCEPT ![t] = TS_RUNNABLE]
    BY <1>1 DEF Activate, make_active
  <2>2. QED
    BY <1>1, <2>1, RunnableFactors, FactorStates, OneTaskKeeps, SameShrinks
<1>2. CASE ~TSTAT_DORMANT(tstat[t])
  BY <1>2, QueuesKeep, SameShrinks DEF Activate
<1>3. QED
  BY <1>1, <1>2

LEMMA WakeupQueues ==
  ASSUME KernelInv, KernelInv', KernelQueues, NEW t \in Task, Wakeup(t),
         UNCHANGED << priority, wait_queue >>
  PROVE  KernelQueues' /\ Shrinks
<1>1. CASE WakesUp(t)
  <2>1. wait_dequeue_tmevtb(t, winfo) /\ make_non_wait(t)
    BY <1>1 DEF Wakeup, wait_complete
  <2>2. ~TSTAT_WAIT_WOBJ(tstat[t])
    BY <1>1, WobjWaits, TypesOf DEF WakesUp
  <2>3. QED
    BY <2>1, <2>2, PlainWaitEnds
<1>2. CASE ~WakesUp(t)
  BY <1>2, QueuesKeep, SameShrinks DEF Wakeup
<1>3. QED
  BY <1>1, <1>2

LEMMA SuspendedFactors ==
  ASSUME NEW ts
  PROVE  /\ TSTAT_WAIT_WOBJ(ts \cup TS_SUSPENDED) <=> TSTAT_WAIT_WOBJ(ts)
         /\ TSTAT_WAIT_WOBJCB(ts \cup TS_SUSPENDED) <=> TSTAT_WAIT_WOBJCB(ts)
         /\ TSTAT_WAIT_WOBJ(ts \ TS_SUSPENDED) <=> TSTAT_WAIT_WOBJ(ts)
         /\ TSTAT_WAIT_WOBJCB(ts \ TS_SUSPENDED) <=> TSTAT_WAIT_WOBJCB(ts)
<1>1. "SUSPENDED" \notin WobjFactor /\ "SUSPENDED" \notin WobjcbFactor
  BY DEF WobjFactor, WobjcbFactor
<1>2. QED
  BY <1>1 DEF TSTAT_WAIT_WOBJ, TSTAT_WAIT_WOBJCB, TS_SUSPENDED

LEMMA SuspendQueues ==
  ASSUME KernelInv, KernelInv', KernelQueues, NEW t \in Task,
         sus_tsk(t) \/ rsm_tsk(t)
  PROVE  KernelQueues' /\ Shrinks
<1>1. UNCHANGED << priority, tmevt, wait_queue >>
  BY DEF sus_tsk, rsm_tsk
<1>2. PICK ts : /\ tstat' = [tstat EXCEPT ![t] = ts]
                /\ TSTAT_WAIT_WOBJ(ts) <=> TSTAT_WAIT_WOBJ(tstat[t])
                /\ TSTAT_WAIT_WOBJCB(ts) <=> TSTAT_WAIT_WOBJCB(tstat[t])
  <2>1. CASE sus_tsk(t) /\ TSTAT_RUNNABLE(tstat[t])
    <3>1. tstat' = [tstat EXCEPT ![t] = TS_SUSPENDED]
      BY <2>1, TstatExclusion, TypesOf DEF sus_tsk
    <3>2. QED
      BY <2>1, <3>1, RunnableFactors, FactorStates
  <2>2. CASE sus_tsk(t) /\ ~TSTAT_RUNNABLE(tstat[t])
    <3>1. tstat' = [tstat EXCEPT ![t] = tstat[t] \cup TS_SUSPENDED]
      BY <2>2 DEF sus_tsk
    <3>2. QED
      BY <3>1, SuspendedFactors
  <2>3. CASE rsm_tsk(t) /\ TSTAT_WAITING(tstat[t])
    <3>1. tstat' = [tstat EXCEPT ![t] = tstat[t] \ TS_SUSPENDED]
      BY <2>3 DEF rsm_tsk
    <3>2. QED
      BY <3>1, SuspendedFactors
  <2>4. CASE rsm_tsk(t) /\ ~TSTAT_WAITING(tstat[t])
    <3>1. tstat' = [tstat EXCEPT ![t] = TS_RUNNABLE]
      BY <2>4 DEF rsm_tsk
    <3>2. QED
      BY <2>4, <3>1, WobjWaits, FactorStates, TypesOf
  <2>5. QED
    BY <2>1, <2>2, <2>3, <2>4
<1>3. QED
  BY <1>1, <1>2, OneTaskKeeps, SameShrinks

\* wobj_change_priority: the task goes behind those of its new priority.
LEMMA chg_priQueues ==
  ASSUME KernelInv, KernelInv', KernelQueues, NEW t \in Task,
         NEW pri \in TPri, chg_pri(t, pri)
  PROVE  KernelQueues' /\ Shrinks
<1> DEFINE new == [priority EXCEPT ![t] = pri]
<1>1. /\ priority' = new /\ UNCHANGED << tstat, tmevt >>
      /\ IF TSTAT_WAIT_WOBJCB(tstat[t]) THEN wobj_change_priority(t, new)
                                        ELSE UNCHANGED wait_queue
  BY DEF chg_pri
<1>2. priority \in [Task -> TPri] /\ new \in [Task -> TPri]
  BY TypesOf
<1>3. \A u \in Task \ {t} : new[u] = priority[u]
  BY TypesOf
<1> HIDE DEF new
<1>4. CASE ~TSTAT_WAIT_WOBJCB(tstat[t])
  <2>1. \A u \in Task : TSTAT_WAIT_WOBJCB(tstat[u]) => new[u] = priority[u]
    BY <1>3, <1>4
  <2>2. QED
    BY <1>1, <1>4, <2>1, QueuesKeep, SameShrinks
<1>5. CASE TSTAT_WAIT_WOBJCB(tstat[t])
  <2>1. wait_queue' = [q \in WaitQueue |->
                         IF q \in TpriQueue /\ t \in Members(wait_queue[q])
                           THEN QueueInsertTpri(QueueDelete(wait_queue[q], t),
                                                new, t)
                           ELSE wait_queue[q]]
    BY <1>1, <1>5 DEF wobj_change_priority
  <2>2. ASSUME NEW q \in WaitQueue
        PROVE  /\ NoDuplicates(wait_queue'[q])
               /\ Members(wait_queue'[q]) = Members(wait_queue[q])
               /\ q \in TpriQueue => Ordered(wait_queue'[q], new)
    <3>1. CASE q \in TpriQueue /\ t \in Members(wait_queue[q])
      <4> DEFINE d == QueueDelete(wait_queue[q], t)
      <4>1. wait_queue'[q] = QueueInsertTpri(d, new, t)
        BY <2>1, <3>1
      <4>2. /\ d \in Seq(Task) /\ NoDuplicates(d)
            /\ Members(d) = Members(wait_queue[q]) \ {t}
        BY QueueFacts, DeleteMembers
      <4>3. Ordered(d, new)
        <5>1. \A u \in Members(wait_queue[q]) \ {t} : new[u] = priority[u]
          BY <1>3, QueueFacts
        <5>2. QED
          BY <1>2, <3>1, <5>1, QueueFacts, DeleteOrdered
      <4> HIDE DEF d
      <4>4. /\ NoDuplicates(QueueInsertTpri(d, new, t))
            /\ Members(QueueInsertTpri(d, new, t)) = Members(d) \cup {t}
            /\ Ordered(QueueInsertTpri(d, new, t), new)
        BY <1>2, <4>2, <4>3, InsertTpriLemma
      <4>5. QED
        BY <3>1, <4>1, <4>2, <4>4
    <3>2. CASE q \in TpriQueue /\ t \notin Members(wait_queue[q])
      <4>1. wait_queue'[q] = wait_queue[q]
        BY <2>1, <3>2
      <4>2. \A i \in 1 .. Len(wait_queue[q]) :
              new[wait_queue[q][i]] = priority[wait_queue[q][i]]
        BY <1>3, <3>2, QueueFacts DEF Members
      <4>3. QED
        BY <4>1, <4>2, <3>2, QueueFacts DEF Ordered
    <3>3. CASE q \notin TpriQueue
      BY <2>1, <3>3, QueueFacts
    <3>4. QED
      BY <3>1, <3>2, <3>3
  <2>3. \A q \in WaitQueue :
          /\ NoDuplicates(wait_queue'[q])
          /\ Members(wait_queue'[q]) = Members(wait_queue[q]) \ {}
    BY <2>2
  <2>4. \A q \in TpriQueue : Ordered(wait_queue'[q], priority')
    BY <1>1, <2>2, QueueFacts
  <2>5. {} \in SUBSET Task /\ Task \ {} = Task
    OBVIOUS
  <2>6. KernelQueues'
    BY <1>1, <2>3, <2>4, <2>5, QueuesLeave
  <2>7. QED
    BY <2>2, <2>6 DEF Shrinks
<1>6. QED
  BY <1>4, <1>5

LEMMA ext_tskQueues ==
  ASSUME KernelInv, KernelInv', KernelQueues, ext_tsk
  PROVE  KernelQueues' /\ Shrinks
<1> DEFINE t == p_runtsk
           s == make_non_runnable(sched, priority, p_runtsk)
<1>1. TaskContext /\ Terminate(t, s) /\ UNCHANGED << tmevt, wait_queue >>
  BY DEF ext_tsk
<1>2. t \in Task /\ TSTAT_RUNNABLE(tstat[t])
  BY <1>1, InTaskFacts DEF Runnable
<1> HIDE DEF t, s
<1>3. PICK ts \in {TS_RUNNABLE, TS_DORMANT} :
        /\ tstat' = [tstat EXCEPT ![t] = ts]
        /\ priority' = [priority EXCEPT ![t] = ipriority[t]]
  BY <1>1 DEF Terminate
<1>4. ~TSTAT_WAIT_WOBJ(ts) /\ ~TSTAT_WAIT_WOBJCB(ts)
  BY FactorStates
<1>5. \A u \in Task \ {t} : priority'[u] = priority[u]
  BY <1>3, TypesOf
<1>6. ~TSTAT_WAIT_WOBJ(tstat[t]) /\ ~TSTAT_WAIT_WOBJCB(tstat[t])
  BY <1>2, RunnableFactors
<1>7. \A u \in Task : tmevt'[u] \in {tmevt[u], "none"}
  BY <1>1
<1>8. KernelQueues'
  BY <1>1, <1>2, <1>3, <1>4, <1>5, <1>6, <1>7, OneTaskKeeps
<1>9. QED
  BY <1>1, <1>8, SameShrinks

LEMMA ter_tskQueues ==
  ASSUME KernelInv, KernelInv', KernelQueues, NEW t \in Task, ter_tsk(t)
  PROVE  KernelQueues' /\ Shrinks
<1> DEFINE s == IF TSTAT_RUNNABLE(tstat[t])
                  THEN make_non_runnable(sched, priority, t) ELSE sched
<1>1. /\ Terminate(t, s)
      /\ IF TSTAT_WAITING(tstat[t])
           THEN wait_dequeue_wobj(t) /\ wait_dequeue_tmevtb(t, winfo)
           ELSE UNCHANGED << wait_queue, tmevt >>
  BY DEF ter_tsk
<1> HIDE DEF s
<1>2. PICK ts \in {TS_RUNNABLE, TS_DORMANT} :
        /\ tstat' = [tstat EXCEPT ![t] = ts]
        /\ priority' = [priority EXCEPT ![t] = ipriority[t]]
  BY <1>1 DEF Terminate
<1>3. wait_queue' = [q \in WaitQueue |-> QueueDelete(wait_queue[q], t)]
  <2>1. CASE TSTAT_WAITING(tstat[t])
    BY <1>1, <2>1, DequeueLemma
  <2>2. CASE ~TSTAT_WAITING(tstat[t])
    BY <1>1, <2>2, WobjWaits, NotLinked, TypesOf
  <2>3. QED
    BY <2>1, <2>2
<1>4. \A u \in Task : tmevt'[u] \in {tmevt[u], "none"}
  BY <1>1, TypesOf DEF wait_dequeue_tmevtb
<1>5. \A u \in Task \ {t} : priority'[u] = priority[u]
  BY <1>2, TypesOf
<1>6. ~TSTAT_WAIT_WOBJ(ts)
  BY FactorStates
<1>7. KernelQueues'
  BY <1>2, <1>3, <1>4, <1>5, <1>6, OneTaskLeaves
<1>8. QED
  BY <1>3, <1>7, UnlinkShrinks

\* slp_tsk and dly_tsk: the wait is for no object.
LEMMA PlainWaitBegins ==
  ASSUME KernelInv, KernelInv', KernelQueues, TaskContext,
         NEW f \in {"SLP", "DLY"}, NEW callback,
         callback = "wait_tmout_ok" => f = "DLY", make_wait(f, callback),
         UNCHANGED wait_queue
  PROVE  KernelQueues' /\ Shrinks
<1> DEFINE t == p_runtsk
<1>1. /\ tstat' = [tstat EXCEPT ![t] = TS_WAITING(f)]
      /\ tmevt' = [tmevt EXCEPT ![t] = callback]
      /\ UNCHANGED priority
  BY DEF make_wait
<1>2. t \in Task /\ TSTAT_RUNNABLE(tstat[t])
  BY InTaskFacts DEF Runnable
<1> HIDE DEF t
<1>3. /\ ~TSTAT_WAIT_WOBJ(TS_WAITING(f)) /\ ~TSTAT_WAIT_WOBJCB(TS_WAITING(f))
      /\ ~TSTAT_WAIT_WOBJ(tstat[t]) /\ ~TSTAT_WAIT_WOBJCB(tstat[t])
  <2>1. f \in WaitFactor
    BY DEF WaitFactor
  <2>2. QED
    BY <1>2, <2>1, FactorStates, FactorLemma, WobjWaits, RunnableFactors
<1>4. /\ tstat'[t] = TS_WAITING(f)
      /\ \A u \in Task \ {t} : tstat'[u] = tstat[u] /\ tmevt'[u] = tmevt[u]
  BY <1>1, <1>2, TypesOf
<1>5. QueuesInv'
  <2>1. \A u \in Task : LinkAt(u, tstat', wait_queue')
    BY <1>3, <1>4, QueueFacts DEF LinkAt
  <2>2. WaitQueueInv'
    BY <2>1, QueueFacts DEF WaitQueueInv, LinkAt
  <2>3. TpriOrderInv'
    BY <1>1, QueueFacts DEF TpriOrderInv, Ordered
  <2>4. QED
    BY <2>2, <2>3 DEF QueuesInv
<1>6. CbInv'
  BY <1>3, <1>4, QueueFacts DEF KernelQueues, CbInv
<1>7. TmoutOkInv'
  BY <1>3, <1>4 DEF KernelQueues, TmoutOkInv
<1>8. QED
  BY <1>5, <1>6, <1>7, SameShrinks DEF KernelQueues

\* The running task enters the queue of an object that it waits for.
LEMMA ObjectWaitBegins ==
  ASSUME KernelInv, KernelInv', KernelQueues, TaskContext,
         NEW s \in WaitQueue, NEW f \in WobjFactor,
         s \in TpriQueue => f \in WobjcbFactor,
         NEW callback, callback # "wait_tmout_ok",
         make_wait(f, callback), wobj_queue_insert(s)
  PROVE  /\ KernelQueues'
         /\ \A q \in WaitQueue \ {s} : wait_queue'[q] = wait_queue[q]
<1> DEFINE t == p_runtsk
<1>1. /\ tstat' = [tstat EXCEPT ![t] = TS_WAITING(f)]
      /\ tmevt' = [tmevt EXCEPT ![t] = callback]
      /\ UNCHANGED priority
      /\ wait_queue' = [wait_queue EXCEPT
           ![s] = IF s \in TpriQueue
                    THEN QueueInsertTpri(wait_queue[s], priority, t)
                    ELSE Append(wait_queue[s], t)]
  BY DEF make_wait, wobj_queue_insert
<1>2. t \in Task /\ TSTAT_RUNNABLE(tstat[t])
  BY InTaskFacts DEF Runnable
<1> HIDE DEF t
<1>3. \A q \in WaitQueue : t \notin Members(wait_queue[q])
  BY <1>2, RunnableFactors, QueueFacts DEF LinkAt
<1>4. /\ TSTAT_WAIT_WOBJ(TS_WAITING(f))
      /\ s \in TpriQueue => TSTAT_WAIT_WOBJCB(TS_WAITING(f))
  BY DEF TSTAT_WAIT_WOBJ, TSTAT_WAIT_WOBJCB, TS_WAITING
<1>5. /\ tstat'[t] = TS_WAITING(f) /\ tmevt'[t] = callback
      /\ \A u \in Task \ {t} : tstat'[u] = tstat[u] /\ tmevt'[u] = tmevt[u]
  BY <1>1, <1>2, TypesOf
<1>6. /\ NoDuplicates(wait_queue'[s])
      /\ Members(wait_queue'[s]) = Members(wait_queue[s]) \cup {t}
      /\ s \in TpriQueue => Ordered(wait_queue'[s], priority)
  <2>1. wait_queue'[s] = IF s \in TpriQueue
                           THEN QueueInsertTpri(wait_queue[s], priority, t)
                           ELSE Append(wait_queue[s], t)
    BY <1>1, TypesOf
  <2>2. /\ wait_queue[s] \in Seq(Task) /\ NoDuplicates(wait_queue[s])
        /\ t \notin Members(wait_queue[s]) /\ priority \in [Task -> TPri]
    BY <1>3, QueueFacts, TypesOf
  <2>3. CASE s \in TpriQueue
    <3>1. Ordered(wait_queue[s], priority)
      BY <2>3, QueueFacts
    <3>2. QED
      BY <1>2, <2>1, <2>2, <2>3, <3>1, InsertTpriLemma
  <2>4. CASE s \notin TpriQueue
    BY <1>2, <2>1, <2>2, <2>4, AppendLemma
  <2>5. QED
    BY <2>3, <2>4
<1>7. \A q \in WaitQueue \ {s} : wait_queue'[q] = wait_queue[q]
  BY <1>1, TypesOf
<1>8. QueuesInv'
  <2>1. LinkAt(t, tstat', wait_queue')
    <3>1. \A r \in WaitQueue : (t \in Members(wait_queue'[r])) <=> r = s
      BY <1>3, <1>6, <1>7
    <3>2. QED
      BY <1>4, <1>5, <3>1 DEF LinkAt
  <2>2. ASSUME NEW u \in Task \ {t} PROVE LinkAt(u, tstat', wait_queue')
    <3>1. \A r \in WaitQueue :
            u \in Members(wait_queue'[r]) <=> u \in Members(wait_queue[r])
      BY <1>6, <1>7
    <3>2. LinkAt(u, tstat, wait_queue)
      BY QueueFacts
    <3>3. QED
      BY <1>5, <3>1, <3>2 DEF LinkAt
  <2>3. WaitQueueInv'
    <3>1. \A q \in WaitQueue : NoDuplicates(wait_queue'[q])
      BY <1>6, <1>7, QueueFacts
    <3>2. \A u \in Task : LinkAt(u, tstat', wait_queue')
      BY <2>1, <2>2
    <3>3. QED
      BY <3>1, <3>2 DEF WaitQueueInv, LinkAt
  <2>4. TpriOrderInv'
    <3>1. \A q \in TpriQueue : Ordered(wait_queue'[q], priority')
      BY <1>1, <1>6, <1>7, QueueFacts
    <3>2. QED
      BY <3>1 DEF TpriOrderInv, Ordered
  <2>5. QED
    BY <2>3, <2>4 DEF QueuesInv
<1>9. CbInv'
  <2>1. ASSUME NEW q \in TpriQueue, NEW u \in Members(wait_queue'[q])
        PROVE  TSTAT_WAIT_WOBJCB(tstat'[u])
    <3>1. q \in WaitQueue
      BY QueueFacts
    <3>2. CASE u = t
      <4>1. q = s
        BY <1>3, <1>7, <2>1, <3>1, <3>2
      <4>2. QED
        BY <1>4, <1>5, <3>2, <4>1
    <3>3. CASE u # t
      <4>1. u \in Members(wait_queue[q])
        BY <1>6, <1>7, <2>1, <3>1, <3>3
      <4>2. u \in Task /\ TSTAT_WAIT_WOBJCB(tstat[u])
        BY <3>1, <4>1, QueueFacts DEF KernelQueues, CbInv
      <4>3. QED
        BY <1>5, <3>3, <4>2
    <3>4. QED
      BY <3>2, <3>3
  <2>2. QED
    BY <2>1 DEF CbInv
<1>10. TmoutOkInv'
  BY <1>5 DEF KernelQueues, TmoutOkInv
<1>11. QED
  BY <1>7, <1>8, <1>9, <1>10 DEF KernelQueues

LEMMA slp_tskQueues ==
  ASSUME KernelInv, KernelInv', KernelQueues,
         NEW callback \in {"none", "wait_tmout"}, slp_tsk(callback)
  PROVE  KernelQueues' /\ Shrinks
<1>1. TaskContext /\ UNCHANGED wait_queue
  BY DEF slp_tsk, CanDispatch, InTask
<1>2. CASE wupque[p_runtsk]
  BY <1>1, <1>2, QueuesKeep, SameShrinks DEF slp_tsk
<1>3. CASE ~wupque[p_runtsk]
  <2>1. make_wait("SLP", callback)
    BY <1>3 DEF slp_tsk
  <2>2. QED
    BY <1>1, <2>1, PlainWaitBegins
<1>4. QED
  BY <1>2, <1>3

LEMMA BootQueues ==
  ASSUME KernelInv, KernelInv', KernelQueues, Boot
  PROVE  KernelQueues' /\ Shrinks
<1>1. CASE initialize_task
  <2> DEFINE t == torder[tskini + 1]
  <2>1. /\ UNCHANGED << priority, tmevt, wait_queue >>
        /\ \/ UNCHANGED tstat
           \/ tstat' = [tstat EXCEPT ![t] = TS_RUNNABLE]
    BY <1>1 DEF initialize_task, make_active
  <2>2. t \in Task /\ TSTAT_DORMANT(tstat[t])
    <3>1. t \in Task /\ tskini + 1 \in tskini + 1 .. Len(torder)
      BY <1>1, TorderAssumption DEF initialize_task, KernelInv, TypeOK
    <3>2. QED
      BY <1>1, <3>1 DEF initialize_task, KernelInv, BootInv, TSTAT_DORMANT
  <2> HIDE DEF t
  <2>3. CASE UNCHANGED tstat
    BY <2>1, <2>3, QueuesKeep, SameShrinks
  <2>4. CASE tstat' = [tstat EXCEPT ![t] = TS_RUNNABLE]
    BY <2>1, <2>2, <2>4, RunnableFactors, FactorStates, OneTaskKeeps,
       SameShrinks
  <2>5. QED
    BY <2>1, <2>3, <2>4
<1>2. CASE start_dispatch
  BY <1>2, QueuesKeep, SameShrinks DEF start_dispatch
<1>3. QED
  BY <1>1, <1>2 DEF Boot

LEMMA TaskCallQueues ==
  ASSUME KernelInv, KernelInv', KernelQueues, TaskCall
  PROVE  KernelQueues' /\ Shrinks
<1>1. ASSUME NEW t \in Task, act_tsk(t) PROVE KernelQueues' /\ Shrinks
  BY <1>1, ActivateQueues DEF act_tsk
<1>2. ASSUME NEW t \in Task, can_act(t) \/ can_wup(t)
      PROVE  KernelQueues' /\ Shrinks
  BY <1>2, QueuesKeep, SameShrinks DEF can_act, can_wup
<1>3. ASSUME NEW t \in Task, wup_tsk(t) PROVE KernelQueues' /\ Shrinks
  BY <1>3, WakeupQueues DEF wup_tsk
<1>4. ASSUME NEW t \in Task, rel_wai(t) PROVE KernelQueues' /\ Shrinks
  BY <1>4, WaitEnds DEF rel_wai, wait_release
<1>5. ASSUME NEW pri \in TPri, rot_rdq(pri) PROVE KernelQueues' /\ Shrinks
  BY <1>5, QueuesKeep, SameShrinks DEF rot_rdq
<1>6. ASSUME NEW enaall \in BOOLEAN, chg_ipm(enaall)
      PROVE  KernelQueues' /\ Shrinks
  BY <1>6, QueuesKeep, SameShrinks DEF chg_ipm
<1>7. CASE dly_tsk
  <2>1. TaskContext /\ make_wait("DLY", "wait_tmout_ok") /\ UNCHANGED wait_queue
    BY <1>7 DEF dly_tsk, CanDispatch, InTask
  <2>2. QED
    BY <2>1, PlainWaitBegins
<1>8. CASE dis_dsp \/ ena_dsp
  BY <1>8, QueuesKeep, SameShrinks DEF dis_dsp, ena_dsp
<1>9. QED
  BY <1>1, <1>2, <1>3, <1>4, <1>5, <1>6, <1>7, <1>8, ter_tskQueues,
     SuspendQueues, chg_priQueues, slp_tskQueues, ext_tskQueues DEF TaskCall

LEMMA IntCallQueues ==
  ASSUME KernelInv, KernelInv', KernelQueues, IntCall
  PROVE  KernelQueues' /\ Shrinks
<1>1. ASSUME NEW t \in Task, iact_tsk(t) PROVE KernelQueues' /\ Shrinks
  BY <1>1, ActivateQueues DEF iact_tsk
<1>2. ASSUME NEW t \in Task, iwup_tsk(t) PROVE KernelQueues' /\ Shrinks
  BY <1>2, WakeupQueues DEF iwup_tsk
<1>3. ASSUME NEW t \in Task, irel_wai(t) PROVE KernelQueues' /\ Shrinks
  BY <1>3, WaitEnds DEF irel_wai, wait_release
<1>4. ASSUME NEW t \in Task, wait_tmout(t) PROVE KernelQueues' /\ Shrinks
  BY <1>4, WaitEnds DEF wait_tmout
<1>5. ASSUME NEW t \in Task, wait_tmout_ok(t) PROVE KernelQueues' /\ Shrinks
  <2>1. ~TSTAT_WAIT_WOBJ(tstat[t])
    BY <1>5 DEF wait_tmout_ok, KernelQueues, TmoutOkInv
  <2>2. QED
    BY <1>5, <2>1, PlainWaitEnds DEF wait_tmout_ok
<1>6. ASSUME NEW pri \in TPri, irot_rdq(pri) PROVE KernelQueues' /\ Shrinks
  BY <1>6, QueuesKeep, SameShrinks DEF irot_rdq
<1>7. QED
  BY <1>1, <1>2, <1>3, <1>4, <1>5, <1>6 DEF IntCall

LEMMA NextQueues ==
  ASSUME KernelInv, KernelInv', KernelQueues, [Next]_vars
  PROVE  KernelQueues' /\ Shrinks
<1>1. CASE Context \/ UNCHANGED vars
  <2>1. UNCHANGED << tstat, priority, tmevt, wait_queue >>
    BY <1>1 DEF Context, loc_cpu, unl_cpu, core_int_entry, ret_int,
                dispatcher_idle, vars
  <2>2. QED
    BY <2>1, QueuesKeep, SameShrinks
<1>2. QED
  BY <1>1, BootQueues, TaskCallQueues, IntCallQueues DEF Next

LEMMA InitQueues ==
  ASSUME Init
  PROVE  KernelQueues
<1>1. \A t \in Task : /\ ~TSTAT_WAIT_WOBJ(tstat[t]) /\ tmevt[t] = "none"
  BY FactorStates DEF Init
<1>2. \A q \in WaitQueue : wait_queue[q] = << >> /\ Members(wait_queue[q]) = {}
  BY DEF Init, Members
<1>3. WaitQueueInv
  BY <1>1, <1>2 DEF WaitQueueInv, NoDuplicates
<1>4. TpriOrderInv /\ CbInv
  BY <1>2, QueueAssumption DEF TpriOrderInv, CbInv
<1>5. TmoutOkInv
  BY <1>1 DEF TmoutOkInv
<1>6. QED
  BY <1>3, <1>4, <1>5 DEF KernelQueues, QueuesInv

----------------------------------------------------------------------------
(***************************************************************************)
(* init_wait_queue: its loop takes the tasks of a queue one after the      *)
(* other.  What a recursive function computes is shown with the smallest   *)
(* counterexample.                                                         *)
(***************************************************************************)
LEMMA SmallestLemma ==
  ASSUME NEW S \in SUBSET Nat, S # {}
  PROVE  \E n \in S : \A m \in S : n <= m
<1>1. PICK n \in S : \A m \in S : ~ (<< m, n >> \in OpToRel(<, Nat))
  <2> HIDE DEF OpToRel
  <2> QED BY NatLessThanWellFounded, WFMin
<1>2. OpToRel(<, Nat) = {ss \in Nat \X Nat : ss[1] < ss[2]}
  BY DEF OpToRel
<1> HIDE DEF OpToRel
<1>3. ASSUME NEW m \in S, m < n PROVE FALSE
  <2>1. << m, n >> \in {ss \in Nat \X Nat : ss[1] < ss[2]}
    BY <1>3
  <2>2. QED
    BY <1>1, <1>2, <2>1
<1>4. QED
  BY <1>3

\* One turn of the loop.
Released(s, t) ==
  IF TSTAT_SUSPENDED(tstat[t]) THEN s ELSE make_runnable(s, priority, t)

Turn(f, entry, n) == IF n = 0 THEN sched ELSE Released(f[n - 1], entry[n])

LEMMA TurnsExist ==
  ASSUME NEW entry \in Seq(Task)
  PROVE  \E f : f = [n \in 0 .. Len(entry) |-> Turn(f, entry, n)]
<1> DEFINE Fn(f, N) == f = [n \in 0 .. N |-> Turn(f, entry, n)]
           Bad == {N \in Nat : N <= Len(entry) /\ ~ \E f : Fn(f, N)}
<1>1. Len(entry) \in Nat
  OBVIOUS
<1>2. ASSUME Bad # {} PROVE FALSE
  <2>1. PICK N \in Bad : \A M \in Bad : N <= M
    <3>1. Bad \in SUBSET Nat
      OBVIOUS
    <3> HIDE DEF Bad
    <3>2. QED
      BY <1>2, <3>1, SmallestLemma
  <2>2. N \in Nat /\ N <= Len(entry) /\ ~ \E f : Fn(f, N)
    BY <2>1
  <2>3. CASE N = 0
    <3> DEFINE f == [n \in 0 .. 0 |-> sched]
    <3>1. Fn(f, 0)
      BY DEF Turn
    <3> HIDE DEF f, Fn
    <3>2. QED
      BY <2>2, <2>3, <3>1
  <2>4. CASE N # 0
    <3>1. N - 1 \in Nat /\ N - 1 <= Len(entry) /\ ~(N <= N - 1)
      BY <1>1, <2>2, <2>4
    <3>2. N - 1 \notin Bad
      <4> HIDE DEF Bad
      <4> QED BY <2>1, <3>1
    <3>3. \E f : Fn(f, N - 1)
      <4> HIDE DEF Fn
      <4> QED BY <3>1, <3>2
    <3>4. PICK f : Fn(f, N - 1)
      BY <3>3
    <3> DEFINE g == [n \in 0 .. N |-> IF n < N THEN f[n]
                                      ELSE Released(f[N - 1], entry[N])]
    <3>5. \A n \in 0 .. N - 1 : f[n] = Turn(f, entry, n)
      BY <3>4
    <3>6. ASSUME NEW n \in 0 .. N PROVE g[n] = Turn(g, entry, n)
      <4>1. CASE n = 0
        <5>1. g[n] = f[0] /\ f[0] = Turn(f, entry, 0)
          BY <2>2, <2>4, <3>5, <4>1
        <5>2. QED
          BY <4>1, <5>1 DEF Turn
      <4>2. CASE n # 0 /\ n < N
        <5>1. g[n] = f[n] /\ g[n - 1] = f[n - 1] /\ f[n] = Turn(f, entry, n)
          BY <2>2, <3>5, <4>2
        <5> HIDE DEF g
        <5>2. QED
          BY <4>2, <5>1 DEF Turn
      <4>3. CASE n = N
        <5>1. /\ g[n] = Released(f[n - 1], entry[n])
              /\ g[n - 1] = f[n - 1]
          BY <2>2, <2>4, <4>3
        <5> HIDE DEF g
        <5>2. QED
          BY <2>4, <4>3, <5>1 DEF Turn
      <4>4. QED
        BY <2>2, <4>1, <4>2, <4>3
    <3>7. Fn(g, N)
      <4>1. g = [n \in 0 .. N |-> g[n]]
        OBVIOUS
      <4> HIDE DEF g
      <4>2. QED
        BY <3>6, <4>1
    <3> HIDE DEF Fn, g
    <3>8. QED
      BY <2>2, <3>7
  <2>5. QED
    BY <2>3, <2>4
<1>3. \E f : Fn(f, Len(entry))
  <2> HIDE DEF Fn
  <2> QED BY <1>1, <1>2
<1>4. QED
  BY <1>3

\* The tasks that the first n turns have made runnable, and the others.
ReleasedTo(entry, n) ==
  Runnable \cup {t \in Task : /\ ~TSTAT_SUSPENDED(tstat[t])
                              /\ \E i \in 1 .. n : entry[i] = t}

LEMMA TurnsConsistent ==
  ASSUME KernelInv, NEW entry \in Seq(Task), NoDuplicates(entry),
         \A t \in Members(entry) : t \notin Runnable,
         NEW f, f = [n \in 0 .. Len(entry) |-> Turn(f, entry, n)],
         NEW n \in 0 .. Len(entry)
  PROVE  /\ f[n] \in SchedType
         /\ Consistent(f[n], priority, ReleasedTo(entry, n))
<1> DEFINE P(m) == /\ f[m] \in SchedType
                   /\ Consistent(f[m], priority, ReleasedTo(entry, m))
           Bad == {m \in Nat : m <= Len(entry) /\ ~P(m)}
<1>1. Len(entry) \in Nat /\ \A i \in 1 .. Len(entry) : entry[i] \in Task
  OBVIOUS
<1>2. \A m \in 0 .. Len(entry) : f[m] = Turn(f, entry, m)
  OBVIOUS
<1>3. P(0)
  <2>1. f[0] = sched
    BY <1>1, <1>2 DEF Turn
  <2>2. ReleasedTo(entry, 0) = Runnable
    BY DEF ReleasedTo
  <2>3. QED
    BY <2>1, <2>2, TypesOf DEF ReadyQueueInv
<1>4. ASSUME NEW m \in 1 .. Len(entry), P(m - 1) PROVE P(m)
  <2> DEFINE R == ReleasedTo(entry, m - 1)
             t == entry[m]
  <2>1. t \in Task /\ t \notin R
    <3>1. t \in Members(entry)
      BY <1>1 DEF Members
    <3>2. \A i \in 1 .. m - 1 : entry[i] # t
      BY <1>1 DEF NoDuplicates
    <3>3. QED
      BY <1>1, <3>1, <3>2 DEF ReleasedTo
  <2>2. R \in SUBSET Task /\ priority \in [Task -> TPri]
    BY RunnableType, TypesOf DEF ReleasedTo
  <2>3. f[m] = Released(f[m - 1], t)
    BY <1>1, <1>2 DEF Turn
  <2>4. CASE TSTAT_SUSPENDED(tstat[t])
    <3>1. ReleasedTo(entry, m) = R
      BY <1>1, <2>4 DEF ReleasedTo
    <3>2. f[m] = f[m - 1]
      BY <2>3, <2>4 DEF Released
    <3>3. QED
      BY <1>4, <3>1, <3>2
  <2>5. CASE ~TSTAT_SUSPENDED(tstat[t])
    <3>1. ReleasedTo(entry, m) = R \cup {t}
      <4>1. \A u : (\E i \in 1 .. m : entry[i] = u)
                     <=> u = t \/ \E i \in 1 .. m - 1 : entry[i] = u
        BY <1>1
      <4>2. QED
        BY <2>1, <2>5, <4>1 DEF ReleasedTo
    <3>2. f[m] = make_runnable(f[m - 1], priority, t)
      BY <2>3, <2>5 DEF Released
    <3>3. f[m - 1] \in SchedType /\ Consistent(f[m - 1], priority, R)
      BY <1>4
    <3> HIDE DEF R, t
    <3>4. QED
      BY <2>1, <2>2, <3>1, <3>2, <3>3, MakeRunnableLemma
  <2>6. QED
    BY <2>4, <2>5
<1> HIDE DEF P
<1>5. ASSUME Bad # {} PROVE FALSE
  <2>1. PICK m \in Bad : \A k \in Bad : m <= k
    <3>1. Bad \in SUBSET Nat
      OBVIOUS
    <3> HIDE DEF Bad
    <3>2. QED
      BY <1>5, <3>1, SmallestLemma
  <2>2. m # 0 /\ m \in 1 .. Len(entry)
    BY <1>1, <1>3, <2>1
  <2>3. ~P(m - 1)
    BY <1>4, <2>1, <2>2
  <2>4. m - 1 \in Bad
    BY <1>1, <2>2, <2>3
  <2> HIDE DEF Bad
  <2>5. QED
    BY <2>1, <2>2, <2>4, <1>1
<1>6. P(n)
  BY <1>1, <1>5
<1>7. QED
  BY <1>6 DEF P

\* The tasks of a queue are released in its order.
LEMMA ReleaseInOrderLemma ==
  ASSUME KernelInv, NEW entry \in Seq(Task), NoDuplicates(entry),
         \A t \in Members(entry) : TSTAT_WAITING(tstat[t]),
         release_in_order(entry), UNCHANGED priority
  PROVE  /\ sched' \in SchedType /\ tstat' \in [Task -> TstatType]
         /\ ReadyQueueInv' /\ tmevt' \in [Task -> TmevtType]
         /\ Runnable \subseteq Runnable'
<1> DEFINE f == CHOOSE f : f = [n \in 0 .. Len(entry) |-> Turn(f, entry, n)]
           N == Len(entry)
<1>1. N \in Nat /\ f = [n \in 0 .. N |-> Turn(f, entry, n)]
  BY TurnsExist
<1>2. /\ sched' = f[N]
      /\ tstat' = [t \in Task |->
                     IF t \notin Members(entry) THEN tstat[t]
                     ELSE IF TSTAT_SUSPENDED(tstat[t]) THEN TS_SUSPENDED
                     ELSE TS_RUNNABLE]
      /\ tmevt' = [t \in Task |->
                     IF t \in Members(entry) /\ winfo[t] # NoTmevtb
                       THEN "none" ELSE tmevt[t]]
  BY DEF release_in_order, Turn, Released
<1>3. ASSUME NEW t \in Members(entry) PROVE t \in Task /\ t \notin Runnable
  <2>1. t \in Task
    BY <1>1 DEF Members
  <2>2. ~TSTAT_RUNNABLE(tstat[t])
    BY <2>1, TstatExclusion, TypesOf
  <2>3. QED
    BY <2>1, <2>2 DEF Runnable
<1> HIDE DEF f
<1>4. sched' \in SchedType /\ Consistent(sched', priority, ReleasedTo(entry, N))
  BY <1>1, <1>2, <1>3, TurnsConsistent
<1>5. tstat' \in [Task -> TstatType]
  BY <1>2, TstatLemma, TypesOf
<1>6. Runnable' = ReleasedTo(entry, N)
  <2>1. \A t : t \in Members(entry) <=> \E i \in 1 .. N : entry[i] = t
    BY DEF Members
  <2>2. ASSUME NEW t \in Task
        PROVE  TSTAT_RUNNABLE(tstat'[t])
                 <=> \/ t \in Runnable
                     \/ t \in Members(entry) /\ ~TSTAT_SUSPENDED(tstat[t])
    BY <1>2, <1>3, TstatLemma DEF Runnable
  <2>3. QED
    BY <2>1, <2>2 DEF ReleasedTo, Runnable
<1>7. ReadyQueueInv' /\ Runnable \subseteq Runnable'
  BY <1>4, <1>6 DEF ReadyQueueInv, ReleasedTo
<1>8. tmevt' \in [Task -> TmevtType]
  BY <1>2, TypesOf DEF TmevtType
<1>9. QED
  BY <1>4, <1>5, <1>7, <1>8

\* The release of all the tasks of a queue, up to the dispatch of the call.
LEMMA ReleaseWaits ==
  ASSUME KernelInv, WaitInv, NEW entry \in Seq(Task),
         \A t \in Members(entry) : TSTAT_WAITING(tstat[t]),
         release_in_order(entry), NEW e, e # "tmevtb"
  PROVE  WaitProp(tstat', release_winfo(entry, e), tmevt')
<1>1. /\ tstat' = [t \in Task |->
                     IF t \notin Members(entry) THEN tstat[t]
                     ELSE IF TSTAT_SUSPENDED(tstat[t]) THEN TS_SUSPENDED
                     ELSE TS_RUNNABLE]
      /\ tmevt' = [t \in Task |->
                     IF t \in Members(entry) /\ winfo[t] # NoTmevtb
                       THEN "none" ELSE tmevt[t]]
  BY DEF release_in_order
<1>2. ASSUME NEW t \in Task
      PROVE  WaitAt(t, tstat', release_winfo(entry, e), tmevt')
  <2>1. WaitAt(t, tstat, winfo, tmevt)
    BY WaitInvDef DEF WaitProp
  <2>2. release_winfo(entry, e)[t] = IF t \in Members(entry) THEN e ELSE winfo[t]
    BY DEF release_winfo
  <2>3. CASE t \in Members(entry)
    <3>1. ~TSTAT_WAITING(tstat'[t])
      BY <1>1, <2>3, TstatLemma
    <3>2. tmevt'[t] = "none"
      BY <1>1, <2>1, <2>3, TypesOf DEF WaitAt, NoTmevtb, ZERO
    <3>3. QED
      BY <2>2, <2>3, <3>1, <3>2 DEF WaitAt
  <2>4. CASE t \notin Members(entry)
    <3>1. tstat'[t] = tstat[t] /\ tmevt'[t] = tmevt[t]
      BY <1>1, <2>4
    <3>2. QED
      BY <2>1, <2>2, <2>4, <3>1 DEF WaitAt
  <2>5. QED
    BY <2>3, <2>4
<1>3. QED
  BY <1>2 DEF WaitProp

LEMMA ReleaseQueues ==
  ASSUME KernelInv, KernelInv', KernelQueues, NEW s \in WaitQueue,
         init_wait_queue(s), UNCHANGED priority
  PROVE  /\ KernelQueues' /\ wait_queue'[s] = << >>
         /\ \A q \in WaitQueue \ {s} : wait_queue'[q] = wait_queue[q]
<1> DEFINE W == Members(wait_queue[s])
<1>1. /\ wait_queue' = [wait_queue EXCEPT ![s] = << >>]
      /\ tstat' = [t \in Task |->
                     IF t \notin W THEN tstat[t]
                     ELSE IF TSTAT_SUSPENDED(tstat[t]) THEN TS_SUSPENDED
                     ELSE TS_RUNNABLE]
      /\ tmevt' = [t \in Task |-> IF t \in W /\ winfo[t] # NoTmevtb
                                    THEN "none" ELSE tmevt[t]]
  BY DEF init_wait_queue, release_in_order
<1>2. W \in SUBSET Task
  BY QueueFacts
<1>3. /\ wait_queue'[s] = << >>
      /\ \A q \in WaitQueue \ {s} : wait_queue'[q] = wait_queue[q]
  BY <1>1, TypesOf
<1>4. \A t \in W : \A q \in WaitQueue \ {s} : t \notin Members(wait_queue[q])
  BY <1>2, QueueFacts DEF LinkAt
<1>5. ASSUME NEW q \in WaitQueue
      PROVE  /\ NoDuplicates(wait_queue'[q])
             /\ Members(wait_queue'[q]) = Members(wait_queue[q]) \ W
             /\ q \in TpriQueue => Ordered(wait_queue'[q], priority')
  <2>1. CASE q = s
    <3>1. wait_queue'[q] = << >>
      BY <1>3, <2>1
    <3>2. Members(wait_queue'[q]) = {}
      BY <3>1 DEF Members
    <3>3. QED
      BY <2>1, <3>1, <3>2 DEF NoDuplicates, Ordered
  <2>2. CASE q # s
    <3>1. wait_queue'[q] = wait_queue[q] /\ Members(wait_queue[q]) \cap W = {}
      BY <1>3, <1>4, <2>2
    <3>2. q \in TpriQueue => Ordered(wait_queue[q], priority)
      BY QueueFacts
    <3>3. QED
      BY <3>1, <3>2, QueueFacts
  <2>3. QED
    BY <2>1, <2>2
<1>6. \A t \in W : ~TSTAT_WAIT_WOBJ(tstat'[t])
  BY <1>1, <1>2, FactorStates
<1>7. \A t \in Task \ W : tstat'[t] = tstat[t]
  BY <1>1
<1>8. \A t \in Task : tmevt'[t] \in {tmevt[t], "none"}
  BY <1>1
<1>9. \A q \in TpriQueue : Ordered(wait_queue'[q], priority')
  BY <1>5, QueueFacts
<1> HIDE DEF W
<1>10. KernelQueues'
  BY <1>2, <1>5, <1>6, <1>7, <1>8, <1>9, QueuesLeave
<1>11. QED
  BY <1>3, <1>10

----------------------------------------------------------------------------
(***************************************************************************)
(* What every call on a wait object does up to its return to its context.  *)
(***************************************************************************)
\* The completion of the wait of a task of the queue, up to the dispatch.
LEMMA CompleteLemma ==
  ASSUME KernelInv, WaitInv, NEW t \in Task, TSTAT_WAITING(tstat[t]),
         wait_complete(t), UNCHANGED priority
  PROVE  /\ sched' \in SchedType /\ tstat' \in [Task -> TstatType]
         /\ ReadyQueueInv' /\ tmevt' \in [Task -> TmevtType]
         /\ wait_complete_winfo(t) \in [Task -> WinfoType]
         /\ Runnable \subseteq Runnable'
         /\ WaitProp(tstat', wait_complete_winfo(t), tmevt')
<1>1. wait_dequeue_tmevtb(t, winfo) /\ make_non_wait(t)
  BY DEF wait_complete
<1>2. wait_complete_winfo(t) \in [Task -> WinfoType]
  BY TypesOf DEF wait_complete_winfo, WinfoType, E_OK
<1>3. PICK ts \in TstatType : /\ ~TSTAT_WAITING(ts)
                              /\ tstat' = [tstat EXCEPT ![t] = ts]
  BY <1>1, make_non_waitState
<1>4. E_OK # "tmevtb"
  BY DEF E_OK, ZERO
<1>5. WaitProp(tstat', wait_complete_winfo(t), tmevt')
  BY <1>1, <1>3, <1>4, WaitEndLemma DEF wait_complete_winfo
<1>6. QED
  BY <1>1, <1>2, <1>5, MakeNonWaitLemma, wait_dequeue_tmevtbType, TypesOf

\* What a call does before it returns to its context.
CallBody(w) ==
  /\ sched' \in SchedType /\ tstat' \in [Task -> TstatType]
  /\ ReadyQueueInv' /\ tmevt' \in [Task -> TmevtType]
  /\ wait_queue' \in [WaitQueue -> Seq(Task)]
  /\ w \in [Task -> WinfoType]
  /\ Runnable \subseteq Runnable'
  /\ WaitProp(tstat', w, tmevt')

LEMMA TaskBodyStep ==
  ASSUME KernelInv, InTask, NEW w, CallBody(w), TaskReturn(w),
         UNCHANGED << priority, queVars >>
  PROVE  KernelInv' /\ WaitInv'
<1>1. /\ TaskContext /\ p_runtsk \in Runnable'
      /\ UNCHANGED << priority, actque, wupque >>
  BY InTaskFacts DEF InTask, CallBody, queVars
<1>2. KernelInv'
  BY <1>1, TaskReturnLemma, TypesOf DEF CallBody
<1>3. QED
  BY <1>2, WaitTaskReturnLemma DEF CallBody

LEMMA IntBodyStep ==
  ASSUME KernelInv, InInterrupt, NEW w, CallBody(w), IntReturn(w),
         UNCHANGED << priority, queVars >>
  PROVE  KernelInv' /\ WaitInv'
<1>1. UNCHANGED << priority, actque, wupque >>
  BY DEF queVars
<1>2. KernelInv'
  BY <1>1, IntReturnLemma, TypesOf DEF CallBody
<1>3. QED
  BY <1>2, WaitIntReturnLemma DEF CallBody

----------------------------------------------------------------------------
(***************************************************************************)
(* TaskKernel implements Dispatching, and the running task is not switched *)
(* while dispatching is held back or the CPU is locked.                    *)
(***************************************************************************)
\* Nobody holds the CPU lock in the idle loop or before the kernel starts.
LockInv == cpulock => kerflg /\ (nest > 0 \/ p_runtsk # NULL)

\* What every call of a task does to the processor.
TaskStepFacts ==
  /\ kerflg /\ nest = 0 /\ p_runtsk # NULL
  /\ UNCHANGED << kerflg, nest, reqflg >>
  /\ ~cpulock'
  /\ ~dspflg' => p_runtsk' = p_runtsk

\* What every call of a handler does to it.
HandlerStepFacts ==
  /\ nest > 0
  /\ UNCHANGED << kerflg, nest, p_runtsk, dspflg >>
  /\ ~cpulock'

LEMMA TaskReturnFacts ==
  ASSUME InTask, NEW w, TaskReturn(w)
  PROVE  TaskStepFacts
BY DEF InTask, TaskContext, TaskReturn, DispatchRequired, ctxVars, flagVars,
       bootVars, TaskStepFacts

LEMMA MakeWaitFacts ==
  ASSUME CanDispatch, NEW factor, NEW callback, make_wait(factor, callback)
  PROVE  TaskStepFacts
<1>1. UNCHANGED << ctxVars, flagVars, bootVars >>
  BY DEF make_wait
<1>2. QED
  BY <1>1 DEF CanDispatch, InTask, TaskContext, ctxVars, flagVars, bootVars,
              TaskStepFacts

LEMMA IntReturnFacts ==
  ASSUME InInterrupt, NEW w, IntReturn(w)
  PROVE  HandlerStepFacts
BY DEF InInterrupt, IntReturn, flagVars, bootVars, HandlerStepFacts

LEMMA TaskCallFacts ==
  ASSUME TaskCall
  PROVE  TaskStepFacts
<1>1. ASSUME NEW t \in Task,
             act_tsk(t) \/ wup_tsk(t) \/ rel_wai(t) \/ sus_tsk(t) \/ rsm_tsk(t)
      PROVE  TaskStepFacts
  <2>1. InTask /\ \E w : TaskReturn(w)
    BY <1>1 DEF act_tsk, wup_tsk, rel_wai, sus_tsk, rsm_tsk
  <2>2. QED
    BY <2>1, TaskReturnFacts
<1>2. ASSUME NEW t \in Task, can_act(t) \/ can_wup(t)
      PROVE  TaskStepFacts
  <2>1. /\ InTask
        /\ UNCHANGED << p_runtsk, flagVars, ctxVars, bootVars >>
    BY <1>2 DEF can_act, can_wup
  <2>2. QED
    BY <2>1 DEF InTask, TaskContext, ctxVars, flagVars, bootVars,
                TaskStepFacts
<1>3. ASSUME NEW t \in Task, ter_tsk(t)
      PROVE  TaskStepFacts
  <2>1. /\ InTask
        /\ UNCHANGED << flagVars, ctxVars, bootVars >>
        /\ ~dspflg => p_runtsk' = p_runtsk
    BY <1>3 DEF ter_tsk
  <2>2. QED
    BY <2>1 DEF InTask, TaskContext, ctxVars, flagVars, bootVars,
                TaskStepFacts
<1>4. ASSUME NEW t \in Task, NEW pri \in TPri, chg_pri(t, pri)
      PROVE  TaskStepFacts
  <2>1. InTask /\ TaskReturn(winfo)
    BY <1>4 DEF chg_pri
  <2>2. QED
    BY <2>1, TaskReturnFacts
<1>5. ASSUME NEW pri \in TPri, rot_rdq(pri)
      PROVE  TaskStepFacts
  <2>1. InTask /\ TaskReturn(winfo)
    BY <1>5 DEF rot_rdq
  <2>2. QED
    BY <2>1, TaskReturnFacts
<1>6. ASSUME NEW callback \in {"none", "wait_tmout"}, slp_tsk(callback)
      PROVE  TaskStepFacts
  <2>1. CanDispatch
    BY <1>6 DEF slp_tsk
  <2>2. CASE make_wait("SLP", callback)
    BY <2>1, <2>2, MakeWaitFacts
  <2>3. CASE UNCHANGED << p_runtsk, flagVars, ctxVars, bootVars >>
    BY <2>1, <2>3 DEF CanDispatch, InTask, TaskContext, ctxVars, flagVars,
                      bootVars, TaskStepFacts
  <2>4. QED
    BY <1>6, <2>2, <2>3 DEF slp_tsk
<1>7. ASSUME NEW enaall \in BOOLEAN, chg_ipm(enaall)
      PROVE  TaskStepFacts
  <2>1. /\ InTask /\ UNCHANGED << ctxVars, bootVars >>
        /\ \/ dspflg'
           \/ UNCHANGED p_runtsk
    BY <1>7 DEF chg_ipm
  <2>2. QED
    BY <2>1 DEF InTask, TaskContext, ctxVars, bootVars, TaskStepFacts
<1>8. CASE ext_tsk
  BY <1>8 DEF ext_tsk, TaskContext, bootVars, TaskStepFacts
<1>9. CASE dly_tsk
  BY <1>9, MakeWaitFacts DEF dly_tsk
<1>10. CASE dis_dsp
  BY <1>10 DEF dis_dsp, InTask, TaskContext, ctxVars, bootVars, TaskStepFacts
<1>11. CASE ena_dsp
  <2>1. /\ InTask /\ UNCHANGED << ctxVars, bootVars >>
        /\ \/ dspflg'
           \/ UNCHANGED p_runtsk
    BY <1>11 DEF ena_dsp
  <2>2. QED
    BY <2>1 DEF InTask, TaskContext, ctxVars, bootVars, TaskStepFacts
<1>12. QED
  BY <1>1, <1>2, <1>3, <1>4, <1>5, <1>6, <1>7, <1>8, <1>9, <1>10, <1>11
     DEF TaskCall

LEMMA IntCallFacts ==
  ASSUME IntCall
  PROVE  HandlerStepFacts
<1>1. InInterrupt /\ \E w : IntReturn(w)
  BY DEF IntCall, iact_tsk, iwup_tsk, irel_wai, wait_tmout, wait_tmout_ok,
         irot_rdq
<1>2. QED
  BY <1>1, IntReturnFacts

----------------------------------------------------------------------------
(***************************************************************************)
(* Each kind of step maps to a step of Dispatching.                        *)
(***************************************************************************)
LEMMA SchedtskChoice ==
  ASSUME TypeOK
  PROVE  sched.p_schedtsk \in Promise!Choice
BY DEF TypeOK, SchedType, Promise!Choice

LEMMA TaskCallMaps ==
  ASSUME KernelInv, KernelInv', TaskCall
  PROVE  Promise!TaskStep
<1>1. TaskStepFacts
  BY TaskCallFacts
<1>2. ~reqflg'
  BY <1>1 DEF TaskStepFacts, KernelInv, DispatchInv, DispatchedInv,
              TaskContext
<1>3. dspflg' => p_runtsk' = sched'.p_schedtsk
  BY <1>1, <1>2 DEF TaskStepFacts, KernelInv, DispatchInv, RequestInv
<1>4. sched'.p_schedtsk \in Promise!Choice /\ dspflg' \in BOOLEAN
  BY SchedtskChoice DEF KernelInv, TypeOK, SchedType, Promise!Choice
<1>5. QED
  BY <1>1, <1>3, <1>4 DEF TaskStepFacts, Promise!TaskStep

LEMMA IntCallMaps ==
  ASSUME KernelInv, KernelInv', IntCall
  PROVE  Promise!HandlerStep
<1>1. HandlerStepFacts
  BY IntCallFacts
<1>2. kerflg
  BY <1>1 DEF HandlerStepFacts, KernelInv, BootInv
<1>3. sched'.p_schedtsk \in Promise!Choice
  BY DEF KernelInv, TypeOK, SchedType, Promise!Choice
<1>4. QED
  BY <1>1, <1>2, <1>3 DEF HandlerStepFacts, Promise!HandlerStep

LEMMA BootMaps ==
  ASSUME KernelInv, KernelInv', Boot
  PROVE  Promise!Prepare \/ Promise!Start
<1>1. CASE initialize_task
  <2>1. sched'.p_schedtsk \in Promise!Choice
    BY DEF KernelInv, TypeOK, SchedType, Promise!Choice
  <2>2. Promise!Prepare
    BY <1>1, <2>1 DEF initialize_task, flagVars, ctxVars, Promise!Prepare
  <2>3. QED
    BY <2>2
<1>2. CASE start_dispatch
  BY <1>2 DEF start_dispatch, Dispatch, flagVars, ctxVars, Promise!Start
<1>3. QED
  BY <1>1, <1>2 DEF Boot

LEMMA ContextMaps ==
  ASSUME KernelInv, KernelInv', Context
  PROVE  Promise!DNext \/ UNCHANGED Promise!dvars
<1>1. CASE loc_cpu \/ unl_cpu
  BY <1>1 DEF loc_cpu, unl_cpu, flagVars, bootVars, Promise!dvars
<1>2. CASE core_int_entry
  <2>1. Promise!Enter
    BY <1>2 DEF core_int_entry, flagVars, bootVars, Promise!Enter
  <2>2. QED
    BY <2>1 DEF Promise!DNext
<1>3. CASE ret_int
  <2>1. nest \in Nat /\ nest > 0 /\ kerflg
    BY <1>3 DEF ret_int, InInterrupt, KernelInv, TypeOK, BootInv
  <2>2. ~reqflg /\ p_runtsk # NULL /\ dspflg => p_runtsk = sched.p_schedtsk
    BY <2>1 DEF KernelInv, DispatchInv, RequestInv
  <2>3. p_runtsk' = IF nest = 1 /\ p_runtsk # NULL /\ dspflg
                      THEN sched.p_schedtsk ELSE p_runtsk
    BY <1>3, <2>2 DEF ret_int, DispatchPending, Dispatch
  <2>4. Promise!Leave
    BY <1>3, <2>1, <2>3 DEF ret_int, flagVars, bootVars, Promise!Leave
  <2>5. QED
    BY <2>4 DEF Promise!DNext
<1>4. CASE dispatcher_idle
  <2>1. Promise!Wake
    BY <1>4 DEF dispatcher_idle, Dispatch, flagVars, bootVars, Promise!Wake
  <2>2. QED
    BY <2>1 DEF Promise!DNext
<1>5. QED
  BY <1>1, <1>2, <1>3, <1>4 DEF Context

LEMMA NextMaps ==
  ASSUME KernelInv, KernelInv', [Next]_vars
  PROVE  [Promise!DNext]_(Promise!dvars)
<1>1. CASE Boot
  BY <1>1, BootMaps DEF Promise!DNext
<1>2. CASE TaskCall
  BY <1>2, TaskCallMaps DEF Promise!DNext
<1>3. CASE IntCall
  BY <1>3, IntCallMaps DEF Promise!DNext
<1>4. CASE Context
  BY <1>4, ContextMaps
<1>5. CASE UNCHANGED vars
  BY <1>5 DEF vars, flagVars, ctxVars, bootVars, Promise!dvars
<1>6. QED
  BY <1>1, <1>2, <1>3, <1>4, <1>5 DEF Next

\* The kernel keeps the promise of Dispatching: every service call, handler
\* and exit is one of its steps, or leaves its variables alone
\* (KeepsPromise).
THEOREM ImplementsDispatching == Spec => KeepsPromise
<1>1. Init => Promise!DInit
  BY DEF Init, EmptySched, Promise!DInit, Promise!Choice
<1>2. KernelInv /\ KernelInv' /\ [Next]_vars
        => [Promise!DNext]_(Promise!dvars)
  BY NextMaps
<1>3. Spec => []KernelInv
  BY Invariance, PTL
<1>4. QED
  BY <1>1, <1>2, <1>3, PTL DEF Spec, KeepsPromise, Promise!DSpec

----------------------------------------------------------------------------
\* Whoever holds the CPU lock after a step held it before, or has taken it.
LEMMA LockStep ==
  ASSUME KernelInv, LockInv, [Next]_vars
  PROVE  /\ LockInv'
         /\ cpulock' => UNCHANGED << p_runtsk, nest >>
<1>1. CASE Boot
  <2>1. ~kerflg
    BY <1>1 DEF Boot, initialize_task, start_dispatch
  <2>2. ~cpulock'
    BY <1>1, <2>1 DEF LockInv, Boot, initialize_task, start_dispatch, ctxVars
  <2>3. QED
    BY <2>2 DEF LockInv
<1>2. CASE TaskCall
  BY <1>2, TaskCallFacts DEF TaskStepFacts, LockInv
<1>3. CASE IntCall
  BY <1>3, IntCallFacts DEF HandlerStepFacts, LockInv
<1>4. CASE loc_cpu \/ unl_cpu
  <2>1. UNCHANGED << kerflg, nest, p_runtsk >>
    BY <1>4 DEF loc_cpu, unl_cpu, bootVars
  <2>2. kerflg /\ (nest > 0 \/ p_runtsk # NULL)
    BY <1>4 DEF loc_cpu, unl_cpu, TaskContext, KernelInv, BootInv, TypeOK
  <2>3. QED
    BY <2>1, <2>2 DEF LockInv
<1>5. CASE core_int_entry \/ ret_int
  <2>1. ~cpulock'
    BY <1>5 DEF core_int_entry, ret_int, InInterrupt
  <2>2. QED
    BY <2>1 DEF LockInv
<1>6. CASE dispatcher_idle
  <2>1. ~cpulock'
    BY <1>6 DEF dispatcher_idle, LockInv
  <2>2. QED
    BY <2>1 DEF LockInv
<1>7. CASE UNCHANGED vars
  BY <1>7 DEF vars, ctxVars, bootVars, LockInv
<1>8. QED
  BY <1>1, <1>2, <1>3, <1>4, <1>5, <1>6, <1>7 DEF Next, Context

LEMMA HeldBackStep ==
  ASSUME KernelInv, KernelInv', [Next]_vars, ~dspflg, ~dspflg'
  PROVE  p_runtsk' = p_runtsk
<1>1. p_runtsk # NULL /\ kerflg
  BY DEF KernelInv, DispatchInv, IdleInv, BootInv
<1>2. [Promise!DNext]_(Promise!dvars)
  BY NextMaps
<1>3. QED
  BY <1>1, <1>2 DEF Promise!DNext, Promise!dvars, Promise!Prepare,
     Promise!Start, Promise!TaskStep, Promise!Enter, Promise!HandlerStep,
     Promise!Leave, Promise!Wake

\* While dispatching is disabled, the mask raised or the CPU locked, the
\* running task keeps the processor (NoPreemption).
THEOREM NoPreemptionCorrect == Spec => NoPreemption
<1> DEFINE Keeps == (~dspflg /\ ~dspflg') \/ (cpulock /\ cpulock')
                      => p_runtsk' = p_runtsk
<1>1. Init => LockInv
  BY DEF Init, LockInv
<1>2. KernelInv /\ LockInv /\ [Next]_vars => LockInv'
  BY LockStep
<1>3. KernelInv /\ KernelInv' /\ LockInv /\ [Next]_vars => [Keeps]_vars
  <2> SUFFICES ASSUME KernelInv, KernelInv', LockInv, [Next]_vars PROVE Keeps
    OBVIOUS
  <2>1. cpulock /\ cpulock' => p_runtsk' = p_runtsk
    BY LockStep
  <2>2. ~dspflg /\ ~dspflg' => p_runtsk' = p_runtsk
    BY HeldBackStep
  <2>3. QED
    BY <2>1, <2>2
<1>4. Spec => []KernelInv
  BY Invariance, PTL
<1>5. QED
  BY <1>1, <1>2, <1>3, <1>4, PTL DEF Spec, NoPreemption

----------------------------------------------------------------------------
(***************************************************************************)
(* The order in the ready queues.  A function of task.c moves at most one  *)
(* task, and that one to the tail: every other one has no task ahead of it *)
(* that was not there (Follows), and the one it moves has none behind it   *)
(* (Last).                                                                 *)
(***************************************************************************)
Before(q, a, b) ==
  \E i, j \in 1 .. Len(q) : i < j /\ q[i] = a /\ q[j] = b

Follows(s, s2, A) ==
  \A a \in A : \A b \in Task : Ahead(s2, b, a) => Ahead(s, b, a)

Last(s, t) == ~\E c \in Task : Ahead(s, t, c)

LEMMA AheadIsBefore ==
  ASSUME NEW s, NEW a, NEW b
  PROVE  Ahead(s, a, b) <=> \E p \in TPri : Before(s.ready_queue[p], a, b)
BY DEF Ahead, Before

LEMMA AppendBefore ==
  ASSUME NEW q \in Seq(Task), NEW t \in Task
  PROVE  /\ \A a, b : b # t /\ Before(Append(q, t), a, b) => Before(q, a, b)
         /\ t \notin Members(q) => \A c : ~Before(Append(q, t), t, c)
<1> DEFINE n == Append(q, t)
<1>1. /\ Len(n) = Len(q) + 1 /\ Len(q) \in Nat
      /\ \A i \in 1 .. Len(q) : n[i] = q[i]
      /\ n[Len(q) + 1] = t
  OBVIOUS
<1> HIDE DEF n
<1>2. ASSUME NEW a, NEW b, b # t, Before(n, a, b) PROVE Before(q, a, b)
  <2>1. PICK i \in 1 .. Len(n), j \in 1 .. Len(n) :
               i < j /\ n[i] = a /\ n[j] = b
    BY <1>2 DEF Before
  <2>2. j # Len(q) + 1
    BY <1>1, <1>2, <2>1
  <2>3. i \in 1 .. Len(q) /\ j \in 1 .. Len(q)
    BY <1>1, <2>1, <2>2
  <2>4. q[i] = a /\ q[j] = b
    BY <1>1, <2>1, <2>3
  <2>5. QED
    BY <2>1, <2>3, <2>4 DEF Before
<1>3. ASSUME t \notin Members(q), NEW c, Before(n, t, c) PROVE FALSE
  <2>1. PICK i \in 1 .. Len(n), j \in 1 .. Len(n) :
               i < j /\ n[i] = t /\ n[j] = c
    BY <1>3 DEF Before
  <2>2. i \in 1 .. Len(q)
    BY <1>1, <2>1
  <2>3. q[i] = t
    BY <1>1, <2>1, <2>2
  <2>4. QED
    BY <1>3, <2>2, <2>3 DEF Members
<1>4. QED
  BY <1>2, <1>3 DEF n

LEMMA DeleteBefore ==
  ASSUME NEW q \in Seq(Task), NEW t, NoDuplicates(q),
         NEW a, NEW b, Before(QueueDelete(q, t), a, b)
  PROVE  Before(q, a, b)
<1> DEFINE d == QueueDelete(q, t)
           At(i) == IF i < Position(q, t) THEN i ELSE i + 1
<1>1. CASE t \notin Members(q)
  BY <1>1 DEF QueueDelete
<1>2. CASE t \in Members(q)
  <2>1. Position(q, t) \in 1 .. Len(q) /\ Len(q) \in Nat
    BY <1>2, PositionIsIndex
  <2>2. /\ Len(d) = Len(q) - 1
        /\ d = [i \in 1 .. Len(q) - 1 |->
                  IF i < Position(q, t) THEN q[i] ELSE q[i + 1]]
    BY <1>2, QueueDeleteLemma DEF QueueDelete
  <2>3. PICK i \in 1 .. Len(d), j \in 1 .. Len(d) :
               i < j /\ d[i] = a /\ d[j] = b
    BY DEF Before
  <2>4. /\ At(i) \in 1 .. Len(q) /\ At(j) \in 1 .. Len(q) /\ At(i) < At(j)
    BY <2>1, <2>2, <2>3
  <2>5. d[i] = q[At(i)] /\ d[j] = q[At(j)]
    BY <2>1, <2>2, <2>3
  <2> HIDE DEF At, d
  <2>6. QED
    BY <2>3, <2>4, <2>5 DEF Before
<1>3. QED
  BY <1>1, <1>2

LEMMA RotateBefore ==
  ASSUME NEW q \in Seq(Task), NoDuplicates(q), ~(Len(q) < 2)
  PROVE  /\ \A a, b : /\ b # Head(q)
                      /\ Before(Append(Tail(q), Head(q)), a, b)
                      => Before(q, a, b)
         /\ \A c : ~Before(Append(Tail(q), Head(q)), Head(q), c)
<1> DEFINE tail == Tail(q)
           entry == Head(q)
<1>1. Len(q) \in Nat /\ q # << >>
  OBVIOUS
<1>2. entry \in Task /\ entry = q[1]
  BY <1>1
<1>3. /\ tail \in Seq(Task) /\ Len(tail) = Len(q) - 1
      /\ \A i \in 1 .. Len(tail) : tail[i] = q[i + 1]
  BY <1>1, HeadTailProperties
<1> HIDE DEF tail, entry
<1>4. entry \notin Members(tail)
  <2> SUFFICES ASSUME NEW i \in 1 .. Len(tail), tail[i] = entry PROVE FALSE
    BY DEF Members
  <2>1. i + 1 \in 1 .. Len(q) /\ 1 \in 1 .. Len(q) /\ i + 1 # 1
    BY <1>1, <1>3
  <2>2. q[i + 1] = q[1]
    BY <1>2, <1>3
  <2>3. QED
    BY <2>1, <2>2 DEF NoDuplicates
<1>5. ASSUME NEW a, NEW b, Before(tail, a, b) PROVE Before(q, a, b)
  <2>1. PICK i \in 1 .. Len(tail), j \in 1 .. Len(tail) :
               i < j /\ tail[i] = a /\ tail[j] = b
    BY <1>5 DEF Before
  <2>2. q[i + 1] = a /\ q[j + 1] = b
    BY <1>3, <2>1
  <2>3. i + 1 \in 1 .. Len(q) /\ j + 1 \in 1 .. Len(q) /\ i + 1 < j + 1
    BY <1>1, <1>3, <2>1
  <2>4. QED
    BY <2>2, <2>3 DEF Before
<1>6. QED
  BY <1>2, <1>3, <1>4, <1>5, AppendBefore DEF tail, entry

LEMMA NotBefore ==
  ASSUME NEW q, NEW t, t \notin Members(q)
  PROVE  \A c : ~Before(q, t, c)
BY DEF Before, Members

\* A task that a consistent record does not hold is in none of its queues.
LEMMA NotInReady ==
  ASSUME NEW s \in SchedType, NEW prio, NEW R, Consistent(s, prio, R),
         NEW t \in Task \ R
  PROVE  \A p \in TPri : t \notin Members(s.ready_queue[p])
<1> SUFFICES ASSUME NEW p \in TPri, t \in Members(s.ready_queue[p])
             PROVE  FALSE
  OBVIOUS
<1>1. Members(s.ready_queue[p]) = {u \in R : prio[u] = p}
  BY DEF Consistent, QueuesHold
<1>2. QED
  BY <1>1

LEMMA MakeRunnablePlace ==
  ASSUME NEW s \in SchedType, NEW prio \in [Task -> TPri], NEW t \in Task
  PROVE  Follows(s, make_runnable(s, prio, t), Task \ {t})
<1> DEFINE n == make_runnable(s, prio, t)
           pri == prio[t]
<1>1. /\ s.ready_queue \in [TPri -> Seq(Task)] /\ pri \in TPri
      /\ n.ready_queue =
           [s.ready_queue EXCEPT ![pri] = Append(s.ready_queue[pri], t)]
  BY DEF SchedType, make_runnable
<1> HIDE DEF n, pri
<1>2. ASSUME NEW a \in Task \ {t}, NEW b \in Task, NEW p \in TPri,
             Before(n.ready_queue[p], b, a)
      PROVE  Before(s.ready_queue[p], b, a)
  <2>1. CASE p = pri
    <3>1. /\ n.ready_queue[p] = Append(s.ready_queue[p], t)
          /\ s.ready_queue[p] \in Seq(Task)
      BY <1>1, <2>1
    <3>2. QED
      BY <1>2, <3>1, AppendBefore
  <2>2. CASE p # pri
    BY <1>1, <1>2, <2>2
  <2>3. QED
    BY <2>1, <2>2
<1>3. QED
  BY <1>2, AheadIsBefore DEF Follows, n

LEMMA MakeRunnableLast ==
  ASSUME NEW s \in SchedType, NEW prio \in [Task -> TPri], NEW R,
         Consistent(s, prio, R), NEW t \in Task, t \notin R
  PROVE  Last(make_runnable(s, prio, t), t)
<1> DEFINE n == make_runnable(s, prio, t)
           pri == prio[t]
<1>1. /\ s.ready_queue \in [TPri -> Seq(Task)] /\ pri \in TPri
      /\ n.ready_queue =
           [s.ready_queue EXCEPT ![pri] = Append(s.ready_queue[pri], t)]
  BY DEF SchedType, make_runnable
<1> HIDE DEF n, pri
<1>2. ASSUME NEW c \in Task, NEW p \in TPri
      PROVE  ~Before(n.ready_queue[p], t, c)
  <2>1. t \notin Members(s.ready_queue[p]) /\ s.ready_queue[p] \in Seq(Task)
    <3>1. t \in Task \ R
      OBVIOUS
    <3>2. QED
      BY <1>1, <3>1, NotInReady
  <2>2. n.ready_queue[p] \in {s.ready_queue[p], Append(s.ready_queue[p], t)}
    BY <1>1
  <2>3. /\ ~Before(s.ready_queue[p], t, c)
        /\ ~Before(Append(s.ready_queue[p], t), t, c)
    BY <2>1, AppendBefore, NotBefore
  <2>4. QED
    BY <2>2, <2>3
<1>3. QED
  BY <1>2, AheadIsBefore DEF Last, n

LEMMA MakeNonRunnablePlace ==
  ASSUME NEW s \in SchedType, NEW prio \in [Task -> TPri], NEW R,
         Consistent(s, prio, R), NEW t \in Task
  PROVE  Follows(s, make_non_runnable(s, prio, t), Task)
<1> DEFINE n == make_non_runnable(s, prio, t)
           pri == prio[t]
<1>1. /\ s.ready_queue \in [TPri -> Seq(Task)] /\ pri \in TPri
      /\ n.ready_queue =
           [s.ready_queue EXCEPT ![pri] = QueueDelete(s.ready_queue[pri], t)]
  BY DEF SchedType, make_non_runnable
<1> HIDE DEF n, pri
<1>2. ASSUME NEW a \in Task, NEW b \in Task, NEW p \in TPri,
             Before(n.ready_queue[p], b, a)
      PROVE  Before(s.ready_queue[p], b, a)
  <2>1. s.ready_queue[p] \in Seq(Task) /\ NoDuplicates(s.ready_queue[p])
    BY <1>1 DEF Consistent, QueuesHold
  <2>2. n.ready_queue[p]
          \in {s.ready_queue[p], QueueDelete(s.ready_queue[p], t)}
    BY <1>1
  <2>3. QED
    BY <1>2, <2>1, <2>2, DeleteBefore
<1>3. QED
  BY <1>2, AheadIsBefore DEF Follows, n

LEMMA ChangePlace ==
  ASSUME NEW s \in SchedType, NEW prio \in [Task -> TPri], NEW R,
         Consistent(s, prio, R), NEW t \in Task, NEW newpri \in TPri
  PROVE  /\ Follows(s, change_ready_priority(s, prio, t, newpri), Task \ {t})
         /\ Last(change_ready_priority(s, prio, t, newpri), t)
<1> DEFINE n == change_ready_priority(s, prio, t, newpri)
           oldpri == prio[t]
           del == [s.ready_queue EXCEPT
                     ![oldpri] = QueueDelete(s.ready_queue[oldpri], t)]
<1>1. /\ s.ready_queue \in [TPri -> Seq(Task)] /\ oldpri \in TPri
      /\ n.ready_queue = [del EXCEPT ![newpri] = Append(del[newpri], t)]
  BY DEF SchedType, change_ready_priority
<1>2. ASSUME NEW p \in TPri
      PROVE  /\ s.ready_queue[p] \in Seq(Task) /\ NoDuplicates(s.ready_queue[p])
             /\ p # oldpri => t \notin Members(s.ready_queue[p])
  BY <1>1 DEF Consistent, QueuesHold
<1>3. ASSUME NEW p \in TPri
      PROVE  /\ del[p] \in Seq(Task) /\ t \notin Members(del[p])
             /\ del[p] \in {s.ready_queue[p], QueueDelete(s.ready_queue[p], t)}
  <2>1. CASE p = oldpri
    <3>1. del[p] = QueueDelete(s.ready_queue[p], t)
      BY <1>1, <2>1
    <3>2. CASE t \in Members(s.ready_queue[p])
      BY <1>2, <3>1, <3>2, QueueDeleteLemma
    <3>3. CASE t \notin Members(s.ready_queue[p])
      BY <1>2, <3>1, <3>3 DEF QueueDelete
    <3>4. QED
      BY <3>2, <3>3
  <2>2. CASE p # oldpri
    BY <1>1, <1>2, <2>2
  <2>3. QED
    BY <2>1, <2>2
<1>4. ASSUME NEW p \in TPri
      PROVE  n.ready_queue[p] \in {del[p], Append(del[p], t)}
  <2>1. del \in [TPri -> Seq(Task)]
    <3>1. QueueDelete(s.ready_queue[oldpri], t) \in Seq(Task)
      BY <1>1, <1>3
    <3>2. QED
      BY <1>1, <3>1
  <2> HIDE DEF del, n
  <2>2. QED
    BY <1>1, <2>1
<1> HIDE DEF n, oldpri, del
<1>5. ASSUME NEW a \in Task \ {t}, NEW b \in Task, NEW p \in TPri,
             Before(n.ready_queue[p], b, a)
      PROVE  Before(s.ready_queue[p], b, a)
  <2>1. Before(del[p], b, a)
    BY <1>3, <1>4, <1>5, AppendBefore
  <2>2. QED
    BY <1>2, <1>3, <2>1, DeleteBefore
<1>6. ASSUME NEW c \in Task, NEW p \in TPri
      PROVE  ~Before(n.ready_queue[p], t, c)
  <2>1. ~Before(del[p], t, c) /\ ~Before(Append(del[p], t), t, c)
    BY <1>3, AppendBefore, NotBefore
  <2>2. QED
    BY <1>4, <2>1
<1>7. QED
  BY <1>5, <1>6, AheadIsBefore DEF Follows, Last, n

LEMMA RotatePlace ==
  ASSUME NEW s \in SchedType, NEW prio, NEW R, Consistent(s, prio, R),
         NEW pri \in TPri
  PROVE  LET n == rotate_ready_queue(s, pri)
         IN  \/ n = s
             \/ \E t \in Task : Follows(s, n, Task \ {t}) /\ Last(n, t)
<1> DEFINE n == rotate_ready_queue(s, pri)
           q == s.ready_queue[pri]
           t == Head(q)
           rot == Append(Tail(q), t)
<1>1. /\ s.ready_queue \in [TPri -> Seq(Task)]
      /\ q \in Seq(Task) /\ NoDuplicates(q)
  BY DEF SchedType, Consistent, QueuesHold
<1>2. CASE Len(q) < 2
  BY <1>2 DEF rotate_ready_queue
<1>3. CASE ~(Len(q) < 2)
  <2>1. n.ready_queue = [s.ready_queue EXCEPT ![pri] = rot]
    BY <1>3 DEF rotate_ready_queue, SchedType
  <2>2. q # << >> /\ t \in Task /\ t \in Members(q)
    BY <1>1, <1>3, HeadMemberLemma
  <2>3. /\ \A a, b : b # t /\ Before(rot, a, b) => Before(q, a, b)
        /\ \A c : ~Before(rot, t, c)
    BY <1>1, <1>3, RotateBefore
  <2>4. ASSUME NEW p \in TPri, p # pri PROVE t \notin Members(s.ready_queue[p])
    BY <2>2, <2>4 DEF Consistent, QueuesHold
  <2> HIDE DEF n, q, t, rot
  <2>5. /\ n.ready_queue[pri] = rot
        /\ \A p \in TPri \ {pri} : n.ready_queue[p] = s.ready_queue[p]
    BY <1>1, <2>1
  <2>6. ASSUME NEW a \in Task \ {t}, NEW b \in Task, NEW p \in TPri,
               Before(n.ready_queue[p], b, a)
        PROVE  Before(s.ready_queue[p], b, a)
    BY <2>3, <2>5, <2>6 DEF q
  <2>7. ASSUME NEW c \in Task, NEW p \in TPri
        PROVE  ~Before(n.ready_queue[p], t, c)
    BY <2>3, <2>4, <2>5, NotBefore
  <2>8. Follows(s, n, Task \ {t}) /\ Last(n, t)
    BY <2>6, <2>7, AheadIsBefore DEF Follows, Last
  <2>9. QED
    BY <2>2, <2>8 DEF n
<1>4. QED
  BY <1>2, <1>3

----------------------------------------------------------------------------
(***************************************************************************)
(* What a step lets get ahead of a runnable task.                          *)
(***************************************************************************)
PlaceStep ==
  \A a \in Runnable : \A b \in Task :
    Ahead(sched', b, a) => Ahead(sched, b, a) \/ Last(sched', a)

LEMMA SamePlace ==
  ASSUME UNCHANGED sched
  PROVE  PlaceStep
BY DEF PlaceStep

LEMMA OneMoves ==
  ASSUME NEW t, Follows(sched, sched', Task \ {t}),
         t \notin Runnable \/ Last(sched', t)
  PROVE  PlaceStep
BY DEF PlaceStep, Follows, Runnable

LEMMA EntersPlace ==
  ASSUME KernelInv, NEW t \in Task, t \notin Runnable,
         sched' = make_runnable(sched, priority, t)
  PROVE  PlaceStep
BY MakeRunnablePlace, OneMoves, TypesOf

LEMMA LeavesPlace ==
  ASSUME KernelInv, NEW t \in Task,
         sched' = make_non_runnable(sched, priority, t)
  PROVE  PlaceStep
<1>1. Follows(sched, sched', Task)
  BY MakeNonRunnablePlace, TypesOf DEF ReadyQueueInv
<1>2. QED
  BY <1>1 DEF PlaceStep, Follows, Runnable

LEMMA NonWaitPlace ==
  ASSUME KernelInv, NEW t \in Task, TSTAT_WAITING(tstat[t]), make_non_wait(t)
  PROVE  PlaceStep
<1>1. t \notin Runnable
  BY TstatExclusion, TypesOf DEF Runnable
<1>2. QED
  BY <1>1, EntersPlace, SamePlace DEF make_non_wait

LEMMA TerminatePlace ==
  ASSUME KernelInv, NEW t \in Task, NEW s,
         s = IF TSTAT_RUNNABLE(tstat[t])
               THEN make_non_runnable(sched, priority, t) ELSE sched,
         Terminate(t, s)
  PROVE  PlaceStep
<1> DEFINE R == Runnable \ {t}
           dormant == [priority EXCEPT ![t] = ipriority[t]]
<1>1. /\ sched \in SchedType /\ priority \in [Task -> TPri]
      /\ Consistent(sched, priority, Runnable) /\ Runnable \in SUBSET Task
  BY TypesOf, RunnableType DEF ReadyQueueInv
<1>2. s \in SchedType /\ Consistent(s, priority, R) /\ Follows(sched, s, Task)
  <2>1. CASE TSTAT_RUNNABLE(tstat[t])
    <3>1. t \in Runnable
      BY <2>1 DEF Runnable
    <3>2. QED
      BY <1>1, <2>1, <3>1, MakeNonRunnableLemma, MakeNonRunnablePlace
  <2>2. CASE ~TSTAT_RUNNABLE(tstat[t])
    <3>1. R = Runnable
      BY <2>2 DEF Runnable
    <3>2. QED
      BY <1>1, <2>2, <3>1 DEF Follows
  <2>3. QED
    BY <2>1, <2>2
<1>3. dormant \in [Task -> TPri] /\ \A u \in R : dormant[u] = priority[u]
  BY <1>1, IpriAssumption
<1>4. Consistent(s, dormant, R)
  BY <1>2, <1>3, PriorityFrameLemma
<1>5. sched' = make_runnable(s, dormant, t) \/ sched' = s
  BY DEF Terminate
<1> HIDE DEF R, dormant
<1>6. CASE sched' = make_runnable(s, dormant, t)
  <2>1. t \notin R
    BY DEF R
  <2>2. Follows(s, sched', Task \ {t}) /\ Last(sched', t)
    BY <1>2, <1>3, <1>4, <1>6, <2>1, MakeRunnablePlace, MakeRunnableLast
  <2>3. Follows(sched, sched', Task \ {t})
    BY <1>2, <2>2 DEF Follows
  <2>4. QED
    BY <2>2, <2>3, OneMoves
<1>7. CASE sched' = s
  BY <1>2, <1>7 DEF PlaceStep, Follows, Runnable
<1>8. QED
  BY <1>5, <1>6, <1>7

LEMMA RotatesPlace ==
  ASSUME KernelInv, NEW pri \in TPri, sched' = rotate_ready_queue(sched, pri)
  PROVE  PlaceStep
<1>1. \/ sched' = sched
      \/ \E t \in Task : Follows(sched, sched', Task \ {t}) /\ Last(sched', t)
  BY RotatePlace, TypesOf DEF ReadyQueueInv
<1>2. QED
  BY <1>1, SamePlace, OneMoves

LEMMA WaitsPlace ==
  ASSUME KernelInv, TaskContext, NEW factor, NEW callback,
         make_wait(factor, callback)
  PROVE  PlaceStep
<1>1. p_runtsk \in Task
  BY DEF TaskContext, KernelInv, TypeOK
<1>2. QED
  BY <1>1, LeavesPlace DEF make_wait

LEMMA ActivatePlace ==
  ASSUME KernelInv, NEW t \in Task, Activate(t)
  PROVE  PlaceStep
<1>1. CASE UNCHANGED sched
  BY <1>1, SamePlace
<1>2. CASE TSTAT_DORMANT(tstat[t]) /\ make_active(t)
  <2>1. t \notin Runnable
    BY <1>2, TstatExclusion, TypesOf DEF Runnable
  <2>2. QED
    BY <1>2, <2>1, EntersPlace DEF make_active
<1>3. QED
  BY <1>1, <1>2 DEF Activate

LEMMA WakeupPlace ==
  ASSUME KernelInv, NEW t \in Task, Wakeup(t)
  PROVE  PlaceStep
<1>1. CASE UNCHANGED sched
  BY <1>1, SamePlace
<1>2. CASE WakesUp(t) /\ wait_complete(t)
  <2>1. TSTAT_WAITING(tstat[t])
    BY <1>2, SleepWaits DEF WakesUp
  <2>2. QED
    BY <1>2, <2>1, NonWaitPlace DEF wait_complete
<1>3. QED
  BY <1>1, <1>2 DEF Wakeup

LEMMA chg_priPlace ==
  ASSUME KernelInv, NEW t \in Task, NEW newpri \in TPri, chg_pri(t, newpri)
  PROVE  PlaceStep
<1>1. CASE ~TSTAT_RUNNABLE(tstat[t])
  BY <1>1, SamePlace DEF chg_pri
<1>2. CASE TSTAT_RUNNABLE(tstat[t])
  <2>1. sched' = change_ready_priority(sched, priority, t, newpri)
    BY <1>2 DEF chg_pri
  <2>2. QED
    BY <2>1, ChangePlace, OneMoves, TypesOf DEF ReadyQueueInv
<1>3. QED
  BY <1>1, <1>2

LEMMA SuspendPlace ==
  ASSUME KernelInv, NEW t \in Task, sus_tsk(t) \/ rsm_tsk(t)
  PROVE  PlaceStep
<1>1. CASE UNCHANGED sched
  BY <1>1, SamePlace
<1>2. CASE sched' = make_non_runnable(sched, priority, t)
  BY <1>2, LeavesPlace
<1>3. CASE /\ TSTAT_SUSPENDED(tstat[t])
           /\ sched' = make_runnable(sched, priority, t)
  <2>1. t \notin Runnable
    BY <1>3, TstatExclusion, TypesOf DEF Runnable
  <2>2. QED
    BY <1>3, <2>1, EntersPlace
<1>4. QED
  BY <1>1, <1>2, <1>3 DEF sus_tsk, rsm_tsk

LEMMA BootPlace ==
  ASSUME KernelInv, Boot
  PROVE  PlaceStep
<1>1. CASE UNCHANGED sched
  BY <1>1, SamePlace
<1>2. CASE initialize_task /\ ~ UNCHANGED sched
  <2> DEFINE t == torder[tskini']
  <2>1. ~kerflg /\ tskini < Len(torder) /\ tskini' = tskini + 1
    BY <1>2 DEF initialize_task
  <2>2. tskini \in Nat /\ Len(torder) \in Nat /\ torder \in Seq(Task)
    BY TorderAssumption DEF KernelInv, TypeOK
  <2>3. tskini' \in tskini + 1 .. Len(torder) /\ t \in Task
    BY <2>1, <2>2
  <2>4. tstat[t] = TS_DORMANT
    BY <2>1, <2>3 DEF KernelInv, BootInv
  <2>5. t \notin Runnable
    BY <2>4, TstatLemma DEF Runnable
  <2>6. sched' = make_runnable(sched, priority, t)
    BY <1>2 DEF initialize_task, make_active
  <2> HIDE DEF t
  <2>7. QED
    BY <2>3, <2>5, <2>6, EntersPlace
<1>3. QED
  BY <1>1, <1>2 DEF Boot, start_dispatch

LEMMA TaskCallPlace ==
  ASSUME KernelInv, TaskCall
  PROVE  PlaceStep
<1>1. ASSUME NEW t \in Task,
             act_tsk(t) \/ wup_tsk(t) \/ sus_tsk(t) \/ rsm_tsk(t)
      PROVE  PlaceStep
  BY <1>1, ActivatePlace, WakeupPlace, SuspendPlace DEF act_tsk, wup_tsk
<1>2. ASSUME NEW t \in Task, can_act(t) \/ can_wup(t) PROVE PlaceStep
  BY <1>2, SamePlace DEF can_act, can_wup
<1>3. ASSUME NEW t \in Task, ter_tsk(t) PROVE PlaceStep
  BY <1>3, TerminatePlace DEF ter_tsk
<1>4. ASSUME NEW t \in Task, rel_wai(t) PROVE PlaceStep
  BY <1>4, NonWaitPlace DEF rel_wai, wait_release
<1>5. ASSUME NEW pri \in TPri, rot_rdq(pri) PROVE PlaceStep
  BY <1>5, RotatesPlace DEF rot_rdq
<1>6. ASSUME NEW callback, slp_tsk(callback) PROVE PlaceStep
  BY <1>6, SamePlace, WaitsPlace DEF slp_tsk, CanDispatch, InTask
<1>7. CASE dly_tsk
  BY <1>7, WaitsPlace DEF dly_tsk, CanDispatch, InTask
<1>8. CASE ext_tsk
  <2>1. p_runtsk \in Task /\ TSTAT_RUNNABLE(tstat[p_runtsk])
    BY <1>8 DEF ext_tsk, TaskContext, KernelInv, TypeOK, DispatchInv,
                RunningInv, Runnable
  <2>2. QED
    BY <1>8, <2>1, TerminatePlace DEF ext_tsk
<1>9. CASE dis_dsp \/ ena_dsp \/ \E enaall \in BOOLEAN : chg_ipm(enaall)
  BY <1>9, SamePlace DEF dis_dsp, ena_dsp, chg_ipm
<1>10. QED
  BY <1>1, <1>2, <1>3, <1>4, <1>5, <1>6, <1>7, <1>8, <1>9, chg_priPlace
     DEF TaskCall

LEMMA IntCallPlace ==
  ASSUME KernelInv, WaitInv, IntCall
  PROVE  PlaceStep
<1>1. ASSUME NEW t \in Task, iact_tsk(t) \/ iwup_tsk(t) PROVE PlaceStep
  BY <1>1, ActivatePlace, WakeupPlace DEF iact_tsk, iwup_tsk
<1>2. ASSUME NEW t \in Task, irel_wai(t) PROVE PlaceStep
  BY <1>2, NonWaitPlace DEF irel_wai, wait_release
<1>3. ASSUME NEW t \in Task, wait_tmout(t) \/ wait_tmout_ok(t) PROVE PlaceStep
  <2>1. TSTAT_WAITING(tstat[t])
    BY <1>3 DEF wait_tmout, wait_tmout_ok, WaitInv, TimerInv
  <2>2. QED
    BY <1>3, <2>1, NonWaitPlace DEF wait_tmout, wait_tmout_ok
<1>4. ASSUME NEW pri \in TPri, irot_rdq(pri) PROVE PlaceStep
  BY <1>4, RotatesPlace DEF irot_rdq
<1>5. QED
  BY <1>1, <1>2, <1>3, <1>4 DEF IntCall

LEMMA NextPlace ==
  ASSUME KernelInv, WaitInv, [Next]_vars
  PROVE  PlaceStep
<1>1. CASE Context \/ UNCHANGED vars
  BY <1>1, SamePlace DEF Context, loc_cpu, unl_cpu, core_int_entry, ret_int,
                         dispatcher_idle, vars
<1>2. QED
  BY <1>1, BootPlace, TaskCallPlace, IntCallPlace DEF Next

\* init_wait_queue: the tasks it releases go behind all others, one after
\* the other.
LEMMA TurnsPlace ==
  ASSUME KernelInv, NEW entry \in Seq(Task), NoDuplicates(entry),
         \A t \in Members(entry) : t \notin Runnable,
         NEW f, f = [n \in 0 .. Len(entry) |-> Turn(f, entry, n)],
         NEW n \in 0 .. Len(entry)
  PROVE  Follows(sched, f[n], Runnable)
<1> DEFINE P(m) == Follows(sched, f[m], Runnable)
           Bad == {m \in Nat : m <= Len(entry) /\ ~P(m)}
<1>1. Len(entry) \in Nat /\ \A i \in 1 .. Len(entry) : entry[i] \in Task
  OBVIOUS
<1>2. \A m \in 0 .. Len(entry) : f[m] = Turn(f, entry, m)
  OBVIOUS
<1>3. P(0)
  BY <1>1, <1>2 DEF Turn, Follows
<1>4. ASSUME NEW m \in 1 .. Len(entry), P(m - 1) PROVE P(m)
  <2> DEFINE t == entry[m]
  <2>1. t \in Task /\ t \notin Runnable
    BY <1>1 DEF Members
  <2>2. f[m] = f[m - 1] \/ f[m] = make_runnable(f[m - 1], priority, t)
    BY <1>1, <1>2 DEF Turn, Released
  <2>3. f[m - 1] \in SchedType
    <3>1. m - 1 \in 0 .. Len(entry)
      BY <1>1
    <3>2. QED
      BY <3>1, TurnsConsistent
  <2>4. CASE f[m] = f[m - 1]
    BY <1>4, <2>4
  <2>5. CASE f[m] = make_runnable(f[m - 1], priority, t)
    <3> HIDE DEF t
    <3>1. Follows(f[m - 1], f[m], Task \ {t})
      BY <2>1, <2>3, <2>5, MakeRunnablePlace, TypesOf
    <3>2. Runnable \subseteq Task \ {t}
      BY <2>1 DEF Runnable
    <3>3. QED
      BY <1>4, <3>1, <3>2 DEF Follows
  <2>6. QED
    BY <2>2, <2>4, <2>5
<1> HIDE DEF P
<1>5. ASSUME Bad # {} PROVE FALSE
  <2>1. PICK m \in Bad : \A k \in Bad : m <= k
    <3>1. Bad \in SUBSET Nat
      OBVIOUS
    <3> HIDE DEF Bad
    <3>2. QED
      BY <1>5, <3>1, SmallestLemma
  <2>2. m # 0 /\ m \in 1 .. Len(entry)
    BY <1>1, <1>3, <2>1
  <2>3. ~P(m - 1)
    BY <1>4, <2>1, <2>2
  <2>4. m - 1 \in Bad
    BY <1>1, <2>2, <2>3
  <2> HIDE DEF Bad
  <2>5. QED
    BY <2>1, <2>2, <2>4, <1>1
<1>6. P(n)
  BY <1>1, <1>5
<1>7. QED
  BY <1>6 DEF P

LEMMA ReleasePlace ==
  ASSUME KernelInv, NEW entry \in Seq(Task), NoDuplicates(entry),
         \A t \in Members(entry) : TSTAT_WAITING(tstat[t]),
         release_in_order(entry)
  PROVE  PlaceStep
<1> DEFINE f == CHOOSE f : f = [n \in 0 .. Len(entry) |-> Turn(f, entry, n)]
           N == Len(entry)
<1>1. N \in Nat /\ f = [n \in 0 .. N |-> Turn(f, entry, n)]
  BY TurnsExist
<1>2. sched' = f[N]
  BY DEF release_in_order, Turn, Released
<1>3. ASSUME NEW t \in Members(entry) PROVE t \notin Runnable
  <2>1. t \in Task
    BY <1>1 DEF Members
  <2>2. QED
    BY <2>1, TstatExclusion, TypesOf DEF Runnable
<1> HIDE DEF f
<1>4. Follows(sched, f[N], Runnable)
  BY <1>1, <1>3, TurnsPlace
<1>5. QED
  BY <1>2, <1>4 DEF PlaceStep, Follows

\* A task gets ahead of a runnable task only when that one goes to the tail
\* of its ready queue: a preempted task keeps its place, whatever calls,
\* timeouts and releases come in between (KeepsPlace; task.c).
THEOREM KeepsPlaceCorrect == Spec => KeepsPlace
<1>1. PlaceStep => \A a, b \in Task :
        a \in Runnable /\ ~Ahead(sched, b, a) /\ Ahead(sched', b, a)
          => \/ ~\E c \in Task : Ahead(sched', a, c)
             \/ priority'[a] # priority[a]
  BY DEF PlaceStep, Last
<1>2. KernelInv /\ WaitInv /\ [Next]_vars => PlaceStep
  BY NextPlace
<1>3. QED
  BY <1>1, <1>2, Invariance, PTL DEF Spec, KeepsPlace

----------------------------------------------------------------------------
(***************************************************************************)
(* What a step does to the tasks and the queues, as far as the modules of  *)
(* the objects need to know.                                               *)
(***************************************************************************)
ObjectKernel == KernelInv /\ WaitInv /\ KernelQueues /\ KernelRequests

\* In a step on an object with the queues O, whose WINFO unions are w before
\* the dispatch: the task's WINFO is out of scope before or after the step,
\* or the task is left alone, or its wait ends; and only the tasks in O are
\* told E_OK for an object.
StepAt(t, w, O) ==
  \/ w[t] = "none"
  \/ winfo[t] = "none"
  \/ /\ w[t] = winfo[t]
     /\ TSTAT_WAITING(tstat'[t]) <=> TSTAT_WAITING(tstat[t])
     /\ TSTAT_WAIT_WOBJ(tstat'[t]) <=> TSTAT_WAIT_WOBJ(tstat[t])
  \/ /\ TSTAT_WAITING(tstat[t]) /\ ~TSTAT_WAITING(tstat'[t])
     /\ w[t] = E_OK => \/ ~TSTAT_WAIT_WOBJ(tstat[t])
                       \/ \E q \in O : t \in Members(wait_queue[q])

StepOn(O) ==
  /\ \A t \in Task : StepAt(t, winfo', O)
  /\ \A q \in WaitQueue : \A t \in Members(wait_queue'[q]) :
       t \in Members(wait_queue[q]) \/ (q \in O /\ winfo[t] = "none")

LEMMA StepEnd ==
  ASSUME NEW w, EndsWith(w), NEW O, \A t \in Task : StepAt(t, w, O)
  PROVE  \A t \in Task : StepAt(t, winfo', O)
<1>1. \A t \in Task : winfo'[t] \in {w[t], "none"}
  BY DEF EndsWith, Dispatch
<1>2. QED
  BY <1>1 DEF StepAt

\* A step that changes the state and the WINFO of one task.
LEMMA OneTaskMoves ==
  ASSUME KernelInv, NEW t \in Task, NEW ts, tstat' = [tstat EXCEPT ![t] = ts],
         NEW w, \A u \in Task \ {t} : w[u] = winfo[u], EndsWith(w), NEW O,
         StepAt(t, w, O)
  PROVE  \A u \in Task : StepAt(u, winfo', O)
<1>1. \A u \in Task \ {t} : tstat'[u] = tstat[u]
  BY TypesOf
<1>2. \A u \in Task : StepAt(u, w, O)
  BY <1>1 DEF StepAt
<1>3. QED
  BY <1>2, StepEnd

LEMMA NoTaskMoves ==
  ASSUME UNCHANGED tstat, EndsWith(winfo), NEW O
  PROVE  \A t \in Task : StepAt(t, winfo', O)
<1>1. \A t \in Task : StepAt(t, winfo, O)
  BY DEF StepAt
<1>2. QED
  BY <1>1, StepEnd

LEMMA WakingMoves ==
  ASSUME KernelInv, NEW t \in Task, TSTAT_WAITING(tstat[t]), make_non_wait(t),
         NEW e, EndsWith([winfo EXCEPT ![t] = e]), NEW O,
         e = E_OK => ~TSTAT_WAIT_WOBJ(tstat[t])
  PROVE  \A u \in Task : StepAt(u, winfo', O)
<1> DEFINE w == [winfo EXCEPT ![t] = e]
<1>1. PICK ts \in TstatType : /\ ~TSTAT_WAITING(ts)
                              /\ tstat' = [tstat EXCEPT ![t] = ts]
  BY make_non_waitState
<1>2. tstat'[t] = ts
  BY <1>1, TypesOf
<1>3. w[t] = e /\ \A u \in Task \ {t} : w[u] = winfo[u]
  BY TypesOf
<1>4. EndsWith(w)
  OBVIOUS
<1> HIDE DEF w
<1>5. StepAt(t, w, O)
  BY <1>1, <1>2, <1>3 DEF StepAt
<1>6. QED
  BY <1>1, <1>3, <1>4, <1>5, OneTaskMoves

LEMMA ActivateMoves ==
  ASSUME KernelInv, KernelRequests, NEW t \in Task, Activate(t),
         EndsWith(winfo), NEW O
  PROVE  \A u \in Task : StepAt(u, winfo', O)
<1>1. CASE TSTAT_DORMANT(tstat[t])
  <2>1. tstat' = [tstat EXCEPT ![t] = TS_RUNNABLE]
    BY <1>1 DEF Activate, make_active
  <2>2. winfo[t] = "none"
    BY <1>1 DEF KernelRequests, RequestsInv, DormantInv
  <2>3. StepAt(t, winfo, O)
    BY <2>2 DEF StepAt
  <2>4. QED
    BY <2>1, <2>3, OneTaskMoves
<1>2. CASE ~TSTAT_DORMANT(tstat[t])
  BY <1>2, NoTaskMoves DEF Activate
<1>3. QED
  BY <1>1, <1>2

LEMMA WakeupMoves ==
  ASSUME KernelInv, NEW t \in Task, Wakeup(t), EndsWith(WakeupWinfo(t)), NEW O
  PROVE  \A u \in Task : StepAt(u, winfo', O)
<1>1. CASE WakesUp(t)
  <2>1. make_non_wait(t) /\ WakeupWinfo(t) = [winfo EXCEPT ![t] = E_OK]
    BY <1>1 DEF Wakeup, wait_complete, WakeupWinfo, wait_complete_winfo
  <2>2. tstat[t] \in TstatType /\ "SLP" \in tstat[t]
    BY <1>1, TypesOf DEF WakesUp, TSTAT_WAIT_SLP
  <2>3. TSTAT_WAITING(tstat[t])
    <3>1. tstat[t] \notin {TS_DORMANT, TS_RUNNABLE, TS_SUSPENDED}
      BY <2>2 DEF TS_DORMANT, TS_RUNNABLE, TS_SUSPENDED
    <3>2. PICK f \in WaitFactor : \/ tstat[t] = TS_WAITING(f)
                                  \/ tstat[t] = TS_WAITING(f) \cup TS_SUSPENDED
      BY <2>2, <3>1, TstatCases
    <3>3. QED
      BY <3>2, WaitingLemma
  <2>4. ~TSTAT_WAIT_WOBJ(tstat[t])
    BY <1>1, <2>2, WobjWaits DEF WakesUp
  <2>5. EndsWith([winfo EXCEPT ![t] = E_OK])
    BY <2>1
  <2>6. QED
    BY <2>1, <2>3, <2>4, <2>5, WakingMoves
<1>2. CASE ~WakesUp(t)
  <2>1. UNCHANGED tstat /\ EndsWith(winfo)
    BY <1>2 DEF Wakeup, WakeupWinfo
  <2>2. QED
    BY <2>1, NoTaskMoves
<1>3. QED
  BY <1>1, <1>2

LEMMA SuspendMoves ==
  ASSUME KernelInv, NEW t \in Task, sus_tsk(t) \/ rsm_tsk(t), NEW O
  PROVE  \A u \in Task : StepAt(u, winfo', O)
<1>1. EndsWith(winfo)
  BY TaskReturnEnds DEF sus_tsk, rsm_tsk
<1>2. PICK ts : /\ tstat' = [tstat EXCEPT ![t] = ts]
                /\ TSTAT_WAITING(ts) <=> TSTAT_WAITING(tstat[t])
                /\ TSTAT_WAIT_WOBJ(ts) <=> TSTAT_WAIT_WOBJ(tstat[t])
  <2>1. CASE sus_tsk(t) /\ TSTAT_RUNNABLE(tstat[t])
    <3>1. ~TSTAT_WAITING(tstat[t]) /\ ~TSTAT_WAIT_WOBJ(tstat[t])
      BY <2>1, TstatExclusion, RunnableFactors, TypesOf
    <3>2. tstat' = [tstat EXCEPT ![t] = TS_SUSPENDED]
      BY <2>1, <3>1 DEF sus_tsk
    <3>3. QED
      BY <3>1, <3>2, TstatLemma, FactorStates
  <2>2. CASE sus_tsk(t) /\ ~TSTAT_RUNNABLE(tstat[t])
    <3>1. tstat' = [tstat EXCEPT ![t] = tstat[t] \cup TS_SUSPENDED]
      BY <2>2 DEF sus_tsk
    <3>2. TSTAT_WAITING(tstat[t] \cup TS_SUSPENDED) <=> TSTAT_WAITING(tstat[t])
      BY DEF TSTAT_WAITING, TS_SUSPENDED
    <3>3. QED
      BY <3>1, <3>2, SuspendedFactors
  <2>3. CASE rsm_tsk(t) /\ TSTAT_WAITING(tstat[t])
    <3>1. tstat' = [tstat EXCEPT ![t] = tstat[t] \ TS_SUSPENDED]
      BY <2>3 DEF rsm_tsk
    <3>2. TSTAT_WAITING(tstat[t] \ TS_SUSPENDED) <=> TSTAT_WAITING(tstat[t])
      BY DEF TSTAT_WAITING, TS_SUSPENDED
    <3>3. QED
      BY <3>1, <3>2, SuspendedFactors
  <2>4. CASE rsm_tsk(t) /\ ~TSTAT_WAITING(tstat[t])
    <3>1. tstat' = [tstat EXCEPT ![t] = TS_RUNNABLE]
      BY <2>4 DEF rsm_tsk
    <3>2. QED
      BY <2>4, <3>1, WobjWaits, FactorStates, TstatLemma, TypesOf
  <2>5. QED
    BY <2>1, <2>2, <2>3, <2>4
<1>3. tstat'[t] = ts
  BY <1>2, TypesOf
<1>4. StepAt(t, winfo, O)
  BY <1>2, <1>3 DEF StepAt
<1>5. QED
  BY <1>1, <1>2, <1>4, OneTaskMoves

LEMMA TerminateMoves ==
  ASSUME KernelInv, NEW t \in Task, NEW s, Terminate(t, s), NEW w,
         \A u \in Task \ {t} : w[u] = winfo[u], w[t] = "none", EndsWith(w),
         NEW O
  PROVE  \A u \in Task : StepAt(u, winfo', O)
<1>1. StepAt(t, w, O)
  BY DEF StepAt
<1>2. CASE actque[t]
  <2>1. tstat' = [tstat EXCEPT ![t] = TS_RUNNABLE]
    BY <1>2 DEF Terminate
  <2>2. QED
    BY <1>1, <2>1, OneTaskMoves
<1>3. CASE ~actque[t]
  <2>1. tstat' = [tstat EXCEPT ![t] = TS_DORMANT]
    BY <1>3 DEF Terminate
  <2>2. QED
    BY <1>1, <2>1, OneTaskMoves
<1>4. QED
  BY <1>2, <1>3

\* Only the running task begins to wait; its WINFO is out of scope until then.
LEMMA make_waitMoves ==
  ASSUME KernelInv, KernelRequests, TaskContext, NEW f, NEW callback,
         make_wait(f, callback), NEW O
  PROVE  \A t \in Task : StepAt(t, winfo', O)
<1> DEFINE t == p_runtsk
           w == [winfo EXCEPT ![t] = IF callback = "none" THEN NoTmevtb
                                                          ELSE "tmevtb"]
<1>1. /\ tstat' = [tstat EXCEPT ![t] = TS_WAITING(f)]
      /\ Dispatch(sched'.p_schedtsk, w)
  BY DEF make_wait
<1>2. t \in Task /\ winfo[t] = "none"
  BY InTaskFacts DEF KernelRequests, RunWinfoInv
<1>3. \A u \in Task \ {t} : w[u] = winfo[u]
  BY <1>2, TypesOf
<1> HIDE DEF w
<1>4. EndsWith(w)
  BY <1>1 DEF EndsWith, Dispatch
<1>5. StepAt(t, w, O)
  BY <1>2 DEF StepAt
<1>6. QED
  BY <1>1, <1>2, <1>3, <1>4, <1>5, OneTaskMoves

LEMMA BootMoves ==
  ASSUME KernelInv, KernelRequests, Boot, NEW O
  PROVE  \A u \in Task : StepAt(u, winfo', O)
<1>1. CASE initialize_task
  <2> DEFINE t == torder[tskini + 1]
  <2>1. /\ UNCHANGED << winfo, p_runtsk >>
        /\ \/ UNCHANGED tstat
           \/ tstat' = [tstat EXCEPT ![t] = TS_RUNNABLE]
    BY <1>1 DEF initialize_task, make_active
  <2>2. EndsWith(winfo)
    BY <2>1 DEF EndsWith
  <2>3. t \in Task /\ winfo[t] = "none"
    <3>1. t \in Task /\ tskini + 1 \in tskini + 1 .. Len(torder)
      BY <1>1, TorderAssumption DEF initialize_task, KernelInv, TypeOK
    <3>2. TSTAT_DORMANT(tstat[t])
      BY <1>1, <3>1 DEF initialize_task, KernelInv, BootInv, TSTAT_DORMANT
    <3>3. QED
      BY <3>1, <3>2 DEF KernelRequests, RequestsInv, DormantInv
  <2> HIDE DEF t
  <2>4. StepAt(t, winfo, O)
    BY <2>3 DEF StepAt
  <2>5. QED
    BY <2>1, <2>2, <2>3, <2>4, NoTaskMoves, OneTaskMoves
<1>2. CASE start_dispatch
  <2>1. EndsWith(winfo) /\ UNCHANGED tstat
    BY <1>2 DEF start_dispatch, EndsWith, Dispatch
  <2>2. QED
    BY <2>1, NoTaskMoves
<1>3. QED
  BY <1>1, <1>2 DEF Boot

LEMMA TaskCallMoves ==
  ASSUME KernelInv, KernelRequests, TaskCall, NEW O
  PROVE  \A u \in Task : StepAt(u, winfo', O)
<1> DEFINE G == \A u \in Task : StepAt(u, winfo', O)
<1>1. ASSUME NEW t \in Task, act_tsk(t) PROVE G
  BY <1>1, ActivateMoves, TaskReturnEnds DEF act_tsk
<1>2. ASSUME NEW t \in Task, can_act(t) \/ can_wup(t) PROVE G
  <2>1. UNCHANGED tstat /\ EndsWith(winfo)
    BY <1>2 DEF can_act, can_wup, EndsWith
  <2>2. QED
    BY <2>1, NoTaskMoves
<1>3. ASSUME NEW t \in Task, wup_tsk(t) PROVE G
  BY <1>3, WakeupMoves, TaskReturnEnds DEF wup_tsk
<1>4. ASSUME NEW t \in Task, rel_wai(t) PROVE G
  <2>1. /\ TSTAT_WAITING(tstat[t]) /\ make_non_wait(t)
        /\ EndsWith([winfo EXCEPT ![t] = "E_RLWAI"])
    BY <1>4, TaskReturnEnds DEF rel_wai, wait_release, wait_release_winfo
  <2>2. "E_RLWAI" # E_OK
    BY DEF E_OK, ZERO
  <2>3. QED
    BY <2>1, <2>2, WakingMoves
<1>5. ASSUME NEW pri \in TPri, rot_rdq(pri) PROVE G
  BY <1>5, NoTaskMoves, TaskReturnEnds DEF rot_rdq
<1>6. ASSUME NEW enaall \in BOOLEAN, chg_ipm(enaall) PROVE G
  <2>1. EndsWith(winfo) /\ UNCHANGED tstat
    BY <1>6 DEF chg_ipm, DispatchPending, EndsWith, Dispatch
  <2>2. QED
    BY <2>1, NoTaskMoves
<1>7. CASE dly_tsk
  <2>1. TaskContext /\ make_wait("DLY", "wait_tmout_ok")
    BY <1>7 DEF dly_tsk, CanDispatch, InTask
  <2>2. QED
    BY <2>1, make_waitMoves
<1>8. CASE dis_dsp \/ ena_dsp
  <2>1. EndsWith(winfo) /\ UNCHANGED tstat
    BY <1>8 DEF dis_dsp, ena_dsp, DispatchPending, EndsWith, Dispatch
  <2>2. QED
    BY <2>1, NoTaskMoves
<1>9. ASSUME NEW t \in Task, ter_tsk(t) PROVE G
  <2> DEFINE s == IF TSTAT_RUNNABLE(tstat[t])
                    THEN make_non_runnable(sched, priority, t) ELSE sched
             w == [winfo EXCEPT ![t] = "none"]
  <2>1. /\ Terminate(t, s)
        /\ \/ Dispatch(sched'.p_schedtsk, w)
           \/ p_runtsk' = p_runtsk /\ winfo' = w
    BY <1>9 DEF ter_tsk
  <2>2. w[t] = "none" /\ \A u \in Task \ {t} : w[u] = winfo[u]
    BY <1>9, TypesOf
  <2> HIDE DEF s, w, G
  <2>3. EndsWith(w)
    BY <2>1 DEF EndsWith, Dispatch
  <2>4. QED
    BY <1>9, <2>1, <2>2, <2>3, TerminateMoves DEF G
<1>10. CASE ext_tsk
  <2>1. /\ TaskContext /\ Dispatch(sched'.p_schedtsk, winfo)
        /\ Terminate(p_runtsk, make_non_runnable(sched, priority, p_runtsk))
    BY <1>10 DEF ext_tsk
  <2>2. p_runtsk \in Task /\ winfo[p_runtsk] = "none"
    BY <2>1, InTaskFacts DEF KernelRequests, RunWinfoInv
  <2>3. EndsWith(winfo)
    BY <2>1 DEF EndsWith, Dispatch
  <2>4. QED
    BY <2>1, <2>2, <2>3, TerminateMoves
<1>11. ASSUME NEW t \in Task, NEW pri \in TPri, chg_pri(t, pri) PROVE G
  BY <1>11, NoTaskMoves, TaskReturnEnds DEF chg_pri
<1>12. ASSUME NEW callback \in {"none", "wait_tmout"}, slp_tsk(callback)
      PROVE  G
  <2>1. CASE wupque[p_runtsk]
    <3>1. UNCHANGED tstat /\ EndsWith(winfo)
      BY <1>12, <2>1 DEF slp_tsk, EndsWith
    <3>2. QED
      BY <3>1, NoTaskMoves
  <2>2. CASE ~wupque[p_runtsk]
    <3>1. TaskContext /\ make_wait("SLP", callback)
      BY <1>12, <2>2 DEF slp_tsk, CanDispatch, InTask
    <3>2. QED
      BY <3>1, make_waitMoves
  <2>3. QED
    BY <2>1, <2>2
<1>13. ASSUME NEW t \in Task, sus_tsk(t) \/ rsm_tsk(t) PROVE G
  BY <1>13, SuspendMoves
<1> HIDE DEF G
<1>14. ASSUME NEW t \in Task,
              \/ act_tsk(t) \/ can_act(t) \/ ter_tsk(t)
              \/ wup_tsk(t) \/ can_wup(t) \/ rel_wai(t) \/ sus_tsk(t) \/ rsm_tsk(t)
              \/ \E pri \in TPri : chg_pri(t, pri)
       PROVE  G
  BY <1>1, <1>2, <1>3, <1>4, <1>9, <1>11, <1>13, <1>14
<1>15. G
  BY <1>5, <1>6, <1>7, <1>8, <1>10, <1>12, <1>14 DEF TaskCall, G
<1>16. QED
  BY <1>15 DEF G

LEMMA IntCallMoves ==
  ASSUME KernelInv, WaitInv, KernelQueues, KernelRequests, IntCall, NEW O
  PROVE  \A u \in Task : StepAt(u, winfo', O)
<1> DEFINE G == \A u \in Task : StepAt(u, winfo', O)
<1>0. "E_RLWAI" # E_OK /\ "E_TMOUT" # E_OK
  BY DEF E_OK, ZERO
<1>1. ASSUME NEW t \in Task, iact_tsk(t) PROVE G
  BY <1>1, ActivateMoves, IntReturnEnds DEF iact_tsk
<1>2. ASSUME NEW t \in Task, iwup_tsk(t) PROVE G
  BY <1>2, WakeupMoves, IntReturnEnds DEF iwup_tsk
<1>3. ASSUME NEW t \in Task, irel_wai(t) PROVE G
  <2>1. /\ TSTAT_WAITING(tstat[t]) /\ make_non_wait(t)
        /\ EndsWith([winfo EXCEPT ![t] = "E_RLWAI"])
    BY <1>3, IntReturnEnds DEF irel_wai, wait_release, wait_release_winfo
  <2>2. QED
    BY <1>0, <2>1, WakingMoves
<1>4. ASSUME NEW t \in Task, wait_tmout(t) \/ wait_tmout_ok(t) PROVE G
  <2>1. TSTAT_WAITING(tstat[t]) /\ make_non_wait(t)
    BY <1>4 DEF wait_tmout, wait_tmout_ok, WaitInv, TimerInv
  <2>2. CASE wait_tmout(t)
    BY <1>0, <2>1, <2>2, WakingMoves, IntReturnEnds DEF wait_tmout
  <2>3. CASE wait_tmout_ok(t)
    <3>1. ~TSTAT_WAIT_WOBJ(tstat[t]) /\ EndsWith([winfo EXCEPT ![t] = E_OK])
      BY <2>3, IntReturnEnds DEF wait_tmout_ok, KernelQueues, TmoutOkInv
    <3>2. QED
      BY <2>1, <3>1, WakingMoves
  <2>4. QED
    BY <1>4, <2>2, <2>3
<1>5. ASSUME NEW pri \in TPri, irot_rdq(pri) PROVE G
  BY <1>5, NoTaskMoves, IntReturnEnds DEF irot_rdq
<1> HIDE DEF G
<1>6. G
  BY <1>1, <1>2, <1>3, <1>4, <1>5 DEF IntCall
<1>7. QED
  BY <1>6 DEF G

\* The actions of TaskKernel are steps on no object.
LEMMA KernelObject ==
  ASSUME ObjectKernel, [Next]_vars
  PROVE  ObjectKernel' /\ StepOn({})
<1>1. KernelInv' /\ WaitInv'
  BY BootStep, TaskCallStep, IntCallStep, ContextStep, StutterStep
     DEF Next, ObjectKernel
<1>2. KernelQueues' /\ Shrinks
  BY <1>1, NextQueues DEF ObjectKernel
<1>3. KernelRequests'
  BY <1>1, BootRequests, TaskCallRequests, IntCallRequests, ContextRequests
     DEF Next, ObjectKernel
<1>4. CASE Context \/ UNCHANGED vars
  <2>1. UNCHANGED tstat
    BY <1>4 DEF Context, loc_cpu, unl_cpu, core_int_entry, ret_int,
                dispatcher_idle, vars
  <2>2. EndsWith(winfo)
    <3>1. CASE ret_int
      BY <3>1 DEF ret_int, DispatchPending, EndsWith, Dispatch
    <3>2. CASE dispatcher_idle
      BY <3>2 DEF dispatcher_idle, EndsWith, Dispatch
    <3>3. CASE loc_cpu \/ unl_cpu \/ core_int_entry \/ UNCHANGED vars
      BY <3>3 DEF loc_cpu, unl_cpu, core_int_entry, vars, EndsWith
    <3>4. QED
      BY <1>4, <3>1, <3>2, <3>3 DEF Context
  <2>3. QED
    BY <1>1, <1>2, <1>3, <2>1, <2>2, NoTaskMoves
       DEF ObjectKernel, StepOn, Shrinks
<1>5. \A t \in Task : StepAt(t, winfo', {})
  BY <1>4, BootMoves, TaskCallMoves, IntCallMoves
     DEF Next, ObjectKernel, StepOn
<1>6. QED
  BY <1>1, <1>2, <1>3, <1>5 DEF ObjectKernel, StepOn, Shrinks

----------------------------------------------------------------------------
(***************************************************************************)
(* A call on an object releases the tasks of entry, all with the result e: *)
(* none, the first task of a queue, some of a queue, or all of them.       *)
(***************************************************************************)
LeavesQueues(entry) ==
  /\ wait_queue' \in [WaitQueue -> Seq(Task)]
  /\ \A q \in WaitQueue :
       /\ NoDuplicates(wait_queue'[q])
       /\ Members(wait_queue'[q]) = Members(wait_queue[q]) \ Members(entry)
       /\ q \in TpriQueue => Ordered(wait_queue'[q], priority)

Returns(w) == \/ InTask /\ TaskReturn(w)
              \/ InInterrupt /\ IntReturn(w)

\* The tasks of entry are in the queues O.
TakenFrom(entry, O) ==
  /\ entry \in Seq(Task) /\ NoDuplicates(entry) /\ O \in SUBSET WaitQueue
  /\ \A t \in Members(entry) : \E q \in O : t \in Members(wait_queue[q])

ReleasesTasks(entry, e) ==
  /\ \A t \in Members(entry) :
       ~TSTAT_WAITING(tstat'[t]) /\ winfo'[t] \in {e, "none"}
  /\ \A t \in Task \ Members(entry) :
       tstat'[t] = tstat[t] /\ winfo'[t] \in {winfo[t], "none"}

LEMMA TakenWait ==
  ASSUME KernelInv, KernelQueues, NEW entry, NEW O, TakenFrom(entry, O),
         NEW t \in Members(entry)
  PROVE  t \in Task /\ TSTAT_WAIT_WOBJ(tstat[t]) /\ TSTAT_WAITING(tstat[t])
<1>1. PICK q \in WaitQueue : t \in Members(wait_queue[q])
  BY DEF TakenFrom
<1>2. t \in Task /\ TSTAT_WAIT_WOBJ(tstat[t])
  BY <1>1, QueueFacts DEF LinkAt
<1>3. QED
  BY <1>2, WobjWaits, TypesOf

LEMMA ReleaseCall ==
  ASSUME ObjectKernel, NEW entry, NEW O, TakenFrom(entry, O),
         release_in_order(entry), LeavesQueues(entry),
         NEW e \in {E_OK, "E_DLT"}, Returns(release_winfo(entry, e)),
         UNCHANGED << priority, queVars >>
  PROVE  ObjectKernel' /\ StepOn(O) /\ ReleasesTasks(entry, e)
<1> DEFINE w == release_winfo(entry, e)
<1>1. /\ KernelInv /\ WaitInv /\ KernelQueues /\ KernelRequests
      /\ entry \in Seq(Task) /\ NoDuplicates(entry)
      /\ UNCHANGED << priority, actque, wupque >>
  BY DEF ObjectKernel, TakenFrom, queVars
<1>2. \A t \in Members(entry) :
        t \in Task /\ TSTAT_WAIT_WOBJ(tstat[t]) /\ TSTAT_WAITING(tstat[t])
  BY <1>1, TakenWait
<1>3. /\ tstat' = [t \in Task |->
                     IF t \notin Members(entry) THEN tstat[t]
                     ELSE IF TSTAT_SUSPENDED(tstat[t]) THEN TS_SUSPENDED
                     ELSE TS_RUNNABLE]
      /\ tmevt' = [t \in Task |->
                     IF t \in Members(entry) /\ winfo[t] # NoTmevtb
                       THEN "none" ELSE tmevt[t]]
  BY DEF release_in_order
<1>4. \A t \in Task : w[t] = IF t \in Members(entry) THEN e ELSE winfo[t]
  BY DEF release_winfo
<1>5. CallBody(w)
  <2>1. e # "tmevtb" /\ e \in WinfoType
    BY DEF E_OK, ZERO, WinfoType
  <2>2. WaitProp(tstat', w, tmevt')
    BY <1>1, <1>2, <2>1, ReleaseWaits
  <2>3. w \in [Task -> WinfoType]
    BY <1>1, <2>1, TypesOf DEF release_winfo
  <2> HIDE DEF w
  <2>4. QED
    BY <1>1, <1>2, <2>2, <2>3, ReleaseInOrderLemma DEF CallBody, LeavesQueues
<1> HIDE DEF w
<1>6. Returns(w)
  BY DEF w
<1>7. KernelInv' /\ WaitInv'
  BY <1>1, <1>5, <1>6, TaskBodyStep, IntBodyStep DEF Returns
<1>8. EndsWith(w)
  BY <1>6, TaskReturnEnds, IntReturnEnds DEF Returns
<1>9. \A t \in Members(entry) : tstat'[t] \in {TS_SUSPENDED, TS_RUNNABLE}
  BY <1>2, <1>3
<1>10. \A t \in Task \ Members(entry) : tstat'[t] = tstat[t]
  BY <1>3
<1>11. KernelQueues'
  <2>1. Members(entry) \in SUBSET Task
    BY <1>2
  <2>2. \A t \in Members(entry) : ~TSTAT_WAIT_WOBJ(tstat'[t])
    BY <1>9, FactorStates
  <2>3. \A t \in Task : tmevt'[t] \in {tmevt[t], "none"}
    BY <1>3
  <2>4. \A q \in TpriQueue : Ordered(wait_queue'[q], priority')
    BY <1>1, QueueAssumption DEF LeavesQueues
  <2>5. QED
    BY <1>1, <1>7, <1>10, <2>1, <2>2, <2>3, <2>4, QueuesLeave DEF LeavesQueues
<1>12. KernelRequests'
  <2>1. ASSUME NEW t \in Task
        PROVE  RequestAt(t, tstat', priority', actque', wupque', w)
    <3>1. RequestAt(t, tstat, priority, actque, wupque, winfo)
      BY <1>1, RequestsInvDef DEF KernelRequests
    <3>2. CASE t \in Members(entry)
      <4>1. ~TSTAT_WAIT_SLP(tstat'[t]) /\ ~TSTAT_DORMANT(tstat'[t])
        BY <1>9, <3>2 DEF TSTAT_WAIT_SLP, TSTAT_DORMANT, TS_DORMANT,
                          TS_RUNNABLE, TS_SUSPENDED
      <4>2. QED
        BY <4>1 DEF RequestAt
    <3>3. CASE t \notin Members(entry)
      BY <1>1, <1>4, <1>10, <3>1, <3>3 DEF RequestAt
    <3>4. QED
      BY <3>2, <3>3
  <2>2. p_runtsk # NULL => p_runtsk \in Task /\ w[p_runtsk] = "none"
    <3>1. ASSUME p_runtsk # NULL PROVE p_runtsk \in Task /\ w[p_runtsk] = "none"
      <4>1. p_runtsk \in Runnable /\ winfo[p_runtsk] = "none"
        BY <1>1, <3>1 DEF KernelInv, DispatchInv, RunningInv, KernelRequests,
                          RunWinfoInv
      <4>2. p_runtsk \in Task /\ ~TSTAT_WAITING(tstat[p_runtsk])
        BY <1>1, <4>1, TstatExclusion, TypesOf DEF Runnable
      <4>3. QED
        BY <1>2, <1>4, <4>1, <4>2
    <3>2. QED
      BY <3>1
  <2>3. QED
    BY <1>7, <1>8, <2>1, <2>2, RequestsEnd DEF KernelInv
<1>13. ReleasesTasks(entry, e)
  <2>1. \A t \in Task : winfo'[t] \in {w[t], "none"}
    BY <1>8 DEF EndsWith, Dispatch
  <2>2. \A t \in Members(entry) : ~TSTAT_WAITING(tstat'[t])
    BY <1>9, TstatLemma
  <2>3. QED
    BY <1>2, <1>4, <1>10, <2>1, <2>2 DEF ReleasesTasks
<1>14. StepOn(O)
  <2>1. ASSUME NEW t \in Task PROVE StepAt(t, winfo', O)
    BY <1>2, <1>13 DEF ReleasesTasks, StepAt, TakenFrom
  <2>2. QED
    BY <2>1 DEF StepOn, LeavesQueues
<1>15. QED
  BY <1>7, <1>11, <1>12, <1>13, <1>14 DEF ObjectKernel

\* queue_delete_next and wait_complete take the first task of a queue.
LEMMA HeadLeaves ==
  ASSUME KernelInv, KernelQueues, NEW s \in WaitQueue, wait_queue[s] # << >>,
         wait_queue' = [wait_queue EXCEPT ![s] = Tail(wait_queue[s])],
         wait_complete(Head(wait_queue[s]))
  PROVE  LET entry == << Head(wait_queue[s]) >>
         IN  /\ TakenFrom(entry, {s}) /\ LeavesQueues(entry)
             /\ release_in_order(entry)
             /\ wait_complete_winfo(Head(wait_queue[s]))
                  = release_winfo(entry, E_OK)
<1> DEFINE t == Head(wait_queue[s])
           entry == << t >>
<1>1. /\ t \in Task /\ t \in Members(wait_queue[s])
      /\ [wait_queue EXCEPT ![s] = Tail(wait_queue[s])]
           = [q \in WaitQueue |-> QueueDelete(wait_queue[q], t)]
  BY TakeHeadLemma, HeadMemberLemma, QueueFacts
<1>2. wait_dequeue_tmevtb(t, winfo) /\ make_non_wait(t)
  BY DEF wait_complete
<1>3. wait_queue' = [q \in WaitQueue |-> QueueDelete(wait_queue[q], t)]
  BY <1>1
<1> HIDE DEF t
<1>4. /\ entry \in Seq(Task) /\ Len(entry) = 1 /\ entry[1] = t
      /\ Members(entry) = {t} /\ NoDuplicates(entry)
  BY <1>1 DEF Members, NoDuplicates
<1> HIDE DEF entry
<1>5. TakenFrom(entry, {s})
  BY <1>1, <1>4 DEF TakenFrom
<1>6. LeavesQueues(entry)
  <2>1. ASSUME NEW q \in WaitQueue
        PROVE  /\ wait_queue'[q] \in Seq(Task) /\ NoDuplicates(wait_queue'[q])
               /\ Members(wait_queue'[q]) = Members(wait_queue[q]) \ {t}
               /\ q \in TpriQueue => Ordered(wait_queue'[q], priority)
    <3>1. /\ wait_queue[q] \in Seq(Task) /\ NoDuplicates(wait_queue[q])
          /\ q \in TpriQueue => Ordered(wait_queue[q], priority)
          /\ wait_queue'[q] = QueueDelete(wait_queue[q], t)
          /\ priority \in [Task -> TPri]
      BY <1>3, QueueFacts, TypesOf
    <3>2. q \in TpriQueue => Ordered(wait_queue'[q], priority)
      BY <1>1, <3>1, DeleteOrdered
    <3>3. QED
      BY <3>1, <3>2, DeleteMembers
  <2>2. wait_queue' \in [WaitQueue -> Seq(Task)]
    BY <1>3, <2>1
  <2>3. QED
    BY <1>4, <2>1, <2>2 DEF LeavesQueues
<1>7. release_in_order(entry)
  <2> DEFINE f == CHOOSE f : f = [n \in 0 .. Len(entry) |-> Turn(f, entry, n)]
  <2>1. f = [n \in 0 .. Len(entry) |-> Turn(f, entry, n)]
    BY <1>4, TurnsExist
  <2> HIDE DEF f
  <2>2. 0 \in 0 .. Len(entry) /\ 1 \in 0 .. Len(entry)
    BY <1>4
  <2>3. f[0] = Turn(f, entry, 0) /\ f[1] = Turn(f, entry, 1)
    BY <2>1, <2>2
  <2>4. f[0] = sched /\ f[1] = Released(sched, t)
    BY <1>4, <2>3 DEF Turn
  <2>5. sched' = f[Len(entry)]
    BY <1>2, <1>4, <2>4 DEF make_non_wait, Released
  <2>6. tstat' = [u \in Task |->
                    IF u \notin Members(entry) THEN tstat[u]
                    ELSE IF TSTAT_SUSPENDED(tstat[u]) THEN TS_SUSPENDED
                    ELSE TS_RUNNABLE]
    BY <1>2, <1>4, TypesOf DEF make_non_wait
  <2>7. tmevt' = [u \in Task |->
                    IF u \in Members(entry) /\ winfo[u] # NoTmevtb
                      THEN "none" ELSE tmevt[u]]
    <3>1. CASE winfo[t] # NoTmevtb
      <4>1. tmevt' = [tmevt EXCEPT ![t] = "none"]
        BY <1>2, <3>1 DEF wait_dequeue_tmevtb
      <4>2. QED
        BY <1>4, <3>1, <4>1, TypesOf
    <3>2. CASE winfo[t] = NoTmevtb
      <4>1. tmevt' = tmevt
        BY <1>2, <3>2 DEF wait_dequeue_tmevtb
      <4>2. QED
        BY <1>4, <3>2, <4>1, TypesOf
    <3>3. QED
      BY <3>1, <3>2
  <2>8. QED
    BY <2>5, <2>6, <2>7 DEF release_in_order, Turn, Released, f
<1>8. wait_complete_winfo(t) = release_winfo(entry, E_OK)
  BY <1>4, TypesOf DEF wait_complete_winfo, release_winfo
<1>9. QED
  BY <1>5, <1>6, <1>7, <1>8 DEF entry, t

\* A call that releases no task.
LEMMA NoneLeaves ==
  ASSUME KernelInv, KernelQueues, UNCHANGED << sched, tstat, tmevt, wait_queue >>
  PROVE  /\ TakenFrom(<< >>, {}) /\ LeavesQueues(<< >>)
         /\ release_in_order(<< >>)
         /\ \A e : winfo = release_winfo(<< >>, e)
         /\ Members(<< >>) = {}
<1> DEFINE entry == << >>
<1>1. entry \in Seq(Task) /\ Len(entry) = 0 /\ Members(entry) = {}
      /\ NoDuplicates(entry)
  BY DEF Members, NoDuplicates
<1> HIDE DEF entry
<1>2. TakenFrom(entry, {})
  BY <1>1 DEF TakenFrom
<1>3. LeavesQueues(entry)
  BY <1>1, QueueFacts, TypesOf DEF LeavesQueues
<1>4. release_in_order(entry)
  <2> DEFINE f == CHOOSE f : f = [n \in 0 .. Len(entry) |-> Turn(f, entry, n)]
  <2>1. f = [n \in 0 .. Len(entry) |-> Turn(f, entry, n)]
    BY <1>1, TurnsExist
  <2> HIDE DEF f
  <2>2. 0 \in 0 .. Len(entry)
    BY <1>1
  <2>3. f[0] = Turn(f, entry, 0)
    BY <2>1, <2>2
  <2>4. f[0] = sched
    BY <2>3 DEF Turn
  <2>5. sched' = f[Len(entry)]
    BY <1>1, <2>4
  <2>6. tstat' = [u \in Task |->
                    IF u \notin Members(entry) THEN tstat[u]
                    ELSE IF TSTAT_SUSPENDED(tstat[u]) THEN TS_SUSPENDED
                    ELSE TS_RUNNABLE]
    BY <1>1, TypesOf
  <2>7. tmevt' = [u \in Task |->
                    IF u \in Members(entry) /\ winfo[u] # NoTmevtb
                      THEN "none" ELSE tmevt[u]]
    BY <1>1, TypesOf
  <2>8. QED
    BY <2>5, <2>6, <2>7 DEF release_in_order, Turn, Released, f
<1>5. \A e : winfo = release_winfo(entry, e)
  BY <1>1, TypesOf DEF release_winfo
<1>6. QED
  BY <1>1, <1>2, <1>3, <1>4, <1>5 DEF entry

\* init_wait_queue empties a queue, or two, and releases all their tasks.
LEMMA AllLeave ==
  ASSUME KernelInv, KernelQueues, NEW O \in SUBSET WaitQueue,
         NEW entry \in Seq(Task),
         \A t : t \in Members(entry) <=> \E q \in O : t \in Members(wait_queue[q]),
         wait_queue' = [q \in WaitQueue |->
                          IF q \in O THEN << >> ELSE wait_queue[q]]
  PROVE  LeavesQueues(entry)
<1>1. ASSUME NEW q \in WaitQueue
      PROVE  /\ wait_queue'[q] \in Seq(Task) /\ NoDuplicates(wait_queue'[q])
             /\ Members(wait_queue'[q]) = Members(wait_queue[q]) \ Members(entry)
             /\ q \in TpriQueue => Ordered(wait_queue'[q], priority)
  <2>1. CASE q \in O
    <3>1. wait_queue'[q] = << >> /\ Members(<< >>) = {}
      BY <2>1 DEF Members
    <3>2. QED
      BY <2>1, <3>1 DEF NoDuplicates, Ordered
  <2>2. CASE q \notin O
    <3>1. wait_queue'[q] = wait_queue[q]
      BY <2>2
    <3>2. ASSUME NEW t \in Members(wait_queue[q]), t \in Members(entry)
          PROVE  FALSE
      <4>1. PICK r \in O : t \in Members(wait_queue[r])
        BY <3>2
      <4>2. t \in Task /\ r \in WaitQueue
        BY QueueFacts
      <4>3. QED
        BY <2>2, <4>1, <4>2, QueueFacts DEF LinkAt
    <3>3. QED
      BY <3>1, <3>2, QueueFacts
  <2>3. QED
    BY <2>1, <2>2
<1>2. wait_queue' \in [WaitQueue -> Seq(Task)]
  BY <1>1
<1>3. QED
  BY <1>1, <1>2 DEF LeavesQueues

LEMMA QueueLeaves ==
  ASSUME KernelInv, KernelQueues, NEW s \in WaitQueue,
         wait_queue' = [wait_queue EXCEPT ![s] = << >>]
  PROVE  TakenFrom(wait_queue[s], {s}) /\ LeavesQueues(wait_queue[s])
<1>1. wait_queue[s] \in Seq(Task) /\ NoDuplicates(wait_queue[s])
  BY QueueFacts
<1>2. wait_queue' = [q \in WaitQueue |->
                       IF q \in {s} THEN << >> ELSE wait_queue[q]]
  BY TypesOf
<1>3. LeavesQueues(wait_queue[s])
  BY <1>1, <1>2, AllLeave
<1>4. QED
  BY <1>1, <1>3 DEF TakenFrom

LEMMA TwoQueuesLeave ==
  ASSUME KernelInv, KernelQueues, NEW s \in WaitQueue, NEW r \in WaitQueue,
         s # r,
         wait_queue' = [wait_queue EXCEPT ![s] = << >>, ![r] = << >>]
  PROVE  LET entry == wait_queue[s] \o wait_queue[r]
         IN  TakenFrom(entry, {s, r}) /\ LeavesQueues(entry)
<1> DEFINE a == wait_queue[s]
           b == wait_queue[r]
           entry == a \o b
<1>1. /\ a \in Seq(Task) /\ NoDuplicates(a)
      /\ b \in Seq(Task) /\ NoDuplicates(b)
  BY QueueFacts
<1>2. \A t \in Members(a) : t \notin Members(b)
  BY QueueFacts DEF LinkAt
<1>3. wait_queue' = [q \in WaitQueue |->
                       IF q \in {s, r} THEN << >> ELSE wait_queue[q]]
  BY TypesOf
<1> HIDE DEF a, b
<1>4. /\ entry \in Seq(Task) /\ Len(entry) = Len(a) + Len(b)
      /\ \A i \in 1 .. Len(entry) :
           entry[i] = IF i <= Len(a) THEN a[i] ELSE b[i - Len(a)]
  BY <1>1, ConcatProperties
<1>5. Len(a) \in Nat /\ Len(b) \in Nat
  BY <1>1
<1> HIDE DEF entry
<1>6. \A t : t \in Members(entry) <=> t \in Members(a) \/ t \in Members(b)
  <2>1. ASSUME NEW i \in 1 .. Len(entry)
        PROVE  entry[i] \in Members(a) \/ entry[i] \in Members(b)
    <3>1. CASE i <= Len(a)
      BY <1>4, <1>5, <3>1 DEF Members
    <3>2. CASE ~(i <= Len(a))
      <4>1. i - Len(a) \in 1 .. Len(b) /\ entry[i] = b[i - Len(a)]
        BY <1>4, <1>5, <3>2
      <4>2. QED
        BY <4>1 DEF Members
    <3>3. QED
      BY <3>1, <3>2
  <2>2. ASSUME NEW i \in 1 .. Len(a) PROVE a[i] \in Members(entry)
    <3>1. i \in 1 .. Len(entry) /\ entry[i] = a[i]
      BY <1>4, <1>5
    <3>2. QED
      BY <3>1 DEF Members
  <2>3. ASSUME NEW i \in 1 .. Len(b) PROVE b[i] \in Members(entry)
    <3>1. i + Len(a) \in 1 .. Len(entry) /\ ~(i + Len(a) <= Len(a))
          /\ (i + Len(a)) - Len(a) = i
      BY <1>4, <1>5
    <3>2. entry[i + Len(a)] = b[i]
      BY <1>4, <3>1
    <3>3. QED
      BY <3>1, <3>2 DEF Members
  <2>4. QED
    BY <2>1, <2>2, <2>3 DEF Members
<1>7. NoDuplicates(entry)
  <2> SUFFICES ASSUME NEW i \in 1 .. Len(entry), NEW j \in 1 .. Len(entry),
                      entry[i] = entry[j]
               PROVE  i = j
    BY DEF NoDuplicates
  <2>1. \A k \in 1 .. Len(entry) :
          /\ k <= Len(a) => k \in 1 .. Len(a) /\ entry[k] = a[k]
          /\ ~(k <= Len(a)) => /\ k - Len(a) \in 1 .. Len(b)
                               /\ entry[k] = b[k - Len(a)]
    BY <1>4, <1>5
  <2>2. CASE i <= Len(a) /\ j <= Len(a)
    BY <1>1, <2>1, <2>2 DEF NoDuplicates
  <2>3. CASE ~(i <= Len(a)) /\ ~(j <= Len(a))
    <3>1. i - Len(a) = j - Len(a)
      BY <1>1, <2>1, <2>3 DEF NoDuplicates
    <3>2. QED
      BY <1>5, <3>1
  <2>4. ASSUME NEW k \in 1 .. Len(entry), NEW l \in 1 .. Len(entry),
               k <= Len(a), ~(l <= Len(a)), entry[k] = entry[l]
        PROVE  FALSE
    <3>1. entry[k] \in Members(a) /\ entry[l] \in Members(b)
      BY <2>1, <2>4 DEF Members
    <3>2. QED
      BY <1>2, <2>4, <3>1
  <2>5. QED
    BY <2>2, <2>3, <2>4
<1>8. /\ {s, r} \in SUBSET WaitQueue
      /\ \A t : t \in Members(entry)
                  <=> \E q \in {s, r} : t \in Members(wait_queue[q])
  BY <1>6 DEF a, b
<1>9. LeavesQueues(entry)
  BY <1>3, <1>4, <1>8, AllLeave
<1>10. TakenFrom(entry, {s, r})
  BY <1>4, <1>7, <1>8 DEF TakenFrom
<1>11. QED
  BY <1>9, <1>10 DEF entry, a, b

----------------------------------------------------------------------------
(***************************************************************************)
(* A call on an object makes the running task wait in the queue s.         *)
(***************************************************************************)
BeginsToWait(s) ==
  /\ p_runtsk \in Task /\ winfo[p_runtsk] = "none"
  /\ TSTAT_WAITING(tstat'[p_runtsk]) /\ winfo'[p_runtsk] # "none"
  /\ \A q \in WaitQueue : p_runtsk \notin Members(wait_queue[q])
  /\ Members(wait_queue'[s]) = Members(wait_queue[s]) \cup {p_runtsk}
  /\ \A q \in WaitQueue \ {s} : wait_queue'[q] = wait_queue[q]
  /\ \A t \in Task \ {p_runtsk} :
       tstat'[t] = tstat[t] /\ winfo'[t] \in {winfo[t], "none"}

LEMMA WaitCall ==
  ASSUME ObjectKernel, CanDispatch, NEW s \in WaitQueue, NEW f \in WobjFactor,
         s \in TpriQueue => f \in WobjcbFactor,
         NEW callback \in {"none", "wait_tmout"},
         make_wait(f, callback), wobj_queue_insert(s), UNCHANGED queVars
  PROVE  ObjectKernel' /\ StepOn({s}) /\ BeginsToWait(s)
<1> DEFINE t == p_runtsk
<1>1. /\ KernelInv /\ WaitInv /\ KernelQueues /\ KernelRequests
      /\ TaskContext /\ dspflg /\ UNCHANGED << actque, wupque >>
  BY DEF ObjectKernel, CanDispatch, InTask, queVars
<1>2. /\ f \in WaitFactor /\ f # "SLP" /\ TSTAT_WAIT_WOBJ(TS_WAITING(f))
      /\ callback \in TmevtType /\ callback # "wait_tmout_ok"
  BY DEF WaitFactor, WobjFactor, WobjcbFactor, TmevtType, TSTAT_WAIT_WOBJ,
         TS_WAITING
<1>3. /\ t \in Task /\ t \in Runnable /\ TSTAT_RUNNABLE(tstat[t])
      /\ winfo[t] = "none"
  BY <1>1, InTaskFacts DEF KernelRequests, RunWinfoInv, Runnable
<1>4. /\ tstat' = [tstat EXCEPT ![t] = TS_WAITING(f)]
      /\ Dispatch(sched'.p_schedtsk,
                  [winfo EXCEPT ![t] = IF callback = "none" THEN NoTmevtb
                                                            ELSE "tmevtb"])
  BY DEF make_wait
<1>5. wait_queue' \in [WaitQueue -> Seq(Task)]
  <2> DEFINE v == IF s \in TpriQueue
                    THEN QueueInsertTpri(wait_queue[s], priority, t)
                    ELSE Append(wait_queue[s], t)
  <2>1. wait_queue \in [WaitQueue -> Seq(Task)] /\ priority \in [Task -> TPri]
    BY <1>1, TypesOf
  <2>2. v \in Seq(Task)
    BY <1>3, <2>1, QueueInsertTpriType
  <2>3. wait_queue' = [wait_queue EXCEPT ![s] = v]
    BY DEF wobj_queue_insert
  <2> HIDE DEF v
  <2>4. QED
    BY <2>1, <2>2, <2>3
<1>6. KernelInv'
  BY <1>1, <1>2, <1>5, make_waitLemma, TypesOf
<1>7. WaitInv'
  BY <1>1, <1>2, <1>6, make_waitWaits
<1>8. /\ KernelQueues'
      /\ \A q \in WaitQueue \ {s} : wait_queue'[q] = wait_queue[q]
  BY <1>1, <1>2, <1>6, ObjectWaitBegins
<1>9. KernelRequests'
  BY <1>1, <1>2, <1>6, make_waitRequests
<1>10. \A u \in Task : StepAt(u, winfo', {s})
  BY <1>1, make_waitMoves
<1>11. \A q \in WaitQueue : t \notin Members(wait_queue[q])
  BY <1>1, <1>3, RunnableFactors, QueueFacts DEF LinkAt
<1>12. Members(wait_queue'[s]) = Members(wait_queue[s]) \cup {t}
  <2>1. wait_queue'[s] = IF s \in TpriQueue
                           THEN QueueInsertTpri(wait_queue[s], priority, t)
                           ELSE Append(wait_queue[s], t)
    BY <1>1, TypesOf DEF wobj_queue_insert
  <2>2. /\ wait_queue[s] \in Seq(Task) /\ NoDuplicates(wait_queue[s])
        /\ t \notin Members(wait_queue[s]) /\ priority \in [Task -> TPri]
    BY <1>1, <1>11, QueueFacts, TypesOf
  <2>3. CASE s \in TpriQueue
    <3>1. Ordered(wait_queue[s], priority)
      BY <1>1, <2>3, QueueFacts
    <3>2. QED
      BY <1>3, <2>1, <2>2, <2>3, <3>1, InsertTpriLemma
  <2>4. CASE s \notin TpriQueue
    BY <1>3, <2>1, <2>2, <2>4, AppendLemma
  <2>5. QED
    BY <2>3, <2>4
<1>13. /\ tstat'[t] = TS_WAITING(f) /\ TSTAT_WAITING(tstat'[t])
       /\ \A u \in Task \ {t} : tstat'[u] = tstat[u]
  BY <1>1, <1>2, <1>3, <1>4, WaitingLemma, TypesOf
<1>14. winfo'[t] # "none"
  BY <1>3, <1>7, <1>13 DEF WaitInv, WinfoInv, NoTmevtb, ZERO
<1>15. \A u \in Task \ {t} : winfo'[u] \in {winfo[u], "none"}
  BY <1>1, <1>3, <1>4, TypesOf DEF Dispatch
<1>16. BeginsToWait(s)
  BY <1>3, <1>8, <1>11, <1>12, <1>13, <1>14, <1>15 DEF BeginsToWait
<1>17. StepOn({s})
  BY <1>3, <1>8, <1>10, <1>12 DEF StepOn
<1>18. QED
  BY <1>6, <1>7, <1>8, <1>9, <1>16, <1>17 DEF ObjectKernel

----------------------------------------------------------------------------
(***************************************************************************)
(* What the modules of the objects keep across a step.                     *)
(***************************************************************************)
\* A queue that the step is not about gets no longer.
LEMMA StaysEmpty ==
  ASSUME ObjectKernel, ObjectKernel', NEW O, StepOn(O), NEW q \in WaitQueue,
         q \notin O, wait_queue[q] = << >>
  PROVE  wait_queue'[q] = << >>
<1>1. wait_queue[q] \in Seq(Task) /\ wait_queue'[q] \in Seq(Task)
  BY DEF ObjectKernel, KernelInv, TypeOK
<1>2. Members(wait_queue[q]) = {}
  BY <1>1, EmptyMembersLemma
<1>3. Members(wait_queue'[q]) = {}
  BY <1>2 DEF StepOn
<1>4. QED
  BY <1>1, <1>3, EmptyMembersLemma

\* The tasks of Pnd still miss what they wait for in the queues Q: they wait
\* there, or their wait ended otherwise.
Pending(Pnd, Q) ==
  \A t \in Pnd :
    /\ winfo[t] # "none"
    /\ IF TSTAT_WAITING(tstat[t]) THEN \E q \in Q : t \in Members(wait_queue[q])
                                  ELSE winfo[t] # E_OK

PendingNext(Pnd, Q) ==
  \A t \in Pnd :
    /\ winfo'[t] # "none"
    /\ IF TSTAT_WAITING(tstat'[t]) THEN \E q \in Q : t \in Members(wait_queue'[q])
                                   ELSE winfo'[t] # E_OK

\* A task that is told E_OK was not in the queues O.
KeepsMissing(t, O) ==
  winfo'[t] = E_OK /\ ~TSTAT_WAITING(tstat'[t]) =>
    \A q \in O : t \notin Members(wait_queue[q])

\* A step on the queues O: those of Pnd that are told E_OK leave it.
LEMMA PendingKept ==
  ASSUME ObjectKernel, ObjectKernel', NEW O \in SUBSET WaitQueue, StepOn(O),
         NEW Q \in SUBSET WaitQueue, NEW Pnd \in SUBSET Task, Pending(Pnd, Q),
         NEW PndN \in SUBSET Task,
         \A t \in PndN : winfo'[t] # "none" /\
           \/ TSTAT_WAITING(tstat'[t]) /\ \E q \in Q : t \in Members(wait_queue'[q])
           \/ t \in Pnd /\ KeepsMissing(t, Q \cap O)
  PROVE  PendingNext(PndN, Q)
<1> SUFFICES ASSUME NEW t \in PndN
             PROVE  /\ winfo'[t] # "none"
                    /\ IF TSTAT_WAITING(tstat'[t])
                         THEN \E q \in Q : t \in Members(wait_queue'[q])
                         ELSE winfo'[t] # E_OK
  BY DEF PendingNext
<1>1. t \in Task /\ winfo'[t] # "none" /\ StepAt(t, winfo', O)
      /\ LinkAt(t, tstat, wait_queue)
  BY QueueFacts DEF StepOn, ObjectKernel
<1>2. CASE TSTAT_WAITING(tstat'[t]) /\ \E q \in Q : t \in Members(wait_queue'[q])
  BY <1>1, <1>2
<1>3. CASE t \in Pnd /\ KeepsMissing(t, Q \cap O)
  <2>1. /\ winfo[t] # "none"
        /\ IF TSTAT_WAITING(tstat[t]) THEN \E q \in Q : t \in Members(wait_queue[q])
                                      ELSE winfo[t] # E_OK
    BY <1>3 DEF Pending
  <2>2. CASE /\ winfo'[t] = winfo[t]
             /\ TSTAT_WAITING(tstat'[t]) <=> TSTAT_WAITING(tstat[t])
             /\ TSTAT_WAIT_WOBJ(tstat'[t]) <=> TSTAT_WAIT_WOBJ(tstat[t])
    <3>1. CASE TSTAT_WAITING(tstat[t])
      <4>1. PICK q \in Q : t \in Members(wait_queue[q])
        BY <2>1, <3>1
      <4>2. TSTAT_WAIT_WOBJ(tstat[t])
        BY <1>1, <4>1 DEF LinkAt
      <4>3. LinkAt(t, tstat', wait_queue')
        BY <1>1 DEF ObjectKernel, KernelQueues, QueuesInv, WaitQueueInv, LinkAt
      <4>4. PICK r \in WaitQueue : t \in Members(wait_queue'[r])
        BY <2>2, <4>2, <4>3 DEF LinkAt
      <4>5. t \in Members(wait_queue[r])
        BY <2>1, <4>4 DEF StepOn
      <4>6. r = q
        BY <1>1, <4>1, <4>2, <4>5 DEF LinkAt
      <4>7. QED
        BY <2>2, <3>1, <4>1, <4>4, <4>6
    <3>2. CASE ~TSTAT_WAITING(tstat[t])
      BY <2>1, <2>2, <3>2
    <3>3. QED
      BY <3>1, <3>2
  <2>3. CASE /\ TSTAT_WAITING(tstat[t]) /\ ~TSTAT_WAITING(tstat'[t])
             /\ winfo'[t] = E_OK => \/ ~TSTAT_WAIT_WOBJ(tstat[t])
                                    \/ \E q \in O : t \in Members(wait_queue[q])
    <3>1. PICK q \in Q : t \in Members(wait_queue[q])
      BY <2>1, <2>3
    <3>2. TSTAT_WAIT_WOBJ(tstat[t])
      BY <1>1, <3>1 DEF LinkAt
    <3>3. ASSUME winfo'[t] = E_OK PROVE FALSE
      <4>1. PICK r \in O : t \in Members(wait_queue[r])
        BY <2>3, <3>2, <3>3
      <4>2. r = q
        BY <1>1, <3>1, <3>2, <4>1 DEF LinkAt
      <4>3. QED
        BY <1>3, <2>3, <3>1, <3>3, <4>1, <4>2 DEF KeepsMissing
    <3>4. QED
      BY <2>3, <3>3
  <2>4. QED
    BY <1>1, <2>1, <2>2, <2>3 DEF StepAt
<1>4. QED
  BY <1>2, <1>3

----------------------------------------------------------------------------
(***************************************************************************)
(* The calls, by what they do to the kernel.                               *)
(***************************************************************************)
LEMMA StepOnMore ==
  ASSUME NEW O, NEW more, O \subseteq more, StepOn(O)
  PROVE  StepOn(more)
BY DEF StepOn, StepAt

\* The call does not touch the kernel.
LEMMA StillCall ==
  ASSUME ObjectKernel, UNCHANGED vars
  PROVE  ObjectKernel' /\ StepOn({})
BY KernelObject

LEMMA NoneCall ==
  ASSUME ObjectKernel, UNCHANGED << sched, tstat, tmevt, wait_queue >>,
         Returns(winfo), UNCHANGED << priority, queVars >>
  PROVE  ObjectKernel' /\ StepOn({})
<1>1. /\ TakenFrom(<< >>, {}) /\ LeavesQueues(<< >>) /\ release_in_order(<< >>)
      /\ winfo = release_winfo(<< >>, E_OK)
  BY NoneLeaves DEF ObjectKernel
<1>2. Returns(release_winfo(<< >>, E_OK))
  BY <1>1
<1>3. QED
  BY <1>1, <1>2, ReleaseCall

\* The first task of the queue r is released with E_OK.
Hands(r) ==
  /\ wait_queue[r] # << >>
  /\ wait_queue' = [wait_queue EXCEPT ![r] = Tail(wait_queue[r])]
  /\ wait_complete(Head(wait_queue[r]))
  /\ Returns(wait_complete_winfo(Head(wait_queue[r])))
  /\ UNCHANGED << priority, queVars >>

LEMMA HandCall ==
  ASSUME ObjectKernel, NEW r \in WaitQueue, Hands(r)
  PROVE  LET t == Head(wait_queue[r])
         IN  /\ ObjectKernel' /\ StepOn({r})
             /\ t \in Task /\ t \in Members(wait_queue[r])
             /\ \A u \in Task \ {t} : tstat'[u] = tstat[u]
<1> DEFINE t == Head(wait_queue[r])
           entry == << t >>
<1>1. KernelInv /\ KernelQueues
  BY DEF ObjectKernel
<1>2. /\ TakenFrom(entry, {r}) /\ LeavesQueues(entry) /\ release_in_order(entry)
      /\ wait_complete_winfo(t) = release_winfo(entry, E_OK)
  BY <1>1, HeadLeaves DEF Hands
<1>3. Returns(release_winfo(entry, E_OK))
  BY <1>2 DEF Hands
<1>4. t \in Members(wait_queue[r]) /\ t \in Task
  BY <1>1, HeadMemberLemma, QueueFacts DEF Hands
<1>5. Members(entry) = {t}
  BY DEF Members
<1> HIDE DEF entry, t
<1>6. ObjectKernel' /\ StepOn({r}) /\ ReleasesTasks(entry, E_OK)
  BY <1>2, <1>3, ReleaseCall DEF Hands
<1>7. QED
  BY <1>4, <1>5, <1>6 DEF ReleasesTasks, t

\* init_wait_queue: the tasks of the queue are released with E_DLT.
Deletes(s) ==
  /\ init_wait_queue(s)
  /\ Returns(init_wait_queue_winfo(s))
  /\ UNCHANGED << priority, queVars >>

LEMMA IniCall ==
  ASSUME ObjectKernel, NEW s \in WaitQueue, Deletes(s)
  PROVE  /\ ObjectKernel' /\ StepOn({s})
         /\ wait_queue' = [wait_queue EXCEPT ![s] = << >>]
         /\ wait_queue'[s] = << >>
         /\ \E entry : ReleasesTasks(entry, "E_DLT")
<1>1. /\ wait_queue' = [wait_queue EXCEPT ![s] = << >>]
      /\ release_in_order(wait_queue[s])
      /\ Returns(release_winfo(wait_queue[s], "E_DLT"))
      /\ UNCHANGED << priority, queVars >>
  BY DEF Deletes, init_wait_queue, init_wait_queue_winfo
<1>2. TakenFrom(wait_queue[s], {s}) /\ LeavesQueues(wait_queue[s])
  BY <1>1, QueueLeaves DEF ObjectKernel
<1>3. /\ ObjectKernel' /\ StepOn({s})
      /\ ReleasesTasks(wait_queue[s], "E_DLT")
  BY <1>1, <1>2, ReleaseCall
<1>4. wait_queue'[s] = << >>
  BY <1>1, TypesOf DEF ObjectKernel
<1>5. QED
  BY <1>1, <1>3, <1>4

DeletesTwo(s, r) ==
  /\ release_in_order(wait_queue[s] \o wait_queue[r])
  /\ wait_queue' = [wait_queue EXCEPT ![s] = << >>, ![r] = << >>]
  /\ Returns(release_winfo(wait_queue[s] \o wait_queue[r], "E_DLT"))
  /\ UNCHANGED << priority, queVars >>

LEMMA IniTwoCall ==
  ASSUME ObjectKernel, NEW s \in WaitQueue, NEW r \in WaitQueue, s # r,
         DeletesTwo(s, r)
  PROVE  /\ ObjectKernel' /\ StepOn({s, r})
         /\ wait_queue'[s] = << >> /\ wait_queue'[r] = << >>
         /\ \E entry : ReleasesTasks(entry, "E_DLT")
<1> DEFINE entry == wait_queue[s] \o wait_queue[r]
<1>1. /\ wait_queue' = [wait_queue EXCEPT ![s] = << >>, ![r] = << >>]
      /\ release_in_order(entry)
      /\ Returns(release_winfo(entry, "E_DLT"))
      /\ UNCHANGED << priority, queVars >>
  BY DEF DeletesTwo
<1>2. TakenFrom(entry, {s, r}) /\ LeavesQueues(entry)
  BY <1>1, TwoQueuesLeave DEF ObjectKernel
<1> HIDE DEF entry
<1>3. ObjectKernel' /\ StepOn({s, r}) /\ ReleasesTasks(entry, "E_DLT")
  BY <1>1, <1>2, ReleaseCall
<1>4. wait_queue'[s] = << >> /\ wait_queue'[r] = << >>
  BY <1>1, TypesOf DEF ObjectKernel
<1>5. QED
  BY <1>3, <1>4

\* The running task waits in the queue s.
Waits(f, callback, s) ==
  /\ CanDispatch
  /\ make_wait(f, callback)
  /\ wobj_queue_insert(s)
  /\ UNCHANGED queVars

\* The tasks in the queues after a step are waiting.
LEMMA QueuedNext ==
  ASSUME ObjectKernel', NEW q \in WaitQueue, NEW t \in Members(wait_queue'[q])
  PROVE  t \in Task /\ TSTAT_WAITING(tstat'[t]) /\ winfo'[t] # "none"
<1>1. /\ tstat' \in [Task -> TstatType] /\ wait_queue'[q] \in Seq(Task)
      /\ WaitQueueInv' /\ WinfoInv'
  BY DEF ObjectKernel, KernelInv, TypeOK, KernelQueues, QueuesInv, WaitInv
<1>2. t \in Task
  BY <1>1 DEF Members
<1>3. TSTAT_WAIT_WOBJ(tstat'[t])
  BY <1>1, <1>2 DEF WaitQueueInv
<1>4. TSTAT_WAITING(tstat'[t])
  BY <1>1, <1>2, <1>3, WobjWaits
<1>5. QED
  BY <1>1, <1>2, <1>4 DEF WinfoInv, NoTmevtb, ZERO

\* A task whose state the step leaves alone misses what it missed.
LEMMA NotReleased ==
  ASSUME ObjectKernel, NEW t \in Task, tstat'[t] = tstat[t],
         NEW O \in SUBSET WaitQueue
  PROVE  KeepsMissing(t, O)
<1>1. ASSUME ~TSTAT_WAITING(tstat[t]), NEW q \in O, t \in Members(wait_queue[q])
      PROVE  FALSE
  <2>1. TSTAT_WAIT_WOBJ(tstat[t])
    BY <1>1, QueueFacts DEF LinkAt, ObjectKernel
  <2>2. QED
    BY <1>1, <2>1, WobjWaits, TypesOf DEF ObjectKernel
<1>2. QED
  BY <1>1 DEF KeepsMissing

----------------------------------------------------------------------------
(***************************************************************************)
(* Lists in memory.  s is what Chain finds when it is a list that ends:    *)
(* each node of s links to the one that follows it, the last one to end.   *)
(***************************************************************************)
At(s, i, end) == IF i <= Len(s) THEN s[i] ELSE end

IsChain(s, next, first, end) ==
  /\ s \in Seq(DOMAIN next) /\ NoDuplicates(s) /\ end \notin DOMAIN next
  /\ first = At(s, 1, end)
  /\ \A i \in 1 .. Len(s) : next[s[i]] = At(s, i + 1, end)

\* s with x as its p-th element.
Put(s, p, x) ==
  [i \in 1 .. Len(s) + 1 |->
     IF i < p THEN s[i] ELSE IF i = p THEN x ELSE s[i - 1]]

\* A list without duplicates is not longer than there are nodes.
LEMMA ChainLength ==
  ASSUME NEW s, NEW next, NEW first, NEW end, IsChain(s, next, first, end),
         IsFiniteSet(DOMAIN next)
  PROVE  Len(s) \in Nat /\ Cardinality(DOMAIN next) \in Nat
         /\ Len(s) <= Cardinality(DOMAIN next)
<1> DEFINE dom == DOMAIN next
<1>1. s \in Seq(dom) /\ NoDuplicates(s)
  BY DEF IsChain
<1> HIDE DEF dom
<1>2. s \in Injection(1 .. Len(s), dom)
  BY <1>1 DEF Injection, IsInjective, NoDuplicates
<1>3. Cardinality(1 .. Len(s)) <= Cardinality(dom)
  BY <1>2, FS_Injection DEF dom
<1>4. Len(s) \in Nat /\ Cardinality(1 .. Len(s)) = Len(s)
  BY <1>1, FS_Interval
<1>5. QED
  BY <1>3, <1>4, FS_CardinalityType DEF dom

LEMMA ChainIs ==
  ASSUME NEW s, NEW next, NEW first, NEW end, IsChain(s, next, first, end),
         IsFiniteSet(DOMAIN next)
  PROVE  Chain(next, first, end) = s
<1> DEFINE last == Cardinality(DOMAIN next) + 1
           Follow(g, n) == IF n = 1 THEN first
                         ELSE IF g[n - 1] \in DOMAIN next THEN next[g[n - 1]]
                         ELSE end
           IsNode(g) == g = [n \in 1 .. last |-> Follow(g, n)]
           node == CHOOSE g : IsNode(g)
           f == [n \in 1 .. last |-> At(s, n, end)]
           G == {n \in Nat : n \in 1 .. last => node[n] = At(s, n, end)}
<1>1. /\ Len(s) \in Nat /\ last \in Nat /\ Len(s) < last
      /\ s \in Seq(DOMAIN next) /\ end \notin DOMAIN next
      /\ first = At(s, 1, end)
      /\ \A i \in 1 .. Len(s) : next[s[i]] = At(s, i + 1, end)
  BY ChainLength DEF IsChain
<1> HIDE DEF last
<1>2. IsNode(f)
  <2>1. ASSUME NEW n \in 1 .. last PROVE f[n] = Follow(f, n)
    <3>1. CASE n = 1
      BY <1>1, <3>1
    <3>2. CASE n # 1
      <4>1. n - 1 \in 1 .. last /\ n \in Nat
        BY <1>1, <3>2
      <4>2. f[n - 1] = At(s, n - 1, end)
        BY <4>1
      <4>3. CASE n - 1 <= Len(s)
        <5>1. n - 1 \in 1 .. Len(s) /\ f[n - 1] = s[n - 1]
          BY <1>1, <4>1, <4>2, <4>3 DEF At
        <5>2. next[s[n - 1]] = At(s, (n - 1) + 1, end) /\ s[n - 1] \in DOMAIN next
          BY <1>1, <5>1
        <5>3. (n - 1) + 1 = n
          BY <4>1
        <5>4. QED
          BY <3>2, <5>1, <5>2, <5>3
      <4>4. CASE ~ (n - 1 <= Len(s))
        <5>1. f[n - 1] = end /\ ~ (n <= Len(s))
          BY <1>1, <4>1, <4>2, <4>4 DEF At
        <5>2. QED
          BY <1>1, <3>2, <5>1 DEF At
      <4>5. QED
        BY <4>3, <4>4
    <3>3. QED
      BY <3>1, <3>2
  <2> HIDE DEF Follow
  <2>2. QED
    BY <2>1
<1> HIDE DEF IsNode, f
<1>3. IsNode(node)
  BY <1>2
<1> HIDE DEF node
<1>4. \A n \in 1 .. last : node[n] = Follow(node, n)
  BY <1>3 DEF IsNode
<1>5. \A n \in 1 .. last : f[n] = Follow(f, n)
  BY <1>2 DEF IsNode
<1>6. \A n \in 1 .. last : node[n] = f[n]
  <2> DEFINE Bad == {n \in 1 .. last : node[n] # f[n]}
  <2>1. ASSUME Bad # {} PROVE FALSE
    <3>1. Bad \in SUBSET Nat
      BY <1>1
    <3> HIDE DEF Bad
    <3>2. PICK n \in Bad : \A k \in Bad : n <= k
      BY <2>1, <3>1, SmallestLemma
    <3>3. n \in 1 .. last /\ node[n] # f[n]
      BY <3>2 DEF Bad
    <3>4. CASE n = 1
      BY <1>4, <1>5, <3>3, <3>4
    <3>5. CASE n # 1
      <4>1. n - 1 \in 1 .. last /\ ~ (n <= n - 1)
        BY <1>1, <3>3, <3>5
      <4>2. node[n - 1] = f[n - 1]
        BY <3>2, <4>1 DEF Bad
      <4>3. Follow(node, n) = Follow(f, n)
        BY <4>2
      <4>4. QED
        BY <1>4, <1>5, <3>3, <4>3
    <3>6. QED
      BY <3>4, <3>5
  <2>2. QED
    BY <2>1
<1>7. {i \in 1 .. last : node[i] # end} = 1 .. Len(s)
  <2>1. ASSUME NEW i \in 1 .. last PROVE node[i] # end <=> i <= Len(s)
    <3>1. node[i] = At(s, i, end)
      BY <1>6 DEF f
    <3>2. i <= Len(s) => s[i] \in DOMAIN next
      BY <1>1
    <3>3. QED
      BY <1>1, <3>1, <3>2 DEF At
  <2>2. QED
    BY <1>1, <2>1
<1>8. Cardinality({i \in 1 .. last : node[i] # end}) = Len(s)
  <2>1. Len(s) \in Nat
    BY <1>1
  <2>2. Cardinality(1 .. Len(s)) = Len(s)
    BY <2>1, FS_Interval
  <2>3. QED
    BY <1>7, <2>2
<1>9. Chain(next, first, end) =
        [n \in 1 .. Cardinality({i \in 1 .. last : node[i] # end}) |-> node[n]]
  BY DEF Chain, node, IsNode, last
<1>10. Chain(next, first, end) = [n \in 1 .. Len(s) |-> node[n]]
  BY <1>8, <1>9
<1>11. \A n \in 1 .. Len(s) : node[n] = s[n]
  BY <1>1, <1>6 DEF f, At
<1>12. s = [n \in 1 .. Len(s) |-> s[n]]
  BY <1>1
<1>13. QED
  BY <1>10, <1>11, <1>12

LEMMA ChainEmpty ==
  ASSUME NEW next, NEW end, end \notin DOMAIN next
  PROVE  IsChain(<< >>, next, end, end)
BY DEF IsChain, NoDuplicates, At

\* The first node and the rest of a list that is not empty.
LEMMA ChainFirst ==
  ASSUME NEW s, NEW next, NEW first, NEW end, IsChain(s, next, first, end)
  PROVE  /\ s = << >> <=> first = end
         /\ s # << >> => first = s[1] /\ first \in DOMAIN next
         /\ Len(s) \in Nat /\ (s # << >> => Len(s) > 0)
         /\ Members(s) \subseteq DOMAIN next
<1>1. s \in Seq(DOMAIN next) /\ end \notin DOMAIN next /\ first = At(s, 1, end)
  BY DEF IsChain
<1>2. Members(s) \subseteq DOMAIN next
  BY <1>1 DEF Members
<1>3. s # << >> => Len(s) > 0 /\ s[1] \in DOMAIN next
  BY <1>1
<1>4. QED
  BY <1>1, <1>2, <1>3 DEF At

LEMMA TailIs ==
  ASSUME NEW X, NEW s \in Seq(X), s # << >>
  PROVE  /\ Tail(s) \in Seq(X) /\ Len(Tail(s)) = Len(s) - 1
         /\ \A i \in 1 .. Len(s) - 1 : Tail(s)[i] = s[i + 1]
         /\ Len(s) \in Nat /\ Len(s) > 0 /\ Head(s) = s[1]
  OBVIOUS

LEMMA TailMembers ==
  ASSUME NEW X, NEW s \in Seq(X), s # << >>, NoDuplicates(s)
  PROVE  Members(Tail(s)) = Members(s) \ {s[1]} /\ s[1] \in Members(s)
         /\ NoDuplicates(Tail(s))
<1>1. /\ Len(Tail(s)) = Len(s) - 1 /\ Len(s) \in Nat /\ Len(s) > 0
      /\ \A i \in 1 .. Len(s) - 1 : Tail(s)[i] = s[i + 1]
  BY TailIs
<1>2. ASSUME NEW x \in Members(Tail(s)) PROVE x \in Members(s) \ {s[1]}
  <2>1. PICK i \in 1 .. Len(s) - 1 : x = s[i + 1]
    BY <1>1 DEF Members
  <2>2. i + 1 \in 1 .. Len(s) /\ i + 1 # 1 /\ 1 \in 1 .. Len(s)
    BY <1>1
  <2>3. QED
    BY <2>1, <2>2 DEF Members, NoDuplicates
<1>3. ASSUME NEW x \in Members(s), x # s[1] PROVE x \in Members(Tail(s))
  <2>1. PICK i \in 1 .. Len(s) : x = s[i]
    BY DEF Members
  <2>2. i - 1 \in 1 .. Len(s) - 1 /\ (i - 1) + 1 = i
    BY <1>1, <1>3, <2>1
  <2>3. QED
    BY <1>1, <2>1, <2>2 DEF Members
<1>4. NoDuplicates(Tail(s))
  <2> SUFFICES ASSUME NEW i \in 1 .. Len(Tail(s)), NEW j \in 1 .. Len(Tail(s)),
                      Tail(s)[i] = Tail(s)[j]
               PROVE  i = j
    BY DEF NoDuplicates
  <2>1. s[i + 1] = s[j + 1] /\ i + 1 \in 1 .. Len(s) /\ j + 1 \in 1 .. Len(s)
    BY <1>1
  <2>2. i + 1 = j + 1
    BY <2>1 DEF NoDuplicates
  <2>3. QED
    BY <1>1, <2>2
<1>5. s[1] \in Members(s)
  BY <1>1 DEF Members
<1>6. QED
  BY <1>2, <1>3, <1>4, <1>5

LEMMA ChainRest ==
  ASSUME NEW s, NEW next, NEW first, NEW end, IsChain(s, next, first, end),
         s # << >>
  PROVE  IsChain(Tail(s), next, next[first], end)
<1>1. /\ s \in Seq(DOMAIN next) /\ end \notin DOMAIN next /\ NoDuplicates(s)
      /\ first = At(s, 1, end)
      /\ \A i \in 1 .. Len(s) : next[s[i]] = At(s, i + 1, end)
  BY DEF IsChain
<1>2. /\ Tail(s) \in Seq(DOMAIN next) /\ Len(Tail(s)) = Len(s) - 1
      /\ \A i \in 1 .. Len(s) - 1 : Tail(s)[i] = s[i + 1]
      /\ Len(s) \in Nat /\ Len(s) > 0
  BY <1>1, TailIs
<1>3. NoDuplicates(Tail(s))
  BY <1>1, TailMembers
<1>4. \A i \in 1 .. Len(s) : At(Tail(s), i, end) = At(s, i + 1, end)
  BY <1>2 DEF At
<1>5. next[first] = At(Tail(s), 1, end)
  <2>1. first = s[1] /\ 1 \in 1 .. Len(s)
    BY <1>1, <1>2 DEF At
  <2>2. next[s[1]] = At(s, 1 + 1, end) /\ At(Tail(s), 1, end) = At(s, 1 + 1, end)
    BY <1>1, <1>4, <2>1
  <2>3. QED
    BY <2>1, <2>2
<1>6. ASSUME NEW i \in 1 .. Len(Tail(s))
      PROVE  next[Tail(s)[i]] = At(Tail(s), i + 1, end)
  <2>1. i + 1 \in 1 .. Len(s) /\ Tail(s)[i] = s[i + 1]
    BY <1>2
  <2>2. QED
    BY <1>1, <1>4, <2>1
<1>7. QED
  BY <1>1, <1>2, <1>3, <1>5, <1>6 DEF IsChain

\* A list does not change with the links of other nodes.
LEMMA ChainKept ==
  ASSUME NEW s, NEW next, NEW first, NEW end, IsChain(s, next, first, end),
         NEW nextN, DOMAIN nextN = DOMAIN next,
         \A x \in Members(s) : nextN[x] = next[x]
  PROVE  IsChain(s, nextN, first, end)
BY DEF IsChain, Members

LEMMA PutIs ==
  ASSUME NEW X, NEW s \in Seq(X), NEW p \in 1 .. Len(s) + 1, NEW x \in X
  PROVE  /\ Put(s, p, x) \in Seq(X) /\ Len(Put(s, p, x)) = Len(s) + 1
         /\ Len(s) \in Nat /\ p \in Nat
         /\ \A i \in 1 .. Len(s) + 1 :
              Put(s, p, x)[i] =
                IF i < p THEN s[i] ELSE IF i = p THEN x ELSE s[i - 1]
         /\ Members(Put(s, p, x)) = Members(s) \cup {x}
<1> DEFINE u == Put(s, p, x)
<1>1. Len(s) \in Nat /\ p \in Nat
  OBVIOUS
<1>2. \A i \in 1 .. Len(s) + 1 :
        u[i] = IF i < p THEN s[i] ELSE IF i = p THEN x ELSE s[i - 1]
  BY DEF Put
<1>3. \A i \in 1 .. Len(s) + 1 : u[i] \in X
  <2> SUFFICES ASSUME NEW i \in 1 .. Len(s) + 1 PROVE u[i] \in X
    OBVIOUS
  <2>1. CASE i < p
    BY <1>1, <1>2, <2>1
  <2>2. CASE i = p
    BY <1>1, <1>2, <2>2
  <2>3. CASE i > p
    <3>1. i - 1 \in 1 .. Len(s)
      BY <1>1, <2>3
    <3>2. QED
      BY <1>1, <1>2, <2>3, <3>1
  <2>4. QED
    BY <1>1, <2>1, <2>2, <2>3
<1>4. u \in Seq(X) /\ Len(u) = Len(s) + 1
  BY <1>1, <1>3 DEF Put
<1>5. ASSUME NEW y \in Members(u) PROVE y \in Members(s) \cup {x}
  <2>1. PICK i \in 1 .. Len(s) + 1 : y = u[i]
    BY <1>4 DEF Members
  <2>2. CASE i < p
    BY <1>1, <1>2, <2>1, <2>2 DEF Members
  <2>3. CASE i = p
    BY <1>1, <1>2, <2>1, <2>3
  <2>4. CASE i > p
    <3>1. i - 1 \in 1 .. Len(s) /\ y = s[i - 1]
      BY <1>1, <1>2, <2>1, <2>4
    <3>2. QED
      BY <3>1 DEF Members
  <2>5. QED
    BY <1>1, <2>2, <2>3, <2>4
<1>6. ASSUME NEW y \in Members(s) PROVE y \in Members(u)
  <2>1. PICK i \in 1 .. Len(s) : y = s[i]
    BY DEF Members
  <2>2. CASE i < p
    BY <1>1, <1>2, <1>4, <2>1, <2>2 DEF Members
  <2>3. CASE i >= p
    <3>1. i + 1 \in 1 .. Len(s) + 1 /\ ~ (i + 1 < p) /\ i + 1 # p /\ (i + 1) - 1 = i
      BY <1>1, <2>3
    <3>2. u[i + 1] = y
      BY <1>2, <2>1, <3>1
    <3>3. QED
      BY <1>4, <3>1, <3>2 DEF Members
  <2>4. QED
    BY <1>1, <2>2, <2>3
<1>7. x \in Members(u)
  BY <1>1, <1>2, <1>4 DEF Members
<1> HIDE DEF u
<1>8. Members(u) = Members(s) \cup {x}
  BY <1>5, <1>6, <1>7
<1>9. QED
  BY <1>1, <1>2, <1>4, <1>8 DEF u

LEMMA PutDistinct ==
  ASSUME NEW X, NEW s \in Seq(X), NEW p \in 1 .. Len(s) + 1, NEW x \in X,
         NoDuplicates(s), x \notin Members(s)
  PROVE  NoDuplicates(Put(s, p, x))
<1> DEFINE u == Put(s, p, x)
<1>1. /\ Len(u) = Len(s) + 1 /\ Len(s) \in Nat /\ p \in Nat
      /\ \A i \in 1 .. Len(s) + 1 :
           u[i] = IF i < p THEN s[i] ELSE IF i = p THEN x ELSE s[i - 1]
  BY PutIs
<1> HIDE DEF u
<1> DEFINE k(i) == IF i < p THEN i ELSE i - 1
<1>2. \A i \in 1 .. Len(s) + 1 : i # p => k(i) \in 1 .. Len(s) /\ u[i] = s[k(i)]
  BY <1>1
<1>3. u[p] = x
  BY <1>1
<1>4. \A i \in 1 .. Len(s) : s[i] # x
  BY DEF Members
<1>5. ASSUME NEW i \in 1 .. Len(s) + 1, NEW j \in 1 .. Len(s) + 1, u[i] = u[j]
      PROVE  i = j
  <2>1. CASE i = p \/ j = p
    BY <1>2, <1>3, <1>4, <1>5, <2>1
  <2>2. CASE i # p /\ j # p
    <3>1. k(i) \in 1 .. Len(s) /\ k(j) \in 1 .. Len(s) /\ s[k(i)] = s[k(j)]
      BY <1>2, <1>5, <2>2
    <3>2. k(i) = k(j)
      BY <3>1 DEF NoDuplicates
    <3>3. QED
      BY <1>1, <2>2, <3>2
  <2>3. QED
    BY <2>1, <2>2
<1>6. QED
  BY <1>1, <1>5 DEF NoDuplicates, u

\* A new node is linked as the p-th of a list.
LEMMA ChainPut ==
  ASSUME NEW s, NEW next, NEW first, NEW end, IsChain(s, next, first, end),
         NEW p \in 1 .. Len(s) + 1, NEW x \in DOMAIN next \ Members(s),
         NEW nextN, DOMAIN nextN = DOMAIN next, nextN[x] = At(s, p, end),
         \A i \in 1 .. Len(s) : i # p - 1 => nextN[s[i]] = next[s[i]],
         p > 1 => nextN[s[p - 1]] = x
  PROVE  IsChain(Put(s, p, x), nextN, IF p = 1 THEN x ELSE first, end)
<1> DEFINE u == Put(s, p, x)
<1>1. /\ s \in Seq(DOMAIN next) /\ end \notin DOMAIN next /\ NoDuplicates(s)
      /\ first = At(s, 1, end)
      /\ \A i \in 1 .. Len(s) : next[s[i]] = At(s, i + 1, end)
  BY DEF IsChain
<1>2. /\ u \in Seq(DOMAIN next) /\ Len(u) = Len(s) + 1
      /\ Len(s) \in Nat /\ p \in Nat
      /\ \A i \in 1 .. Len(s) + 1 :
           u[i] = IF i < p THEN s[i] ELSE IF i = p THEN x ELSE s[i - 1]
  BY <1>1, PutIs
<1>3. NoDuplicates(u)
  BY <1>1, PutDistinct
<1> HIDE DEF u
<1>4. (IF p = 1 THEN x ELSE first) = At(u, 1, end)
  <2>1. 1 \in 1 .. Len(s) + 1
    BY <1>2
  <2>2. CASE p = 1
    BY <1>2, <2>1, <2>2 DEF At
  <2>3. CASE p > 1
    BY <1>1, <1>2, <2>1, <2>3 DEF At
  <2>4. QED
    BY <1>2, <2>2, <2>3
<1>5. ASSUME NEW i \in 1 .. Len(u) PROVE nextN[u[i]] = At(u, i + 1, end)
  <2>0. i \in 1 .. Len(s) + 1 /\ i \in Nat
    BY <1>2
  <2>1. CASE i < p - 1
    <3>1. /\ i \in 1 .. Len(s) /\ i # p - 1 /\ u[i] = s[i]
          /\ i + 1 \in 1 .. Len(s) + 1 /\ i + 1 < p
          /\ i + 1 <= Len(s) /\ i + 1 <= Len(u)
      BY <1>2, <2>0, <2>1
    <3>2. u[i + 1] = s[i + 1]
      BY <1>2, <3>1
    <3>3. nextN[s[i]] = At(s, i + 1, end)
      BY <1>1, <3>1
    <3>4. QED
      BY <3>1, <3>2, <3>3 DEF At
  <2>2. CASE i = p - 1
    <3>1. /\ u[i] = s[p - 1] /\ i + 1 = p /\ p \in 1 .. Len(s) + 1 /\ p > 1
          /\ i + 1 <= Len(u)
      BY <1>2, <2>0, <2>2
    <3>2. u[p] = x
      BY <1>2
    <3>3. QED
      BY <3>1, <3>2 DEF At
  <2>3. CASE i = p
    <3>1. u[i] = x
      BY <1>2, <2>0, <2>3
    <3>2. CASE p <= Len(s)
      <4>1. i + 1 \in 1 .. Len(s) + 1 /\ ~ (i + 1 < p) /\ i + 1 # p
            /\ (i + 1) - 1 = p /\ i + 1 <= Len(u)
        BY <1>2, <2>0, <2>3, <3>2
      <4>2. u[i + 1] = s[p]
        BY <1>2, <4>1
      <4>3. QED
        BY <3>1, <3>2, <4>1, <4>2 DEF At
    <3>3. CASE ~ (p <= Len(s))
      <4>1. ~ (i + 1 <= Len(u))
        BY <1>2, <2>3, <3>3
      <4>2. QED
        BY <3>1, <3>3, <4>1 DEF At
    <3>4. QED
      BY <3>2, <3>3
  <2>4. CASE i > p
    <3>1. /\ i - 1 \in 1 .. Len(s) /\ i - 1 # p - 1 /\ u[i] = s[i - 1]
          /\ (i - 1) + 1 = i
      BY <1>2, <2>0, <2>4
    <3>2. nextN[u[i]] = At(s, i, end)
      BY <1>1, <3>1
    <3>3. CASE i <= Len(s)
      <4>1. i + 1 \in 1 .. Len(s) + 1 /\ ~ (i + 1 < p) /\ i + 1 # p
            /\ (i + 1) - 1 = i /\ i + 1 <= Len(u)
        BY <1>2, <2>0, <2>4, <3>3
      <4>2. u[i + 1] = s[i]
        BY <1>2, <4>1
      <4>3. QED
        BY <3>2, <3>3, <4>1, <4>2 DEF At
    <3>4. CASE ~ (i <= Len(s))
      <4>1. ~ (i + 1 <= Len(u))
        BY <1>2, <2>0, <3>4
      <4>2. QED
        BY <3>2, <3>4, <4>1 DEF At
    <3>5. QED
      BY <3>3, <3>4
  <2>5. QED
    BY <1>2, <2>0, <2>1, <2>2, <2>3, <2>4
<1>6. QED
  BY <1>1, <1>2, <1>3, <1>4, <1>5 DEF IsChain, u
=============================================================================
