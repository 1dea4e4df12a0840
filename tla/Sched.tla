------------------------------- MODULE Sched -------------------------------
(***************************************************************************)
(* The ready queue and the task scheduler of kernel/task.c, as operators   *)
(* on one scheduler record                                                 *)
(*                                                                         *)
(*   s.ready_queue    one FIFO of tasks per priority                       *)
(*   s.ready_primap   the priorities whose bit is set in the bitmap        *)
(*   s.p_schedtsk     the highest precedence task, or NULL                 *)
(*                                                                         *)
(* A priority is the kernel's internal one: 0 is the highest.  Each of the *)
(* scheduler's functions returns dspflg exactly on the paths that replace  *)
(* p_schedtsk, and false on the others; so its result is the condition     *)
(* dspflg /\ new.p_schedtsk # old.p_schedtsk, which the callers use.       *)
(***************************************************************************)
EXTENDS Integers, Sequences

CONSTANTS
  Task,        \* the tasks (TCBs)
  NULL,        \* the null TCB pointer
  TNUM_TPRI    \* the number of task priorities

ASSUME NullAssumption == NULL \notin Task
ASSUME TpriAssumption == TNUM_TPRI \in Nat \ {0}

TPri == 0 .. TNUM_TPRI - 1

SchedType == [ready_queue  : [TPri -> Seq(Task)],
              ready_primap : SUBSET TPri,
              p_schedtsk   : Task \cup {NULL}]

----------------------------------------------------------------------------
(***************************************************************************)
(* include/queue.h on sequences.  The header is implicit, the head of the  *)
(* queue is element 1.  QueueDelete is written with a position instead of  *)
(* SequencesExt!Remove (a filter) so that the provers can expand it.       *)
(***************************************************************************)
Members(q) == {q[i] : i \in 1 .. Len(q)}

NoDuplicates(q) == \A i, j \in 1 .. Len(q) : q[i] = q[j] => i = j

Position(q, t) == CHOOSE i \in 1 .. Len(q) : q[i] = t

\* Unlink t from q; q itself when t is not linked there.
QueueDelete(q, t) ==
  IF t \in Members(q)
    THEN [i \in 1 .. Len(q) - 1 |->
            IF i < Position(q, t) THEN q[i] ELSE q[i + 1]]
    ELSE q

\* queue_insert_tpri: before the first entry of a strictly lower priority
\* (a greater number), hence behind the entries of t's own priority.
TpriPosition(q, priority, t) ==
  CHOOSE i \in 1 .. Len(q) + 1 :
    /\ \A j \in 1 .. i - 1 : ~(priority[t] < priority[q[j]])
    /\ i <= Len(q) => priority[t] < priority[q[i]]

QueueInsertTpri(q, priority, t) ==
  LET p == TpriPosition(q, priority, t)
  IN  [i \in 1 .. Len(q) + 1 |->
         IF i < p THEN q[i] ELSE IF i = p THEN t ELSE q[i - 1]]

----------------------------------------------------------------------------
\* The lowest bit of the bitmap; like bitmap_search, only for a nonempty one.
primap_search(map) == CHOOSE p \in map : \A q \in map : p <= q

search_schedtsk(queue, map) == Head(queue[primap_search(map)])

\* Mutant: linked by queue_insert_next, at the head.
make_runnable_Head(s, priority, t) ==
  LET pri == priority[t] IN
  [ready_queue  |-> [s.ready_queue EXCEPT ![pri] = << t >> \o @],
   ready_primap |-> s.ready_primap \cup {pri},
   p_schedtsk   |-> IF s.p_schedtsk = NULL \/ pri <= priority[s.p_schedtsk]
                      THEN t ELSE s.p_schedtsk]

make_runnable(s, priority, t) ==
  LET pri == priority[t] IN
  [ready_queue  |-> [s.ready_queue EXCEPT ![pri] = Append(@, t)],
   ready_primap |-> s.ready_primap \cup {pri},
   p_schedtsk   |-> IF s.p_schedtsk = NULL \/ pri < priority[s.p_schedtsk]
                      THEN t ELSE s.p_schedtsk]

make_non_runnable(s, priority, t) ==
  LET pri   == priority[t]
      queue == [s.ready_queue EXCEPT ![pri] = QueueDelete(@, t)]
      map   == IF queue[pri] = << >> THEN s.ready_primap \ {pri}
                                     ELSE s.ready_primap
  IN  [ready_queue  |-> queue,
       ready_primap |-> map,
       p_schedtsk   |-> IF s.p_schedtsk # t THEN s.p_schedtsk
                        ELSE IF queue[pri] # << >> THEN Head(queue[pri])
                        ELSE IF map = {} THEN NULL
                        ELSE search_schedtsk(queue, map)]

\* Mutant: p_schedtsk is not searched again when the priority stays the same.
change_ready_priority_Same(s, priority, t, newpri) ==
  LET oldpri == priority[t]
      del    == [s.ready_queue EXCEPT ![oldpri] = QueueDelete(@, t)]
      queue  == [del EXCEPT ![newpri] = Append(@, t)]
      map    == (IF del[oldpri] = << >> THEN s.ready_primap \ {oldpri}
                                        ELSE s.ready_primap) \cup {newpri}
  IN  [ready_queue  |-> queue,
       ready_primap |-> map,
       p_schedtsk   |->
         IF s.p_schedtsk = t
           THEN IF newpri > oldpri THEN search_schedtsk(queue, map) ELSE t
           ELSE IF newpri < priority[s.p_schedtsk] THEN t ELSE s.p_schedtsk]

\* change_priority for a runnable task: to the tail of its new priority.
\* priority is the priority of the tasks before the change.
change_ready_priority(s, priority, t, newpri) ==
  LET oldpri == priority[t]
      del    == [s.ready_queue EXCEPT ![oldpri] = QueueDelete(@, t)]
      queue  == [del EXCEPT ![newpri] = Append(@, t)]
      map    == (IF del[oldpri] = << >> THEN s.ready_primap \ {oldpri}
                                        ELSE s.ready_primap) \cup {newpri}
  IN  [ready_queue  |-> queue,
       ready_primap |-> map,
       p_schedtsk   |->
         IF s.p_schedtsk = t
           THEN IF newpri >= oldpri THEN search_schedtsk(queue, map) ELSE t
           ELSE IF newpri < priority[s.p_schedtsk] THEN t ELSE s.p_schedtsk]

\* rotate_ready_queue: only when at least two tasks have the priority.
rotate_ready_queue(s, pri) ==
  LET q     == s.ready_queue[pri]
      entry == Head(q)
      rot   == Append(Tail(q), entry)
  IN  IF Len(q) < 2 THEN s
      ELSE [s EXCEPT !.ready_queue[pri] = rot,
                     !.p_schedtsk = IF @ = entry THEN Head(rot) ELSE @]

----------------------------------------------------------------------------
(***************************************************************************)
(* Consistent(s, priority, R): s is the scheduler record of the set R of   *)
(* runnable tasks.  Each task of R is linked once, in the queue of its own *)
(* priority; the bitmap names the nonempty queues; p_schedtsk is the head  *)
(* of the highest nonempty queue.  The last is what lets the kernel compare*)
(* p_runtsk with p_schedtsk instead of searching.                          *)
(***************************************************************************)
QueuesHold(queue, priority, R) ==
  \A p \in TPri : /\ NoDuplicates(queue[p])
                  /\ Members(queue[p]) = {t \in R : priority[t] = p}

PrimapMatches(queue, map) == map = {p \in TPri : queue[p] # << >>}

SchedtskIsTop(s) ==
  \/ s.ready_primap = {} /\ s.p_schedtsk = NULL
  \/ \E p \in s.ready_primap :
       /\ \A q \in s.ready_primap : p <= q
       /\ s.p_schedtsk = Head(s.ready_queue[p])

Consistent(s, priority, R) ==
  /\ QueuesHold(s.ready_queue, priority, R)
  /\ PrimapMatches(s.ready_queue, s.ready_primap)
  /\ SchedtskIsTop(s)

\* The scheduler record initialize_task starts from.
EmptySched == [ready_queue  |-> [p \in TPri |-> << >>],
               ready_primap |-> {},
               p_schedtsk   |-> NULL]
=============================================================================
