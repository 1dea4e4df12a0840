--------------------------- MODULE SyslogProofs ---------------------------
(***************************************************************************)
(* The system log accounts for every record, keeps the newest ones in      *)
(* order, tells every gap in what it prints, and lets a flush return only  *)
(* when the records it waits for have left the buffer: for every size of   *)
(* the buffer and any number of tasks that flush.                          *)
(***************************************************************************)
EXTENDS Syslog, TLAPS

\* Between syslog_rea_log and the output all records before the one that was
\* read are accounted for by passed, told and lostlog.
PrintInv == task.at = "print" => task.logbuf = passed + told + task.lostlog

\* syslog_msk_log widens the log buffer's mask before it narrows that of the
\* low level output.
MaskInv ==
  /\ UptoNotice \subseteq logmask \union lowmask
  /\ task.at \in {"open", "mask"} => lowmask = Prio
  /\ task.at = "lowmask" => logmask = UptoNotice

\* What a flush has seen of the buffer stays true while it goes on: written -
\* count, the number of records that have left it, never falls.
FlushInv ==
  \A t \in Flusher :
    /\ flush[t].upto <= written
    /\ flush[t].at = "port" => flush[t].count = 0
    /\ flush[t].at \in {"port", "done"} =>
         flush[t].upto <= written - count + flush[t].count

\* The bound leaves room for the record that the log task writes.
RoomInv ==
  task.at \in {"open", "mask", "lowmask", "start"} => written < MaxLog

\* The types of task and of flush[t] (SyslogTypeOK).
TaskRec  == [at : {"open", "mask", "lowmask", "start", "rea", "print", "exit"},
             lostlog : 0 .. MaxLog, logbuf : 0 .. MaxLog]
FlushRec == [at : {"out", "log", "sleep", "port", "done", "failed"},
             count : 0 .. MaxCount, upto : 0 .. MaxLog]

IInv == LogInv /\ PrintInv /\ MaskInv /\ FlushInv /\ RoomInv /\ NoticeIsHeard

USE SyslogAssumption DEF Slot, TaskRec, FlushRec

----------------------------------------------------------------------------
(***************************************************************************)
(* The ring.                                                               *)
(***************************************************************************)
LEMMA PositionIsSlot ==
  ASSUME head \in Slot, NEW i \in 0 .. TCNT_SYSLOG_BUFFER
  PROVE  Position(i) \in Slot
BY DEF Position

LEMMA PositionsDiffer ==
  ASSUME head \in Slot, NEW i \in Slot, NEW j \in Slot, i # j
  PROVE  Position(i) # Position(j)
BY DEF Position

LEMMA AfterPosition ==
  ASSUME head \in Slot, NEW i \in Slot
  PROVE  After(Position(i)) = Position(i + 1)
BY DEF Position, After

----------------------------------------------------------------------------
(***************************************************************************)
(* Arithmetic.                                                             *)
(***************************************************************************)
LEMMA PartIsBounded ==
  \A x, y, z, u, w \in Nat :
    z + u <= w /\ w + 1 <= MaxLog /\ x + y = z + u + 1 => x <= MaxLog
OBVIOUS

LEMMA SumAfterRead ==
  \A p, t, l, o, c, t1, l1 \in Nat :
    c > 0 /\ t1 + l1 = t + l + o =>
      p + t + l + o + c = (p + 1) + t1 + l1 + 0 + (c - 1)
OBVIOUS

LEMMA StaysBehind ==
  \A u, w, c, w1, c1, f \in Nat :
    /\ w - c <= w1 - c1
    /\ u <= w - c + f
    => u <= w1 - c1 + f
OBVIOUS

----------------------------------------------------------------------------
(***************************************************************************)
(* Records enter and leave the ring.                                       *)
(***************************************************************************)
LEMMA RecordKeeps ==
  ASSUME IInv, NEW k \in {"comment", "trace"}, written < MaxLog, Record(k)
  PROVE  /\ buffer' \in [Slot -> 0 .. MaxLog]
         /\ count' \in 0 .. TCNT_SYSLOG_BUFFER /\ head' \in Slot /\ tail' \in Slot
         /\ lost' \in 0 .. MaxLog
         /\ written' = written + 1 /\ written' \in 0 .. MaxLog
         /\ kind' \in [1 .. MaxLog -> {NULL, "comment", "trace"}]
         /\ written - count <= written' - count'
         /\ lost' + count' = lost + count + 1
         /\ HoldsNewest'
<1>a. /\ buffer \in [Slot -> 0 .. MaxLog]
      /\ count \in 0 .. TCNT_SYSLOG_BUFFER /\ head \in Slot /\ tail \in Slot
      /\ lost \in Nat /\ written \in Nat /\ passed \in Nat /\ told \in Nat
      /\ kind \in [1 .. MaxLog -> {NULL, "comment", "trace"}]
  BY DEF IInv, LogInv, SyslogTypeOK
<1>b. task.lostlog \in Nat
  BY DEF IInv, LogInv, SyslogTypeOK
<1>c. EachAccountedFor /\ HoldsNewest
  BY DEF IInv, LogInv
<1>1. /\ written' = written + 1 /\ written' \in 1 .. MaxLog
      /\ buffer' = [buffer EXCEPT ![tail] = written']
      /\ buffer' \in [Slot -> 0 .. MaxLog]
      /\ kind' \in [1 .. MaxLog -> {NULL, "comment", "trace"}]
      /\ tail' = After(tail)
  BY <1>a DEF Record
<1>2. \/ /\ count < TCNT_SYSLOG_BUFFER
         /\ count' = count + 1 /\ head' = head /\ lost' = lost
      \/ /\ count = TCNT_SYSLOG_BUFFER
         /\ count' = count /\ head' = tail' /\ lost' = lost + 1
  BY <1>a DEF Record
<1>t. tail' \in Slot
  <2>1. tail \in Slot /\ tail' = After(tail)
    BY <1>a, <1>1
  <2>2. QED
    BY <2>1 DEF After
<1>3. /\ count' \in 0 .. TCNT_SYSLOG_BUFFER /\ head' \in Slot /\ tail' \in Slot
      /\ lost' \in Nat
  <2>1. count \in 0 .. TCNT_SYSLOG_BUFFER /\ lost \in Nat /\ head \in Slot
    BY <1>a
  <2>2. QED
    BY <2>1, <1>t, <1>2
<1>4. /\ lost' + count' = lost + count + 1
      /\ written - count <= written' - count'
  <2>1. count \in Nat /\ lost \in Nat /\ written \in Nat
    BY <1>a
  <2>2. count' \in Nat /\ lost' \in Nat /\ written' = written + 1
    BY <1>1, <1>3
  <2>3. CASE count' = count + 1 /\ lost' = lost
    BY <2>1, <2>2, <2>3
  <2>4. CASE count' = count /\ lost' = lost + 1
    BY <2>1, <2>2, <2>4
  <2>5. QED
    BY <1>2, <2>3, <2>4
<1>d. lost' \in 0 .. MaxLog
  <2>1. lost + count <= written
    BY <1>a, <1>b, <1>c DEF EachAccountedFor
  <2>2. count' \in Nat /\ lost' \in Nat /\ written + 1 <= MaxLog
    BY <1>1, <1>3, <1>a
  <2>3. count \in Nat /\ lost \in Nat /\ written \in Nat
    BY <1>a
  <2>4. lost' <= MaxLog
    BY <2>1, <2>2, <2>3, <1>4, PartIsBounded
  <2>5. QED
    BY <2>2, <2>4
<1>5. HoldsNewest'
  <2>1. CASE count < TCNT_SYSLOG_BUFFER
    <3>1. /\ count' = count + 1 /\ head' = head
          /\ tail = Position(count) /\ count \in Slot
      BY <2>1, <1>2, <1>a, <1>c DEF HoldsNewest
    <3>2. tail' = Position(count)'
      BY <3>1, <1>1, AfterPosition, <1>a DEF Position
    <3>3. ASSUME NEW i \in 0 .. count' - 1
          PROVE  buffer'[Position(i)'] = written' - count' + 1 + i
      <4>1. Position(i)' = Position(i) /\ i \in Slot
        BY <2>1, <3>1, <1>a DEF Position
      <4>2. CASE i = count
        BY <1>1, <3>1, <4>1, <4>2, <1>a
      <4>3. CASE i # count
        <5>1. i \in 0 .. count - 1
          BY <3>1, <4>3, <1>a
        <5>2. Position(i) # tail
          BY <3>1, <4>1, <4>3, PositionsDiffer, <1>a
        <5>3. buffer'[Position(i)] = buffer[Position(i)]
          BY <5>2, <4>1, PositionIsSlot, <1>1, <1>a
        <5>4. buffer[Position(i)] = written - count + 1 + i
          BY <5>1, <1>c DEF HoldsNewest
        <5>5. QED
          BY <5>3, <5>4, <4>1, <3>1, <1>1, <1>a
      <4>4. QED
        BY <4>2, <4>3
    <3>4. QED
      BY <3>2, <3>3 DEF HoldsNewest
  <2>2. CASE count = TCNT_SYSLOG_BUFFER
    <3>1. /\ count' = count /\ head' = tail' /\ tail = head
          /\ tail' = After(tail)
      BY <2>2, <1>2, <1>1, <1>a, <1>c DEF HoldsNewest, Position
    <3>2. tail' = Position(count)'
      BY <2>2, <3>1, <1>3, <1>a DEF Position
    <3>3. ASSUME NEW i \in 0 .. count' - 1
          PROVE  buffer'[Position(i)'] = written' - count' + 1 + i
      <4>1. i \in Slot /\ Position(i)' = Position(i + 1)
        BY <2>2, <3>1, <1>a DEF Position, After
      <4>2. CASE i = count - 1
        <5>1. Position(i + 1) = tail
          BY <4>2, <3>1, <2>2, <1>a DEF Position
        <5>2. QED
          BY <5>1, <4>1, <4>2, <3>1, <2>2, <1>1, <1>a
      <4>3. CASE i # count - 1
        <5>1. i + 1 \in 1 .. count - 1 /\ i + 1 \in Slot
          BY <2>2, <3>1, <4>3, <1>a
        <5>2. Position(i + 1) # tail /\ Position(i + 1) \in Slot
          BY <5>1, <3>1, <2>2, <1>a DEF Position
        <5>3. buffer'[Position(i + 1)] = buffer[Position(i + 1)]
          BY <5>2, <1>1, <1>a
        <5>4. buffer[Position(i + 1)] = written - count + 1 + (i + 1)
          BY <5>1, <1>c DEF HoldsNewest
        <5>5. QED
          BY <5>3, <5>4, <4>1, <3>1, <1>1, <1>a
      <4>4. QED
        BY <4>2, <4>3
    <3>4. QED
      BY <3>2, <3>3 DEF HoldsNewest
  <2>3. QED
    BY <2>1, <2>2, <1>a
<1>6. QED
  BY <1>1, <1>3, <1>4, <1>5, <1>a, <1>d

\* The oldest record leaves the ring.
LEMMA OldestLeaves ==
  ASSUME IInv, count > 0, count' = count - 1, head' = After(head),
         UNCHANGED << buffer, tail, written >>
  PROVE  /\ count' \in 0 .. TCNT_SYSLOG_BUFFER /\ head' \in Slot
         /\ buffer[head] = written - count + 1
         /\ HoldsNewest'
<1>a. /\ count \in 1 .. TCNT_SYSLOG_BUFFER /\ head \in Slot /\ tail \in Slot
      /\ written \in Nat /\ HoldsNewest
  BY DEF IInv, LogInv, SyslogTypeOK
<1>1. count' \in 0 .. TCNT_SYSLOG_BUFFER /\ head' \in Slot
  BY <1>a DEF After
<1>2. head = Position(0)
  BY <1>a DEF Position
<1>3. buffer[head] = written - count + 1
  BY <1>2, <1>a DEF HoldsNewest
<1>4. ASSUME NEW i \in 0 .. count'
      PROVE  Position(i)' = Position(i + 1)
  BY <1>a DEF Position, After
<1>5. tail' = Position(count)'
  BY <1>4, <1>1, <1>a DEF HoldsNewest
<1>6. ASSUME NEW i \in 0 .. count' - 1
      PROVE  buffer'[Position(i)'] = written' - count' + 1 + i
  <2>1. i + 1 \in 0 .. count - 1
    BY <1>a
  <2>2. buffer[Position(i + 1)] = written - count + 1 + (i + 1)
    BY <2>1, <1>a DEF HoldsNewest
  <2>3. QED
    BY <2>2, <1>4, <1>a
<1>7. QED
  BY <1>1, <1>3, <1>5, <1>6 DEF HoldsNewest

----------------------------------------------------------------------------
(***************************************************************************)
(* The steps.                                                              *)
(***************************************************************************)
\* A step that leaves the buffer, the masks and the log task alone.
LEMMA OthersKeep ==
  ASSUME IInv, UNCHANGED << sysVars, task, ghostVars >>,
         flush' \in [Flusher -> FlushRec],
         wricnt' \in BOOLEAN, FlushInv'
  PROVE  IInv'
BY DEF IInv, LogInv, SyslogTypeOK, EachAccountedFor, HoldsNewest, Position,
       PrintInv, MaskInv, RoomInv, NoticeIsHeard, sysVars, ghostVars

\* A step of the log task that leaves the buffer and the masks alone.
LEMMA LogTaskKeeps ==
  ASSUME IInv, UNCHANGED << sysVars, flush, kind, written, passed, unheard >>,
         task' \in TaskRec,
         wricnt' \in BOOLEAN, told' \in Nat,
         told' + task'.lostlog = told + task.lostlog,
         task'.at = "print" => task'.logbuf = task.logbuf /\ task.at = "print",
         MaskInv', RoomInv'
  PROVE  IInv'
<1>1. EachAccountedFor' /\ told' \in 0 .. MaxLog
  <2>1. /\ written \in 0 .. MaxLog /\ passed \in Nat /\ told \in Nat /\ lost \in Nat
        /\ count \in Nat /\ task.lostlog \in Nat /\ task'.lostlog \in Nat
        /\ written = passed + told + task.lostlog + lost + count
    BY DEF IInv, LogInv, SyslogTypeOK, EachAccountedFor
  <2>2. /\ written' = written /\ passed' = passed /\ lost' = lost /\ count' = count
    BY DEF sysVars
  <2>3. written' = passed' + told' + task'.lostlog + lost' + count'
    BY <2>1, <2>2
  <2>4. told' <= MaxLog
    BY <2>1, <2>2, <2>3
  <2>5. QED
    BY <2>3, <2>4 DEF EachAccountedFor
<1>2. PrintInv'
  <2>1. SUFFICES ASSUME task'.at = "print"
                 PROVE  task'.logbuf = passed' + told' + task'.lostlog
    BY DEF PrintInv
  <2>2. /\ task'.logbuf = passed + told + task.lostlog /\ passed' = passed
        /\ passed \in Nat /\ told \in Nat /\ task.lostlog \in Nat
        /\ task'.lostlog \in Nat
    BY <2>1 DEF IInv, PrintInv, LogInv, SyslogTypeOK
  <2>3. QED
    BY <2>2
<1>3. QED
  BY <1>1, <1>2 DEF IInv, LogInv, SyslogTypeOK, HoldsNewest, Position, FlushInv,
                    NoticeIsHeard, sysVars

\* A record is written while the log task is at a place that stays the same
\* or follows "start".
LEMMA WrittenKeeps ==
  ASSUME IInv, NEW prio \in Prio, NEW k \in {"comment", "trace"},
         written < MaxLog, Written(prio, k), UNCHANGED << flush, wricnt >>,
         task' = task \/ task' = [task EXCEPT !.at = "rea"],
         RoomInv', task.at = "print" => task' = task,
         task'.at \notin {"open", "mask", "lowmask"} \/ task' = task
  PROVE  IInv'
<1>1. MaskInv' /\ NoticeIsHeard'
  BY DEF IInv, MaskInv, NoticeIsHeard, Written, UptoNotice
<1>2. /\ passed' = passed /\ told' = told /\ task'.lostlog = task.lostlog
      /\ task'.logbuf = task.logbuf
      /\ task' \in TaskRec
  BY DEF IInv, LogInv, SyslogTypeOK, Written
<1>3. PrintInv'
  BY <1>2 DEF IInv, LogInv, SyslogTypeOK, PrintInv
<1>4. CASE prio \in logmask
  <2>1. Record(k)
    BY <1>4 DEF Written
  <2> DEFINE Kept ==
    /\ buffer' \in [Slot -> 0 .. MaxLog]
    /\ count' \in 0 .. TCNT_SYSLOG_BUFFER /\ head' \in Slot /\ tail' \in Slot
    /\ lost' \in 0 .. MaxLog
    /\ written' = written + 1 /\ written' \in 0 .. MaxLog
    /\ kind' \in [1 .. MaxLog -> {NULL, "comment", "trace"}]
    /\ written - count <= written' - count'
    /\ lost' + count' = lost + count + 1
    /\ HoldsNewest'
  <2>2. Kept
    BY <2>1, RecordKeeps
  <2>3. SyslogTypeOK'
    BY <2>2, <1>2 DEF IInv, LogInv, SyslogTypeOK, Written
  <2>4. EachAccountedFor'
    <3>1. /\ written \in Nat /\ passed \in Nat /\ told \in Nat /\ lost \in Nat
          /\ count \in Nat /\ task.lostlog \in Nat
          /\ written = passed + told + task.lostlog + lost + count
      BY DEF IInv, LogInv, SyslogTypeOK, EachAccountedFor
    <3>2. count' \in Nat /\ lost' \in Nat /\ written' = written + 1
          /\ lost' + count' = lost + count + 1
      BY <2>2
    <3>3. written' = passed' + told' + task'.lostlog + lost' + count'
      BY <3>1, <3>2, <1>2
    <3>4. QED
      BY <3>3 DEF EachAccountedFor
  <2>5. FlushInv'
    <3>1. SUFFICES ASSUME NEW t \in Flusher
                   PROVE  /\ flush[t].upto <= written'
                          /\ flush[t].at = "port" => flush[t].count = 0
                          /\ flush[t].at \in {"port", "done"} =>
                               flush[t].upto <= written' - count' + flush[t].count
      BY DEF FlushInv
    <3>2. /\ flush[t].upto \in Nat /\ flush[t].count \in Nat
          /\ written \in Nat /\ count \in Nat
      BY DEF IInv, LogInv, SyslogTypeOK
    <3>3. written' \in Nat /\ count' \in Nat /\ written' = written + 1
          /\ written - count <= written' - count'
      BY <2>2
    <3>4. /\ flush[t].upto <= written
          /\ flush[t].at = "port" => flush[t].count = 0
          /\ flush[t].at \in {"port", "done"} =>
               flush[t].upto <= written - count + flush[t].count
      BY DEF IInv, FlushInv
    <3>5. flush[t].upto <= written'
      BY <3>2, <3>3, <3>4
    <3>6. QED
      BY <3>2, <3>3, <3>4, <3>5, StaysBehind
  <2>6. QED
    BY <1>1, <1>3, <2>2, <2>3, <2>4, <2>5 DEF IInv, LogInv
<1>5. CASE prio \notin logmask
  <2>1. UNCHANGED << buffer, count, head, tail, lost, written, kind >>
    BY <1>5 DEF Written
  <2>2. SyslogTypeOK'
    BY <2>1, <1>2 DEF IInv, LogInv, SyslogTypeOK, Written
  <2>3. EachAccountedFor' /\ HoldsNewest'
    BY <2>1, <1>2 DEF IInv, LogInv, EachAccountedFor, HoldsNewest, Position
  <2>4. FlushInv'
    BY <2>1 DEF IInv, FlushInv
  <2>5. QED
    BY <1>1, <1>3, <2>2, <2>3, <2>4 DEF IInv, LogInv
<1>6. QED
  BY <1>4, <1>5

\* The log task or logtask_terminate takes a record; what is newly known to
\* be lost goes to lostlog or is told.
LEMMA ReadKeeps ==
  ASSUME IInv, count > 0, count' = count - 1, head' = After(head), lost' = 0,
         passed' = passed + 1,
         UNCHANGED << buffer, tail, written, kind, logmask, lowmask, unheard,
                      flush, wricnt >>,
         NEW pc \in {"rea", "print", "exit"}, NEW unsaid \in Nat, NEW rec \in 0 .. MaxLog,
         task' = [at |-> pc, lostlog |-> unsaid, logbuf |-> rec],
         pc = "print" => rec = buffer[head],
         told' \in Nat,
         told' + unsaid = told + task.lostlog + lost
  PROVE  IInv'
<1>1. /\ count' \in 0 .. TCNT_SYSLOG_BUFFER /\ head' \in Slot
      /\ buffer[head] = written - count + 1
      /\ HoldsNewest'
  BY OldestLeaves
<1>2. /\ written \in 0 .. MaxLog /\ passed \in Nat /\ told \in Nat /\ lost \in Nat
      /\ count \in Nat /\ task.lostlog \in Nat /\ written' = written
      /\ written = passed + told + task.lostlog + lost + count
  BY DEF IInv, LogInv, SyslogTypeOK, EachAccountedFor
<1>3. written' = passed' + told' + unsaid + lost' + count'
  <2>1. written = (passed + 1) + told' + unsaid + 0 + (count - 1)
    BY <1>2, SumAfterRead
  <2>2. QED
    BY <2>1, <1>2
<1>4. EachAccountedFor' /\ passed' \in 0 .. MaxLog /\ told' \in 0 .. MaxLog
      /\ unsaid \in 0 .. MaxLog
  <2>1. passed' \in Nat /\ count' \in Nat /\ written <= MaxLog
    BY <1>2
  <2>2. passed' <= MaxLog /\ told' <= MaxLog /\ unsaid <= MaxLog
    BY <2>1, <1>2, <1>3
  <2>3. QED
    BY <2>1, <2>2, <1>3 DEF EachAccountedFor
<1>5. SyslogTypeOK'
  <2>1. task' \in TaskRec
    BY <1>4
  <2>2. lost' \in 0 .. MaxLog
    OBVIOUS
  <2>3. QED
    BY <1>1, <1>4, <2>1, <2>2 DEF IInv, LogInv, SyslogTypeOK
<1>6. PrintInv'
  <2>1. buffer[head] = passed' + told' + unsaid
    BY <1>1, <1>2, <1>3
  <2>2. QED
    BY <2>1 DEF PrintInv
<1>7. FlushInv'
  <2>1. SUFFICES ASSUME NEW t \in Flusher
                 PROVE  /\ flush[t].upto <= written'
                        /\ flush[t].at = "port" => flush[t].count = 0
                        /\ flush[t].at \in {"port", "done"} =>
                             flush[t].upto <= written' - count' + flush[t].count
    BY DEF FlushInv
  <2>2. flush[t].upto \in Nat /\ flush[t].count \in Nat
    <3>1. SyslogTypeOK
      BY DEF IInv, LogInv
    <3>2. flush[t] \in FlushRec
      BY <3>1 DEF SyslogTypeOK
    <3>3. QED
      BY <3>2
  <2>3. /\ flush[t].upto <= written
        /\ flush[t].at = "port" => flush[t].count = 0
        /\ flush[t].at \in {"port", "done"} =>
             flush[t].upto <= written - count + flush[t].count
    BY DEF IInv, FlushInv
  <2>4. count' \in Nat /\ written' = written /\ written - count <= written' - count'
    BY <1>2
  <2>5. QED
    BY <2>2, <2>3, <2>4, <1>2, StaysBehind
<1>8. MaskInv' /\ RoomInv' /\ NoticeIsHeard'
  BY DEF IInv, MaskInv, RoomInv, NoticeIsHeard
<1>9. QED
  BY <1>1, <1>4, <1>5, <1>6, <1>7, <1>8 DEF IInv, LogInv

----------------------------------------------------------------------------
(***************************************************************************)
(* Every step of the system keeps the invariant.                           *)
(***************************************************************************)
LEMMA InitHolds == SyslogInit => IInv
<1> SUFFICES ASSUME SyslogInit
             PROVE  IInv
  OBVIOUS
<1>1. SyslogTypeOK
  <2>1. task \in TaskRec
    BY DEF SyslogInit
  <2>2. flush \in [Flusher -> FlushRec]
    BY DEF SyslogInit
  <2>3. /\ buffer \in [Slot -> 0 .. MaxLog]
        /\ kind \in [1 .. MaxLog -> {NULL, "comment", "trace"}]
    BY DEF SyslogInit
  <2>4. /\ logmask \in SUBSET Prio /\ lowmask \in SUBSET Prio
        /\ unheard \in SUBSET Prio
    BY DEF SyslogInit
  <2>5. /\ count \in 0 .. TCNT_SYSLOG_BUFFER /\ head \in Slot /\ tail \in Slot
        /\ lost \in 0 .. MaxLog /\ written \in 0 .. MaxLog
        /\ passed \in 0 .. MaxLog /\ told \in 0 .. MaxLog /\ wricnt \in BOOLEAN
    <3>1. 0 \in 0 .. TCNT_SYSLOG_BUFFER /\ 0 \in Slot /\ 0 \in 0 .. MaxLog
      OBVIOUS
    <3>2. count = 0 /\ head = 0 /\ tail = 0 /\ lost = 0 /\ written = 0 /\ passed = 0
          /\ told = 0 /\ wricnt = FALSE
      BY DEF SyslogInit
    <3>3. QED
      BY <3>1, <3>2
  <2>6. QED
    BY <2>1, <2>2, <2>3, <2>4, <2>5 DEF SyslogTypeOK
<1>2. EachAccountedFor /\ HoldsNewest
  BY DEF SyslogInit, EachAccountedFor, HoldsNewest, Position
<1>3. PrintInv /\ RoomInv /\ FlushInv
  BY DEF SyslogInit, PrintInv, RoomInv, FlushInv
<1>4. MaskInv /\ NoticeIsHeard
  BY DEF SyslogInit, MaskInv, NoticeIsHeard, Prio, UptoNotice
<1>5. QED
  BY <1>1, <1>2, <1>3, <1>4 DEF IInv, LogInv

LEMMA WriteKeeps ==
  ASSUME IInv, NEW prio \in Prio, NEW k \in {"comment", "trace"},
         syslog_wri_log(prio, k)
  PROVE  IInv'
<1>1. written \in Nat /\ written + 1 < MaxLog /\ Written(prio, k)
  BY DEF syslog_wri_log, IInv, LogInv, SyslogTypeOK
<1>2. written' <= written + 1
  BY <1>1 DEF Written, Record
<1>3. written' \in Nat
  BY <1>1 DEF Written, Record
<1>4. RoomInv'
  BY <1>1, <1>2, <1>3 DEF RoomInv
<1>5. task' = task /\ UNCHANGED << flush, wricnt >> /\ written < MaxLog
  BY <1>1 DEF syslog_wri_log
<1>6. QED
  BY <1>1, <1>4, <1>5, WrittenKeeps

LEMMA Said ==
  ASSUME NEW r \in TaskRec
  PROVE  /\ [r EXCEPT !.lostlog = 0] \in TaskRec
         /\ [r EXCEPT !.lostlog = 0].at = r.at
         /\ [r EXCEPT !.lostlog = 0].lostlog = 0
         /\ [r EXCEPT !.lostlog = 0].logbuf = r.logbuf
<1>1. 0 \in 0 .. MaxLog
  OBVIOUS
<1>2. QED
  BY <1>1

LEMMA LogTaskStepKeeps ==
  ASSUME IInv, LogTask
  PROVE  IInv'
<1>a. /\ task \in TaskRec /\ wricnt \in BOOLEAN /\ told \in Nat /\ passed \in Nat
      /\ written \in Nat /\ count \in Nat /\ lost \in Nat /\ head \in Slot
      /\ buffer \in [Slot -> 0 .. MaxLog]
      /\ task.at \in {"open", "mask", "lowmask", "start", "rea", "print", "exit"}
      /\ task.lostlog \in Nat /\ task.logbuf \in 0 .. MaxLog
  BY DEF IInv, LogInv, SyslogTypeOK
<1>b. MaskInv /\ RoomInv /\ PrintInv
  BY DEF IInv
<1>1. CASE serial_opn_por
  <2>1. /\ UNCHANGED << sysVars, flush, wricnt, ghostVars >>
        /\ task.at = "open" /\ task' = [task EXCEPT !.at = "mask"]
    BY <1>1 DEF serial_opn_por
  <2>2. /\ UNCHANGED << kind, written, passed, told, unheard, logmask, lowmask >>
    BY <2>1 DEF sysVars, ghostVars
  <2>3. task' \in TaskRec /\ task'.at = "mask" /\ task'.lostlog = task.lostlog
    BY <2>1, <1>a
  <2>4. MaskInv' /\ RoomInv'
    BY <2>1, <2>2, <2>3, <1>b DEF MaskInv, RoomInv
  <2>5. QED
    BY <2>1, <2>2, <2>3, <2>4, <1>a, LogTaskKeeps
<1>2. CASE syslog_msk_log
  <2>1. /\ UNCHANGED << buffer, count, head, tail, lost, flush, wricnt, kind, written,
                       passed, told, unheard >>
        /\ logmask' \in SUBSET Prio /\ lowmask' \in SUBSET Prio
    BY <1>2 DEF syslog_msk_log, ghostVars, UptoNotice, UptoEmerg, Prio, IInv, LogInv,
                SyslogTypeOK
  <2>2. /\ task'.at \in {"lowmask", "start"} /\ task.at \in {"mask", "lowmask"}
        /\ task' \in TaskRec /\ task'.lostlog = task.lostlog
    BY <1>2, <1>a DEF syslog_msk_log
  <2>3. MaskInv'
    BY <1>2, <1>a, <1>b DEF syslog_msk_log, MaskInv, UptoNotice, UptoEmerg, Prio
  <2>4. PrintInv' /\ RoomInv'
    BY <2>1, <2>2, <1>b DEF PrintInv, RoomInv
  <2>5. SyslogTypeOK'
    BY <2>1, <2>2 DEF IInv, LogInv, SyslogTypeOK
  <2>6. EachAccountedFor' /\ HoldsNewest' /\ FlushInv' /\ NoticeIsHeard'
    BY <2>1, <2>2 DEF IInv, LogInv, EachAccountedFor, HoldsNewest, Position, FlushInv,
                      NoticeIsHeard
  <2>7. QED
    BY <2>3, <2>4, <2>5, <2>6 DEF IInv, LogInv
<1>3. CASE logtask_start
  <2>1. written < MaxLog
    BY <1>3, <1>b DEF logtask_start, RoomInv
  <2>2. /\ task' = [task EXCEPT !.at = "rea"] /\ task.at = "start"
        /\ Written("LOG_NOTICE", "comment") /\ UNCHANGED << flush, wricnt >>
    BY <1>3 DEF logtask_start
  <2>3. task'.at = "rea"
    BY <2>2, <1>a
  <2>4. RoomInv'
    BY <2>3 DEF RoomInv
  <2>5. "LOG_NOTICE" \in Prio
    BY DEF Prio
  <2>6. QED
    BY <2>1, <2>2, <2>3, <2>4, <2>5, WrittenKeeps
<1>4. CASE logtask_read
  <2>1. CASE count > 0
    <3>1. PICK pc \in {"rea", "print"} : syslog_rea_log(pc) /\ UNCHANGED << flush, wricnt >>
      BY <1>4, <2>1 DEF logtask_read
    <3>2. head \in Slot /\ buffer[head] \in 0 .. MaxLog /\ lost \in Nat
          /\ task.lostlog \in Nat
      BY <1>a
    <3>3. task' = [at |-> pc, lostlog |-> task.lostlog + lost, logbuf |-> buffer[head]]
      BY <3>1, <1>a DEF syslog_rea_log
    <3>4. told' = told /\ told \in Nat
      BY <3>1, <1>a DEF syslog_rea_log
    <3>5. /\ task.lostlog + lost \in Nat
          /\ told' + (task.lostlog + lost) = told + task.lostlog + lost
      BY <3>2, <3>4
    <3>6. QED
      BY <2>1, <3>1, <3>2, <3>3, <3>4, <3>5, ReadKeeps DEF syslog_rea_log
  <2>2. CASE count = 0
    <3>1. /\ UNCHANGED << sysVars, flush, kind, written, passed, unheard >>
          /\ told' = told + task.lostlog /\ wricnt' = TRUE
          /\ task' = [task EXCEPT !.lostlog = 0] /\ task.at = "rea"
      BY <1>4, <2>2 DEF logtask_read, syslog_rea_log
    <3>2. task' \in TaskRec /\ task'.at = "rea" /\ task'.lostlog = 0
      BY <3>1, <1>a, Said
    <3>3. told' \in Nat /\ told' + task'.lostlog = told + task.lostlog
      BY <3>1, <3>2, <1>a
    <3>4. MaskInv' /\ RoomInv'
      BY <3>1, <3>2, <1>b DEF MaskInv, RoomInv, sysVars
    <3>5. QED
      BY <3>1, <3>2, <3>3, <3>4, LogTaskKeeps
  <2>3. QED
    BY <2>1, <2>2, <1>a
<1>5. CASE syslog_lostmsg
  <2>1. /\ UNCHANGED << sysVars, flush, kind, written, passed, unheard >>
        /\ told' = told + task.lostlog /\ wricnt' = TRUE
        /\ task' = [task EXCEPT !.lostlog = 0] /\ task.at = "print"
    BY <1>5 DEF syslog_lostmsg
  <2>2. /\ task' \in TaskRec /\ task'.at = "print" /\ task'.lostlog = 0
        /\ task'.logbuf = task.logbuf
    BY <2>1, <1>a, Said
  <2>3. told' \in Nat /\ told' + task'.lostlog = told + task.lostlog
    BY <2>1, <2>2, <1>a
  <2>4. MaskInv' /\ RoomInv'
    BY <2>1, <2>2, <1>b DEF MaskInv, RoomInv, sysVars
  <2>5. QED
    BY <2>1, <2>2, <2>3, <2>4, LogTaskKeeps
<1>6. CASE syslog_print
  <2>1. /\ UNCHANGED << sysVars, flush, ghostVars >> /\ wricnt' = TRUE
        /\ task.lostlog = 0 /\ task.at = "print"
        /\ task' = [task EXCEPT !.at = "rea", !.logbuf = 0]
    BY <1>6 DEF syslog_print
  <2>2. UNCHANGED << kind, written, passed, told, unheard, logmask, lowmask >>
    BY <2>1 DEF sysVars, ghostVars
  <2>3. task' \in TaskRec /\ task'.at = "rea" /\ task'.lostlog = task.lostlog
    BY <2>1, <1>a
  <2>4. MaskInv' /\ RoomInv'
    BY <2>1, <2>2, <2>3, <1>b DEF MaskInv, RoomInv
  <2>5. QED
    BY <2>1, <2>2, <2>3, <2>4, <1>a, LogTaskKeeps
<1>7. QED
  BY <1>1, <1>2, <1>3, <1>4, <1>5, <1>6 DEF LogTask

LEMMA FlusherKeeps ==
  ASSUME IInv, NEW t \in Flusher,
         \/ \E n \in 0 .. MaxCount : logtask_flush(t, n)
         \/ syslog_ref_log(t) \/ serial_ref_por(t) \/ dly_tsk(t)
         \/ FlushReturn(t)
  PROVE  IInv'
<1> DEFINE Sound(f) == /\ f.upto <= written
                       /\ f.at = "port" => f.count = 0
                       /\ f.at \in {"port", "done"} =>
                            f.upto <= written - count + f.count
<1>1. /\ flush \in [Flusher -> FlushRec] /\ wricnt \in BOOLEAN
      /\ written \in 0 .. MaxLog /\ count \in Nat
      /\ \A u \in Flusher : Sound(flush[u])
  BY DEF IInv, LogInv, SyslogTypeOK, FlushInv
<1>2. UNCHANGED << sysVars, task, wricnt, ghostVars >>
  BY DEF logtask_flush, syslog_ref_log, serial_ref_por, dly_tsk, FlushReturn
<1>3. SUFFICES ASSUME NEW f \in FlushRec, Sound(f), flush' = [flush EXCEPT ![t] = f]
               PROVE  IInv'
  <2>1. ASSUME NEW n \in 0 .. MaxCount, logtask_flush(t, n)
        PROVE  \E f \in FlushRec : Sound(f) /\ flush' = [flush EXCEPT ![t] = f]
    <3> DEFINE f == [at |-> "log", count |-> n, upto |-> written]
    <3>1. f \in FlushRec /\ f.at = "log" /\ f.upto = written
      BY <1>1
    <3>2. flush' = [flush EXCEPT ![t] = f]
      BY <2>1 DEF logtask_flush
    <3>3. Sound(f)
      BY <3>1, <1>1
    <3>4. QED
      BY <3>1, <3>2, <3>3
  <2>2. ASSUME syslog_ref_log(t)
        PROVE  \E f \in FlushRec : Sound(f) /\ flush' = [flush EXCEPT ![t] = f]
    <3>0. /\ flush[t] \in FlushRec /\ flush[t].upto \in Nat /\ flush[t].count \in Nat
          /\ written \in Nat /\ count \in Nat
      BY <1>1
    <3> DEFINE at == CASE count > flush[t].count -> "sleep"
                       [] count <= flush[t].count /\ flush[t].count > 0 -> "done"
                       [] count <= flush[t].count /\ flush[t].count = 0 -> "port"
    <3>1. /\ at \in {"sleep", "done", "port"}
          /\ flush' = [flush EXCEPT ![t].at = at]
          /\ at = "port" => flush[t].count = 0
          /\ at \in {"port", "done"} => count <= flush[t].count
      <4>1. flush' = [flush EXCEPT ![t].at = at]
        BY <2>2 DEF syslog_ref_log
      <4>2. CASE count > flush[t].count
        BY <3>0, <4>1, <4>2
      <4>3. CASE count <= flush[t].count /\ flush[t].count > 0
        BY <3>0, <4>1, <4>3
      <4>4. CASE count <= flush[t].count /\ flush[t].count = 0
        BY <3>0, <4>1, <4>4
      <4>5. QED
        BY <3>0, <4>2, <4>3, <4>4
    <3> HIDE DEF at
    <3> DEFINE f == [flush[t] EXCEPT !.at = at]
    <3>2. f \in FlushRec /\ flush' = [flush EXCEPT ![t] = f]
      BY <1>1, <3>0, <3>1
    <3>3. f.at = at /\ f.count = flush[t].count /\ f.upto = flush[t].upto
      BY <3>0
    <3>4. f.upto <= written
      BY <1>1, <3>3
    <3>5. f.at \in {"port", "done"} => f.upto <= written - count + f.count
      BY <3>0, <3>1, <3>3, <3>4
    <3>6. QED
      BY <3>1, <3>2, <3>3, <3>4, <3>5
  <2>3. ASSUME serial_ref_por(t)
        PROVE  \E f \in FlushRec : Sound(f) /\ flush' = [flush EXCEPT ![t] = f]
    BY <1>1, <2>3 DEF serial_ref_por
  <2>4. ASSUME dly_tsk(t)
        PROVE  \E f \in FlushRec : Sound(f) /\ flush' = [flush EXCEPT ![t] = f]
    BY <1>1, <2>4 DEF dly_tsk
  <2>5. ASSUME FlushReturn(t)
        PROVE  \E f \in FlushRec : Sound(f) /\ flush' = [flush EXCEPT ![t] = f]
    <3> DEFINE f == [at |-> "out", count |-> 0, upto |-> 0]
    <3>1. f \in FlushRec /\ f.at = "out" /\ f.upto = 0
      OBVIOUS
    <3>2. flush' = [flush EXCEPT ![t] = f]
      BY <2>5 DEF FlushReturn
    <3>3. Sound(f)
      BY <3>1, <1>1
    <3>4. QED
      BY <3>1, <3>2, <3>3
  <2>6. QED
    BY <2>1, <2>2, <2>3, <2>4, <2>5
<1>4. flush' \in [Flusher -> FlushRec]
  BY <1>1, <1>3
<1>5. FlushInv'
  BY <1>1, <1>2, <1>3 DEF FlushInv, sysVars, ghostVars
<1>6. QED
  BY <1>1, <1>2, <1>4, <1>5, OthersKeep

LEMMA EndKeeps ==
  ASSUME IInv, ext_ker \/ logtask_terminate \/ SerialSent
  PROVE  IInv'
<1> USE DEF IInv, LogInv, SyslogTypeOK
<1>1. CASE ext_ker
  BY <1>1 DEF ext_ker, sysVars, ghostVars, EachAccountedFor, HoldsNewest, Position,
              PrintInv, MaskInv, FlushInv, RoomInv, NoticeIsHeard
<1>2. CASE logtask_terminate
  <2>1. /\ task' = [at |-> "exit", lostlog |-> task.lostlog, logbuf |-> task.logbuf]
        /\ told' = told + lost
        /\ told \in Nat /\ lost \in Nat /\ task.lostlog \in Nat
        /\ task.logbuf \in 0 .. MaxLog
    BY <1>2 DEF logtask_terminate, Ended
  <2>2. told' \in Nat /\ told' + task.lostlog = told + task.lostlog + lost
    BY <2>1
  <2>3. QED
    BY <1>2, <2>1, <2>2, ReadKeeps DEF logtask_terminate
<1>3. CASE SerialSent
  BY <1>3, OthersKeep DEF SerialSent, FlushInv, sysVars, ghostVars
<1>4. QED
  BY <1>1, <1>2, <1>3

LEMMA StepHolds == IInv /\ [SyslogNext]_syslogVars => IInv'
<1> SUFFICES ASSUME IInv, [SyslogNext]_syslogVars
             PROVE  IInv'
  OBVIOUS
<1>1. CASE SyslogNext
  BY <1>1, WriteKeeps, LogTaskStepKeeps, FlusherKeeps, EndKeeps DEF SyslogNext
<1>2. CASE UNCHANGED syslogVars
  BY <1>2 DEF syslogVars, sysVars, ghostVars, IInv, LogInv, SyslogTypeOK,
              EachAccountedFor, HoldsNewest, Position, PrintInv, MaskInv, FlushInv,
              RoomInv, NoticeIsHeard
<1>3. QED
  BY <1>1, <1>2

LEMMA Inductive == SyslogSpec => []IInv
BY InitHolds, StepHolds, PTL DEF SyslogSpec

----------------------------------------------------------------------------
(***************************************************************************)
(* The theorems.                                                           *)
(***************************************************************************)
\* Every record that entered the log buffer is in it, or was read, or is
\* lost and counted as lost, and the buffer holds the newest ones in order,
\* for every size of the buffer (syslog_wri_log, syslog_rea_log).
THEOREM LogCorrect == SyslogSpec => []LogInv
<1>1. IInv => LogInv
  BY DEF IInv
<1>2. QED
  BY <1>1, Inductive, PTL

\* A record of priority LOG_NOTICE or higher never goes nowhere, also between
\* the two assignments of syslog_msk_log.
THEOREM NoticeHeard == SyslogSpec => []NoticeIsHeard
<1>1. IInv => NoticeIsHeard
  BY DEF IInv
<1>2. QED
  BY <1>1, Inductive, PTL

\* When logtask_flush returns, at most the requested number of the records
\* written before its call are still in the buffer, for any number of tasks
\* that flush.
THEOREM FlushCorrect == SyslogSpec => []FlushWaits
<1>1. IInv => FlushWaits
  BY DEF IInv, FlushInv, FlushWaits
<1>2. QED
  BY <1>1, Inductive, PTL

\* When the log task prints a record it has told of every record before it
\* that was lost (logtask_main).
THEOREM GapsTold == SyslogSpec => GapsAreTold
<1>1. IInv /\ [SyslogNext]_syslogVars =>
        [task.at = "print" /\ task'.at = "rea" => task.logbuf = passed + told]_syslogVars
  <2> SUFFICES ASSUME IInv, SyslogNext, task.at = "print", task'.at = "rea"
               PROVE  task.logbuf = passed + told
    OBVIOUS
  <2>1. task' # task /\ task.at # "exit"
    OBVIOUS
  <2>2. LogTask \/ ext_ker
    BY <2>1 DEF SyslogNext, syslog_wri_log, SerialSent, logtask_flush, syslog_ref_log,
                serial_ref_por, dly_tsk, FlushReturn,
                logtask_terminate
  <2>3. ~ext_ker
    BY DEF ext_ker
  <2>4. ~syslog_lostmsg
    BY DEF syslog_lostmsg, IInv, LogInv, SyslogTypeOK
  <2>5. syslog_print
    BY <2>2, <2>3, <2>4 DEF LogTask, serial_opn_por, syslog_msk_log, logtask_start,
                            logtask_read
  <2>6. QED
    BY <2>5 DEF syslog_print, IInv, PrintInv, LogInv, SyslogTypeOK
<1>2. QED
  BY <1>1, Inductive, PTL DEF SyslogSpec, GapsAreTold
=============================================================================
