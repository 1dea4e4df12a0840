------------------------------ MODULE Syslog ------------------------------
(***************************************************************************)
(* The system log (syssvc/syslog.c) and the system log task                *)
(* (syssvc/logtask.c).  Any context writes records, which replace the      *)
(* oldest ones when the log buffer is full; the log task reads them and    *)
(* prints them on the serial port; logtask_terminate prints the rest when  *)
(* the kernel has ended.  Each function of syslog.c is one step, because   *)
(* it runs with the interrupts locked, except syslog_msk_log.              *)
(*                                                                         *)
(* The records that enter the buffer are numbered.  told, passed and       *)
(* written count the numbers that were told to be lost, that were read,    *)
(* and that entered.                                                       *)
(***************************************************************************)
EXTENDS Naturals, FiniteSets

CONSTANTS
  TCNT_SYSLOG_BUFFER,
  Flusher,     \* the tasks that call logtask_flush
  NULL,
  MaxLog,      \* bound on the numbered records
  MaxCount     \* bound on the argument of logtask_flush

ASSUME SyslogAssumption ==
  /\ TCNT_SYSLOG_BUFFER \in Nat \ {0}
  /\ MaxLog \in Nat \ {0} /\ MaxCount \in Nat

VARIABLES
  buffer, count, head, tail, lost, logmask, lowmask,   \* syslog_...
  task,        \* logtask_main: where it is, lostlog and logbuf
  flush,       \* logtask_flush of each task: where it is, count
  wricnt,      \* whether the serial port has characters to send
  kind,        \* whether each numbered record has a text to print
  written, passed, told,
  unheard      \* the priorities of records that went nowhere

sysVars    == << buffer, count, head, tail, lost, logmask, lowmask >>
ghostVars  == << kind, written, passed, told, unheard >>
syslogVars == << sysVars, task, flush, wricnt, ghostVars >>

Prio == {"LOG_EMERG", "LOG_NOTICE", "LOG_INFO"}

UptoNotice == {"LOG_EMERG", "LOG_NOTICE"}
UptoEmerg  == {"LOG_EMERG"}

Slot == 0 .. TCNT_SYSLOG_BUFFER - 1

SyslogInit ==
  /\ buffer = [i \in Slot |-> 0]
  /\ count = 0 /\ head = 0 /\ tail = 0 /\ lost = 0
  /\ logmask = {} /\ lowmask = Prio
  /\ task = [at |-> "open", lostlog |-> 0, logbuf |-> 0]
  /\ flush = [t \in Flusher |-> [at |-> "out", count |-> 0, upto |-> 0]]
  /\ wricnt = FALSE
  /\ kind = [n \in 1 .. MaxLog |-> NULL]
  /\ written = 0 /\ passed = 0 /\ told = 0 /\ unheard = {}

After(i) == IF i + 1 >= TCNT_SYSLOG_BUFFER THEN 0 ELSE i + 1

\* Mutant: the head stays on the record that is overwritten.
Record_HeadStays(k) ==
  /\ written' = written + 1
  /\ kind' = [kind EXCEPT ![written'] = k]
  /\ buffer' = [buffer EXCEPT ![tail] = written']
  /\ tail' = After(tail)
  /\ IF count < TCNT_SYSLOG_BUFFER
     THEN count' = count + 1 /\ UNCHANGED << head, lost >>
     ELSE lost' = lost + 1 /\ UNCHANGED << head, count >>

Record(k) ==
  /\ written' = written + 1
  /\ kind' = [kind EXCEPT ![written'] = k]
  /\ buffer' = [buffer EXCEPT ![tail] = written']
  /\ tail' = After(tail)
  /\ IF count < TCNT_SYSLOG_BUFFER
     THEN count' = count + 1 /\ UNCHANGED << head, lost >>
     ELSE head' = tail' /\ lost' = lost + 1 /\ UNCHANGED count

\* The record goes to the buffer, to the low level output, to both or to
\* neither.
Written(prio, k) ==
  /\ IF prio \in logmask
     THEN Record(k)
     ELSE UNCHANGED << buffer, count, head, tail, lost, written, kind >>
  /\ unheard' = IF prio \in logmask \union lowmask THEN unheard
                ELSE unheard \union {prio}
  /\ UNCHANGED << logmask, lowmask, passed, told >>

Ended == task.at = "exit"

syslog_wri_log(prio, k) ==
  /\ ~Ended
  /\ written + 1 < MaxLog    \* the log task writes one more
  /\ Written(prio, k)
  /\ UNCHANGED << task, flush, wricnt >>

syslog_rea_log(then) ==
  /\ count > 0
  /\ count' = count - 1
  /\ head' = After(head)
  /\ lost' = 0
  /\ passed' = passed + 1
  /\ task' = [task EXCEPT !.lostlog = @ + lost, !.logbuf = buffer[head],
                          !.at = then]
  /\ UNCHANGED << buffer, tail, logmask, lowmask, kind, written, told, unheard >>

----------------------------------------------------------------------------
(* The log task.  syslog_msk_log assigns its two masks without a lock.     *)

serial_opn_por ==
  /\ task.at = "open"
  /\ task' = [task EXCEPT !.at = "mask"]
  /\ UNCHANGED << sysVars, flush, wricnt, ghostVars >>

\* Mutant: the low level output is narrowed first.
syslog_msk_log_LowFirst ==
  /\ \/ /\ task.at = "mask"
        /\ lowmask' = UptoEmerg /\ UNCHANGED logmask
        /\ task' = [task EXCEPT !.at = "lowmask"]
     \/ /\ task.at = "lowmask"
        /\ logmask' = UptoNotice /\ UNCHANGED lowmask
        /\ task' = [task EXCEPT !.at = "start"]
  /\ UNCHANGED << buffer, count, head, tail, lost, flush, wricnt, ghostVars >>

syslog_msk_log ==
  /\ \/ /\ task.at = "mask"
        /\ logmask' = UptoNotice /\ UNCHANGED lowmask
        /\ task' = [task EXCEPT !.at = "lowmask"]
     \/ /\ task.at = "lowmask"
        /\ lowmask' = UptoEmerg /\ UNCHANGED logmask
        /\ task' = [task EXCEPT !.at = "start"]
  /\ UNCHANGED << buffer, count, head, tail, lost, flush, wricnt, ghostVars >>

logtask_start ==
  /\ task.at = "start"
  /\ task' = [task EXCEPT !.at = "rea"]
  /\ Written("LOG_NOTICE", "comment")
  /\ UNCHANGED << flush, wricnt >>

\* Mutant: what is lost is only told in front of a record.
logtask_read_NoRest ==
  /\ task.at = "rea"
  /\ syslog_rea_log(IF kind[buffer[head]] = "comment" THEN "print" ELSE "rea")
  /\ UNCHANGED << flush, wricnt >>

\* One round of the inner loop up to the output; without a record the task
\* tells what is lost and sleeps, and its next round starts afresh.
logtask_read ==
  /\ task.at = "rea"
  /\ \/ /\ syslog_rea_log(IF kind[buffer[head]] = "comment"
                          THEN "print" ELSE "rea")
        /\ UNCHANGED << flush, wricnt >>
     \/ /\ count = 0
        /\ task.lostlog > 0
        /\ told' = told + task.lostlog
        /\ task' = [task EXCEPT !.lostlog = 0]
        /\ wricnt' = TRUE
        /\ UNCHANGED << sysVars, flush, kind, written, passed, unheard >>

syslog_lostmsg ==
  /\ task.at = "print" /\ task.lostlog > 0
  /\ told' = told + task.lostlog
  /\ task' = [task EXCEPT !.lostlog = 0]
  /\ wricnt' = TRUE
  /\ UNCHANGED << sysVars, flush, kind, written, passed, unheard >>

\* Mutant: the record is printed before the message on the lost ones.
syslog_print_First ==
  /\ task.at = "print"
  /\ task' = [task EXCEPT !.at = "rea", !.logbuf = 0]
  /\ wricnt' = TRUE
  /\ UNCHANGED << sysVars, flush, ghostVars >>

syslog_print ==
  /\ task.at = "print" /\ task.lostlog = 0
  /\ task' = [task EXCEPT !.at = "rea", !.logbuf = 0]
  /\ wricnt' = TRUE
  /\ UNCHANGED << sysVars, flush, ghostVars >>

\* The serial port has sent all its characters.
SerialSent ==
  /\ wricnt /\ wricnt' = FALSE
  /\ UNCHANGED << sysVars, task, flush, ghostVars >>

LogTask ==
  \/ serial_opn_por \/ syslog_msk_log
  \/ logtask_start \/ logtask_read \/ syslog_lostmsg \/ syslog_print

----------------------------------------------------------------------------
(* logtask_flush of task t: it looks at the log, if need be at the serial  *)
(* port, and otherwise sleeps and looks again.                             *)
logtask_flush(t, n) ==
  /\ ~Ended
  /\ flush[t].at = "out"
  /\ flush' = [flush EXCEPT ![t] = [at |-> "log", count |-> n, upto |-> written]]
  /\ UNCHANGED << sysVars, task, wricnt, ghostVars >>

\* Mutant: one record more than asked for may stay.
syslog_ref_log_OneMore(t) ==
  /\ ~Ended
  /\ flush[t].at = "log"
  /\ flush' = [flush EXCEPT ![t].at =
                  CASE count > flush[t].count + 1 -> "sleep"
                    [] count <= flush[t].count + 1 /\ flush[t].count > 0 -> "done"
                    [] count <= flush[t].count + 1 /\ flush[t].count = 0 -> "port"]
  /\ UNCHANGED << sysVars, task, wricnt, ghostVars >>

syslog_ref_log(t) ==
  /\ ~Ended
  /\ flush[t].at = "log"
  /\ flush' = [flush EXCEPT ![t].at =
                  CASE count > flush[t].count -> "sleep"
                    [] count <= flush[t].count /\ flush[t].count > 0 -> "done"
                    [] count <= flush[t].count /\ flush[t].count = 0 -> "port"]
  /\ UNCHANGED << sysVars, task, wricnt, ghostVars >>

\* The task looks again, unless another task ends its sleep by rel_wai.
dly_tsk(t) ==
  /\ ~Ended
  /\ flush[t].at = "sleep"
  /\ \E next \in {"log", "failed"} : flush' = [flush EXCEPT ![t].at = next]
  /\ UNCHANGED << sysVars, task, wricnt, ghostVars >>

\* The call fails while the port is not open.
serial_ref_por(t) ==
  /\ ~Ended
  /\ flush[t].at = "port"
  /\ flush' = [flush EXCEPT ![t].at = CASE task.at = "open" -> "failed"
                                       [] wricnt           -> "sleep"
                                       [] OTHER            -> "done"]
  /\ UNCHANGED << sysVars, task, wricnt, ghostVars >>

FlushReturn(t) ==
  /\ ~Ended
  /\ flush[t].at \in {"done", "failed"}
  /\ flush' = [flush EXCEPT ![t] = [at |-> "out", count |-> 0, upto |-> 0]]
  /\ UNCHANGED << sysVars, task, wricnt, ghostVars >>

----------------------------------------------------------------------------
(* The kernel ends.  What the log task has read but not printed is gone,   *)
(* what it knows to be lost is not told.                                   *)
ext_ker ==
  /\ ~Ended
  /\ task' = [at |-> "exit", lostlog |-> task.lostlog, logbuf |-> task.logbuf]
  /\ UNCHANGED << sysVars, flush, wricnt, ghostVars >>

logtask_terminate ==
  /\ Ended
  /\ count > 0
  /\ count' = count - 1 /\ head' = After(head) /\ lost' = 0
  /\ told' = told + lost /\ passed' = passed + 1
  /\ UNCHANGED << buffer, tail, logmask, lowmask, task, flush, wricnt, kind,
                 written, unheard >>

SyslogNext ==
  \/ \E prio \in Prio, k \in {"comment", "trace"} : syslog_wri_log(prio, k)
  \/ LogTask
  \/ SerialSent
  \/ \E t \in Flusher :
       \/ \E n \in 0 .. MaxCount : logtask_flush(t, n)
       \/ syslog_ref_log(t) \/ serial_ref_por(t) \/ dly_tsk(t)
       \/ FlushReturn(t)
  \/ ext_ker \/ logtask_terminate

SyslogSpec == SyslogInit /\ [][SyslogNext]_syslogVars

\* The log task is scheduled again and again.
SyslogFairSpec == SyslogSpec /\ WF_syslogVars(LogTask)

----------------------------------------------------------------------------
(* Properties.                                                             *)

\* Each variable has its type; the counters of the buffer are in its range.
SyslogTypeOK ==
  /\ buffer \in [Slot -> 0 .. MaxLog]
  /\ count \in 0 .. TCNT_SYSLOG_BUFFER /\ head \in Slot /\ tail \in Slot
  /\ lost \in 0 .. MaxLog
  /\ logmask \in SUBSET Prio /\ lowmask \in SUBSET Prio
  /\ task \in [at : {"open", "mask", "lowmask", "start", "rea", "print", "exit"},
               lostlog : 0 .. MaxLog, logbuf : 0 .. MaxLog]
  /\ flush \in [Flusher -> [at : {"out", "log", "sleep", "port", "done", "failed"},
                            count : 0 .. MaxCount, upto : 0 .. MaxLog]]
  /\ wricnt \in BOOLEAN
  /\ kind \in [1 .. MaxLog -> {NULL, "comment", "trace"}]
  /\ written \in 0 .. MaxLog /\ passed \in 0 .. MaxLog /\ told \in 0 .. MaxLog
  /\ unheard \in SUBSET Prio

\* Every record that entered the buffer is in it, or was read, or is lost and
\* told or on the way to be told: none is forgotten or counted twice,
\* whatever is written while the log task reads (syslog_wri_log,
\* syslog_rea_log, logtask_main, logtask_terminate).
EachAccountedFor == written = passed + told + task.lostlog + lost + count

Position(i) ==
  IF head + i < TCNT_SYSLOG_BUFFER THEN head + i ELSE head + i - TCNT_SYSLOG_BUFFER

\* The buffer holds the newest records, oldest first, wherever its pointers
\* have wrapped around, and the next one goes behind them (syslog_wri_log,
\* syslog_rea_log).
HoldsNewest ==
  /\ tail = Position(count)
  /\ \A i \in 0 .. count - 1 : buffer[Position(i)] = written - count + 1 + i

\* The state of the buffer and of the log task is well formed, nothing is
\* forgotten, and the buffer holds what it should.
LogInv == SyslogTypeOK /\ EachAccountedFor /\ HoldsNewest

\* When a record is printed, all records before it were read or told to be
\* lost, and no other: a reader of the output knows where records are missing
\* (logtask_main).
GapsAreTold ==
  [][task.at = "print" /\ task'.at = "rea" => task.logbuf = passed + told]_syslogVars

\* A record of priority LOG_NOTICE or higher goes to the buffer or to the low
\* level output, also while the log task changes the masks (syslog_msk_log,
\* logtask_main).
NoticeIsHeard == unheard \cap UptoNotice = {}

\* When logtask_flush returns, at most the requested number of the records
\* that were written before its call are still in the log buffer.
FlushWaits ==
  \A t \in Flusher :
    flush[t].at = "done" => flush[t].upto <= written - count + flush[t].count

\* Every record is read or told to be lost in the end, unless the kernel ends
\* before (logtask_main).
AllReported ==
  \A n \in 1 .. MaxLog : written >= n ~> passed + told >= n \/ Ended
=============================================================================
