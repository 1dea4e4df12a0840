------------------------------ MODULE Serial ------------------------------
(***************************************************************************)
(* The serial interface driver (syssvc/serial.c) of one port, between the  *)
(* tasks that write and read, the interrupts of the serial device          *)
(* (target usart.c) and the line.                                          *)
(*                                                                         *)
(* The driver owns no lock.  A task owns a direction by a unit of its      *)
(* semaphore, which it keeps from call to call of serial_wri_chr or        *)
(* serial_rea_chr and does not give back when the buffer is full (empty):  *)
(* then the unit lies in the buffer, and the interrupt that makes room     *)
(* (brings a character) gives it back.  The buffers themselves are only    *)
(* changed with the CPU locked or from the interrupts.                     *)
(*                                                                         *)
(* The tasks interleave at their service calls as they may under any       *)
(* priorities; a wake-up picks any waiting task for the same reason.  An   *)
(* interrupt that is not masked comes before the next step of a task, and  *)
(* the device finishes a character at any time, a CPU lock or not.         *)
(***************************************************************************)
EXTENDS Naturals, Sequences

CONSTANTS
  Task,
  NULL,
  rcv_bufsz, snd_bufsz,    \* SPINIB
  Text,                    \* what the tasks write, sequences of characters
  MaxLen,                  \* the most characters a task asks for
  Line,                    \* the characters the line brings
  Ioctl,                   \* the values serial_ctl_por is called with
  Released,                \* the waits that another task ends by rel_wai
  Closes,                  \* the port is closed
  ClsRaces,                \* it may be while a task is amid its call
  Exits                    \* ext_ker is called

UINT == 256    \* where the counts wrap around: larger than the buffers

\* The characters that the buffers may hold.
Chars == Line \union {"CR"} \union UNION {{s[i] : i \in DOMAIN s} : s \in Text}

IoctlFlag == {"ECHO", "CRLF", "FCSND", "FCRCV", "FCANY"}

ASSUME SerialAssumption ==
  /\ rcv_bufsz \in 1 .. UINT - 1
  /\ snd_bufsz \in 1 .. UINT - 1
  /\ Text \subseteq Seq(Chars) \ {<< >>}
  /\ MaxLen \in Nat
  /\ Ioctl \subseteq SUBSET IoctlFlag
  /\ Closes \in BOOLEAN /\ ClsRaces \in BOOLEAN /\ Exits \in BOOLEAN
  /\ Released \subseteq {"wri_blk", "ech_blk", "rea_blk"}

VARIABLES
  spcb,        \* the flags of SPCB, rcv_fc_chr and ioctl
  rcv, snd,    \* the buffers of SPCB: contents, pointers and count
  semcnt,      \* the semaphores "rcv" and "snd"
  at,          \* where each task is
  text,        \* what a task still has to write; the character to echo
  left,        \* how many characters a task still has to read
  local,       \* buffer_empty during an echo; the CR of an LF is written
  ended,       \* ext_ker was called
  txfull,      \* the transmit register is occupied
  cbr,         \* the callbacks SIO_RDY_SND, SIO_RDY_RCV that are enabled
  taken, sent  \* of Channel: the last character from snd, the parity of
               \* those written

taskVars   == << at, text, left, local >>
bufVars    == << rcv, snd, taken, sent >>
deviceVars == << txfull, cbr >>
serialVars == << spcb, semcnt, ended, taskVars, bufVars, deviceVars >>

FlowChar == {"START", "STOP"}

BUFCNT_STOP(bufsz)  == (bufsz * 3) \div 4
BUFCNT_START(bufsz) == bufsz \div 2

NoPort ==
  [openflag |-> FALSE, errorflag |-> FALSE, ioctl |-> {}, rcv_fc_chr |-> NULL,
   rcv_stopped |-> FALSE, snd_stopped |-> FALSE]

Empty(bufsz) ==
  [buffer |-> [i \in 0 .. bufsz - 1 |-> NULL],
   read_ptr |-> 0, write_ptr |-> 0, count |-> 0]

Fresh == [empty |-> FALSE, cr |-> FALSE]

INITIAL_SEM == [rcv |-> 0, snd |-> 1]    \* serial.cfg; the maximum is 1

SerialInit ==
  /\ spcb = NoPort
  /\ rcv = Empty(rcv_bufsz) /\ snd = Empty(snd_bufsz)
  /\ semcnt = INITIAL_SEM
  /\ at = [t \in Task |-> "out"]
  /\ text = [t \in Task |-> << >>]
  /\ left = [t \in Task |-> 0]
  /\ local = [t \in Task |-> Fresh]
  /\ ended = FALSE
  /\ txfull = FALSE /\ cbr = {}
  /\ taken = NULL /\ sent = 0

----------------------------------------------------------------------------
(* The device.  A callback is a level: it is pending as long as it is      *)
(* enabled and the register is free.                                       *)
SndPending == "SND" \in cbr /\ ~txfull

TaskRuns == ~ended /\ ~SndPending

Transmitted ==
  /\ txfull /\ txfull' = FALSE
  /\ UNCHANGED << spcb, semcnt, ended, taskVars, bufVars, cbr >>

\* The register during a section under the CPU lock, which is one step: the
\* transmitter may finish inside it.
Registers == {txfull, FALSE}

\* A character goes to the register; if it is occupied the callback is
\* enabled.
SndChr(reg) ==
  IF reg THEN txfull' = reg /\ cbr' = cbr \union {"SND"}
         ELSE txfull' = TRUE /\ UNCHANGED cbr

SndNone(reg) == txfull' = reg /\ UNCHANGED cbr

----------------------------------------------------------------------------
(* The ring buffers.                                                       *)
INC_PTR(ptr, bufsz) == IF ptr + 1 = bufsz THEN 0 ELSE ptr + 1

Put(ring, bufsz, c) ==
  [ring EXCEPT !.buffer[ring.write_ptr] = c,
               !.write_ptr = INC_PTR(@, bufsz),
               !.count = (@ + 1) % UINT]

\* A cell that was read is never read again: it is cleared.
First(ring) == ring.buffer[ring.read_ptr]

Take(ring, bufsz) ==
  [ring EXCEPT !.buffer[ring.read_ptr] = NULL,
               !.read_ptr = INC_PTR(@, bufsz),
               !.count = (@ + UINT - 1) % UINT]

Full == snd.count = snd_bufsz

\* The next character of the send buffer goes to the register, and a unit
\* back to the semaphore if the buffer was full.
SentFirst ==
  /\ snd' = Take(snd, snd_bufsz)
  /\ taken' = First(snd)
  /\ UNCHANGED << rcv, sent >>

----------------------------------------------------------------------------
(* The semaphores.  blocked[d] are the places where a task waits for the   *)
(* unit of direction d, and beyond[p] is the place behind it.              *)
Blocked(d) ==
  IF d = "snd" THEN {"wri_blk", "ech_blk"} ELSE {"rea_blk"}

Beyond(p) == CASE p \in {"wri_wai", "wri_blk"} -> "wri_chr"
               [] p \in {"ech_wai", "ech_blk"} -> "ech_chr"
               [] p \in {"rea_wai", "rea_blk"} -> "rea_chr"

Waiting(d) == {t \in Task : at[t] \in Blocked(d)}

\* One unit is given back while the tasks are at pos: at', semcnt', and the
\* error flag raised where the semaphore has its unit already.
Signal(d, pos, port) ==
  \/ \E t \in Waiting(d) :
       /\ at' = [pos EXCEPT ![t] = Beyond(at[t])]
       /\ spcb' = port /\ UNCHANGED semcnt
  \/ /\ Waiting(d) = {}
     /\ at' = pos
     /\ spcb' = [port EXCEPT !.errorflag = @ \/ semcnt[d] = 1]
     /\ semcnt' = [semcnt EXCEPT ![d] = 1]

\* Mutant: a unit is given back with every character.
SignalIf_Always(cond, d, pos, port) == Signal(d, pos, port)

SignalIf(cond, d, pos, port) ==
  IF cond THEN Signal(d, pos, port)
          ELSE at' = pos /\ spcb' = port /\ UNCHANGED semcnt

Direction(p) == IF p = "rea_wai" THEN "rcv" ELSE "snd"

wai_sem(t) ==
  LET d == Direction(at[t])
      blk == CASE at[t] = "wri_wai" -> "wri_blk"
               [] at[t] = "ech_wai" -> "ech_blk"
               [] at[t] = "rea_wai" -> "rea_blk"
  IN  /\ at[t] \in {"wri_wai", "ech_wai", "rea_wai"}
      /\ TaskRuns
      /\ semcnt' = [semcnt EXCEPT ![d] = 0]
      /\ at' = [at EXCEPT ![t] = IF semcnt[d] = 1 THEN Beyond(@) ELSE blk]
      /\ UNCHANGED << spcb, ended, text, left, local, bufVars, deviceVars >>

\* The wait fails with E_RLWAI: the call returns what it did so far.
rel_wai(t) ==
  /\ TaskRuns
  /\ at[t] \in Released
  /\ at' = [at EXCEPT ![t] = "out"]
  /\ text' = [text EXCEPT ![t] = << >>]
  /\ left' = [left EXCEPT ![t] = 0]
  /\ local' = [local EXCEPT ![t] = Fresh]
  /\ UNCHANGED << spcb, semcnt, ended, bufVars, deviceVars >>

----------------------------------------------------------------------------
(* Writing.  serial_wri_chr puts a CR before an LF; between the two it     *)
(* waits for a unit as between two characters of the text.                 *)
NeedsCr(t) ==
  /\ Head(text[t]) = "LF" /\ "CRLF" \in spcb.ioctl /\ ~local[t].cr

NextChar(t) == IF NeedsCr(t) THEN "CR" ELSE Head(text[t])

\* Mutant: the unit is given back whether the buffer is empty or not.
Reading_AlwaysSig(n, empty) ==
  CASE n > 0 /\ empty  -> "rea_wai"
    [] n > 0 /\ ~empty -> "rea_chr"
    [] n = 0            -> "rea_sig"

\* Where serial_rea_dat goes on behind a character, n of them to come.
Reading(n, empty) ==
  CASE n > 0 /\ empty  -> "rea_wai"
    [] n > 0 /\ ~empty -> "rea_chr"
    [] n = 0 /\ empty  -> "out"
    [] n = 0 /\ ~empty -> "rea_sig"

\* Mutant: buffer_full is forgotten at the end.
Written_AlwaysSig(t, more, full) ==
  CASE more /\ ~full -> at[t]
    [] more /\ full  -> IF at[t] = "wri_chr" THEN "wri_wai" ELSE "ech_wai"
    [] ~more -> IF at[t] = "wri_chr" THEN "wri_sig" ELSE "ech_sig"

Written(t, more, full) ==
  CASE more /\ ~full -> at[t]
    [] more /\ full  -> IF at[t] = "wri_chr" THEN "wri_wai" ELSE "ech_wai"
    [] ~more /\ at[t] = "wri_chr" -> IF full THEN "out" ELSE "wri_sig"
    [] ~more /\ at[t] = "ech_chr" ->
         IF full THEN Reading(left[t], local[t].empty) ELSE "ech_sig"

\* Mutant: the register is tried although there are characters in the buffer.
SendOrStore_Overtakes(reg, c) ==
  IF ~spcb.snd_stopped /\ ~reg
  THEN SndChr(reg) /\ taken' = c /\ UNCHANGED snd
  ELSE /\ IF ~spcb.snd_stopped THEN SndChr(reg) ELSE SndNone(reg)
       /\ snd' = Put(snd, snd_bufsz, c) /\ UNCHANGED taken

SendOrStore(reg, c) ==
  LET tries == snd.count = 0 /\ ~spcb.snd_stopped IN
  /\ IF tries THEN SndChr(reg) ELSE SndNone(reg)
  /\ IF tries /\ ~reg
     THEN taken' = c /\ UNCHANGED snd
     ELSE snd' = Put(snd, snd_bufsz, c) /\ UNCHANGED taken

serial_wri_chr(t) ==
  LET cr   == NeedsCr(t)
      more == cr \/ Tail(text[t]) # << >>
      next == Written(t, more, snd'.count = snd_bufsz)
  IN  /\ TaskRuns
      /\ at[t] \in {"wri_chr", "ech_chr"}
      /\ \E reg \in Registers : SendOrStore(reg, NextChar(t))
      /\ sent' = 1 - sent
      /\ at' = [at EXCEPT ![t] = next]
      /\ text' = [text EXCEPT ![t] = IF cr THEN @ ELSE Tail(@)]
      /\ local' = [local EXCEPT ![t] =
                     IF cr THEN [@ EXCEPT !.cr = TRUE]
                     ELSE IF next = "ech_sig" THEN [@ EXCEPT !.cr = FALSE]
                     ELSE Fresh]
      /\ UNCHANGED << spcb, semcnt, ended, left, rcv >>

Usable == spcb.openflag /\ ~spcb.errorflag

serial_wri_dat(t, s) ==
  /\ TaskRuns /\ at[t] = "out" /\ Usable
  /\ at' = [at EXCEPT ![t] = "wri_wai"]
  /\ text' = [text EXCEPT ![t] = s]
  /\ UNCHANGED << spcb, semcnt, ended, left, local, bufVars, deviceVars >>

\* The sig_sem at the end of serial_wri_dat, of an echo, of serial_rea_dat;
\* a failure ends the call, and only then is the unit there already.
sig_sem(t) ==
  LET next == IF at[t] = "ech_sig" /\ semcnt["snd"] = 0
              THEN Reading(left[t], local[t].empty) ELSE "out"
  IN  /\ TaskRuns
      /\ at[t] \in {"wri_sig", "ech_sig", "rea_sig"}
      /\ Signal(IF at[t] = "rea_sig" THEN "rcv" ELSE "snd",
                [at EXCEPT ![t] = next], spcb)
      /\ left' = [left EXCEPT ![t] = IF next = "out" THEN 0 ELSE @]
      /\ local' = [local EXCEPT ![t] = Fresh]
      /\ UNCHANGED << text, ended, bufVars, deviceVars >>

----------------------------------------------------------------------------
(* Reading.                                                                *)
serial_rea_dat(t, len) ==
  /\ TaskRuns /\ at[t] = "out" /\ Usable
  /\ at' = [at EXCEPT ![t] = "rea_wai"]
  /\ left' = [left EXCEPT ![t] = len]
  /\ UNCHANGED << spcb, semcnt, ended, text, local, bufVars, deviceVars >>

\* START or STOP goes to the register, or is left to the callback.
SendFlow(reg, c, stopped) ==
  /\ SndChr(reg)
  /\ spcb' = [spcb EXCEPT !.rcv_stopped = stopped,
                          !.rcv_fc_chr = IF reg THEN c ELSE @]

serial_rea_chr(t) ==
  LET count == Take(rcv, rcv_bufsz).count
      echo  == "ECHO" \in spcb.ioctl
  IN  /\ TaskRuns /\ at[t] = "rea_chr"
      /\ rcv' = Take(rcv, rcv_bufsz)
      /\ \E reg \in Registers :
           IF spcb.rcv_stopped /\ count <= BUFCNT_START(rcv_bufsz)
           THEN SendFlow(reg, "START", FALSE)
           ELSE SndNone(reg) /\ UNCHANGED spcb
      /\ left' = [left EXCEPT ![t] = @ - 1]
      /\ IF echo
         THEN /\ at' = [at EXCEPT ![t] = "ech_wai"]
              /\ text' = [text EXCEPT ![t] = << First(rcv) >>]
              /\ local' = [local EXCEPT ![t].empty = count = 0]
         ELSE /\ at' = [at EXCEPT ![t] = Reading(left'[t], count = 0)]
              /\ UNCHANGED << text, local >>
      /\ UNCHANGED << semcnt, ended, snd, taken, sent >>

----------------------------------------------------------------------------
(* The interrupts.                                                         *)
sio_irdy_snd ==
  /\ ~ended /\ SndPending
  /\ \/ /\ spcb.rcv_fc_chr # NULL
        /\ txfull' = TRUE
        /\ spcb' = [spcb EXCEPT !.rcv_fc_chr = NULL]
        /\ UNCHANGED << at, semcnt, bufVars, cbr >>
     \/ /\ spcb.rcv_fc_chr = NULL
        /\ ~spcb.snd_stopped /\ snd.count > 0
        /\ txfull' = TRUE
        /\ SentFirst
        /\ SignalIf(Full, "snd", at, spcb)
        /\ UNCHANGED cbr
     \/ /\ spcb.rcv_fc_chr = NULL
        /\ spcb.snd_stopped \/ snd.count = 0
        /\ cbr' = cbr \ {"SND"}
        /\ UNCHANGED << spcb, at, semcnt, bufVars, txfull >>
  /\ UNCHANGED << text, left, local, ended >>

Stops(c)   == "FCSND" \in spcb.ioctl /\ c = "STOP"
Resumes(c) == ~Stops(c) /\ spcb.snd_stopped /\ (c = "START" \/ "FCANY" \in spcb.ioctl)
Ignored(c) ==
  /\ ~Stops(c) /\ ~Resumes(c)
  /\ ("FCSND" \in spcb.ioctl /\ c = "START") \/ rcv.count = rcv_bufsz
Stored(c)  == ~Stops(c) /\ ~Resumes(c) /\ ~Ignored(c)

Stop ==
  /\ spcb' = [spcb EXCEPT !.snd_stopped = TRUE]
  /\ UNCHANGED << at, semcnt, bufVars, txfull, cbr >>

Resume ==
  LET port == [spcb EXCEPT !.snd_stopped = FALSE] IN
  IF snd.count = 0
  THEN spcb' = port /\ UNCHANGED << at, semcnt, bufVars, txfull, cbr >>
  ELSE /\ SndChr(txfull)
       /\ IF ~txfull
          THEN SentFirst /\ SignalIf(Full, "snd", at, port)
          ELSE spcb' = port /\ UNCHANGED << at, semcnt, bufVars >>

Store(c) ==
  LET count == rcv.count + 1
      stop  == /\ "FCRCV" \in spcb.ioctl /\ ~spcb.rcv_stopped
               /\ count >= BUFCNT_STOP(rcv_bufsz)
  IN  /\ rcv' = Put(rcv, rcv_bufsz, c)
      /\ SignalIf(rcv.count = 0, "rcv", at,
           IF ~stop THEN spcb
           ELSE [spcb EXCEPT !.rcv_stopped = TRUE,
                             !.rcv_fc_chr = IF ~txfull THEN @ ELSE "STOP"])
      /\ IF stop THEN SndChr(txfull) ELSE UNCHANGED << txfull, cbr >>
      /\ UNCHANGED << snd, taken, sent >>

\* The line is taken to be silent while the port is closed.
sio_irdy_rcv(c) ==
  /\ ~ended /\ "RCV" \in cbr
  /\ spcb.openflag
  /\ \/ Stops(c) /\ Stop
     \/ Resumes(c) /\ Resume
     \/ Ignored(c) /\ UNCHANGED << spcb, at, semcnt, bufVars, txfull, cbr >>
     \/ Stored(c) /\ Store(c)
  /\ UNCHANGED << text, left, local, ended >>

----------------------------------------------------------------------------
(* The port.  Dispatching is disabled from the check to the end; sio_cls_por *)
(* leaves the device and the callbacks as they are.                        *)
serial_opn_por(t) ==
  /\ TaskRuns /\ at[t] = "out" /\ ~spcb.openflag
  /\ spcb' = [NoPort EXCEPT !.openflag = TRUE,
                            !.ioctl = {"ECHO", "CRLF", "FCSND", "FCRCV"}]
  /\ rcv' = Empty(rcv_bufsz)
  /\ snd' = Empty(snd_bufsz)
  /\ cbr' = cbr \union {"RCV"}
  /\ UNCHANGED << semcnt, taskVars, ended, taken, sent, txfull >>

\* Both semaphores are initialised: the tasks that wait for them are released
\* with E_DLT, and their calls return.
serial_cls_por(t) ==
  LET waiting == Waiting("snd") \union Waiting("rcv") IN
  /\ Closes
  /\ TaskRuns /\ spcb.openflag /\ at[t] = "out"
  /\ ClsRaces \/ \A u \in Task \ waiting : at[u] = "out"
  /\ spcb' = [spcb EXCEPT !.openflag = FALSE]
  /\ semcnt' = INITIAL_SEM
  /\ at' = [u \in Task |-> IF u \in waiting THEN "out" ELSE at[u]]
  /\ text' = [u \in Task |-> IF u \in waiting THEN << >> ELSE text[u]]
  /\ left' = [u \in Task |-> IF u \in waiting THEN 0 ELSE left[u]]
  /\ local' = [u \in Task |-> IF u \in waiting THEN Fresh ELSE local[u]]
  /\ UNCHANGED << ended, bufVars, deviceVars >>

serial_ctl_por(t) ==
  /\ TaskRuns /\ at[t] = "out" /\ Usable
  /\ \E flags \in Ioctl : spcb' = [spcb EXCEPT !.ioctl = flags]
  /\ UNCHANGED << semcnt, ended, taskVars, bufVars, deviceVars >>

\* The kernel has ended, and with it the tasks: logtask_terminate puts the
\* unsent characters on the line, waiting for the register before each.
ext_ker ==
  /\ Exits /\ TaskRuns
  /\ ended' = TRUE
  /\ at' = [t \in Task |-> "out"]
  /\ text' = [t \in Task |-> << >>]
  /\ left' = [t \in Task |-> 0]
  /\ local' = [t \in Task |-> Fresh]
  /\ UNCHANGED << spcb, semcnt, bufVars, deviceVars >>

serial_get_chr ==
  /\ ended /\ ~txfull
  /\ spcb.openflag /\ snd.count > 0
  /\ txfull' = TRUE
  /\ SentFirst
  /\ UNCHANGED << spcb, semcnt, ended, taskVars, cbr >>

----------------------------------------------------------------------------
TaskStep(t) ==
  \/ wai_sem(t) \/ serial_wri_chr(t) \/ serial_rea_chr(t)
  \/ sig_sem(t)

TaskCall(t) ==
  \/ \E s \in Text : serial_wri_dat(t, s)
  \/ \E len \in 1 .. MaxLen : serial_rea_dat(t, len)
  \/ serial_opn_por(t) \/ serial_cls_por(t) \/ serial_ctl_por(t)
  \/ rel_wai(t)

SerialNext ==
  \/ \E t \in Task : TaskStep(t) \/ TaskCall(t)
  \/ \E c \in Line : sio_irdy_rcv(c)
  \/ sio_irdy_snd
  \/ Transmitted
  \/ ext_ker \/ serial_get_chr

SerialSpec == SerialInit /\ [][SerialNext]_serialVars

----------------------------------------------------------------------------
(* Properties.                                                             *)

Place == {"out", "wri_wai", "wri_blk", "wri_chr", "wri_sig",
          "ech_wai", "ech_blk", "ech_chr", "ech_sig",
          "rea_wai", "rea_blk", "rea_chr", "rea_sig"}

Char == Chars \union FlowChar \union {NULL}

Ring(bufsz) ==
  [buffer : [0 .. bufsz - 1 -> Char],
   read_ptr : 0 .. bufsz - 1, write_ptr : 0 .. bufsz - 1, count : 0 .. bufsz]

Port ==
  [openflag : BOOLEAN, errorflag : BOOLEAN, ioctl : SUBSET IoctlFlag,
   rcv_fc_chr : FlowChar \union {NULL},
   rcv_stopped : BOOLEAN, snd_stopped : BOOLEAN]

\* Each variable has its type, and no buffer holds more than its size
\* (serial.c, SPCB).
SerialTypeOK ==
  /\ spcb \in Port
  /\ rcv \in Ring(rcv_bufsz) /\ snd \in Ring(snd_bufsz)
  /\ semcnt \in [{"rcv", "snd"} -> {0, 1}]
  /\ at \in [Task -> Place]
  /\ text \in [Task -> Seq(Char)]
  /\ left \in [Task -> 0 .. MaxLen]
  /\ local \in [Task -> [empty : BOOLEAN, cr : BOOLEAN]]
  /\ ended \in BOOLEAN
  /\ txfull \in BOOLEAN /\ cbr \in SUBSET {"SND", "RCV"}

In(places) == {t \in Task : at[t] \in places}

Open == spcb.openflag /\ ~ended

\* One unit, in one of three places: the semaphore, the buffer, a task.
Units(n, inBuffer, holders) ==
  \/ n = 1 /\ ~inBuffer /\ holders = {}
  \/ n = 0 /\ inBuffer  /\ holders = {}
  \/ n = 0 /\ ~inBuffer /\ \E t \in holders : holders = {t}

Writers == In({"wri_chr", "wri_sig", "ech_chr", "ech_sig"})

\* During an echo a task has the right to read unless it took the last
\* character.
Readers ==
  In({"rea_chr", "rea_sig"}) \union
  {t \in In({"ech_wai", "ech_blk", "ech_chr", "ech_sig"}) : ~local[t].empty}

\* The right to write is in one place: in the semaphore, with the one task
\* that took it, or in the full buffer, from where the interrupt gives it
\* back.  So a task that got through wai_sem finds room (serial_wri_dat,
\* serial_rea_dat, sio_irdy_snd).
OneWriter == Open => Units(semcnt["snd"], Full, Writers)

\* Likewise the right to read, which is in the buffer when it is empty
\* (serial_rea_dat, sio_irdy_rcv).
OneReader == Open => Units(semcnt["rcv"], rcv.count = 0, Readers)

\* No service call of the driver fails: the error flag of the port is never
\* raised, which would make all later calls fail (gen_ercd_sys).
NeverInError == spcb.openflag => ~spcb.errorflag

\* While a task waits for characters and there are some, a task has the
\* right to read them or is about to be given it (serial_rea_dat, which is
\* to wait only until its characters are received).
CharsAreRead ==
  Open /\ rcv.count > 0 /\ Waiting("rcv") # {} =>
    In({"rea_chr", "rea_sig", "ech_wai", "ech_blk", "ech_chr", "ech_sig"}) # {}

\* The port is well formed, never in error, and no character waits for a task
\* that waits for it.
SerialInv == SerialTypeOK /\ NeverInError /\ CharsAreRead

Contents(ring, bufsz) ==
  [i \in 1 .. ring.count |-> ring.buffer[(ring.read_ptr + i - 1) % bufsz]]

\* Nothing is overwritten or withdrawn: the capacity is never exceeded.
Outward == INSTANCE Channel WITH
  Queue <- {"snd"}, Datum <- Chars, NoDatum <- NULL,
  Capacity <- [q \in {"snd"} |-> snd_bufsz + 1],
  chan  <- [q \in {"snd"} |-> Contents(snd, snd_bufsz)],
  taken <- [q \in {"snd"} |-> taken],
  sent  <- [q \in {"snd"} |-> sent]

\* What is written goes to the register in the order in which it was
\* written, nothing lost or doubled, and no character that goes there
\* directly overtakes those in the buffer: writing implements a channel.
WritesInOrder == Outward!CSpec

\* The device, the interrupts and the started calls go on.
SerialFair ==
  /\ WF_serialVars(Transmitted)
  /\ WF_serialVars(sio_irdy_snd)
  /\ \A t \in Task : WF_serialVars(TaskStep(t))

SerialFairSpec == SerialSpec /\ SerialFair

\* A full send buffer gets room unless sending is stopped: after STOP and
\* START the sending goes on (sio_irdy_rcv, sio_irdy_snd).
FullDrains == Full ~> ~Full \/ spcb.snd_stopped
=============================================================================
