--------------------------- MODULE SerialProofs ---------------------------
(***************************************************************************)
(* Each direction of the serial port has one owner, no service call of the *)
(* driver fails and no character waits for a task that waits for it: for   *)
(* any number of tasks, every size of the buffers and every text.  Writing *)
(* implements Channel.  Two things that serial.c does not handle must not  *)
(* happen: an echo is released from its wait, the port is closed while a   *)
(* task is amid its call (ClsRaces).                                       *)
(***************************************************************************)
EXTENDS Serial, SequenceTheorems, TLAPS

CallPlace == {"wri_wai", "wri_blk", "wri_chr"}
EchoPlace == {"ech_wai", "ech_blk", "ech_chr"}
ReadPlace == {"rea_wai", "rea_blk", "rea_chr"}

Local == [empty : BOOLEAN, cr : BOOLEAN]

\* What a task still has to do agrees with where it is: there is a character
\* to write or to read, and an echo is of one character.
CallInv ==
  \A t \in Task :
    /\ at[t] \in CallPlace => text[t] # << >>
    /\ at[t] \in EchoPlace => \E c \in Char : text[t] = << c >>
    /\ at[t] \in ReadPlace => left[t] > 0

\* While the port is closed no call is in progress and both semaphores are as
\* they were made.
ClosedInv ==
  ~spcb.openflag /\ ~ended =>
    semcnt = INITIAL_SEM /\ \A t \in Task : at[t] = "out"

\* A task waits only for a unit that is not there.
WaitersInv == \A d \in {"rcv", "snd"} : Waiting(d) # {} => semcnt[d] = 0

RightsInv == OneWriter /\ OneReader /\ NeverInError /\ ClosedInv /\ WaitersInv

IInv == SerialTypeOK /\ CallInv /\ RightsInv

USE DEF UINT

----------------------------------------------------------------------------
(***************************************************************************)
(* The ring buffers.                                                       *)
(***************************************************************************)
LEMMA Sizes == rcv_bufsz \in 1 .. 255 /\ snd_bufsz \in 1 .. 255
BY SerialAssumption

LEMMA Counts ==
  /\ \A x \in 0 .. 254 : (x + 1) % 256 = x + 1
  /\ \A x \in 1 .. 255 : (x + 256 - 1) % 256 = x - 1
OBVIOUS

LEMMA RoomAtEnd ==
  ASSUME NEW n \in 1 .. 255, NEW x \in 0 .. n, x # n
  PROVE  x \in 0 .. n - 1 /\ x \in 0 .. 254
OBVIOUS

LEMMA RoomAtStart ==
  ASSUME NEW n \in 1 .. 255, NEW x \in 0 .. n, x # 0
  PROVE  x \in 1 .. n /\ x \in 1 .. 255
OBVIOUS

\* A character put into a ring that is not full, and the first one taken from
\* a ring that is not empty, leave a ring (INC_PTR, rcv_count, snd_count).
LEMMA PutRing ==
  ASSUME NEW size \in 1 .. 255, NEW ring \in Ring(size), NEW c \in Char,
         ring.count # size
  PROVE  /\ Put(ring, size, c) \in Ring(size)
         /\ Put(ring, size, c).count = ring.count + 1
<1>0. ring.count \in 0 .. size
  BY DEF Ring
<1>1. ring.count \in 0 .. size - 1 /\ ring.count \in 0 .. 254
  BY <1>0, RoomAtEnd
<1>r. /\ ring.write_ptr \in 0 .. size - 1
      /\ ring.buffer \in [0 .. size - 1 -> Char]
  BY DEF Ring
<1>2. (ring.count + 1) % 256 = ring.count + 1
  BY <1>1, Counts
<1>3. INC_PTR(ring.write_ptr, size) \in 0 .. size - 1
  BY <1>r DEF INC_PTR
<1>4. Put(ring, size, c) =
        [ring EXCEPT !.buffer = [ring.buffer EXCEPT ![ring.write_ptr] = c],
                     !.write_ptr = INC_PTR(ring.write_ptr, size),
                     !.count = ring.count + 1]
  BY <1>2 DEF Put, Ring
<1>5. [ring.buffer EXCEPT ![ring.write_ptr] = c] \in [0 .. size - 1 -> Char]
  BY <1>r
<1>6. ring.count + 1 \in 0 .. size
  BY <1>1
<1> QED
  BY <1>3, <1>4, <1>5, <1>6 DEF Ring

LEMMA TakeRing ==
  ASSUME NEW size \in 1 .. 255, NEW ring \in Ring(size), ring.count # 0
  PROVE  /\ Take(ring, size) \in Ring(size)
         /\ Take(ring, size).count = ring.count - 1
         /\ First(ring) \in Char
<1>0. ring.count \in 0 .. size
  BY DEF Ring
<1>1. ring.count \in 1 .. size /\ ring.count \in 1 .. 255
  BY <1>0, RoomAtStart
<1>r. /\ ring.read_ptr \in 0 .. size - 1
      /\ ring.buffer \in [0 .. size - 1 -> Char]
  BY DEF Ring
<1>2. (ring.count + 256 - 1) % 256 = ring.count - 1
  BY <1>1, Counts
<1>3. INC_PTR(ring.read_ptr, size) \in 0 .. size - 1
  BY <1>r DEF INC_PTR
<1>4. Take(ring, size) =
        [ring EXCEPT !.buffer = [ring.buffer EXCEPT ![ring.read_ptr] = NULL],
                     !.read_ptr = INC_PTR(ring.read_ptr, size),
                     !.count = ring.count - 1]
  BY <1>2 DEF Take, Ring
<1>5. [ring.buffer EXCEPT ![ring.read_ptr] = NULL] \in [0 .. size - 1 -> Char]
  BY <1>r DEF Char
<1>6. ring.count - 1 \in 0 .. size
  BY <1>1
<1>7. First(ring) \in Char
  BY <1>r DEF First
<1> QED
  BY <1>3, <1>4, <1>5, <1>6, <1>7 DEF Ring

LEMMA EmptyRing ==
  ASSUME NEW size \in 1 .. 255
  PROVE  Empty(size) \in Ring(size) /\ Empty(size).count = 0
BY DEF Empty, Ring, Char

LEMMA OneChar ==
  ASSUME NEW c \in Char
  PROVE  << c >> \in Seq(Char) /\ << c >> # << >> /\ Tail(<< c >>) = << >>
OBVIOUS

LEMMA TextsAreChars ==
  ASSUME NEW s \in Text
  PROVE  s \in Seq(Char) /\ s # << >>
<1>1. s \in Seq(Chars) /\ s # << >>
  BY SerialAssumption
<1>2. Chars \subseteq Char
  BY DEF Char
<1> QED
  BY <1>1, <1>2

----------------------------------------------------------------------------
(***************************************************************************)
(* Where the units are, and how they move.                                 *)
(***************************************************************************)
WritePlace == {"wri_chr", "wri_sig", "ech_chr", "ech_sig"}

Reads(p, l) ==
  \/ p \in {"rea_chr", "rea_sig"}
  \/ p \in {"ech_wai", "ech_blk", "ech_chr", "ech_sig"} /\ ~l.empty

WritersIn(f)    == {t \in Task : f[t] \in WritePlace}
ReadersIn(f, g) == {t \in Task : Reads(f[t], g[t])}
WaitingIn(f, d) == {t \in Task : f[t] \in Blocked(d)}

LEMMA Owners ==
  /\ Writers = WritersIn(at) /\ Readers = ReadersIn(at, local)
  /\ \A d : Waiting(d) = WaitingIn(at, d)
  /\ Writers' = WritersIn(at') /\ Readers' = ReadersIn(at', local')
  /\ \A d : Waiting(d)' = WaitingIn(at', d)
<1>1. Writers = WritersIn(at) /\ Writers' = WritersIn(at')
  BY DEF Writers, WritersIn, WritePlace, In
<1>2. Readers = ReadersIn(at, local)
  BY DEF Readers, ReadersIn, Reads, In
<1>3. Readers' = ReadersIn(at', local')
  BY DEF Readers, ReadersIn, Reads, In
<1>4. \A d : Waiting(d) = WaitingIn(at, d) /\ Waiting(d)' = WaitingIn(at', d)
  BY DEF Waiting, WaitingIn
<1> QED
  BY <1>1, <1>2, <1>3, <1>4

\* A task in a call: the port is open.
LEMMA InCall ==
  ASSUME IInv, TaskRuns, NEW t \in Task, at[t] # "out"
  PROVE  Open
BY DEF IInv, RightsInv, ClosedInv, TaskRuns, Open

LEMMA MovesNext ==
  ASSUME NEW t \in Task, NEW p, NEW l,
         at \in [Task -> Place], local \in [Task -> Local],
         at' = [at EXCEPT ![t] = p],
         \A u \in Task : local'[u] = IF u = t THEN l ELSE local[u]
  PROVE  /\ Writers' = IF p \in WritePlace THEN Writers \union {t} ELSE Writers \ {t}
         /\ Readers' = IF Reads(p, l) THEN Readers \union {t} ELSE Readers \ {t}
         /\ \A d : Waiting(d)' = IF p \in Blocked(d) THEN Waiting(d) \union {t}
                                                    ELSE Waiting(d) \ {t}
<1>1. \A u \in Task : at'[u] = IF u = t THEN p ELSE at[u]
  OBVIOUS
<1>2. WritersIn(at') =
        IF p \in WritePlace THEN WritersIn(at) \union {t} ELSE WritersIn(at) \ {t}
  BY <1>1 DEF WritersIn
<1>3. ReadersIn(at', local') =
        IF Reads(p, l) THEN ReadersIn(at, local) \union {t} ELSE ReadersIn(at, local) \ {t}
  <2>1. \A u \in Task :
          Reads(at'[u], local'[u]) <=> IF u = t THEN Reads(p, l) ELSE Reads(at[u], local[u])
    BY <1>1
  <2> QED
    BY <2>1 DEF ReadersIn
<1>4. ASSUME NEW d
      PROVE  WaitingIn(at', d) =
               IF p \in Blocked(d) THEN WaitingIn(at, d) \union {t} ELSE WaitingIn(at, d) \ {t}
  BY <1>1 DEF WaitingIn
<1> QED
  BY <1>2, <1>3, <1>4, Owners, Zenon

\* A unit is given back while the tasks are at pos: to a task that waits for
\* it, which goes on and owns the direction, or to the semaphore.
LEMMA SignalMoves ==
  ASSUME NEW d \in {"rcv", "snd"}, NEW pos \in [Task -> Place], NEW port,
         at \in [Task -> Place],
         \A u \in Task : at[u] \in Blocked(d) => pos[u] = at[u],
         Signal(d, pos, port)
  PROVE  \/ \E w \in Task :
              /\ at[w] \in Blocked(d)
              /\ at' \in [Task -> Place] /\ at' = [pos EXCEPT ![w] = Beyond(at[w])]
              /\ spcb' = port /\ semcnt' = semcnt
              /\ WritersIn(at') = IF d = "snd" THEN WritersIn(pos) \union {w}
                                               ELSE WritersIn(pos)
              /\ \A k : ReadersIn(at', k) = IF d = "rcv" THEN ReadersIn(pos, k) \union {w}
                                                         ELSE ReadersIn(pos, k)
              /\ \A e : WaitingIn(at', e) \subseteq WaitingIn(pos, e)
         \/ /\ Waiting(d) = {} /\ at' = pos
            /\ semcnt' = [semcnt EXCEPT ![d] = 1]
            /\ spcb' = [port EXCEPT !.errorflag = @ \/ semcnt[d] = 1]
<1>1. SUFFICES ASSUME NEW w \in Waiting(d), at' = [pos EXCEPT ![w] = Beyond(at[w])],
                      spcb' = port, semcnt' = semcnt
               PROVE  /\ w \in Task /\ at[w] \in Blocked(d)
                      /\ at' \in [Task -> Place]
                      /\ WritersIn(at') = IF d = "snd" THEN WritersIn(pos) \union {w}
                                                       ELSE WritersIn(pos)
                      /\ \A k : ReadersIn(at', k) =
                           IF d = "rcv" THEN ReadersIn(pos, k) \union {w}
                                        ELSE ReadersIn(pos, k)
                      /\ \A e : WaitingIn(at', e) \subseteq WaitingIn(pos, e)
  BY DEF Signal
<1>2. w \in Task /\ at[w] \in Blocked(d) /\ pos[w] = at[w]
  BY DEF Waiting
<1>3. \A u \in Task : at'[u] = IF u = w THEN Beyond(at[w]) ELSE pos[u]
  BY <1>1, <1>2
<1>4. CASE d = "snd"
  <2>1. /\ at[w] \in {"wri_blk", "ech_blk"}
        /\ Beyond(at[w]) = IF at[w] = "wri_blk" THEN "wri_chr" ELSE "ech_chr"
    BY <1>2, <1>4 DEF Blocked, Beyond
  <2>2. at' \in [Task -> Place]
    BY <1>1, <1>2, <2>1 DEF Place
  <2>3. WritersIn(at') = WritersIn(pos) \union {w}
    BY <1>2, <1>3, <2>1 DEF WritersIn, WritePlace
  <2>4. ASSUME NEW k
        PROVE  ReadersIn(at', k) = ReadersIn(pos, k)
    <3>1. \A u \in Task : Reads(at'[u], k[u]) <=> Reads(pos[u], k[u])
      BY <1>2, <1>3, <2>1 DEF Reads
    <3> QED
      BY <3>1 DEF ReadersIn
  <2>5. ASSUME NEW e
        PROVE  WaitingIn(at', e) \subseteq WaitingIn(pos, e)
    BY <1>2, <1>3, <2>1 DEF WaitingIn, Blocked
  <2> QED
    BY <1>2, <1>4, <2>2, <2>3, <2>4, <2>5
<1>5. CASE d = "rcv"
  <2>1. at[w] = "rea_blk" /\ Beyond(at[w]) = "rea_chr"
    BY <1>2, <1>5 DEF Blocked, Beyond
  <2>2. at' \in [Task -> Place]
    BY <1>1, <1>2, <2>1 DEF Place
  <2>3. WritersIn(at') = WritersIn(pos)
    BY <1>2, <1>3, <2>1 DEF WritersIn, WritePlace
  <2>4. ASSUME NEW k
        PROVE  ReadersIn(at', k) = ReadersIn(pos, k) \union {w}
    <3>1. \A u \in Task : Reads(at'[u], k[u]) <=> u = w \/ Reads(pos[u], k[u])
      BY <1>2, <1>3, <2>1 DEF Reads
    <3> QED
      BY <3>1, <1>2 DEF ReadersIn
  <2>5. ASSUME NEW e
        PROVE  WaitingIn(at', e) \subseteq WaitingIn(pos, e)
    BY <1>2, <1>3, <2>1 DEF WaitingIn, Blocked
  <2> QED
    BY <1>2, <1>5, <2>2, <2>3, <2>4, <2>5
<1> QED
  BY <1>4, <1>5

\* The task that goes on stays in the call it waits in.
LEMMA SignalPlaces ==
  ASSUME NEW d \in {"rcv", "snd"}, NEW pos \in [Task -> Place], NEW port,
         \A u \in Task : at[u] \in Blocked(d) => pos[u] = at[u],
         Signal(d, pos, port)
  PROVE  \A u \in Task : /\ at'[u] \in CallPlace => pos[u] \in CallPlace
                         /\ at'[u] \in EchoPlace => pos[u] \in EchoPlace
                         /\ at'[u] \in ReadPlace => pos[u] \in ReadPlace
<1>1. CASE at' = pos
  BY <1>1
<1>2. ASSUME NEW w \in Waiting(d), at' = [pos EXCEPT ![w] = Beyond(at[w])]
      PROVE  \A u \in Task : /\ at'[u] \in CallPlace => pos[u] \in CallPlace
                             /\ at'[u] \in EchoPlace => pos[u] \in EchoPlace
                             /\ at'[u] \in ReadPlace => pos[u] \in ReadPlace
  <2>1. w \in Task /\ at[w] \in Blocked(d) /\ pos[w] = at[w]
    BY DEF Waiting
  <2>2. \A u \in Task : at'[u] = IF u = w THEN Beyond(at[w]) ELSE pos[u]
    BY <1>2, <2>1
  <2>3. \/ at[w] = "wri_blk" /\ Beyond(at[w]) = "wri_chr"
        \/ at[w] = "ech_blk" /\ Beyond(at[w]) = "ech_chr"
        \/ at[w] = "rea_blk" /\ Beyond(at[w]) = "rea_chr"
    BY <2>1 DEF Blocked, Beyond
  <2> QED
    BY <2>1, <2>2, <2>3 DEF CallPlace, EchoPlace, ReadPlace
<1> QED
  BY <1>1, <1>2 DEF Signal

----------------------------------------------------------------------------
(***************************************************************************)
(* The steps of the tasks.                                                 *)
(***************************************************************************)
\* What a step leaves alone when no right moves.
LEMMA RightsStay ==
  ASSUME IInv,
         spcb'.openflag = spcb.openflag, spcb'.errorflag = spcb.errorflag,
         ended' = ended, semcnt' = semcnt,
         snd'.count = snd.count, rcv'.count = rcv.count,
         Writers' = Writers, Readers' = Readers,
         \A d : Waiting(d)' \subseteq Waiting(d),
         ClosedInv'
  PROVE  RightsInv'
<1>1. OneWriter' /\ OneReader'
  BY DEF IInv, RightsInv, OneWriter, OneReader, Open, Full, Units
<1>2. NeverInError' /\ WaitersInv'
  BY DEF IInv, RightsInv, NeverInError, WaitersInv
<1> QED
  BY <1>1, <1>2 DEF RightsInv

FreePlace == {"out", "wri_wai", "wri_blk", "rea_wai", "rea_blk"}

\* A task that owns nothing still owns nothing.
LEMMA MovesFree ==
  ASSUME NEW t \in Task, NEW p \in {"out", "wri_wai", "rea_wai"},
         at \in [Task -> Place], local \in [Task -> Local], at[t] \in FreePlace,
         at' = [at EXCEPT ![t] = p],
         \A u \in Task \ {t} : local'[u] = local[u]
  PROVE  Writers' = Writers /\ Readers' = Readers /\ \A d : Waiting(d)' \subseteq Waiting(d)
<1>1. Writers' = Writers
  BY DEF Writers, In, FreePlace
<1>2. Readers' = Readers
  BY DEF Readers, In, FreePlace
<1>3. ASSUME NEW d
      PROVE  Waiting(d)' \subseteq Waiting(d)
  BY DEF Waiting, Blocked
<1> QED
  BY <1>1, <1>2, <1>3

LEMMA serial_wri_datKeeps ==
  ASSUME IInv, NEW t \in Task, NEW s \in Text, serial_wri_dat(t, s)
  PROVE  IInv'
<1> USE DEF bufVars, deviceVars
<1>t. SerialTypeOK /\ CallInv
  BY DEF IInv
<1>s. s \in Seq(Char) /\ s # << >>
  BY TextsAreChars
<1>1. SerialTypeOK'
  <2>1. at' \in [Task -> Place] /\ text' \in [Task -> Seq(Char)]
    BY <1>t, <1>s DEF serial_wri_dat, SerialTypeOK, Place
  <2> QED
    BY <1>t, <2>1 DEF serial_wri_dat, SerialTypeOK
<1>2. CallInv'
  BY <1>t, <1>s DEF serial_wri_dat, SerialTypeOK, CallInv, CallPlace, EchoPlace, ReadPlace
<1>3. Writers' = Writers /\ Readers' = Readers /\ \A d : Waiting(d)' \subseteq Waiting(d)
  BY <1>t, MovesFree DEF serial_wri_dat, SerialTypeOK, Local, FreePlace
<1>4. RightsInv'
  <2>1. ClosedInv'
    BY DEF serial_wri_dat, Usable, ClosedInv
  <2> QED
    BY <1>3, <2>1, RightsStay DEF serial_wri_dat
<1> QED
  BY <1>1, <1>2, <1>4 DEF IInv

LEMMA serial_rea_datKeeps ==
  ASSUME IInv, NEW t \in Task, NEW len \in 1 .. MaxLen, serial_rea_dat(t, len)
  PROVE  IInv'
<1> USE DEF bufVars, deviceVars
<1>t. SerialTypeOK /\ CallInv
  BY DEF IInv
<1>s. len \in 0 .. MaxLen /\ len > 0
  BY SerialAssumption
<1>1. SerialTypeOK'
  <2>1. at' \in [Task -> Place] /\ left' \in [Task -> 0 .. MaxLen]
    BY <1>t, <1>s DEF serial_rea_dat, SerialTypeOK, Place
  <2> QED
    BY <1>t, <2>1 DEF serial_rea_dat, SerialTypeOK
<1>2. CallInv'
  BY <1>t, <1>s DEF serial_rea_dat, SerialTypeOK, CallInv, CallPlace, EchoPlace, ReadPlace
<1>3. Writers' = Writers /\ Readers' = Readers /\ \A d : Waiting(d)' \subseteq Waiting(d)
  BY <1>t, MovesFree DEF serial_rea_dat, SerialTypeOK, Local, FreePlace
<1>4. RightsInv'
  <2>1. ClosedInv'
    BY DEF serial_rea_dat, Usable, ClosedInv
  <2> QED
    BY <1>3, <2>1, RightsStay DEF serial_rea_dat
<1> QED
  BY <1>1, <1>2, <1>4 DEF IInv

LEMMA rel_waiKeeps ==
  ASSUME IInv, NEW t \in Task, "ech_blk" \notin Released, rel_wai(t)
  PROVE  IInv'
<1> USE DEF bufVars, deviceVars
<1>t. SerialTypeOK /\ CallInv
  BY DEF IInv
<1>p. at[t] \in {"wri_blk", "rea_blk"}
  BY SerialAssumption DEF rel_wai
<1>1. SerialTypeOK'
  <2>1. /\ at' \in [Task -> Place] /\ left' \in [Task -> 0 .. MaxLen]
        /\ text' \in [Task -> Seq(Char)] /\ local' \in [Task -> Local]
    BY <1>t, SerialAssumption DEF rel_wai, SerialTypeOK, Place, Fresh, Local
  <2> QED
    BY <1>t, <2>1 DEF rel_wai, SerialTypeOK, Local
<1>2. CallInv'
  BY <1>t DEF rel_wai, SerialTypeOK, CallInv, CallPlace, EchoPlace, ReadPlace
<1>3. Writers' = Writers /\ Readers' = Readers /\ \A d : Waiting(d)' \subseteq Waiting(d)
  BY <1>t, <1>p, MovesFree DEF rel_wai, SerialTypeOK, Local, FreePlace
<1>4. RightsInv'
  <2>1. ClosedInv'
    BY <1>p DEF rel_wai, ClosedInv, IInv, RightsInv
  <2> QED
    BY <1>3, <2>1, RightsStay DEF rel_wai
<1> QED
  BY <1>1, <1>2, <1>4 DEF IInv

\* The steps after which every task is where it was.
LEMMA TasksStay ==
  ASSUME UNCHANGED << at, local >>
  PROVE  Writers' = Writers /\ Readers' = Readers /\ \A d : Waiting(d)' \subseteq Waiting(d)
BY DEF Writers, Readers, Waiting, In

LEMMA serial_ctl_porKeeps ==
  ASSUME IInv, NEW t \in Task, serial_ctl_por(t)
  PROVE  IInv'
<1> USE DEF taskVars, bufVars, deviceVars
<1>t. SerialTypeOK /\ CallInv
  BY DEF IInv
<1>1. PICK flags \in Ioctl : spcb' = [spcb EXCEPT !.ioctl = flags]
  BY DEF serial_ctl_por
<1>2. spcb' \in Port /\ spcb'.openflag = spcb.openflag /\ spcb'.errorflag = spcb.errorflag
  BY <1>t, <1>1, SerialAssumption DEF SerialTypeOK, Port
<1>3. SerialTypeOK' /\ CallInv'
  BY <1>t, <1>2 DEF serial_ctl_por, SerialTypeOK, CallInv
<1>4. RightsInv'
  <2>1. ClosedInv'
    BY <1>2 DEF serial_ctl_por, Usable, ClosedInv
  <2> QED
    BY <1>2, <2>1, TasksStay, RightsStay DEF serial_ctl_por
<1> QED
  BY <1>3, <1>4 DEF IInv

LEMMA TransmittedKeeps ==
  ASSUME IInv, Transmitted
  PROVE  IInv'
<1> USE DEF taskVars, bufVars
<1>1. SerialTypeOK' /\ CallInv'
  BY DEF IInv, Transmitted, SerialTypeOK, CallInv
<1>2. RightsInv'
  <2>1. ClosedInv'
    BY DEF Transmitted, ClosedInv, IInv, RightsInv
  <2> QED
    BY <2>1, TasksStay, RightsStay DEF Transmitted
<1> QED
  BY <1>1, <1>2 DEF IInv

LEMMA serial_opn_porKeeps ==
  ASSUME IInv, NEW t \in Task, serial_opn_por(t)
  PROVE  IInv'
<1> USE DEF taskVars
<1>t. SerialTypeOK /\ CallInv /\ RightsInv
  BY DEF IInv
<1>r. /\ Empty(rcv_bufsz) \in Ring(rcv_bufsz) /\ Empty(rcv_bufsz).count = 0
      /\ Empty(snd_bufsz) \in Ring(snd_bufsz) /\ Empty(snd_bufsz).count = 0
  BY Sizes, EmptyRing
<1>p. spcb' \in Port /\ spcb'.openflag /\ ~spcb'.errorflag
  BY DEF serial_opn_por, NoPort, Port, IoctlFlag
<1>1. SerialTypeOK'
  BY <1>t, <1>r, <1>p DEF serial_opn_por, SerialTypeOK
<1>2. CallInv'
  BY <1>t DEF serial_opn_por, CallInv
<1>3. semcnt' = INITIAL_SEM /\ \A u \in Task : at[u] = "out" /\ at'[u] = "out"
  BY <1>t DEF serial_opn_por, TaskRuns, RightsInv, ClosedInv
<1>4. Writers' = {} /\ Readers' = {} /\ Waiting("rcv")' = {} /\ Waiting("snd")' = {}
  BY <1>3 DEF Writers, Readers, In, Waiting, Blocked
<1>5. rcv'.count = 0 /\ snd'.count # snd_bufsz
  BY <1>r, Sizes DEF serial_opn_por
<1>6. RightsInv'
  <2>1. OneWriter' /\ OneReader'
    BY <1>3, <1>4, <1>5 DEF OneWriter, OneReader, Units, Full, INITIAL_SEM
  <2>2. NeverInError' /\ ClosedInv' /\ WaitersInv'
    BY <1>p, <1>4 DEF NeverInError, ClosedInv, WaitersInv
  <2> QED
    BY <2>1, <2>2 DEF RightsInv
<1> QED
  BY <1>1, <1>2, <1>6 DEF IInv

\* A task that waits for a semaphore is released and its call returns, and no
\* other call is in progress.
LEMMA serial_cls_porKeeps ==
  ASSUME IInv, ~ClsRaces, NEW t \in Task, serial_cls_por(t)
  PROVE  IInv'
<1> USE DEF bufVars, deviceVars
<1>t. SerialTypeOK /\ CallInv /\ RightsInv
  BY DEF IInv
<1>p. spcb' \in Port /\ ~spcb'.openflag
  BY <1>t DEF serial_cls_por, Port, SerialTypeOK
<1>s. semcnt' = INITIAL_SEM /\ INITIAL_SEM \in [{"rcv", "snd"} -> {0, 1}]
  BY DEF serial_cls_por, INITIAL_SEM
<1>2. \A u \in Task : at'[u] = "out"
  BY DEF serial_cls_por
<1>3. Waiting("rcv")' = {} /\ Waiting("snd")' = {}
  BY <1>2 DEF Waiting, Blocked
<1>4. SerialTypeOK'
  <2>1. << >> \in Seq(Char) /\ 0 \in 0 .. MaxLen /\ Fresh \in Local /\ "out" \in Place
    BY SerialAssumption DEF Fresh, Local, Place
  <2>2. /\ at' \in [Task -> Place] /\ left' \in [Task -> 0 .. MaxLen]
        /\ text' \in [Task -> Seq(Char)] /\ local' \in [Task -> Local]
    BY <1>t, <2>1 DEF serial_cls_por, SerialTypeOK, Local
  <2>3. QED
    BY <1>t, <1>p, <1>s, <2>2 DEF serial_cls_por, SerialTypeOK, Local
<1>5. CallInv'
  BY <1>2 DEF CallInv, CallPlace, EchoPlace, ReadPlace
<1>6. RightsInv'
  BY <1>p, <1>s, <1>2, <1>3
  DEF RightsInv, OneWriter, OneReader, Open, NeverInError, ClosedInv, WaitersInv
<1> QED
  BY <1>4, <1>5, <1>6 DEF IInv

LEMMA ext_kerKeeps ==
  ASSUME IInv, ext_ker
  PROVE  IInv'
<1> USE DEF bufVars, deviceVars
<1>t. SerialTypeOK /\ CallInv /\ RightsInv
  BY DEF IInv
<1>1. SerialTypeOK'
  <2>1. /\ at' \in [Task -> Place] /\ left' \in [Task -> 0 .. MaxLen]
        /\ text' \in [Task -> Seq(Char)] /\ local' \in [Task -> Local] /\ ended'
    BY SerialAssumption DEF ext_ker, Place, Fresh, Local
  <2> QED
    BY <1>t, <2>1 DEF ext_ker, SerialTypeOK, Local
<1>2. \A u \in Task : at'[u] = "out"
  BY DEF ext_ker
<1>3. CallInv' /\ Waiting("rcv")' = {} /\ Waiting("snd")' = {}
  BY <1>2 DEF Waiting, Blocked, CallInv, CallPlace, EchoPlace, ReadPlace
<1>4. RightsInv'
  BY <1>t, <1>3
  DEF ext_ker, RightsInv, OneWriter, OneReader, Open, NeverInError, ClosedInv, WaitersInv
<1> QED
  BY <1>1, <1>3, <1>4 DEF IInv

\* The unit of each direction while the port is open, and what its next state
\* has to be.
LEMMA UnitsNow ==
  ASSUME IInv, Open
  PROVE  /\ Units(semcnt["snd"], Full, Writers)
         /\ Units(semcnt["rcv"], rcv.count = 0, Readers)
         /\ semcnt["snd"] \in {0, 1} /\ semcnt["rcv"] \in {0, 1}
         /\ ~spcb.errorflag /\ spcb.openflag
BY DEF IInv, RightsInv, OneWriter, OneReader, NeverInError, Open, SerialTypeOK

LEMMA wai_semKeeps ==
  ASSUME IInv, NEW t \in Task, wai_sem(t)
  PROVE  IInv'
<1> USE DEF bufVars, deviceVars
<1>t. SerialTypeOK /\ CallInv /\ WaitersInv
  BY DEF IInv, RightsInv
<1> DEFINE d == Direction(at[t])
           p == IF semcnt[d] = 1 THEN Beyond(at[t])
                ELSE CASE at[t] = "wri_wai" -> "wri_blk"
                       [] at[t] = "ech_wai" -> "ech_blk"
                       [] at[t] = "rea_wai" -> "rea_blk"
<1>1. /\ at[t] \in {"wri_wai", "ech_wai", "rea_wai"}
      /\ semcnt' = [semcnt EXCEPT ![d] = 0]
      /\ at' = [at EXCEPT ![t] = p]
      /\ UNCHANGED << spcb, ended, text, left, local, rcv, snd, txfull, cbr >>
  BY DEF wai_sem
<1>2. Open
  BY <1>1, InCall DEF wai_sem
<1>u. /\ Units(semcnt["snd"], Full, Writers)
      /\ Units(semcnt["rcv"], rcv.count = 0, Readers)
      /\ semcnt["snd"] \in {0, 1} /\ semcnt["rcv"] \in {0, 1}
      /\ ~spcb.errorflag /\ spcb.openflag
  BY <1>2, UnitsNow
<1>3. /\ d \in {"rcv", "snd"} /\ p \in Place
      /\ at[t] = "wri_wai" => d = "snd" /\ p = IF semcnt[d] = 1 THEN "wri_chr" ELSE "wri_blk"
      /\ at[t] = "ech_wai" => d = "snd" /\ p = IF semcnt[d] = 1 THEN "ech_chr" ELSE "ech_blk"
      /\ at[t] = "rea_wai" => d = "rcv" /\ p = IF semcnt[d] = 1 THEN "rea_chr" ELSE "rea_blk"
  BY <1>1 DEF Direction, Beyond, Place
<1> HIDE DEF p, d
<1>4. SerialTypeOK'
  BY <1>t, <1>1, <1>3 DEF SerialTypeOK
<1>5. CallInv'
  BY <1>t, <1>1, <1>3 DEF CallInv, CallPlace, EchoPlace, ReadPlace, SerialTypeOK
<1>m. /\ at \in [Task -> Place] /\ local \in [Task -> Local]
      /\ \A u \in Task : local'[u] = IF u = t THEN local[t] ELSE local[u]
  BY <1>t, <1>1 DEF SerialTypeOK, Local
<1>6. /\ Writers' = IF p \in WritePlace THEN Writers \union {t} ELSE Writers \ {t}
      /\ Readers' = IF Reads(p, local[t]) THEN Readers \union {t} ELSE Readers \ {t}
      /\ \A e : Waiting(e)' = IF p \in Blocked(e) THEN Waiting(e) \union {t}
                                                 ELSE Waiting(e) \ {t}
  BY <1>1, <1>m, MovesNext
<1>7. t \notin Writers /\ (t \in Readers <=> Reads(at[t], local[t]))
  BY <1>1 DEF Writers, Readers, In, Reads
<1>8. RightsInv'
  <2>1. NeverInError' /\ ClosedInv'
    BY <1>u, <1>1 DEF NeverInError, ClosedInv
  <2>2. CASE d = "snd"
    <3>1. /\ at[t] \in {"wri_wai", "ech_wai"}
          /\ semcnt'["snd"] = 0 /\ semcnt'["rcv"] = semcnt["rcv"]
      BY <1>t, <1>1, <1>3, <2>2 DEF SerialTypeOK
    <3>2. Writers' = IF semcnt["snd"] = 1 THEN Writers \union {t} ELSE Writers
      BY <1>3, <1>6, <1>7, <2>2, <3>1 DEF WritePlace
    <3>3. Readers' = Readers
      BY <1>3, <1>6, <1>7, <2>2, <3>1 DEF Reads
    <3>4. Waiting("rcv")' \subseteq Waiting("rcv")
      BY <1>3, <1>6, <2>2, <3>1 DEF Blocked
    <3>5. OneWriter'
      BY <1>u, <1>1, <3>1, <3>2 DEF OneWriter, Open, Full, Units
    <3>6. OneReader'
      BY <1>u, <1>1, <3>1, <3>3 DEF OneReader, Open, Units
    <3>7. WaitersInv'
      BY <1>t, <3>1, <3>4 DEF WaitersInv
    <3> QED
      BY <2>1, <3>5, <3>6, <3>7 DEF RightsInv
  <2>3. CASE d = "rcv"
    <3>1. /\ at[t] = "rea_wai"
          /\ semcnt'["rcv"] = 0 /\ semcnt'["snd"] = semcnt["snd"]
      BY <1>t, <1>1, <1>3, <2>3 DEF SerialTypeOK
    <3>2. Writers' = Writers
      BY <1>3, <1>6, <1>7, <2>3, <3>1 DEF WritePlace
    <3>3. Readers' = IF semcnt["rcv"] = 1 THEN Readers \union {t} ELSE Readers
      BY <1>3, <1>6, <1>7, <2>3, <3>1 DEF Reads
    <3>4. Waiting("snd")' \subseteq Waiting("snd")
      BY <1>3, <1>6, <2>3, <3>1 DEF Blocked
    <3>5. OneWriter'
      BY <1>u, <1>1, <3>1, <3>2 DEF OneWriter, Open, Full, Units
    <3>6. OneReader'
      BY <1>u, <1>1, <3>1, <3>3 DEF OneReader, Open, Units
    <3>7. WaitersInv'
      BY <1>t, <3>1, <3>4 DEF WaitersInv
    <3> QED
      BY <2>1, <3>5, <3>6, <3>7 DEF RightsInv
  <2> QED
    BY <1>3, <2>2, <2>3
<1> QED
  BY <1>4, <1>5, <1>8 DEF IInv

\* A character goes to the register or into the buffer, which has room.
LEMMA SendOrStoreKeeps ==
  ASSUME SerialTypeOK, NEW reg \in BOOLEAN, NEW c \in Char, ~Full, SendOrStore(reg, c)
  PROVE  /\ snd' \in Ring(snd_bufsz)
         /\ txfull' \in BOOLEAN /\ cbr' \in SUBSET {"SND", "RCV"}
<1>1. txfull' \in BOOLEAN /\ cbr' \in SUBSET {"SND", "RCV"}
  BY DEF SendOrStore, SndChr, SndNone, SerialTypeOK
<1>2. snd \in Ring(snd_bufsz) /\ (snd' = snd \/ snd' = Put(snd, snd_bufsz, c))
  BY DEF SendOrStore, SerialTypeOK
<1>3. Put(snd, snd_bufsz, c) \in Ring(snd_bufsz)
  BY <1>2, PutRing, Sizes DEF Full
<1> QED
  BY <1>1, <1>2, <1>3

\* Where serial_rea_dat goes on.
LEMMA ReadingOn ==
  ASSUME NEW n \in Nat, NEW empty \in BOOLEAN
  PROVE  Reading(n, empty) =
           IF n > 0 THEN IF empty THEN "rea_wai" ELSE "rea_chr"
           ELSE IF empty THEN "out" ELSE "rea_sig"
<1>1. n > 0 \/ n = 0
  OBVIOUS
<1> QED
  BY <1>1 DEF Reading

LEMMA serial_wri_chrKeeps ==
  ASSUME IInv, NEW t \in Task, serial_wri_chr(t)
  PROVE  IInv'
<1>t. SerialTypeOK /\ CallInv /\ WaitersInv
  BY DEF IInv, RightsInv
<1> DEFINE cr   == NeedsCr(t)
           more == cr \/ Tail(text[t]) # << >>
           next == Written(t, more, Full')
           l    == IF cr THEN [local[t] EXCEPT !.cr = TRUE]
                   ELSE IF next = "ech_sig" THEN [local[t] EXCEPT !.cr = FALSE]
                   ELSE Fresh
<1>1. /\ at[t] \in {"wri_chr", "ech_chr"} /\ TaskRuns
      /\ at' = [at EXCEPT ![t] = next]
      /\ text' = [text EXCEPT ![t] = IF cr THEN text[t] ELSE Tail(text[t])]
      /\ local' = [local EXCEPT ![t] = l]
      /\ UNCHANGED << spcb, semcnt, ended, left, rcv >>
  BY DEF serial_wri_chr, Full
<1>2. Open
  BY <1>1, InCall
<1>u. /\ Units(semcnt["snd"], Full, Writers)
      /\ Units(semcnt["rcv"], rcv.count = 0, Readers)
      /\ ~spcb.errorflag /\ spcb.openflag
  BY <1>2, UnitsNow
<1>o. semcnt["snd"] = 0 /\ ~Full /\ Writers = {t}
  <2>1. t \in Writers
    BY <1>1 DEF Writers, In
  <2> QED
    BY <1>u, <2>1 DEF Units
<1>3. text[t] \in Seq(Char) /\ text[t] # << >> /\ NextChar(t) \in Char
  <2>1. text[t] \in Seq(Char) /\ text[t] # << >>
    BY <1>t, <1>1, OneChar DEF CallInv, CallPlace, EchoPlace, SerialTypeOK
  <2>2. Head(text[t]) \in Char
    BY <2>1
  <2> QED
    BY <2>1, <2>2 DEF NextChar, Char, Chars
<1>4. /\ snd' \in Ring(snd_bufsz)
      /\ txfull' \in BOOLEAN /\ cbr' \in SUBSET {"SND", "RCV"}
  <2>1. PICK reg \in Registers : SendOrStore(reg, NextChar(t))
    BY DEF serial_wri_chr
  <2>2. reg \in BOOLEAN
    BY <1>t DEF SerialTypeOK, Registers
  <2> QED
    BY <1>t, <1>o, <1>3, <2>1, <2>2, SendOrStoreKeeps
<1>5. ASSUME at[t] = "ech_chr", ~cr
      PROVE  ~more
  <2>1. PICK c \in Char : text[t] = << c >>
    BY <1>t, <1>5 DEF CallInv, EchoPlace
  <2> QED
    BY <1>5, <2>1, OneChar
<1>6. /\ local[t] \in Local /\ left[t] \in Nat
      /\ at \in [Task -> Place] /\ local \in [Task -> Local]
  BY <1>t, SerialAssumption DEF SerialTypeOK, Local
<1>7. /\ at[t] = "wri_chr" =>
           /\ more /\ ~Full' => next = "wri_chr"
           /\ more /\ Full' => next = "wri_wai"
           /\ ~more /\ ~Full' => next = "wri_sig"
           /\ ~more /\ Full' => next = "out"
      /\ at[t] = "ech_chr" =>
           /\ cr /\ ~Full' => next = "ech_chr"
           /\ cr /\ Full' => next = "ech_wai"
           /\ ~cr /\ ~Full' => next = "ech_sig"
           /\ ~cr /\ Full' => next = Reading(left[t], local[t].empty)
  BY <1>1, <1>5 DEF Written
<1>8. Reading(left[t], local[t].empty) =
        IF left[t] > 0 THEN IF local[t].empty THEN "rea_wai" ELSE "rea_chr"
        ELSE IF local[t].empty THEN "out" ELSE "rea_sig"
  BY <1>6, ReadingOn DEF Local
<1>9. /\ cr => l.empty = local[t].empty
      /\ ~cr /\ next = "ech_sig" => l.empty = local[t].empty
      /\ l \in Local
  BY <1>6 DEF Local, Fresh
<1>a. more <=> cr \/ Tail(text[t]) # << >>
  OBVIOUS
<1> HIDE DEF l, next, more, cr
<1>b. next \in Place
  BY <1>1, <1>7, <1>8, Zenon DEF Place
<1>c. SerialTypeOK'
  <2>1. at' \in [Task -> Place] /\ local' \in [Task -> Local]
    BY <1>1, <1>6, <1>9, <1>b
  <2>2. text' \in [Task -> Seq(Char)]
    BY <1>t, <1>1, <1>3 DEF SerialTypeOK
  <2> QED
    BY <1>t, <1>1, <1>4, <2>1, <2>2 DEF SerialTypeOK, Local
<1>d. CallInv'
  <2>1. ASSUME NEW u \in Task, u # t
        PROVE  at'[u] = at[u] /\ text'[u] = text[u] /\ left'[u] = left[u]
    BY <1>t, <1>1, <2>1 DEF SerialTypeOK
  <2>2. /\ at'[t] = next /\ left'[t] = left[t]
        /\ text'[t] = IF cr THEN text[t] ELSE Tail(text[t])
    BY <1>t, <1>1 DEF SerialTypeOK
  <2>3. next \in CallPlace => text'[t] # << >>
    BY <1>1, <1>3, <1>7, <1>8, <1>a, <2>2 DEF CallPlace
  <2>4. next \in EchoPlace => \E c \in Char : text'[t] = << c >>
    <3>1. next \in EchoPlace => cr /\ at[t] = "ech_chr"
      BY <1>1, <1>7, <1>8 DEF EchoPlace
    <3> QED
      BY <1>t, <2>2, <3>1 DEF CallInv, EchoPlace
  <2>5. next \in ReadPlace => left'[t] > 0
    BY <1>1, <1>7, <1>8, <2>2 DEF ReadPlace
  <2> QED
    BY <1>t, <2>1, <2>2, <2>3, <2>4, <2>5 DEF CallInv
<1>e. /\ Writers' = IF next \in WritePlace THEN Writers \union {t} ELSE Writers \ {t}
      /\ Readers' = IF Reads(next, l) THEN Readers \union {t} ELSE Readers \ {t}
      /\ \A d : Waiting(d)' = IF next \in Blocked(d) THEN Waiting(d) \union {t}
                                                    ELSE Waiting(d) \ {t}
  <2>1. \A u \in Task : local'[u] = IF u = t THEN l ELSE local[u]
    BY <1>1, <1>6
  <2> QED
    BY <1>1, <1>6, <2>1, MovesNext
<1>f. Writers' = IF Full' THEN {} ELSE {t}
  <2>1. next \in WritePlace <=> ~Full'
    BY <1>1, <1>7, <1>8 DEF WritePlace
  <2> QED
    BY <1>e, <1>o, <2>1
<1>g. Readers' = Readers
  <2>1. Reads(next, l) <=> Reads(at[t], local[t])
    BY <1>1, <1>7, <1>8, <1>9 DEF Reads
  <2>2. t \in Readers <=> Reads(at[t], local[t])
    BY <1>1 DEF Readers, In, Reads
  <2> QED
    BY <1>e, <2>1, <2>2
<1>h. RightsInv'
  <2>1. NeverInError' /\ ClosedInv'
    BY <1>u, <1>1 DEF NeverInError, ClosedInv
  <2>2. OneWriter'
    BY <1>o, <1>f, <1>1 DEF OneWriter, Units
  <2>3. OneReader'
    BY <1>u, <1>g, <1>1 DEF OneReader, Units
  <2>4. WaitersInv'
    <3>1. \A d : next \notin Blocked(d)
      BY <1>1, <1>7, <1>8 DEF Blocked
    <3> QED
      BY <1>t, <1>1, <1>e, <3>1 DEF WaitersInv
  <2> QED
    BY <2>1, <2>2, <2>3, <2>4 DEF RightsInv
<1> QED
  BY <1>c, <1>d, <1>h DEF IInv

LEMMA serial_rea_chrKeeps ==
  ASSUME IInv, NEW t \in Task, serial_rea_chr(t)
  PROVE  IInv'
<1>t. SerialTypeOK /\ CallInv /\ WaitersInv
  BY DEF IInv, RightsInv
<1> DEFINE echo == "ECHO" \in spcb.ioctl
           none == rcv'.count = 0
           next == IF echo THEN "ech_wai" ELSE Reading(left[t] - 1, none)
           l    == IF echo THEN [local[t] EXCEPT !.empty = none] ELSE local[t]
<1>1. /\ at[t] = "rea_chr" /\ TaskRuns
      /\ rcv' = Take(rcv, rcv_bufsz)
      /\ at' = [at EXCEPT ![t] = next]
      /\ left' = [left EXCEPT ![t] = left[t] - 1]
      /\ text' = IF echo THEN [text EXCEPT ![t] = << First(rcv) >>] ELSE text
      /\ local' = IF echo THEN [local EXCEPT ![t].empty = none] ELSE local
      /\ UNCHANGED << semcnt, ended, snd >>
  <2>1. left'[t] = left[t] - 1
    BY <1>t DEF serial_rea_chr, SerialTypeOK
  <2> QED
    BY <2>1 DEF serial_rea_chr
<1>2. Open
  BY <1>1, InCall
<1>u. /\ Units(semcnt["snd"], Full, Writers)
      /\ Units(semcnt["rcv"], rcv.count = 0, Readers)
      /\ ~spcb.errorflag /\ spcb.openflag
  BY <1>2, UnitsNow
<1>o. semcnt["rcv"] = 0 /\ rcv.count # 0 /\ Readers = {t} /\ t \notin Writers
  <2>1. t \in Readers /\ t \notin Writers
    BY <1>1 DEF Readers, Writers, In
  <2> QED
    BY <1>u, <2>1 DEF Units
<1>3. rcv' \in Ring(rcv_bufsz) /\ First(rcv) \in Char
  BY <1>t, <1>1, <1>o, TakeRing, Sizes DEF SerialTypeOK
<1>4. /\ spcb' \in Port
      /\ spcb'.openflag = spcb.openflag /\ spcb'.errorflag = spcb.errorflag
      /\ txfull' \in BOOLEAN /\ cbr' \in SUBSET {"SND", "RCV"}
  <2>1. PICK reg \in Registers :
          IF spcb.rcv_stopped /\ Take(rcv, rcv_bufsz).count <= BUFCNT_START(rcv_bufsz)
          THEN SendFlow(reg, "START", FALSE)
          ELSE SndNone(reg) /\ UNCHANGED spcb
    BY DEF serial_rea_chr
  <2>2. reg \in BOOLEAN
    BY <1>t DEF SerialTypeOK, Registers
  <2>3. CASE SendFlow(reg, "START", FALSE)
    <3>1. spcb' = [spcb EXCEPT !.rcv_stopped = FALSE,
                               !.rcv_fc_chr = IF reg THEN "START" ELSE @]
      BY <2>3 DEF SendFlow
    <3>2. txfull' \in BOOLEAN /\ cbr' \in SUBSET {"SND", "RCV"}
      BY <1>t, <2>2, <2>3 DEF SendFlow, SndChr, SerialTypeOK
    <3> QED
      BY <1>t, <2>2, <3>1, <3>2 DEF SerialTypeOK, Port, FlowChar
  <2>4. CASE SndNone(reg) /\ UNCHANGED spcb
    BY <1>t, <2>2, <2>4 DEF SndNone, SerialTypeOK
  <2> QED
    BY <2>1, <2>3, <2>4
<1>5. /\ left[t] \in 0 .. MaxLen /\ left[t] > 0
      /\ left[t] - 1 \in 0 .. MaxLen /\ left[t] - 1 \in Nat
      /\ local[t] \in Local
      /\ at \in [Task -> Place] /\ local \in [Task -> Local]
  BY <1>t, <1>1, SerialAssumption DEF SerialTypeOK, CallInv, ReadPlace, Local
<1>6. Reading(left[t] - 1, none) =
        IF left[t] - 1 > 0 THEN IF none THEN "rea_wai" ELSE "rea_chr"
        ELSE IF none THEN "out" ELSE "rea_sig"
  BY <1>5, ReadingOn
<1>7. /\ echo => next = "ech_wai"
      /\ ~echo => next = Reading(left[t] - 1, none)
      /\ echo => l.empty = none
      /\ l \in Local
      /\ \A u \in Task : local'[u] = IF u = t THEN l ELSE local[u]
  BY <1>1, <1>5 DEF Local
<1> HIDE DEF l, next, echo, none
<1>8. next \in Place
  BY <1>6, <1>7 DEF Place
<1>9. SerialTypeOK'
  <2>1. at' \in [Task -> Place]
    BY <1>1, <1>5, <1>8
  <2>2. local' \in [Task -> Local]
    <3>1. local' = [u \in Task |-> IF u = t THEN l ELSE local[u]]
      BY <1>1, <1>5, <1>7 DEF l, none
    <3> QED
      BY <1>5, <1>7, <3>1
  <2>3. text' \in [Task -> Seq(Char)] /\ left' \in [Task -> 0 .. MaxLen]
    BY <1>t, <1>1, <1>3, <1>5, OneChar DEF SerialTypeOK
  <2> QED
    BY <1>t, <1>1, <1>3, <1>4, <2>1, <2>2, <2>3 DEF SerialTypeOK, Local
<1>a. CallInv'
  <2>1. ASSUME NEW u \in Task, u # t
        PROVE  at'[u] = at[u] /\ text'[u] = text[u] /\ left'[u] = left[u]
    BY <1>t, <1>1, <2>1 DEF SerialTypeOK
  <2>2. /\ at'[t] = next /\ left'[t] = left[t] - 1
        /\ echo => text'[t] = << First(rcv) >>
    BY <1>t, <1>1 DEF SerialTypeOK
  <2>3. next \notin CallPlace
    BY <1>6, <1>7 DEF CallPlace
  <2>4. next \in EchoPlace => \E c \in Char : text'[t] = << c >>
    BY <1>3, <1>6, <1>7, <2>2 DEF EchoPlace
  <2>5. next \in ReadPlace => left'[t] > 0
    BY <1>6, <1>7, <2>2 DEF ReadPlace
  <2> QED
    BY <1>t, <2>1, <2>2, <2>3, <2>4, <2>5 DEF CallInv
<1>e. /\ Writers' = IF next \in WritePlace THEN Writers \union {t} ELSE Writers \ {t}
      /\ Readers' = IF Reads(next, l) THEN Readers \union {t} ELSE Readers \ {t}
      /\ \A d : Waiting(d)' = IF next \in Blocked(d) THEN Waiting(d) \union {t}
                                                    ELSE Waiting(d) \ {t}
  BY <1>1, <1>5, <1>7, MovesNext
<1>f. Writers' = Writers
  <2>1. next \notin WritePlace
    BY <1>6, <1>7 DEF WritePlace
  <2> QED
    BY <1>e, <1>o, <2>1
<1>g. Readers' = IF none THEN {} ELSE {t}
  <2>1. Reads(next, l) <=> ~none
    BY <1>6, <1>7 DEF Reads
  <2> QED
    BY <1>e, <1>o, <2>1
<1>h. RightsInv'
  <2>1. NeverInError' /\ ClosedInv'
    BY <1>u, <1>4 DEF NeverInError, ClosedInv
  <2>2. OneWriter'
    BY <1>u, <1>f, <1>1 DEF OneWriter, Units, Full
  <2>3. OneReader'
    BY <1>o, <1>g, <1>1 DEF OneReader, Units, none
  <2>4. WaitersInv'
    <3>1. \A d : next \notin Blocked(d)
      BY <1>6, <1>7 DEF Blocked
    <3> QED
      BY <1>t, <1>1, <1>e, <3>1 DEF WaitersInv
  <2> QED
    BY <2>1, <2>2, <2>3, <2>4 DEF RightsInv
<1> QED
  BY <1>9, <1>a, <1>h DEF IInv

LEMMA sig_semKeeps ==
  ASSUME IInv, NEW t \in Task, sig_sem(t)
  PROVE  IInv'
<1>t. SerialTypeOK /\ CallInv /\ WaitersInv
  BY DEF IInv, RightsInv
<1> DEFINE d    == IF at[t] = "rea_sig" THEN "rcv" ELSE "snd"
           next == IF at[t] = "ech_sig" /\ semcnt["snd"] = 0
                   THEN Reading(left[t], local[t].empty) ELSE "out"
           pos  == [at EXCEPT ![t] = next]
<1>1. /\ at[t] \in {"wri_sig", "ech_sig", "rea_sig"} /\ TaskRuns
      /\ Signal(d, pos, spcb)
      /\ left' = [left EXCEPT ![t] = IF next = "out" THEN 0 ELSE left[t]]
      /\ local' = [local EXCEPT ![t] = Fresh]
      /\ UNCHANGED << text, ended, rcv, snd, txfull, cbr >>
  BY DEF sig_sem, bufVars, deviceVars
<1>2. Open
  BY <1>1, InCall
<1>u. /\ Units(semcnt["snd"], Full, Writers)
      /\ Units(semcnt["rcv"], rcv.count = 0, Readers)
      /\ ~spcb.errorflag /\ spcb.openflag
  BY <1>2, UnitsNow
<1>o. /\ at[t] # "rea_sig" => semcnt["snd"] = 0 /\ ~Full /\ Writers = {t}
      /\ at[t] = "rea_sig" => semcnt["rcv"] = 0 /\ rcv.count # 0 /\ Readers = {t}
                              /\ t \notin Writers
  <2>1. at[t] # "rea_sig" => t \in Writers
    BY <1>1 DEF Writers, In
  <2>2. at[t] = "rea_sig" => t \in Readers /\ t \notin Writers
    BY <1>1 DEF Writers, Readers, In
  <2> QED
    BY <1>u, <2>1, <2>2 DEF Units
<1>5. /\ left[t] \in Nat /\ left[t] \in 0 .. MaxLen /\ 0 \in 0 .. MaxLen
      /\ local[t] \in Local /\ Fresh \in Local
      /\ at \in [Task -> Place] /\ local \in [Task -> Local]
  BY <1>t, SerialAssumption DEF SerialTypeOK, Local, Fresh
<1>6. Reading(left[t], local[t].empty) =
        IF left[t] > 0 THEN IF local[t].empty THEN "rea_wai" ELSE "rea_chr"
        ELSE IF local[t].empty THEN "out" ELSE "rea_sig"
  BY <1>5, ReadingOn DEF Local
<1>7. /\ at[t] = "ech_sig" => d = "snd" /\ next = Reading(left[t], local[t].empty)
      /\ at[t] = "wri_sig" => d = "snd" /\ next = "out"
      /\ at[t] = "rea_sig" => d = "rcv" /\ next = "out"
      /\ d \in {"rcv", "snd"}
  BY <1>1, <1>o
<1>p. /\ pos = [at EXCEPT ![t] = next]
      /\ \A u \in Task : pos[u] = IF u = t THEN next ELSE at[u]
  BY <1>5
<1> HIDE DEF next, pos, d
<1>8. next \in Place /\ pos \in [Task -> Place]
  BY <1>1, <1>5, <1>6, <1>7, <1>p DEF Place
<1>9. \A u \in Task : at[u] \in Blocked(d) => pos[u] = at[u]
  BY <1>1, <1>p DEF Blocked
<1>a. /\ WritersIn(pos) = Writers \ {t}
      /\ ReadersIn(pos, local') = IF at[t] = "rea_sig" THEN Readers \ {t} ELSE Readers
      /\ \A e : WaitingIn(pos, e) \subseteq Waiting(e)
  <2>1. next \in {"out", "rea_wai", "rea_chr", "rea_sig"}
    BY <1>1, <1>6, <1>7
  <2>2. WritersIn(pos) = WritersIn(at) \ {t}
    BY <1>p, <2>1 DEF WritersIn, WritePlace
  <2>3. ReadersIn(pos, local') =
          IF at[t] = "rea_sig" THEN ReadersIn(at, local) \ {t} ELSE ReadersIn(at, local)
    <3>1. Reads(next, Fresh) <=> at[t] # "rea_sig" /\ Reads(at[t], local[t])
      BY <1>1, <1>6, <1>7 DEF Reads
    <3>2. \A u \in Task : Reads(pos[u], local'[u]) <=>
            IF u = t THEN at[t] # "rea_sig" /\ Reads(at[t], local[t])
                     ELSE Reads(at[u], local[u])
      BY <1>1, <1>5, <1>p, <3>1
    <3> QED
      BY <3>2 DEF ReadersIn
  <2>4. ASSUME NEW e
        PROVE  WaitingIn(pos, e) \subseteq WaitingIn(at, e)
    BY <1>p, <2>1 DEF WaitingIn, Blocked
  <2> QED
    BY <2>2, <2>3, <2>4, Owners
<1>s. \/ \E w \in Task :
              /\ at[w] \in Blocked(d)
              /\ at' \in [Task -> Place] /\ at' = [pos EXCEPT ![w] = Beyond(at[w])]
              /\ spcb' = spcb /\ semcnt' = semcnt
              /\ WritersIn(at') = IF d = "snd" THEN WritersIn(pos) \union {w}
                                               ELSE WritersIn(pos)
              /\ \A k : ReadersIn(at', k) = IF d = "rcv" THEN ReadersIn(pos, k) \union {w}
                                                         ELSE ReadersIn(pos, k)
              /\ \A e : WaitingIn(at', e) \subseteq WaitingIn(pos, e)
      \/ /\ Waiting(d) = {} /\ at' = pos
         /\ semcnt' = [semcnt EXCEPT ![d] = 1]
         /\ spcb' = [spcb EXCEPT !.errorflag = @ \/ semcnt[d] = 1]
  BY <1>1, <1>5, <1>7, <1>8, <1>9, SignalMoves, Zenon
<1>b. \/ \E w \in Task :
              /\ at' \in [Task -> Place]
              /\ spcb' = spcb /\ semcnt' = semcnt
              /\ WritersIn(at') = IF d = "snd" THEN WritersIn(pos) \union {w}
                                               ELSE WritersIn(pos)
              /\ ReadersIn(at', local') = IF d = "rcv" THEN ReadersIn(pos, local') \union {w}
                                                       ELSE ReadersIn(pos, local')
              /\ \A e : WaitingIn(at', e) \subseteq WaitingIn(pos, e)
      \/ /\ Waiting(d) = {} /\ at' = pos
         /\ semcnt' = [semcnt EXCEPT ![d] = 1]
         /\ spcb' = [spcb EXCEPT !.errorflag = @ \/ semcnt[d] = 1]
  BY <1>s, Zenon
<1>c. /\ spcb' \in Port /\ semcnt' \in [{"rcv", "snd"} -> {0, 1}]
      /\ at' \in [Task -> Place]
      /\ spcb'.openflag /\ ~spcb'.errorflag
  <2>1. semcnt[d] # 1
    BY <1>1, <1>7, <1>o
  <2> QED
    BY <1>t, <1>u, <1>7, <1>8, <1>b, <2>1 DEF SerialTypeOK, Port
<1>d. SerialTypeOK'
  <2>1. local' \in [Task -> Local] /\ left' \in [Task -> 0 .. MaxLen]
    BY <1>t, <1>1, <1>5 DEF SerialTypeOK
  <2> QED
    BY <1>t, <1>1, <1>c, <2>1 DEF SerialTypeOK, Local
<1>e. CallInv'
  <2>1. \A u \in Task : /\ at'[u] \in CallPlace => pos[u] \in CallPlace
                        /\ at'[u] \in EchoPlace => pos[u] \in EchoPlace
                        /\ at'[u] \in ReadPlace => pos[u] \in ReadPlace
    BY <1>1, <1>7, <1>8, <1>9, SignalPlaces
  <2>2. /\ next \notin CallPlace /\ next \notin EchoPlace
        /\ next \in ReadPlace => left[t] > 0 /\ next # "out"
    BY <1>1, <1>6, <1>7 DEF CallPlace, EchoPlace, ReadPlace
  <2>3. \A u \in Task : /\ u # t => left'[u] = left[u]
                        /\ u = t /\ next # "out" => left'[u] = left[u]
    BY <1>t, <1>1 DEF SerialTypeOK
  <2> QED
    BY <1>t, <1>1, <1>p, <2>1, <2>2, <2>3 DEF CallInv
<1>f. RightsInv'
  <2>1. NeverInError' /\ ClosedInv'
    BY <1>c DEF NeverInError, ClosedInv
  <2>2. /\ Writers' = WritersIn(at') /\ Readers' = ReadersIn(at', local')
        /\ \A e : Waiting(e)' = WaitingIn(at', e)
    BY Owners
  <2>3. Full' = Full /\ rcv' = rcv
    BY <1>1 DEF Full
  <2>4. OneWriter' /\ OneReader'
    <3>1. CASE at[t] = "rea_sig"
      <4>1. d = "rcv" /\ semcnt["rcv"] = 0 /\ rcv.count # 0 /\ Readers = {t}
        BY <1>o, <1>7, <3>1
      <4>a. WritersIn(pos) = Writers
        BY <1>a, <1>o, <3>1
      <4>2. semcnt'["snd"] = semcnt["snd"] /\ WritersIn(at') = Writers
        BY <1>t, <1>b, <4>1, <4>a DEF SerialTypeOK
      <4>3. \/ semcnt'["rcv"] = 0 /\ \E w \in Task : ReadersIn(at', local') = {w}
            \/ semcnt'["rcv"] = 1 /\ ReadersIn(at', local') = {}
        BY <1>t, <1>a, <1>b, <3>1, <4>1 DEF SerialTypeOK
      <4> QED
        BY <1>u, <2>2, <2>3, <4>1, <4>2, <4>3 DEF OneWriter, OneReader, Units
    <3>2. CASE at[t] # "rea_sig"
      <4>1. d = "snd" /\ semcnt["snd"] = 0 /\ ~Full /\ Writers = {t}
        BY <1>1, <1>o, <1>7, <3>2
      <4>2. semcnt'["rcv"] = semcnt["rcv"] /\ ReadersIn(at', local') = Readers
        BY <1>t, <1>a, <1>b, <3>2, <4>1 DEF SerialTypeOK
      <4>3. \/ semcnt'["snd"] = 0 /\ \E w \in Task : WritersIn(at') = {w}
            \/ semcnt'["snd"] = 1 /\ WritersIn(at') = {}
        BY <1>t, <1>a, <1>b, <3>2, <4>1 DEF SerialTypeOK
      <4> QED
        BY <1>u, <2>2, <2>3, <4>1, <4>2, <4>3 DEF OneWriter, OneReader, Units
    <3> QED
      BY <3>1, <3>2
  <2>5. WaitersInv'
    BY <1>t, <1>7, <1>a, <1>b, <2>2 DEF WaitersInv, SerialTypeOK
  <2> QED
    BY <2>1, <2>4, <2>5 DEF RightsInv
<1> QED
  BY <1>d, <1>e, <1>f DEF IInv

----------------------------------------------------------------------------
(***************************************************************************)
(* The interrupts.                                                         *)
(***************************************************************************)
\* An interrupt changes the buffers, and no unit moves.
LEMMA InterruptStays ==
  ASSUME IInv, UNCHANGED << at, semcnt, ended, taskVars >>,
         spcb' \in Port,
         spcb'.openflag = spcb.openflag, spcb'.errorflag = spcb.errorflag,
         Full' <=> Full, rcv'.count = 0 <=> rcv.count = 0
  PROVE  CallInv' /\ RightsInv'
<1> USE DEF taskVars
<1>1. CallInv'
  BY DEF IInv, CallInv
<1>2. Writers' = Writers /\ Readers' = Readers
  BY DEF Writers, Readers, In
<1>3. OneWriter' /\ OneReader'
  BY <1>2 DEF IInv, RightsInv, OneWriter, OneReader, Open, Units
<1>4. NeverInError' /\ ClosedInv' /\ WaitersInv'
  BY DEF IInv, RightsInv, NeverInError, ClosedInv, WaitersInv, Waiting
<1> QED
  BY <1>1, <1>3, <1>4 DEF RightsInv

\* An interrupt brings the unit of direction d, which was in the buffer.
LEMMA InterruptSignals ==
  ASSUME IInv, NEW d \in {"rcv", "snd"}, NEW port \in Port,
         port.openflag = spcb.openflag, port.errorflag = spcb.errorflag,
         ~ended, d = "rcv" => spcb.openflag,
         Signal(d, at, port), UNCHANGED << ended, text, left, local >>,
         d = "snd" => Full /\ ~Full' /\ (rcv'.count = 0 <=> rcv.count = 0),
         d = "rcv" => rcv.count = 0 /\ rcv'.count # 0 /\ (Full' <=> Full)
  PROVE  /\ CallInv' /\ RightsInv'
         /\ at' \in [Task -> Place] /\ spcb' \in Port
         /\ semcnt' \in [{"rcv", "snd"} -> {0, 1}]
<1>t. /\ SerialTypeOK /\ CallInv /\ WaitersInv /\ ClosedInv /\ NeverInError
      /\ at \in [Task -> Place] /\ semcnt \in [{"rcv", "snd"} -> {0, 1}]
  BY DEF IInv, RightsInv, SerialTypeOK
<1>s. \/ \E w \in Task :
              /\ at[w] \in Blocked(d)
              /\ at' \in [Task -> Place] /\ at' = [at EXCEPT ![w] = Beyond(at[w])]
              /\ spcb' = port /\ semcnt' = semcnt
              /\ WritersIn(at') = IF d = "snd" THEN WritersIn(at) \union {w}
                                               ELSE WritersIn(at)
              /\ \A k : ReadersIn(at', k) = IF d = "rcv" THEN ReadersIn(at, k) \union {w}
                                                         ELSE ReadersIn(at, k)
              /\ \A e : WaitingIn(at', e) \subseteq WaitingIn(at, e)
      \/ /\ Waiting(d) = {} /\ at' = at
         /\ semcnt' = [semcnt EXCEPT ![d] = 1]
         /\ spcb' = [port EXCEPT !.errorflag = @ \/ semcnt[d] = 1]
  BY <1>t, SignalMoves, Zenon
<1>1. \/ /\ \E w \in Task :
              /\ at[w] \in Blocked(d)
              /\ Writers' = IF d = "snd" THEN Writers \union {w} ELSE Writers
              /\ Readers' = IF d = "rcv" THEN Readers \union {w} ELSE Readers
         /\ at' \in [Task -> Place] /\ spcb' = port /\ semcnt' = semcnt
         /\ \A e : Waiting(e)' \subseteq Waiting(e)
      \/ /\ Waiting(d) = {} /\ at' = at /\ Writers' = Writers /\ Readers' = Readers
         /\ \A e : Waiting(e)' = Waiting(e)
         /\ semcnt' = [semcnt EXCEPT ![d] = 1]
         /\ spcb' = [port EXCEPT !.errorflag = @ \/ semcnt[d] = 1]
  <2>1. local' = local
    OBVIOUS
  <2> QED
    BY <1>s, <2>1, Owners, Zenon
<1>2. /\ at' \in [Task -> Place] /\ spcb' \in Port
      /\ semcnt' \in [{"rcv", "snd"} -> {0, 1}]
      /\ spcb'.openflag = spcb.openflag
  BY <1>t, <1>1 DEF Port
<1>3. CallInv'
  <2>1. \A u \in Task : /\ at'[u] \in CallPlace => at[u] \in CallPlace
                        /\ at'[u] \in EchoPlace => at[u] \in EchoPlace
                        /\ at'[u] \in ReadPlace => at[u] \in ReadPlace
    BY <1>t, SignalPlaces
  <2> QED
    BY <1>t, <2>1 DEF CallInv
<1>4. WaitersInv'
  BY <1>t, <1>1 DEF WaitersInv
<1>5. CASE Open
  <2>u. /\ Units(semcnt["snd"], Full, Writers)
        /\ Units(semcnt["rcv"], rcv.count = 0, Readers)
        /\ ~spcb.errorflag /\ spcb.openflag
    BY <1>5, UnitsNow
  <2>1. semcnt[d] = 0
    BY <2>u DEF Units
  <2>2. NeverInError' /\ ClosedInv'
    BY <1>1, <1>2, <2>u, <2>1 DEF NeverInError, ClosedInv, Port
  <2>3. CASE d = "snd"
    <3>1. Writers = {} /\ semcnt["snd"] = 0
      BY <2>u, <2>3 DEF Units
    <3>2. semcnt'["rcv"] = semcnt["rcv"] /\ Readers' = Readers
      BY <1>t, <1>1, <2>3
    <3>3. \/ semcnt'["snd"] = 0 /\ \E w \in Task : Writers' = {w}
          \/ semcnt'["snd"] = 1 /\ Writers' = {}
      BY <1>t, <1>1, <2>3, <3>1
    <3>4. OneWriter' /\ OneReader'
      BY <2>u, <2>3, <3>2, <3>3 DEF OneWriter, OneReader, Units
    <3> QED
      BY <1>2, <1>3, <1>4, <2>2, <3>4 DEF RightsInv
  <2>4. CASE d = "rcv"
    <3>1. Readers = {} /\ semcnt["rcv"] = 0
      BY <2>u, <2>4 DEF Units
    <3>2. semcnt'["snd"] = semcnt["snd"] /\ Writers' = Writers
      BY <1>t, <1>1, <2>4
    <3>3. \/ semcnt'["rcv"] = 0 /\ \E w \in Task : Readers' = {w}
          \/ semcnt'["rcv"] = 1 /\ Readers' = {}
      BY <1>t, <1>1, <2>4, <3>1
    <3>4. OneWriter' /\ OneReader'
      BY <2>u, <2>4, <3>2, <3>3 DEF OneWriter, OneReader, Units
    <3> QED
      BY <1>2, <1>3, <1>4, <2>2, <3>4 DEF RightsInv
  <2> QED
    BY <1>2, <1>3, <2>3, <2>4
<1>6. CASE ~Open
  <2>1. /\ ~spcb.openflag /\ d = "snd" /\ semcnt = INITIAL_SEM
        /\ \A u \in Task : at[u] = "out"
    BY <1>t, <1>6 DEF Open, ClosedInv
  <2>2. at' = at /\ semcnt' = [semcnt EXCEPT !["snd"] = 1]
    BY <1>1, <2>1 DEF Blocked
  <2>3. semcnt' = INITIAL_SEM
    BY <2>1, <2>2 DEF INITIAL_SEM
  <2>4. ClosedInv' /\ OneWriter' /\ OneReader' /\ NeverInError'
    BY <1>2, <2>1, <2>2, <2>3 DEF ClosedInv, OneWriter, OneReader, Open, NeverInError
  <2> QED
    BY <1>2, <1>3, <1>4, <2>4 DEF RightsInv
<1> QED
  BY <1>5, <1>6

\* The first character goes from the send buffer to the register, with the
\* unit if the buffer was full.
LEMMA SentFirstKeeps ==
  ASSUME IInv, NEW port \in Port, ~ended, snd.count # 0,
         port.openflag = spcb.openflag, port.errorflag = spcb.errorflag,
         SentFirst, SignalIf(Full, "snd", at, port),
         UNCHANGED << ended, text, left, local >>
  PROVE  /\ snd' \in Ring(snd_bufsz) /\ rcv' = rcv
         /\ CallInv' /\ RightsInv'
         /\ at' \in [Task -> Place] /\ spcb' \in Port
         /\ semcnt' \in [{"rcv", "snd"} -> {0, 1}]
<1>t. SerialTypeOK /\ snd \in Ring(snd_bufsz) /\ snd.count \in 0 .. snd_bufsz
  BY DEF IInv, SerialTypeOK, Ring
<1>1. /\ snd' \in Ring(snd_bufsz) /\ snd'.count = snd.count - 1
      /\ rcv' = rcv
  BY <1>t, TakeRing, Sizes DEF SentFirst
<1>2. ~Full'
  <2>1. snd.count - 1 # snd_bufsz
    BY <1>t, Sizes
  <2> QED
    BY <1>1, <2>1 DEF Full
<1>3. CASE Full
  <2>1. Signal("snd", at, port)
    BY <1>3 DEF SignalIf
  <2> QED
    BY <1>1, <1>2, <1>3, <2>1, InterruptSignals
<1>4. CASE ~Full
  <2>1. at' = at /\ spcb' = port /\ semcnt' = semcnt
    BY <1>4 DEF SignalIf
  <2>2. CallInv' /\ RightsInv'
    BY <1>1, <1>2, <1>4, <2>1, InterruptStays DEF taskVars
  <2> QED
    BY <1>t, <1>1, <2>1, <2>2 DEF SerialTypeOK
<1> QED
  BY <1>3, <1>4

LEMMA sio_irdy_sndKeeps ==
  ASSUME IInv, sio_irdy_snd
  PROVE  IInv'
<1>t. SerialTypeOK
  BY DEF IInv
<1>1. ~ended /\ UNCHANGED << text, left, local, ended >>
  BY DEF sio_irdy_snd
<1>2. CASE /\ txfull' = TRUE
           /\ spcb' = [spcb EXCEPT !.rcv_fc_chr = NULL]
           /\ UNCHANGED << at, semcnt, bufVars, cbr >>
  <2>1. /\ spcb' \in Port
        /\ spcb'.openflag = spcb.openflag /\ spcb'.errorflag = spcb.errorflag
    BY <1>t, <1>2 DEF SerialTypeOK, Port
  <2>2. SerialTypeOK'
    BY <1>t, <1>1, <1>2, <2>1 DEF SerialTypeOK, bufVars
  <2>3. CallInv' /\ RightsInv'
    BY <1>1, <1>2, <2>1, InterruptStays DEF taskVars, bufVars, Full
  <2> QED
    BY <2>2, <2>3 DEF IInv
<1>3. CASE /\ snd.count > 0
           /\ txfull' = TRUE
           /\ SentFirst
           /\ SignalIf(Full, "snd", at, spcb)
           /\ UNCHANGED cbr
  <2>1. snd.count # 0 /\ spcb \in Port
    BY <1>t, <1>3 DEF SerialTypeOK
  <2>2. /\ snd' \in Ring(snd_bufsz) /\ rcv' = rcv
        /\ CallInv' /\ RightsInv'
        /\ at' \in [Task -> Place] /\ spcb' \in Port
        /\ semcnt' \in [{"rcv", "snd"} -> {0, 1}]
    BY <1>1, <1>3, <2>1, SentFirstKeeps
  <2>3. SerialTypeOK'
    BY <1>t, <1>1, <1>3, <2>2 DEF SerialTypeOK
  <2> QED
    BY <2>2, <2>3 DEF IInv
<1>4. CASE /\ cbr' = cbr \ {"SND"}
           /\ UNCHANGED << spcb, at, semcnt, bufVars, txfull >>
  <2>1. SerialTypeOK'
    BY <1>t, <1>1, <1>4 DEF SerialTypeOK, bufVars
  <2>2. CallInv' /\ RightsInv'
    BY <1>t, <1>1, <1>4, InterruptStays DEF taskVars, bufVars, Full, SerialTypeOK
  <2> QED
    BY <2>1, <2>2 DEF IInv
<1> QED
  BY <1>2, <1>3, <1>4 DEF sio_irdy_snd

LEMMA StoreKeeps ==
  ASSUME IInv, NEW c \in Char, ~ended, spcb.openflag, rcv.count # rcv_bufsz, Store(c),
         UNCHANGED << text, left, local, ended >>
  PROVE  IInv'
<1>t. SerialTypeOK /\ rcv \in Ring(rcv_bufsz) /\ rcv.count \in 0 .. rcv_bufsz
  BY DEF IInv, SerialTypeOK, Ring
<1> DEFINE stop == /\ "FCRCV" \in spcb.ioctl /\ ~spcb.rcv_stopped
                   /\ rcv.count + 1 >= BUFCNT_STOP(rcv_bufsz)
           port == IF ~stop THEN spcb
                   ELSE [spcb EXCEPT !.rcv_stopped = TRUE,
                                     !.rcv_fc_chr = IF ~txfull THEN @ ELSE "STOP"]
<1>1. /\ rcv' = Put(rcv, rcv_bufsz, c)
      /\ SignalIf(rcv.count = 0, "rcv", at, port)
      /\ IF stop THEN SndChr(txfull) ELSE UNCHANGED << txfull, cbr >>
      /\ UNCHANGED << snd, taken, sent >>
  BY DEF Store
<1>2. /\ port \in Port
      /\ port.openflag = spcb.openflag /\ port.errorflag = spcb.errorflag
  BY <1>t DEF SerialTypeOK, Port, FlowChar
<1>3. txfull' \in BOOLEAN /\ cbr' \in SUBSET {"SND", "RCV"}
  BY <1>t, <1>1 DEF SerialTypeOK, SndChr
<1> HIDE DEF stop, port
<1>4. rcv' \in Ring(rcv_bufsz) /\ rcv'.count = rcv.count + 1
  BY <1>t, <1>1, PutRing, Sizes
<1>5. rcv'.count # 0 /\ (Full' <=> Full)
  <2>1. rcv.count + 1 # 0
    BY <1>t, Sizes
  <2> QED
    BY <1>1, <1>4, <2>1 DEF Full
<1>6. /\ CallInv' /\ RightsInv'
      /\ at' \in [Task -> Place] /\ spcb' \in Port
      /\ semcnt' \in [{"rcv", "snd"} -> {0, 1}]
  <2>1. CASE rcv.count = 0
    <3>1. Signal("rcv", at, port)
      BY <1>1, <2>1 DEF SignalIf
    <3> QED
      BY <1>2, <1>5, <2>1, <3>1, InterruptSignals
  <2>2. CASE rcv.count # 0
    <3>1. at' = at /\ spcb' = port /\ semcnt' = semcnt
      BY <1>1, <2>2 DEF SignalIf
    <3>2. CallInv' /\ RightsInv'
      BY <1>2, <1>5, <2>2, <3>1, InterruptStays DEF taskVars
    <3> QED
      BY <1>t, <1>2, <3>1, <3>2 DEF SerialTypeOK
  <2> QED
    BY <2>1, <2>2
<1>7. SerialTypeOK'
  BY <1>t, <1>1, <1>3, <1>4, <1>6 DEF SerialTypeOK
<1> QED
  BY <1>6, <1>7 DEF IInv

LEMMA ResumeKeeps ==
  ASSUME IInv, ~ended, Resume, UNCHANGED << text, left, local, ended >>
  PROVE  IInv'
<1>t. SerialTypeOK /\ snd.count \in 0 .. snd_bufsz
  BY DEF IInv, SerialTypeOK, Ring
<1> DEFINE port == [spcb EXCEPT !.snd_stopped = FALSE]
<1>1. /\ port \in Port
      /\ port.openflag = spcb.openflag /\ port.errorflag = spcb.errorflag
  BY <1>t DEF SerialTypeOK, Port
<1>2. CASE spcb' = port /\ UNCHANGED << at, semcnt, bufVars >>
  <2>1. txfull' \in BOOLEAN /\ cbr' \in SUBSET {"SND", "RCV"}
    BY <1>t DEF Resume, SndChr, SerialTypeOK
  <2>2. SerialTypeOK'
    BY <1>t, <1>1, <1>2, <2>1 DEF SerialTypeOK, bufVars
  <2>3. CallInv' /\ RightsInv'
    BY <1>1, <1>2, InterruptStays DEF taskVars, bufVars, Full
  <2> QED
    BY <2>2, <2>3 DEF IInv
<1>3. CASE /\ snd.count # 0 /\ SndChr(txfull)
           /\ SentFirst /\ SignalIf(Full, "snd", at, port)
  <2>1. txfull' \in BOOLEAN /\ cbr' \in SUBSET {"SND", "RCV"}
    BY <1>t, <1>3 DEF SndChr, SerialTypeOK
  <2> HIDE DEF port
  <2>2. /\ snd' \in Ring(snd_bufsz) /\ rcv' = rcv
        /\ CallInv' /\ RightsInv'
        /\ at' \in [Task -> Place] /\ spcb' \in Port
        /\ semcnt' \in [{"rcv", "snd"} -> {0, 1}]
    BY <1>1, <1>3, SentFirstKeeps
  <2>3. SerialTypeOK'
    BY <1>t, <2>1, <2>2 DEF SerialTypeOK
  <2> QED
    BY <2>2, <2>3 DEF IInv
<1> QED
  BY <1>2, <1>3 DEF Resume

LEMMA sio_irdy_rcvKeeps ==
  ASSUME IInv, NEW c \in Line, sio_irdy_rcv(c)
  PROVE  IInv'
<1>t. SerialTypeOK
  BY DEF IInv
<1>1. ~ended /\ spcb.openflag /\ UNCHANGED << text, left, local, ended >>
  BY DEF sio_irdy_rcv
<1>2. CASE Stop
  <2>1. /\ spcb' \in Port
        /\ spcb'.openflag = spcb.openflag /\ spcb'.errorflag = spcb.errorflag
    BY <1>t, <1>2 DEF Stop, SerialTypeOK, Port
  <2>2. SerialTypeOK'
    BY <1>t, <1>1, <1>2, <2>1 DEF Stop, SerialTypeOK, bufVars
  <2>3. CallInv' /\ RightsInv'
    BY <1>1, <1>2, <2>1, InterruptStays DEF Stop, taskVars, bufVars, Full
  <2> QED
    BY <2>2, <2>3 DEF IInv
<1>3. CASE Resume
  BY <1>1, <1>3, ResumeKeeps
<1>4. CASE UNCHANGED << spcb, at, semcnt, bufVars, txfull, cbr >>
  <2>1. SerialTypeOK'
    BY <1>t, <1>1, <1>4 DEF SerialTypeOK, bufVars
  <2>2. CallInv' /\ RightsInv'
    BY <1>t, <1>1, <1>4, InterruptStays DEF taskVars, bufVars, Full, SerialTypeOK
  <2> QED
    BY <2>1, <2>2 DEF IInv
<1>5. CASE Stored(c) /\ Store(c)
  <2>1. rcv.count # rcv_bufsz
    BY <1>5 DEF Stored, Ignored
  <2>2. c \in Char
    BY DEF Char, Chars
  <2> QED
    BY <1>1, <1>5, <2>1, <2>2, StoreKeeps
<1> QED
  BY <1>2, <1>3, <1>4, <1>5 DEF sio_irdy_rcv

LEMMA serial_get_chrKeeps ==
  ASSUME IInv, serial_get_chr
  PROVE  IInv'
<1>t. SerialTypeOK /\ snd \in Ring(snd_bufsz) /\ snd.count # 0
  BY DEF IInv, SerialTypeOK, serial_get_chr
<1>1. snd' \in Ring(snd_bufsz) /\ rcv' = rcv
  BY <1>t, TakeRing, Sizes DEF serial_get_chr, SentFirst
<1>2. SerialTypeOK' /\ CallInv'
  BY <1>t, <1>1 DEF IInv, serial_get_chr, SerialTypeOK, CallInv, taskVars
<1>3. RightsInv'
  BY DEF IInv, RightsInv, OneWriter, OneReader, Open, NeverInError, ClosedInv, WaitersInv,
         Waiting, serial_get_chr, taskVars
<1> QED
  BY <1>2, <1>3 DEF IInv

----------------------------------------------------------------------------
LEMMA InitIInv == SerialInit => IInv
<1> SUFFICES ASSUME SerialInit PROVE IInv
  OBVIOUS
<1>r. /\ Empty(rcv_bufsz) \in Ring(rcv_bufsz) /\ Empty(rcv_bufsz).count = 0
      /\ Empty(snd_bufsz) \in Ring(snd_bufsz) /\ Empty(snd_bufsz).count = 0
  BY Sizes, EmptyRing
<1>1. SerialTypeOK
  <2>1. spcb \in Port /\ semcnt \in [{"rcv", "snd"} -> {0, 1}]
    BY DEF SerialInit, NoPort, Port, INITIAL_SEM
  <2>2. /\ at \in [Task -> Place] /\ text \in [Task -> Seq(Char)]
        /\ left \in [Task -> 0 .. MaxLen] /\ local \in [Task -> Local]
    BY SerialAssumption DEF SerialInit, Place, Fresh, Local
  <2> QED
    BY <1>r, <2>1, <2>2 DEF SerialInit, SerialTypeOK, Local
<1>2. CallInv
  BY DEF SerialInit, CallInv, CallPlace, EchoPlace, ReadPlace
<1>3. RightsInv
  BY DEF SerialInit, NoPort, RightsInv, OneWriter, OneReader, Open, NeverInError,
         ClosedInv, WaitersInv, Waiting, Blocked
<1> QED
  BY <1>1, <1>2, <1>3 DEF IInv

LEMMA NextIInv ==
  ASSUME "ech_blk" \notin Released, ~ClsRaces
  PROVE  IInv /\ [SerialNext]_serialVars => IInv'
<1> SUFFICES ASSUME IInv, [SerialNext]_serialVars
             PROVE  IInv'
  OBVIOUS
<1>1. ASSUME NEW t \in Task, TaskStep(t)
      PROVE  IInv'
  BY <1>1, wai_semKeeps, serial_wri_chrKeeps, serial_rea_chrKeeps, sig_semKeeps DEF TaskStep
<1>2. ASSUME NEW t \in Task, TaskCall(t)
      PROVE  IInv'
  BY <1>2, serial_wri_datKeeps, serial_rea_datKeeps, serial_opn_porKeeps,
     serial_cls_porKeeps, serial_ctl_porKeeps, rel_waiKeeps DEF TaskCall
<1>3. CASE \E c \in Line : sio_irdy_rcv(c)
  BY <1>3, sio_irdy_rcvKeeps
<1>4. CASE sio_irdy_snd \/ Transmitted
  BY <1>4, sio_irdy_sndKeeps, TransmittedKeeps
<1>5. CASE ext_ker \/ serial_get_chr
  BY <1>5, ext_kerKeeps, serial_get_chrKeeps
<1>6. CASE UNCHANGED serialVars
  <2> USE DEF serialVars, taskVars, bufVars, deviceVars
  <2>1. SerialTypeOK' /\ CallInv'
    BY <1>6 DEF IInv, SerialTypeOK, CallInv
  <2>2. OneWriter' /\ OneReader'
    <3>1. Writers' = Writers /\ Readers' = Readers
      BY <1>6 DEF Writers, Readers, In
    <3> QED
      BY <1>6, <3>1 DEF IInv, RightsInv, OneWriter, OneReader, Open, Full, Units
  <2>3. NeverInError' /\ ClosedInv' /\ WaitersInv'
    BY <1>6 DEF IInv, RightsInv, NeverInError, ClosedInv, WaitersInv, Waiting
  <2> QED
    BY <2>1, <2>2, <2>3 DEF IInv, RightsInv
<1> QED
  BY <1>1, <1>2, <1>3, <1>4, <1>5, <1>6 DEF SerialNext

LEMMA IInvHolds ==
  ASSUME "ech_blk" \notin Released, ~ClsRaces
  PROVE  SerialSpec => []IInv
BY InitIInv, NextIInv, PTL DEF SerialSpec

----------------------------------------------------------------------------
(***************************************************************************)
(* Writing implements a channel.  For that the pointers of a ring must be  *)
(* count cells apart, and what is read must be a character of the line.    *)
(***************************************************************************)
\* The index i cells behind ptr.
Behind(ptr, i, size) ==
  IF ptr + i >= size THEN ptr + i - size ELSE ptr + i

PtrInv(ring, size) == ring.write_ptr = Behind(ring.read_ptr, ring.count, size)

\* The i-th cell behind the read pointer.
Cell(ring, size, i) == ring.buffer[Behind(ring.read_ptr, i, size)]

LineInv ==
  /\ PtrInv(rcv, rcv_bufsz) /\ PtrInv(snd, snd_bufsz)
  /\ \A i \in 0 .. rcv.count - 1 : Cell(rcv, rcv_bufsz, i) \in Chars
  /\ \A t \in Task : text[t] \in Seq(Chars)

LEMMA ModOnce ==
  ASSUME NEW n \in Nat, NEW x \in Nat
  PROVE  /\ x < n => x % n = x
         /\ n <= x /\ x < n + n => x % n = x - n
OBVIOUS

\* What is put in becomes the last cell, and the others keep what they hold.
LEMMA PutCells ==
  ASSUME NEW size \in 1 .. 255, NEW ring \in Ring(size), NEW c \in Char,
         ring.count # size, PtrInv(ring, size)
  PROVE  /\ PtrInv(Put(ring, size, c), size)
         /\ \A i \in 0 .. ring.count - 1 :
              Cell(Put(ring, size, c), size, i) = Cell(ring, size, i)
         /\ Cell(Put(ring, size, c), size, ring.count) = c
<1> DEFINE r == Put(ring, size, c)
           n == ring.count
           a == ring.read_ptr
<1>1. /\ ring.read_ptr \in 0 .. size - 1 /\ ring.write_ptr \in 0 .. size - 1
      /\ ring.count \in 0 .. size - 1 /\ ring.buffer \in [0 .. size - 1 -> Char]
  BY DEF Ring
<1>2. r.count = n + 1
  BY PutRing
<1>3. /\ r.read_ptr = a /\ r.write_ptr = INC_PTR(ring.write_ptr, size)
      /\ r.buffer = [ring.buffer EXCEPT ![ring.write_ptr] = c]
  BY DEF Put, Ring
<1>4. ring.write_ptr = Behind(a, n, size)
  BY DEF PtrInv
<1> HIDE DEF r, n, a
<1>5. a \in 0 .. size - 1 /\ n \in 0 .. size - 1
  BY <1>1 DEF a, n
<1>6. r.write_ptr = Behind(a, (n + 1), size)
  BY <1>3, <1>4, <1>5 DEF Behind, INC_PTR
<1>7. PtrInv(r, size)
  BY <1>2, <1>3, <1>6 DEF PtrInv
<1>8. ASSUME NEW i \in 0 .. n - 1 PROVE Cell(r, size, i) = Cell(ring, size, i)
  <2>1. i \in 0 .. size - 1 /\ i # n
    BY <1>5
  <2>2. Behind(a, i, size) # Behind(a, n, size) /\ Behind(a, i, size) \in 0 .. size - 1
    BY <2>1, <1>5 DEF Behind
  <2>3. QED
    BY <1>1, <1>3, <1>4, <2>2 DEF Cell, a
<1>9. Cell(r, size, n) = c
  BY <1>1, <1>3, <1>4 DEF Cell
<1>10. QED
  BY <1>7, <1>8, <1>9 DEF r, n

\* What is taken was the first cell, and the others move up by one.
LEMMA TakeCells ==
  ASSUME NEW size \in 1 .. 255, NEW ring \in Ring(size), ring.count # 0,
         PtrInv(ring, size)
  PROVE  /\ PtrInv(Take(ring, size), size)
         /\ \A i \in 0 .. ring.count - 2 :
              Cell(Take(ring, size), size, i) = Cell(ring, size, i + 1)
         /\ First(ring) = Cell(ring, size, 0)
<1> DEFINE r == Take(ring, size)
           n == ring.count
           a == ring.read_ptr
<1>1. /\ a \in 0 .. size - 1 /\ n \in 1 .. size
      /\ ring.buffer \in [0 .. size - 1 -> Char]
  BY DEF Ring
<1>2. r.count = n - 1
  BY TakeRing
<1>3. /\ r.read_ptr = INC_PTR(a, size) /\ r.write_ptr = ring.write_ptr
      /\ r.buffer = [ring.buffer EXCEPT ![a] = NULL]
  BY DEF Take, Ring
<1>4. ring.write_ptr = Behind(a, n, size)
  BY DEF PtrInv
<1>5. First(ring) = ring.buffer[a]
  BY DEF First
<1> HIDE DEF r, n
<1>6. n - 1 \in 0 .. size - 1 /\ n - 1 + 1 = n
  BY <1>1
<1>7. Behind(INC_PTR(a, size), (n - 1), size) = Behind(a, n, size)
  <2> HIDE DEF a
  <2>1. Behind(INC_PTR(a, size), (n - 1), size) = Behind(a, (n - 1 + 1), size)
    BY <1>1, <1>6 DEF Behind, INC_PTR
  <2>2. QED
    BY <1>6, <2>1
<1>8. PtrInv(r, size)
  BY <1>2, <1>3, <1>4, <1>7 DEF PtrInv
<1>9. ASSUME NEW i \in 0 .. n - 2 PROVE Cell(r, size, i) = Cell(ring, size, i + 1)
  <2> HIDE DEF a
  <2>1. i \in 0 .. size - 1 /\ i + 1 \in 0 .. size - 1 /\ i + 1 # 0
        /\ 0 \in 0 .. size - 1
    BY <1>1
  <2>2. Behind(INC_PTR(a, size), i, size) = Behind(a, (i + 1), size)
    BY <2>1, <1>1 DEF Behind, INC_PTR
  <2>3. /\ Behind(a, (i + 1), size) # Behind(a, 0, size)
        /\ Behind(a, (i + 1), size) \in 0 .. size - 1
    BY <2>1, <1>1 DEF Behind, INC_PTR
  <2>4. Behind(a, 0, size) = a
    BY <2>1, <1>1 DEF Behind, INC_PTR
  <2>5. QED
    BY <1>1, <1>3, <2>2, <2>3, <2>4 DEF Cell, a
<1>10. First(ring) = Cell(ring, size, 0)
  <2> HIDE DEF a
  <2>1. Behind(a, 0, size) = a
    BY <1>1 DEF Behind
  <2>2. QED
    BY <1>5, <2>1 DEF Cell, a
<1>11. QED
  BY <1>8, <1>9, <1>10 DEF r, n

\* The contents of a ring are the cells from the read pointer on.
LEMMA ContentsAre ==
  ASSUME NEW size \in 1 .. 255, NEW ring \in Ring(size)
  PROVE  /\ Contents(ring, size) \in Seq(Char)
         /\ Len(Contents(ring, size)) = ring.count
         /\ \A i \in 1 .. ring.count :
              Contents(ring, size)[i] = Cell(ring, size, i - 1)
<1>1. /\ ring.read_ptr \in 0 .. size - 1 /\ ring.count \in 0 .. size
      /\ ring.buffer \in [0 .. size - 1 -> Char]
  BY DEF Ring
<1>2. ASSUME NEW i \in 1 .. ring.count
      PROVE  /\ (ring.read_ptr + i - 1) % size = Behind(ring.read_ptr, (i - 1), size)
             /\ Behind(ring.read_ptr, (i - 1), size) \in 0 .. size - 1
  <2> DEFINE a == ring.read_ptr
             b == i - 1
  <2>1. a \in 0 .. size - 1 /\ b \in 0 .. size - 1 /\ a + i - 1 = a + b
    BY <1>1
  <2> HIDE DEF a, b
  <2>x. a + b \in Nat /\ size \in Nat /\ a + b < size + size
    BY <2>1
  <2>2. a + b < size => (a + b) % size = a + b
    BY <2>x, ModOnce
  <2>3. size <= a + b => (a + b) % size = (a + b) - size
    BY <2>x, ModOnce
  <2>4. (a + b) % size = Behind(a, b, size) /\ Behind(a, b, size) \in 0 .. size - 1
    BY <2>1, <2>2, <2>3 DEF Behind
  <2>5. QED
    BY <2>1, <2>4 DEF a, b
<1>3. Contents(ring, size)
        = [i \in 1 .. ring.count |-> Cell(ring, size, i - 1)]
  BY <1>2 DEF Contents, Cell
<1>4. \A i \in 1 .. ring.count : Cell(ring, size, i - 1) \in Char
  BY <1>1, <1>2 DEF Cell
<1>5. QED
  BY <1>1, <1>3, <1>4

LEMMA PutContents ==
  ASSUME NEW size \in 1 .. 255, NEW ring \in Ring(size), NEW c \in Char,
         ring.count # size, PtrInv(ring, size)
  PROVE  Contents(Put(ring, size, c), size) = Append(Contents(ring, size), c)
<1> DEFINE r == Put(ring, size, c)
           s == Contents(ring, size)
           u == Contents(r, size)
<1>1. r \in Ring(size) /\ r.count = ring.count + 1
  BY PutRing
<1>2. /\ s \in Seq(Char) /\ Len(s) = ring.count
      /\ \A i \in 1 .. ring.count : s[i] = Cell(ring, size, i - 1)
  BY ContentsAre
<1>3. /\ u \in Seq(Char) /\ Len(u) = r.count
      /\ \A i \in 1 .. r.count : u[i] = Cell(r, size, i - 1)
  BY <1>1, ContentsAre
<1>4. /\ \A i \in 0 .. ring.count - 1 : Cell(r, size, i) = Cell(ring, size, i)
      /\ Cell(r, size, ring.count) = c
  BY PutCells
<1> HIDE DEF r, s, u
<1>5. ring.count \in Nat
  BY DEF Ring
<1>6. Append(s, c) \in Seq(Char) /\ Len(Append(s, c)) = Len(u)
  BY <1>1, <1>2, <1>3
<1>7. ASSUME NEW i \in 1 .. Len(u) PROVE u[i] = Append(s, c)[i]
  <2>1. CASE i = ring.count + 1
    BY <1>1, <1>2, <1>3, <1>4, <1>5, <2>1
  <2>2. CASE i # ring.count + 1
    <3>1. i \in 1 .. ring.count /\ i - 1 \in 0 .. ring.count - 1
      BY <1>1, <1>3, <1>5, <2>2
    <3>2. u[i] = s[i]
      BY <1>1, <1>2, <1>3, <1>4, <3>1
    <3>3. QED
      BY <1>2, <3>1, <3>2
  <2>3. QED
    BY <2>1, <2>2
<1>8. u = Append(s, c)
  BY <1>3, <1>6, <1>7, SeqEqual
<1>9. QED
  BY <1>8 DEF r, s, u

LEMMA TakeContents ==
  ASSUME NEW size \in 1 .. 255, NEW ring \in Ring(size), ring.count # 0,
         PtrInv(ring, size)
  PROVE  /\ Contents(ring, size) # << >>
         /\ First(ring) = Head(Contents(ring, size))
         /\ Contents(Take(ring, size), size) = Tail(Contents(ring, size))
<1> DEFINE r == Take(ring, size)
           s == Contents(ring, size)
           u == Contents(r, size)
<1>1. r \in Ring(size) /\ r.count = ring.count - 1
  BY TakeRing
<1>2. /\ s \in Seq(Char) /\ Len(s) = ring.count
      /\ \A i \in 1 .. ring.count : s[i] = Cell(ring, size, i - 1)
  BY ContentsAre
<1>3. /\ u \in Seq(Char) /\ Len(u) = r.count
      /\ \A i \in 1 .. r.count : u[i] = Cell(r, size, i - 1)
  BY <1>1, ContentsAre
<1>4. /\ \A i \in 0 .. ring.count - 2 : Cell(r, size, i) = Cell(ring, size, i + 1)
      /\ First(ring) = Cell(ring, size, 0)
  BY TakeCells
<1> HIDE DEF r, s, u
<1>5. ring.count \in Nat \ {0}
  BY DEF Ring
<1>6. s # << >> /\ Head(s) = s[1]
  BY <1>2, <1>5
<1>7. First(ring) = Head(s)
  BY <1>2, <1>4, <1>5, <1>6
<1>8. /\ Tail(s) \in Seq(Char) /\ Len(Tail(s)) = Len(s) - 1
      /\ \A i \in 1 .. Len(Tail(s)) : Tail(s)[i] = s[i + 1]
  BY <1>2, <1>6, HeadTailProperties
<1>9. Len(Tail(s)) = Len(u)
  BY <1>1, <1>2, <1>3, <1>8
<1>10. ASSUME NEW i \in 1 .. Len(u) PROVE u[i] = Tail(s)[i]
  <2>1. i + 1 \in 1 .. ring.count /\ i - 1 \in 0 .. ring.count - 2 /\ i \in 1 .. r.count
        /\ i - 1 + 1 = i + 1 - 1
    BY <1>1, <1>3, <1>5
  <2>2. u[i] = Cell(ring, size, i + 1 - 1)
    BY <1>3, <1>4, <2>1
  <2>3. QED
    BY <1>2, <1>8, <1>9, <2>1, <2>2
<1>11. u = Tail(s)
  BY <1>3, <1>8, <1>9, <1>10, SeqEqual
<1>12. QED
  BY <1>6, <1>7, <1>11 DEF r, s, u

\* What a step does to the send buffer, as Outward sees it.
Kept(c) ==
  /\ ~Full /\ snd' = Put(snd, snd_bufsz, c)
  /\ sent' = 1 - sent /\ UNCHANGED taken

Passed(c) ==
  /\ snd.count = 0 /\ taken' = c
  /\ sent' = 1 - sent /\ UNCHANGED snd

Drained ==
  /\ snd.count # 0 /\ snd' = Take(snd, snd_bufsz)
  /\ taken' = First(snd) /\ UNCHANGED sent

Cleared == snd' = Empty(snd_bufsz) /\ UNCHANGED << taken, sent >>

SndStep ==
  \/ UNCHANGED << snd, taken, sent >>
  \/ \E c \in Chars : Kept(c) \/ Passed(c)
  \/ Drained
  \/ Cleared

\* And to the receive buffer.
RcvStep ==
  \/ UNCHANGED rcv
  \/ \E c \in Chars : rcv.count # rcv_bufsz /\ rcv' = Put(rcv, rcv_bufsz, c)
  \/ rcv.count # 0 /\ rcv' = Take(rcv, rcv_bufsz)
  \/ rcv' = Empty(rcv_bufsz)

TextStep == \A t \in Task : text'[t] \in Seq(Chars)

LEMMA CharsFacts == Chars \subseteq Char /\ "CR" \in Chars /\ Line \subseteq Chars
BY DEF Chars, Char

LEMMA TailOfText ==
  ASSUME NEW s \in Seq(Chars), s # << >>
  PROVE  Head(s) \in Chars /\ Tail(s) \in Seq(Chars)
OBVIOUS

\* A task that writes or reads finds room, or a character.
LEMMA RoomAndChar ==
  ASSUME IInv, TaskRuns, NEW t \in Task
  PROVE  /\ at[t] \in {"wri_chr", "ech_chr"} => ~Full /\ text[t] # << >>
         /\ at[t] = "rea_chr" => rcv.count # 0
<1>1. ASSUME at[t] \in {"wri_chr", "ech_chr"} PROVE ~Full /\ text[t] # << >>
  <2>1. t \in Writers /\ Open
    BY <1>1, InCall DEF Writers, In
  <2>2. Units(semcnt["snd"], Full, Writers)
    BY <2>1, UnitsNow
  <2>3. ~Full
    BY <2>1, <2>2 DEF Units
  <2>4. text[t] # << >>
    <3>1. CallInv
      BY DEF IInv
    <3>2. CASE at[t] = "wri_chr"
      BY <3>1, <3>2 DEF CallInv, CallPlace
    <3>3. CASE at[t] = "ech_chr"
      <4>1. PICK c \in Char : text[t] = << c >>
        BY <3>1, <3>3 DEF CallInv, EchoPlace
      <4>2. QED
        BY <4>1, OneChar
    <3>4. QED
      BY <1>1, <3>2, <3>3
  <2>5. QED
    BY <2>3, <2>4
<1>2. ASSUME at[t] = "rea_chr" PROVE rcv.count # 0
  <2>1. t \in Readers /\ Open
    BY <1>2, InCall DEF Readers, In
  <2>2. Units(semcnt["rcv"], rcv.count = 0, Readers)
    BY <2>1, UnitsNow
  <2>3. QED
    BY <2>1, <2>2 DEF Units
<1>3. QED
  BY <1>1, <1>2

LEMMA WriteSteps ==
  ASSUME IInv, LineInv, NEW t \in Task, serial_wri_chr(t)
  PROVE  SndStep /\ RcvStep /\ TextStep
<1>1. ~Full /\ text[t] # << >>
  BY RoomAndChar DEF serial_wri_chr
<1>2. text[t] \in Seq(Chars)
  BY DEF LineInv
<1>3. NextChar(t) \in Chars
  BY <1>1, <1>2, TailOfText, CharsFacts DEF NextChar
<1>4. PICK reg \in Registers : SendOrStore(reg, NextChar(t))
  BY DEF serial_wri_chr
<1>5. sent' = 1 - sent /\ UNCHANGED rcv
  BY DEF serial_wri_chr
<1>6. Kept(NextChar(t)) \/ Passed(NextChar(t))
  BY <1>1, <1>4, <1>5 DEF SendOrStore, Kept, Passed
<1>7. TextStep
  <2>1. text' = [text EXCEPT ![t] = IF NeedsCr(t) THEN @ ELSE Tail(@)]
    BY DEF serial_wri_chr
  <2>2. Tail(text[t]) \in Seq(Chars) /\ \A u \in Task : text[u] \in Seq(Chars)
    BY <1>1, <1>2, TailOfText DEF LineInv
  <2>3. DOMAIN text = Task
    BY DEF IInv, SerialTypeOK
  <2>4. QED
    BY <2>1, <2>2, <2>3 DEF TextStep
<1>8. QED
  BY <1>3, <1>5, <1>6, <1>7 DEF SndStep, RcvStep

LEMMA ReadSteps ==
  ASSUME IInv, LineInv, NEW t \in Task, serial_rea_chr(t)
  PROVE  SndStep /\ RcvStep /\ TextStep
<1>1. rcv.count # 0
  BY RoomAndChar DEF serial_rea_chr
<1>2. /\ rcv' = Take(rcv, rcv_bufsz) /\ UNCHANGED << snd, taken, sent >>
      /\ text' = [text EXCEPT ![t] = << First(rcv) >>] \/ UNCHANGED text
  BY DEF serial_rea_chr
<1>3. First(rcv) \in Chars
  <2>1. rcv \in Ring(rcv_bufsz) /\ PtrInv(rcv, rcv_bufsz)
    BY DEF IInv, SerialTypeOK, LineInv
  <2>2. First(rcv) = Cell(rcv, rcv_bufsz, 0)
    BY <1>1, <2>1, TakeCells, Sizes
  <2>3. 0 \in 0 .. rcv.count - 1
    BY <1>1, <2>1 DEF Ring
  <2>4. QED
    BY <2>2, <2>3 DEF LineInv
<1>4. << First(rcv) >> \in Seq(Chars)
  BY <1>3
<1>5. TextStep
  BY <1>2, <1>4 DEF TextStep, LineInv, IInv, SerialTypeOK
<1>6. QED
  BY <1>1, <1>2, <1>5 DEF SndStep, RcvStep

LEMMA ReceiveSteps ==
  ASSUME IInv, LineInv, NEW c \in Line, sio_irdy_rcv(c)
  PROVE  SndStep /\ RcvStep /\ TextStep
<1>1. TextStep
  BY DEF sio_irdy_rcv, TextStep, LineInv
<1>2. CASE Stops(c) /\ Stop
  BY <1>1, <1>2 DEF Stop, bufVars, SndStep, RcvStep
<1>3. CASE Resume
  <2>1. UNCHANGED bufVars \/ (snd.count # 0 /\ SentFirst)
    BY <1>3 DEF Resume
  <2>2. QED
    BY <1>1, <2>1 DEF bufVars, SentFirst, Drained, SndStep, RcvStep
<1>4. CASE UNCHANGED bufVars
  BY <1>1, <1>4 DEF bufVars, SndStep, RcvStep
<1>5. CASE Stored(c) /\ Store(c)
  <2>1. rcv.count # rcv_bufsz /\ c \in Chars
    BY <1>5, CharsFacts DEF Stored, Ignored
  <2>2. rcv' = Put(rcv, rcv_bufsz, c) /\ UNCHANGED << snd, taken, sent >>
    BY <1>5 DEF Store
  <2>3. QED
    BY <1>1, <2>1, <2>2 DEF SndStep, RcvStep
<1>6. QED
  BY <1>2, <1>3, <1>4, <1>5 DEF sio_irdy_rcv

LEMMA SendSteps ==
  ASSUME IInv, LineInv, sio_irdy_snd \/ serial_get_chr
  PROVE  SndStep /\ RcvStep /\ TextStep
<1>1. TextStep
  BY DEF sio_irdy_snd, serial_get_chr, taskVars, TextStep, LineInv
<1>2. UNCHANGED bufVars \/ (snd.count > 0 /\ SentFirst)
  BY DEF sio_irdy_snd, serial_get_chr
<1>3. snd.count > 0 => snd.count # 0
  BY DEF IInv, SerialTypeOK, Ring
<1>4. QED
  BY <1>1, <1>2, <1>3 DEF bufVars, SentFirst, Drained, SndStep, RcvStep

LEMMA OtherSteps ==
  ASSUME IInv, LineInv, NEW t \in Task, wai_sem(t) \/ sig_sem(t) \/ TaskCall(t)
  PROVE  SndStep /\ RcvStep /\ TextStep
<1> USE DEF bufVars, taskVars, deviceVars
<1>0. << >> \in Seq(Chars) /\ (\A u \in Task : text[u] \in Seq(Chars))
      /\ text \in [Task -> Seq(Char)]
  BY DEF LineInv, IInv, SerialTypeOK
<1>1. CASE wai_sem(t) \/ sig_sem(t) \/ serial_ctl_por(t)
  BY <1>0, <1>1 DEF wai_sem, sig_sem, serial_ctl_por, SndStep, RcvStep, TextStep
<1>2. CASE serial_opn_por(t)
  BY <1>0, <1>2 DEF serial_opn_por, SndStep, Cleared, RcvStep, TextStep
<1>3. ASSUME NEW s \in Text, serial_wri_dat(t, s)
      PROVE  SndStep /\ RcvStep /\ TextStep
  <2>1. s \in Seq(Chars)
    BY SerialAssumption
  <2>2. QED
    BY <1>0, <1>3, <2>1 DEF serial_wri_dat, SndStep, RcvStep, TextStep
<1>4. ASSUME NEW len \in 1 .. MaxLen, serial_rea_dat(t, len)
      PROVE  SndStep /\ RcvStep /\ TextStep
  BY <1>0, <1>4 DEF serial_rea_dat, SndStep, RcvStep, TextStep
<1>5. CASE rel_wai(t)
  BY <1>0, <1>5 DEF rel_wai, SndStep, RcvStep, TextStep
<1>6. CASE serial_cls_por(t)
  BY <1>0, <1>6 DEF serial_cls_por, SndStep, RcvStep, TextStep
<1>7. QED
  BY <1>1, <1>2, <1>3, <1>4, <1>5, <1>6 DEF TaskCall

LEMMA AllSteps ==
  ASSUME IInv, LineInv, [SerialNext]_serialVars
  PROVE  SndStep /\ RcvStep /\ (TextStep \/ UNCHANGED text)
<1>1. CASE UNCHANGED serialVars
  BY <1>1 DEF serialVars, bufVars, taskVars, SndStep, RcvStep
<1>2. CASE \E t \in Task : TaskStep(t) \/ TaskCall(t)
  BY <1>2, WriteSteps, ReadSteps, OtherSteps DEF TaskStep
<1>3. CASE \E c \in Line : sio_irdy_rcv(c)
  BY <1>3, ReceiveSteps
<1>4. CASE sio_irdy_snd \/ serial_get_chr
  BY <1>4, SendSteps
<1>5. CASE Transmitted \/ ext_ker
  <2>1. UNCHANGED << rcv, snd, taken, sent >>
    BY <1>5 DEF Transmitted, ext_ker, bufVars
  <2>2. TextStep \/ UNCHANGED text
    <3>1. << >> \in Seq(Chars)
      OBVIOUS
    <3>2. QED
      BY <1>5, <3>1 DEF Transmitted, ext_ker, taskVars, TextStep
  <2>3. QED
    BY <2>1, <2>2 DEF SndStep, RcvStep
<1>6. QED
  BY <1>1, <1>2, <1>3, <1>4, <1>5 DEF SerialNext

LEMMA LineKeeps ==
  ASSUME IInv, LineInv, [SerialNext]_serialVars
  PROVE  LineInv'
<1>t. rcv \in Ring(rcv_bufsz) /\ snd \in Ring(snd_bufsz)
  BY DEF IInv, SerialTypeOK
<1>e. ASSUME NEW size \in 1 .. 255
      PROVE  PtrInv(Empty(size), size)
  BY DEF PtrInv, Empty, Behind
<1>1. PtrInv(snd', snd_bufsz)
  <2>1. CASE UNCHANGED snd
    BY <2>1 DEF LineInv
  <2>2. CASE \E c \in Chars : Kept(c)
    BY <1>t, <2>2, PutCells, Sizes, CharsFacts DEF Kept, Full, LineInv
  <2>3. CASE Drained
    BY <1>t, <2>3, TakeCells, Sizes DEF Drained, LineInv
  <2>4. CASE Cleared
    BY <1>e, <2>4, Sizes DEF Cleared
  <2>5. QED
    BY <2>1, <2>2, <2>3, <2>4, AllSteps DEF SndStep, Passed
<1>2. /\ PtrInv(rcv', rcv_bufsz)
      /\ \A i \in 0 .. rcv'.count - 1 : Cell(rcv', rcv_bufsz, i) \in Chars
  <2>0. /\ PtrInv(rcv, rcv_bufsz)
        /\ \A i \in 0 .. rcv.count - 1 : Cell(rcv, rcv_bufsz, i) \in Chars
        /\ rcv.count \in Nat
    BY <1>t DEF LineInv, Ring
  <2>1. CASE UNCHANGED rcv
    BY <2>0, <2>1
  <2>2. ASSUME NEW c \in Chars, rcv.count # rcv_bufsz, rcv' = Put(rcv, rcv_bufsz, c)
        PROVE  /\ PtrInv(rcv', rcv_bufsz)
               /\ \A i \in 0 .. rcv'.count - 1 : Cell(rcv', rcv_bufsz, i) \in Chars
    <3>1. c \in Char
      BY CharsFacts
    <3>2. rcv'.count = rcv.count + 1
      BY <1>t, <2>2, <3>1, PutRing, Sizes
    <3>3. /\ PtrInv(rcv', rcv_bufsz)
          /\ \A i \in 0 .. rcv.count - 1 :
               Cell(rcv', rcv_bufsz, i) = Cell(rcv, rcv_bufsz, i)
          /\ Cell(rcv', rcv_bufsz, rcv.count) = c
      BY <1>t, <2>0, <2>2, <3>1, PutCells, Sizes
    <3>4. ASSUME NEW i \in 0 .. rcv'.count - 1
          PROVE  i \in 0 .. rcv.count - 1 \/ i = rcv.count
      BY <2>0, <3>2
    <3>5. QED
      BY <2>0, <3>3, <3>4
  <2>3. ASSUME rcv.count # 0, rcv' = Take(rcv, rcv_bufsz)
        PROVE  /\ PtrInv(rcv', rcv_bufsz)
               /\ \A i \in 0 .. rcv'.count - 1 : Cell(rcv', rcv_bufsz, i) \in Chars
    <3>1. rcv'.count = rcv.count - 1
      BY <1>t, <2>3, TakeRing, Sizes
    <3>2. /\ PtrInv(rcv', rcv_bufsz)
          /\ \A i \in 0 .. rcv.count - 2 :
               Cell(rcv', rcv_bufsz, i) = Cell(rcv, rcv_bufsz, i + 1)
      BY <1>t, <2>0, <2>3, TakeCells, Sizes
    <3>3. ASSUME NEW i \in 0 .. rcv'.count - 1
          PROVE  i \in 0 .. rcv.count - 2 /\ i + 1 \in 0 .. rcv.count - 1
      BY <2>0, <3>1
    <3>4. QED
      BY <2>0, <3>2, <3>3
  <2>4. ASSUME rcv' = Empty(rcv_bufsz)
        PROVE  /\ PtrInv(rcv', rcv_bufsz)
               /\ \A i \in 0 .. rcv'.count - 1 : Cell(rcv', rcv_bufsz, i) \in Chars
    <3>1. rcv'.count = 0
      BY <2>4 DEF Empty
    <3>2. QED
      BY <1>e, <2>4, <3>1, Sizes
  <2>5. QED
    BY <2>1, <2>2, <2>3, <2>4, AllSteps DEF RcvStep
<1>3. \A t \in Task : text'[t] \in Seq(Chars)
  BY AllSteps DEF TextStep, LineInv
<1>4. QED
  BY <1>1, <1>2, <1>3 DEF LineInv

LEMMA InitLine == SerialInit => LineInv
<1> SUFFICES ASSUME SerialInit PROVE LineInv
  OBVIOUS
<1>1. ASSUME NEW size \in 1 .. 255
      PROVE  PtrInv(Empty(size), size) /\ Empty(size).count = 0
  BY DEF PtrInv, Empty, Behind
<1>2. /\ PtrInv(rcv, rcv_bufsz) /\ rcv.count = 0
      /\ PtrInv(snd, snd_bufsz) /\ snd.count = 0
  BY <1>1, Sizes DEF SerialInit
<1>3. \A t \in Task : text[t] \in Seq(Chars)
  <2>1. << >> \in Seq(Chars)
    OBVIOUS
  <2>2. QED
    BY <2>1 DEF SerialInit
<1>4. QED
  BY <1>2, <1>3 DEF LineInv

LEMMA EmptyContents ==
  ASSUME NEW size \in 1 .. 255
  PROVE  Contents(Empty(size), size) = << >>
<1>1. Empty(size) \in Ring(size) /\ Empty(size).count = 0
  BY EmptyRing
<1>2. /\ Contents(Empty(size), size) \in Seq(Char)
      /\ Len(Contents(Empty(size), size)) = 0
  BY <1>1, ContentsAre
<1>3. QED
  BY <1>2, EmptySeq

\* Each step is one of Channel, or leaves the channel alone.
LEMMA OutwardStep ==
  ASSUME IInv, LineInv, [SerialNext]_serialVars
  PROVE  [Outward!cVars' # Outward!cVars /\ Outward!CNext]_(Outward!cVars)
<1> DEFINE s  == Contents(snd, snd_bufsz)
           s2 == Contents(snd', snd_bufsz)
           C == [q \in {"snd"} |-> s]
           C2 == [q \in {"snd"} |-> s2]
           T == [q \in {"snd"} |-> taken]
           T2 == [q \in {"snd"} |-> taken']
           N == [q \in {"snd"} |-> sent]
           N2 == [q \in {"snd"} |-> sent']
<1>t. snd \in Ring(snd_bufsz) /\ PtrInv(snd, snd_bufsz) /\ snd_bufsz \in 1 .. 255
  BY Sizes DEF IInv, SerialTypeOK, LineInv
<1>1. CASE UNCHANGED << snd, taken, sent >>
  BY <1>1 DEF Outward!cVars
<1>2. ASSUME NEW c \in Chars, Kept(c) PROVE Outward!Send("snd", c)
  <2>1. s2 = Append(s, c)
    BY <1>t, <1>2, PutContents, CharsFacts DEF Kept, Full
  <2>2. sent' = 1 - sent /\ taken' = taken
    BY <1>2 DEF Kept
  <2> HIDE DEF s, s2
  <2>3. C2 = [C EXCEPT !["snd"] = Append(C["snd"], c)]
    BY <2>1
  <2>4. N2 = [N EXCEPT !["snd"] = 1 - N["snd"]] /\ T2 = T
    BY <2>2
  <2>5. QED
    BY <2>3, <2>4 DEF Outward!Send, Outward!Flips, Outward!Becomes, s, s2
<1>3. ASSUME NEW c \in Chars, Passed(c) PROVE Outward!Pass("snd", c)
  <2>1. s = << >> /\ s2 = s
    <3>1. s \in Seq(Char) /\ Len(s) = 0
      BY <1>t, <1>3, ContentsAre DEF Passed
    <3>2. QED
      BY <1>3, <3>1, EmptySeq DEF Passed
  <2>2. sent' = 1 - sent /\ taken' = c
    BY <1>3 DEF Passed
  <2> HIDE DEF s, s2
  <2>3. C["snd"] = << >> /\ C2 = C
    BY <2>1
  <2>4. /\ N2 = [N EXCEPT !["snd"] = 1 - N["snd"]]
        /\ T2 = [T EXCEPT !["snd"] = c]
    BY <2>2
  <2>5. QED
    BY <2>3, <2>4 DEF Outward!Pass, Outward!Flips, s, s2
<1>4. CASE Drained
  <2>1. s # << >> /\ First(snd) = Head(s) /\ s2 = Tail(s)
    BY <1>t, <1>4, TakeContents DEF Drained
  <2>2. sent' = sent /\ taken' = Head(s)
    BY <1>4, <2>1 DEF Drained
  <2> HIDE DEF s, s2
  <2>3. C["snd"] # << >> /\ C2 = [C EXCEPT !["snd"] = Tail(C["snd"])]
    BY <2>1
  <2>4. N2 = N /\ T2 = [T EXCEPT !["snd"] = Head(C["snd"])]
    BY <2>2
  <2>5. Outward!Receive("snd")
    BY <2>3, <2>4 DEF Outward!Receive, Outward!Becomes, s, s2
  <2>6. QED
    BY <2>5 DEF Outward!CNext, Outward!cVars
<1>5. CASE Cleared
  <2>1. s2 = << >>
    BY <1>t, <1>5, EmptyContents DEF Cleared
  <2>2. sent' = sent /\ taken' = taken
    BY <1>5 DEF Cleared
  <2> HIDE DEF s, s2
  <2>3. C2 = [C EXCEPT !["snd"] = << >>] /\ N2 = N /\ T2 = T
    BY <2>1, <2>2
  <2>4. Outward!Reset("snd")
    BY <2>3 DEF Outward!Reset, Outward!Becomes, s, s2
  <2>5. QED
    BY <2>4 DEF Outward!CNext, Outward!cVars
<1>6. CASE \E c \in Chars : Kept(c) \/ Passed(c)
  BY <1>2, <1>3, <1>6 DEF Outward!CNext, Outward!cVars
<1>7. QED
  BY <1>1, <1>4, <1>5, <1>6, AllSteps DEF SndStep

LEMMA OutwardInit == SerialInit => Outward!CInit
<1> SUFFICES ASSUME SerialInit PROVE Outward!CInit
  OBVIOUS
<1>1. Contents(snd, snd_bufsz) = << >>
  BY EmptyContents, Sizes DEF SerialInit
<1>2. QED
  BY <1>1 DEF Outward!CInit, SerialInit

----------------------------------------------------------------------------
(***************************************************************************)
(* The theorems.                                                           *)
(***************************************************************************)
\* The right to write is in one place, whatever tasks and interrupts do
\* (serial_wri_dat, serial_rea_dat, sio_irdy_snd, sio_irdy_rcv).
THEOREM OneWriterCorrect ==
  ASSUME "ech_blk" \notin Released, ~ClsRaces
  PROVE  SerialSpec => []OneWriter
<1>1. IInv => OneWriter
  BY DEF IInv, RightsInv
<1> QED
  BY <1>1, IInvHolds, PTL

\* Likewise the right to read, also during an echo, which needs both
\* (serial_rea_dat, sio_irdy_rcv).
THEOREM OneReaderCorrect ==
  ASSUME "ech_blk" \notin Released, ~ClsRaces
  PROVE  SerialSpec => []OneReader
<1>1. IInv => OneReader
  BY DEF IInv, RightsInv
<1> QED
  BY <1>1, IInvHolds, PTL

\* The port keeps its form and is never in error, and no character waits for
\* a task that waits for it (gen_ercd_sys, serial_rea_dat).
THEOREM SerialCorrect ==
  ASSUME "ech_blk" \notin Released, ~ClsRaces
  PROVE  SerialSpec => []SerialInv
<1>1. IInv => CharsAreRead
  <2> SUFFICES ASSUME IInv, Open, rcv.count > 0, Waiting("rcv") # {}
               PROVE  In({"rea_chr", "rea_sig", "ech_wai", "ech_blk", "ech_chr", "ech_sig"}) # {}
    BY DEF CharsAreRead
  <2>1. rcv.count # 0
    BY DEF IInv, SerialTypeOK, Ring
  <2>2. semcnt["rcv"] = 0
    BY DEF IInv, RightsInv, WaitersInv
  <2>3. Readers # {}
    BY <2>1, <2>2, UnitsNow DEF Units
  <2> QED
    BY <2>3 DEF Readers, In
<1>2. IInv => SerialInv
  BY <1>1 DEF IInv, RightsInv, SerialInv
<1> QED
  BY <1>2, IInvHolds, PTL

\* Writing implements a channel: what is written goes to the register in the
\* order in which it was written, nothing lost or doubled, and no character
\* that goes there directly overtakes those in the buffer (serial_snd_chr,
\* sio_irdy_snd).
THEOREM WritesCorrect ==
  ASSUME "ech_blk" \notin Released, ~ClsRaces
  PROVE  SerialSpec => WritesInOrder
<1>1. SerialInit => LineInv
  BY InitLine
<1>2. IInv /\ LineInv /\ [SerialNext]_serialVars => LineInv'
  BY LineKeeps
<1>3. IInv /\ LineInv /\ [SerialNext]_serialVars
        => [Outward!cVars' # Outward!cVars /\ Outward!CNext]_(Outward!cVars)
  BY OutwardStep
<1>4. SerialInit => Outward!CInit
  BY OutwardInit
<1>5. SerialSpec => []IInv
  BY IInvHolds
<1>6. QED
  BY <1>1, <1>2, <1>3, <1>4, <1>5, PTL
     DEF SerialSpec, WritesInOrder, Outward!CSpec
=============================================================================
