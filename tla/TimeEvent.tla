----------------------------- MODULE TimeEvent -----------------------------
(***************************************************************************)
(* The time event heap of kernel/time_event.c and the handlers that live   *)
(* on it: kernel/cyclic.c, kernel/alarm.c, and the ticks of signal_time.   *)
(*                                                                         *)
(* The heap is one record: node is the used part of tmevt_heap, so that    *)
(* last_index is its length, and index is the field of each TMEVTB.  The   *)
(* field of an unregistered event, which the code leaves as it was, is     *)
(* Unregistered here: to use it is an error.  Times are unsigned words,    *)
(* taken modulo TimeSpan, as EVTTIM is.                                    *)
(***************************************************************************)
EXTENDS Integers, Sequences

CONSTANTS
  Cyc,         \* the cyclic handlers
  Alm,         \* the alarm handlers
  cycorder,    \* the order of their identifiers
  TaSta,       \* the cyclic handlers created with TA_STA
  cyctim,      \* the period of each cyclic handler
  cycphs,      \* its phase
  Almtim,      \* the relative times that alarms are started with
  TimeSpan,    \* the number of values of an EVTTIM
  TIC_NUME,    \* the length of a tick: TIC_NUME / TIC_DENO milliseconds
  TIC_DENO

Event == Cyc \cup Alm
TMAX_RELTIM == TimeSpan \div 2 - 1

ASSUME HandlerAssumption ==
  /\ Cyc \cap Alm = {} /\ TaSta \subseteq Cyc
  /\ {"idle", "expiring"} \cap Event = {}
  /\ cycorder \in Seq(Cyc)
  /\ \A c \in Cyc : \E i \in 1 .. Len(cycorder) :
       \A j \in 1 .. Len(cycorder) : cycorder[j] = c <=> j = i
ASSUME TicAssumption ==
  /\ TIC_NUME \in Nat \ {0} /\ TIC_DENO \in Nat \ {0} /\ TimeSpan \in Nat
  /\ 2 * TIC_NUME <= TIC_DENO * (TimeSpan - TMAX_RELTIM - 2)
ASSUME ReltimAssumption ==
  /\ cyctim \in [Cyc -> 1 .. TMAX_RELTIM]
  /\ cycphs \in [Cyc -> 0 .. TMAX_RELTIM]
  /\ Almtim \subseteq 0 .. TMAX_RELTIM

VARIABLES
  heap,          \* [node, index]: tmevt_heap and TMEVTB.index
  current_time,  \* the time of the last tick
  min_time,      \* the least time that the heap may hold
  next_time,     \* the time of the next tick
  next_subtime,  \* its fraction, in 1/TIC_DENO milliseconds
  cycsta,        \* CYCCB.cycsta
  evttim,        \* CYCCB.evttim
  almsta,        \* ALMCB.almsta
  stage          \* signal_time: "idle", "expiring", or the handler it runs

clockVars == << current_time, next_time, next_subtime >>
hdrVars   == << cycsta, evttim, almsta >>
vars == << heap, min_time, clockVars, hdrVars, stage >>

----------------------------------------------------------------------------
(***************************************************************************)
(* The heap.  Times are compared relative to min_time.  A search moves the *)
(* hole, and with it the nodes on its way, to where the event belongs.     *)
(***************************************************************************)
Unregistered == 0

Word(time) == time % TimeSpan
FromMin(time) == Word(time - min_time)

EVTTIM_LT(a, b) == FromMin(a) < FromMin(b)
EVTTIM_LE(a, b) == FromMin(a) <= FromMin(b)

PARENT(i) == i \div 2
LCHILD(i) == 2 * i

\* i and the nodes above it.
Upward(i) == LET up[j \in 1 .. i] == IF j = 1 THEN {1} ELSE {j} \cup up[PARENT(j)]
             IN  up[i]

\* Where the hole at i stops on its way up, and on its way down.
tmevt_up(node, i, time) ==
  LET up[j \in 1 .. i] ==
        IF j = 1 \/ EVTTIM_LE(node[PARENT(j)].time, time) THEN j
                                                          ELSE up[PARENT(j)]
  IN  up[i]

EarlierChild(node, last, i) ==
  LET child == LCHILD(i) IN
  IF child + 1 <= last /\ EVTTIM_LT(node[child + 1].time, node[child].time)
    THEN child + 1 ELSE child

tmevt_down(node, last, i, time) ==
  LET down[j \in 1 .. last + 1] ==
        IF LCHILD(j) > last THEN j
        ELSE LET child == EarlierChild(node, last, j) IN
             IF EVTTIM_LE(time, node[child].time) THEN j ELSE down[child]
  IN  down[i]

\* The nodes after the hole went from "from" to "to", which gets new.
Shift(node, from, to, new) ==
  [j \in DOMAIN node |->
     IF j = to THEN new
     ELSE IF j \in Upward(from) /\ j > to THEN node[PARENT(j)]
     ELSE IF j \in Upward(to) /\ j >= from
       THEN node[CHOOSE child \in Upward(to) : PARENT(child) = j]
     ELSE node[j]]

\* Every node that moved tells its event its new place.
Relink(index, node, from, to) ==
  LET moved == {j \in Upward(from) : j >= to} \cup {j \in Upward(to) : j >= from}
  IN  [e \in Event |->
         IF \E j \in moved \cap DOMAIN node : node[j].p_tmevtb = e
           THEN CHOOSE j \in moved \cap DOMAIN node : node[j].p_tmevtb = e
           ELSE index[e]]

tmevtb_insert(h, e, time) ==
  LET new  == [time |-> time, p_tmevtb |-> e]
      last == Len(h.node) + 1
      to   == tmevt_up(h.node, last, time)
      node == Shift(Append(h.node, new), last, to, new)
  IN  [node |-> node, index |-> Relink(h.index, node, last, to)]

\* Mutant: the hole is only moved down.
HoleTarget_Down(node, last, i, time) == tmevt_down(node, last, i, time)

\* Where the hole of a deleted node ends, for the time of the last node.
HoleTarget(node, last, i, time) ==
  IF i > 1 /\ EVTTIM_LT(time, node[PARENT(i)].time)
    THEN tmevt_up(node, PARENT(i), time)
    ELSE tmevt_down(node, last, i, time)

\* The last node fills the hole that e leaves.
DeleteAt(h, e, i, to) ==
  LET last == Len(h.node) - 1
      node == SubSeq(Shift(h.node, i, to, h.node[last + 1]), 1, last)
  IN  [node  |-> node,
       index |-> [Relink(h.index, node, i, to) EXCEPT ![e] = Unregistered]]

tmevtb_delete(h, e) ==
  LET i    == h.index[e]
      last == Len(h.node) - 1
  IN  IF last = 0 THEN DeleteAt(h, e, i, i)
      ELSE DeleteAt(h, e, i, HoleTarget(h.node, last, i, h.node[last + 1].time))

tmevtb_delete_top(h) ==
  LET last == Len(h.node) - 1
      e    == h.node[1].p_tmevtb
  IN  IF last = 0 THEN DeleteAt(h, e, 1, 1)
      ELSE DeleteAt(h, e, 1, tmevt_down(h.node, last, 1, h.node[last + 1].time))

base_time == Word(next_time + (IF next_subtime > 0 THEN 1 ELSE 0))

\* Mutant: an event that the next tick will handle is not told apart.
tmevt_lefttim_Plain(e) == Word(heap.node[heap.index[e]].time - base_time)

tmevt_lefttim(e) ==
  LET time == heap.node[heap.index[e]].time IN
  IF EVTTIM_LE(time, next_time) THEN 0 ELSE Word(time - base_time)

----------------------------------------------------------------------------
(***************************************************************************)
(* Start-up: initialize_tmevt, initialize_cyclic and initialize_alarm; the *)
(* cyclic handlers are entered in the order of their identifiers.          *)
(***************************************************************************)
EmptyHeap == [node |-> << >>, index |-> [e \in Event |-> Unregistered]]

StartHeap ==
  LET after[n \in 0 .. Len(cycorder)] ==
        IF n = 0 THEN EmptyHeap
        ELSE IF cycorder[n] \in TaSta
          THEN tmevtb_insert(after[n - 1], cycorder[n], cycphs[cycorder[n]])
        ELSE after[n - 1]
  IN  after[Len(cycorder)]

Init ==
  /\ current_time = 0
  /\ min_time = 0
  /\ next_time = TIC_NUME \div TIC_DENO
  /\ next_subtime = TIC_NUME % TIC_DENO
  /\ heap = StartHeap
  /\ cycsta = [c \in Cyc |-> c \in TaSta]
  /\ evttim = [c \in Cyc |-> IF c \in TaSta THEN cycphs[c] ELSE 0]
  /\ almsta = [a \in Alm |-> FALSE]
  /\ stage = "idle"

----------------------------------------------------------------------------
(***************************************************************************)
(* The service calls.  Those of tasks are made when no timer handler runs; *)
(* ista_alm and istp_alm also by the running handler, and by handlers of a *)
(* higher priority that interrupt it, since it runs with the CPU unlocked  *)
(* in the middle of signal_time's loop.                                    *)
(***************************************************************************)
FromTask    == stage = "idle"
FromHandler == stage # "expiring"

\* Mutant: a started event is entered with the furthest time.
Reenter_Late(e, started, time) ==
  heap' = tmevtb_insert(IF started THEN tmevtb_delete(heap, e) ELSE heap,
                        e, Word(time + TMAX_RELTIM))

\* An event that is registered is taken out before it is entered again.
Reenter(e, started, time) ==
  heap' = tmevtb_insert(IF started THEN tmevtb_delete(heap, e) ELSE heap,
                        e, time)

Withdraw(e, started) ==
  heap' = IF started THEN tmevtb_delete(heap, e) ELSE heap

sta_cyc(c) ==
  /\ FromTask
  /\ Reenter(c, cycsta[c], Word(base_time + cycphs[c]))
  /\ cycsta' = [cycsta EXCEPT ![c] = TRUE]
  /\ evttim' = [evttim EXCEPT ![c] = Word(base_time + cycphs[c])]
  /\ UNCHANGED << min_time, clockVars, almsta, stage >>

stp_cyc(c) ==
  /\ FromTask
  /\ Withdraw(c, cycsta[c])
  /\ cycsta' = [cycsta EXCEPT ![c] = FALSE]
  /\ UNCHANGED << min_time, clockVars, evttim, almsta, stage >>

\* sta_alm and ista_alm.
sta_alm(a, almtim) ==
  /\ FromHandler
  /\ Reenter(a, almsta[a], Word(base_time + almtim))
  /\ almsta' = [almsta EXCEPT ![a] = TRUE]
  /\ UNCHANGED << min_time, clockVars, cycsta, evttim, stage >>

\* stp_alm and istp_alm.
stp_alm(a) ==
  /\ FromHandler
  /\ Withdraw(a, almsta[a])
  /\ almsta' = [almsta EXCEPT ![a] = FALSE]
  /\ UNCHANGED << min_time, clockVars, cycsta, evttim, stage >>

----------------------------------------------------------------------------
(***************************************************************************)
(* signal_time: the clock advances, the loop expires the events that are   *)
(* due, one handler after the other, and min_time follows at its end.      *)
(***************************************************************************)
\* Mutant: the fraction is not carried over.
signal_time_NoCarry ==
  /\ stage = "idle"
  /\ stage' = "expiring"
  /\ current_time' = next_time
  /\ next_subtime' = (next_subtime + TIC_NUME) % TIC_DENO
  /\ next_time' = Word(next_time + (TIC_NUME \div TIC_DENO))
  /\ UNCHANGED << heap, min_time, hdrVars >>

signal_time ==
  /\ stage = "idle"
  /\ stage' = "expiring"
  /\ current_time' = next_time
  /\ LET subtime == next_subtime + (TIC_NUME % TIC_DENO)
         carry   == subtime >= TIC_DENO
     IN  /\ next_subtime' = IF carry THEN subtime - TIC_DENO ELSE subtime
         /\ next_time' = Word(next_time + (TIC_NUME \div TIC_DENO)
                                + (IF carry THEN 1 ELSE 0))
  /\ UNCHANGED << heap, min_time, hdrVars >>

TopDue == heap.node # << >> /\ EVTTIM_LE(heap.node[1].time, current_time)

\* call_cychdr registers the next activation before it unlocks the CPU.
call_cychdr(c) ==
  LET next == Word(evttim[c] + cyctim[c]) IN
  /\ stage = "expiring"
  /\ TopDue
  /\ heap.node[1].p_tmevtb = c
  /\ heap' = tmevtb_insert(tmevtb_delete_top(heap), c, next)
  /\ evttim' = [evttim EXCEPT ![c] = next]
  /\ stage' = c
  /\ UNCHANGED << min_time, clockVars, cycsta, almsta >>

\* Mutant: the alarm is stopped after its handler.
call_almhdr_Late(a) ==
  /\ stage = "expiring"
  /\ TopDue
  /\ heap.node[1].p_tmevtb = a
  /\ heap' = tmevtb_delete_top(heap)
  /\ stage' = a
  /\ UNCHANGED << min_time, clockVars, hdrVars >>

\* call_almhdr stops the alarm before it unlocks the CPU.
call_almhdr(a) ==
  /\ stage = "expiring"
  /\ TopDue
  /\ heap.node[1].p_tmevtb = a
  /\ heap' = tmevtb_delete_top(heap)
  /\ almsta' = [almsta EXCEPT ![a] = FALSE]
  /\ stage' = a
  /\ UNCHANGED << min_time, clockVars, cycsta, evttim >>

\* The handler returns into the loop with the CPU locked again.
handler_return ==
  /\ stage \in Event
  /\ stage' = "expiring"
  /\ UNCHANGED << heap, min_time, clockVars, hdrVars >>

signal_time_end ==
  /\ stage = "expiring"
  /\ ~TopDue
  /\ min_time' = current_time
  /\ stage' = "idle"
  /\ UNCHANGED << heap, clockVars, hdrVars >>

SignalTime ==
  \/ signal_time \/ handler_return \/ signal_time_end
  \/ \E c \in Cyc : call_cychdr(c)
  \/ \E a \in Alm : call_almhdr(a)

Call ==
  \/ \E c \in Cyc : sta_cyc(c) \/ stp_cyc(c)
  \/ \E a \in Alm : stp_alm(a) \/ \E almtim \in Almtim : sta_alm(a, almtim)

Next == SignalTime \/ Call

Spec == Init /\ [][Next]_vars

----------------------------------------------------------------------------
(***************************************************************************)
(* Properties                                                              *)
(***************************************************************************)
Registered(e) == heap.index[e] # Unregistered

\* The type invariant.
TypeOK ==
  /\ heap.node \in Seq([time : 0 .. TimeSpan - 1, p_tmevtb : Event])
  /\ heap.index \in [Event -> Nat]
  /\ current_time \in 0 .. TimeSpan - 1 /\ min_time \in 0 .. TimeSpan - 1
  /\ next_time \in 0 .. TimeSpan - 1 /\ next_subtime \in 0 .. TIC_DENO - 1
  /\ cycsta \in [Cyc -> BOOLEAN] /\ almsta \in [Alm -> BOOLEAN]
  /\ evttim \in [Cyc -> 0 .. TimeSpan - 1]
  /\ stage \in {"idle", "expiring"} \cup Event

\* The array is a heap, also when an event is deleted from its middle and
\* the last node belongs above the hole, and each TMEVTB knows its node
\* although nodes move underneath it.
HeapInv ==
  /\ \A i \in 2 .. Len(heap.node) :
       EVTTIM_LE(heap.node[PARENT(i)].time, heap.node[i].time)
  /\ \A i \in 1 .. Len(heap.node) : heap.index[heap.node[i].p_tmevtb] = i
  /\ \A e \in Event : heap.index[e] \in 0 .. Len(heap.node)

\* A handler is marked as started exactly while its event is registered,
\* also for the calls that handlers make in the middle of the loop; the
\* next sta_ or stp_ call relies on the mark to delete the event.  evttim is
\* the registered time, from which the next activation is counted.
StartedInv ==
  /\ \A c \in Cyc : /\ cycsta[c] <=> Registered(c)
                    /\ cycsta[c] => evttim[c] = heap.node[heap.index[c]].time
  /\ \A a \in Alm : almsta[a] <=> Registered(a)

\* Between ticks no event is overdue: all times are ahead of the clock, and
\* close enough for the comparisons relative to min_time.
AheadInv ==
  stage = "idle" =>
    \A i \in 1 .. Len(heap.node) :
      \/ Word(heap.node[i].time - current_time)
           \in 1 .. TMAX_RELTIM + (TIC_NUME \div TIC_DENO) + 2
      \/ heap.node[i].p_tmevtb \in TaSta /\ heap.node[i].time = 0

\* The heap, the marks of the handlers and the clock agree (time_event.c,
\* cyclic.c, alarm.c): the parts above.
EventsInv == TypeOK /\ StartedInv /\ AheadInv

----------------------------------------------------------------------------
(***************************************************************************)
(* The promise in real time.                                               *)
(***************************************************************************)
TimeLeft(e) ==
  LET time == heap.node[heap.index[e]].time IN
  TIC_DENO * (FromMin(time) - FromMin(next_time)) - next_subtime

Real == INSTANCE Timer WITH
  Periodic <- Cyc, Autostart <- TaSta, Reltim <- Almtim,
  period <- cyctim, phase <- cycphs,
  left <- [e \in {x \in Event : Registered(x)} |-> TimeLeft(e)]

\* The wrapping event times, the rounding of fractional ticks and the calls
\* in the middle of the loop keep the promise: no event expires early, late,
\* out of order or with a drift.
KeepsTime == Real!TSpec

\* The remaining time that ref_cyc and ref_alm report is the real one in
\* whole milliseconds from the next tick; 0 when that tick will handle it.
LefttimInv ==
  \A e \in Event :
    stage # "expiring" /\ Registered(e) =>
      tmevt_lefttim(e) = IF TimeLeft(e) < 0 THEN 0 ELSE TimeLeft(e) \div TIC_DENO

\* The timer keeps ticking, and handlers return.
Fairness == WF_vars(SignalTime)

FairSpec == Spec /\ Fairness

\* The loop of a tick ends whatever the handlers start in it: what they
\* enter is due at the next tick at the earliest.
TickEnds == stage # "idle" ~> stage = "idle"

\* A started alarm expires unless it is stopped, and again and again started
\* anew; a cyclic handler keeps running until it is stopped.
Undisturbed(a) == <>[][~(stp_alm(a) \/ \E almtim \in Almtim : sta_alm(a, almtim))]_vars

AlarmExpires == \A a \in Alm : Undisturbed(a) => <>[](~almsta[a])

CyclicRuns ==
  \A c \in Cyc :
    <>[][~(sta_cyc(c) \/ stp_cyc(c))]_vars
      => (<>[](~cycsta[c]) \/ []<>(stage = c))

\* Time goes on: every tick ends, every alarm expires and every cyclic handler
\* runs again, whatever the handlers start and stop meanwhile.
KeepsRunning == TickEnds /\ AlarmExpires /\ CyclicRuns
=============================================================================
