------------------------------- MODULE Timer -------------------------------
(***************************************************************************)
(* What the time event management promises to the cyclic and alarm         *)
(* handlers, in real time.  left[e] is the time from the next timer tick   *)
(* to the instant at which e is due, in 1/TIC_DENO milliseconds; it has no *)
(* width and does not wrap.                                                *)
(*                                                                         *)
(* An event started with a relative time r is due r milliseconds after the *)
(* next tick, rounded up to a millisecond.  It expires at the first tick   *)
(* at or after that instant: never earlier than asked for, and not a tick  *)
(* later.  Within a tick the events expire in the order of their instants. *)
(* A periodic event is due again exactly one period after it was due, so   *)
(* that its activations do not drift.                                      *)
(***************************************************************************)
EXTENDS Integers

CONSTANTS
  Event,       \* the time events
  Periodic,    \* those that start again by themselves
  period,      \* the period of these, in milliseconds
  Autostart,   \* those that the system starts
  Reltim,      \* the relative times that may be asked for
  phase,       \* the phase of the periodic events
  TIC_NUME,    \* the length of a tick is TIC_NUME / TIC_DENO milliseconds
  TIC_DENO

VARIABLES
  left,        \* the time left to each event that is started
  stage        \* "idle", "expiring", or the event whose handler runs

tmVars == << left, stage >>

StartedEvents == DOMAIN left

With(e, time) ==
  [x \in StartedEvents \cup {e} |-> IF x = e THEN time ELSE left[x]]

Without(e) == [x \in StartedEvents \ {e} |-> left[x]]

\* e was due at or before the tick that is being signalled.
Due(e) == left[e] <= -TIC_NUME

TInit ==
  /\ left = [e \in Autostart |-> phase[e] * TIC_DENO - TIC_NUME]
  /\ stage = "idle"

TStart(e) ==
  /\ stage # "expiring"
  /\ \E r \in (IF e \in Periodic THEN {phase[e]} ELSE Reltim),
        rounding \in 0 .. TIC_DENO - 1 :
       left' = With(e, r * TIC_DENO + rounding)
  /\ UNCHANGED stage

TStop(e) ==
  /\ stage # "expiring"
  /\ left' = Without(e)
  /\ UNCHANGED stage

TTick ==
  /\ stage = "idle"
  /\ stage' = "expiring"
  /\ left' = [e \in StartedEvents |-> left[e] - TIC_NUME]

TExpire(e) ==
  /\ stage = "expiring"
  /\ e \in StartedEvents
  /\ Due(e)
  /\ \A other \in StartedEvents : left[e] <= left[other]
  /\ left' = IF e \in Periodic THEN With(e, left[e] + period[e] * TIC_DENO)
                               ELSE Without(e)
  /\ stage' = e

TReturn ==
  /\ stage \in Event
  /\ stage' = "expiring"
  /\ UNCHANGED left

TDone ==
  /\ stage = "expiring"
  /\ \A e \in StartedEvents : ~Due(e)
  /\ stage' = "idle"
  /\ UNCHANGED left

TNext ==
  \/ \E e \in Event : TStart(e) \/ TStop(e) \/ TExpire(e)
  \/ TTick \/ TReturn \/ TDone

TSpec == TInit /\ [][TNext]_tmVars
=============================================================================
