---------------------------- MODULE Dispatching ----------------------------
(***************************************************************************)
(* What the kernel promises about the processor, whatever flags and masks  *)
(* it uses: a task that runs with dispatching enabled is the one of        *)
(* highest precedence, handlers do not switch tasks, and the exit from the *)
(* outermost handler makes up for the changes made meanwhile.  There is no *)
(* dispatch request here: requests are how the code keeps the promise.     *)
(***************************************************************************)
EXTENDS Naturals

CONSTANTS Task, NULL

VARIABLES
  started,   \* the kernel has started
  schedtsk,  \* the highest precedence task, or NULL
  runtsk,    \* the running task, or NULL when the processor idles
  enabled,   \* tasks may be switched (dspflg)
  depth      \* how many handlers are active

dvars == << started, schedtsk, runtsk, enabled, depth >>

Choice == Task \cup {NULL}

DInit ==
  /\ started = FALSE
  /\ schedtsk \in Choice
  /\ runtsk = NULL
  /\ enabled = TRUE
  /\ depth = 0

\* Start-up activates tasks, then runs the best of them.
Prepare ==
  /\ ~started
  /\ schedtsk' \in Choice
  /\ UNCHANGED << started, runtsk, enabled, depth >>

Start ==
  /\ ~started
  /\ started' = TRUE
  /\ runtsk' = schedtsk
  /\ UNCHANGED << schedtsk, enabled, depth >>

\* The running task changes the order or what is enabled, and is switched
\* at once when that is due.
TaskStep ==
  /\ started
  /\ depth = 0
  /\ runtsk # NULL
  /\ schedtsk' \in Choice
  /\ enabled' \in BOOLEAN
  /\ runtsk' = IF enabled' THEN schedtsk' ELSE runtsk
  /\ UNCHANGED << started, depth >>

Enter ==
  /\ started
  /\ depth' = depth + 1
  /\ UNCHANGED << started, schedtsk, runtsk, enabled >>

HandlerStep ==
  /\ started
  /\ depth > 0
  /\ schedtsk' \in Choice
  /\ UNCHANGED << started, runtsk, enabled, depth >>

Leave ==
  /\ depth > 0
  /\ depth' = depth - 1
  /\ runtsk' = IF depth = 1 /\ runtsk # NULL /\ enabled THEN schedtsk
                                                        ELSE runtsk
  /\ UNCHANGED << started, schedtsk, enabled >>

\* The idle processor finds work.
Wake ==
  /\ started
  /\ depth = 0
  /\ runtsk = NULL
  /\ runtsk' = schedtsk
  /\ UNCHANGED << started, schedtsk, enabled, depth >>

DNext ==
  \/ Prepare \/ Start \/ TaskStep \/ Enter \/ HandlerStep \/ Leave \/ Wake

DSpec == DInit /\ [][DNext]_dvars
=============================================================================
