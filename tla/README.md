# Verification of the ASP kernel for EFR32xG23 (ARM-M)

The repository is TOPPERS/ASP, a real-time kernel with static priorities after
the ITRON specification, with a port to the ARM-M core of the EFR32xG23
(`arch/efr32xg23_gcc`, `target/brd4002a+efr32zg23_gcc`), service modules
(`syssvc`), optional replacement kernels (`extension`) and their documents
(`doc`). This directory holds TLA+ models of it, TLC configurations that check
them on small instances, and proofs for every instance. Paths below are
relative to `src/`.

## 1. Inventory

| part | state it keeps | operations | how it meets the others |
|---|---|---|---|
| scheduler (`kernel/task.c`, `task.h`) | ready queues, priority bitmap, `p_schedtsk`, the TCBs | `make_runnable`, `make_non_runnable`, `change_priority`, `rotate_ready_queue`, `make_active`, `make_dormant` | called under the CPU lock by every service call; tells its caller whether a dispatch is due |
| task management, synchronisation (`task_manage.c`, `task_sync.c`) | `tstat`, `actque`, `wupque`, priorities | activation, termination, priority change, sleep, wakeup, delay, forced release, suspension | from tasks: may dispatch at once; from handlers: may set `reqflg` |
| wait primitives (`wait.c`, `wait.h`) | `WINFO` (on the waiting task's stack), wait queues | entering, completing, timing out and releasing a wait | time events call `wait_tmout` back from the timer handler |
| system state (`sys_manage.c`, `interrupt.c`) | `disdsp`, `ipmflg`, `dspflg`, the CPU lock | `loc_cpu`, `dis_dsp`, `chg_ipm`, `rot_rdq`, ... | decide whether a dispatch is made or held back |
| processor part (`prc_support.S`, `prc_config.h`) | `p_runtsk`, `reqflg`, BASEPRI, `lock_flag`, `saved_iipm` | `dispatch`, idle loop, interrupt entry and exit | runs the scheduler's choice |
| semaphores, event flags, data queues, priority data queues, mailboxes, memory pools | counts, patterns, buffers, free lists, wait queues | signal, wait, poll, initialise | each is a wait object |
| time events, cyclic, alarm handlers | binary heap of events, `current_time`, `next_time`, `min_time` | insert, delete, `signal_time` | callbacks run in the timer handler, with the CPU unlocked around the handlers |
| task exceptions (`task_except.c`) | `texptn`, `enatex` | `ras_tex`, `ena_tex`, `call_texrtn` | a second reason for `reqflg`; user code inside a dispatch |
| serial driver (`syssvc/serial.c`, target `usart.c`) | two ring buffers, two semaphores, flow control flags | open, close, read, write, control; send and receive callbacks | semaphores; callbacks of the serial device |
| system log (`syssvc/syslog.c`, `logtask.c`) | log buffer, masks, counter of lost records | write, read, mask; the log task, flush, termination | written from every context; printed on the serial port |
| extensions | mutexes, message buffers, overrun handler, dynamic creation | | replace files of `kernel/` |

What is hard in this code: interrupt handlers nest and come between any two
service calls, they change the scheduler's data but may not switch tasks;
dispatching can be held back in three independent ways and must be made up
later; one word of the wait information is a pointer or an error code depending
on the task's state; one link field serves the ready queue and the wait queues;
timeouts race completions and releases; the idle loop must not miss a request;
times wrap around; `signal_time` walks a heap that its callbacks change; task
exceptions run user code in the middle of a dispatch; the serial driver passes
the right to use a buffer from tasks to interrupts and back without a lock; the
log overwrites what the log task is about to read. `PROJECT.json` lists each of
these hazards at its line, with the properties that cover it.

## 2. Modules

| module | models |
|---|---|
| `Sched` | the ready queue, the bitmap and `p_schedtsk` as operators on one record, and `Consistent`, what the record must satisfy |
| `TaskKernel` | `task_manage.c`, `task_sync.c`, `wait.c/h`, `sys_manage.c`, `chg_ipm`, dispatcher, idle loop, interrupt entry and exit |
| `PrcSupport` | the CPU lock of `prc_config.h`, dispatcher, idle loop, interrupt entry and exit of `prc_support.S`, instruction by instruction |
| `Dispatching` | abstract: when the processor may change from one task to another |
| `Semaphore`, `EventFlag`, `Mailbox`, `Mempfix` | one file of `kernel/` each, on top of `TaskKernel` |
| `Links` | lists that are linked in memory |
| `TwoQueues`, `DataQueue`, `PriDataq` | what `dataqueue.c` and `pridataq.c` share; the two files |
| `Channel`, `PriorityChannel` | abstract: first-in first-out channels, channels ordered by priority |
| `WaitObjects` | all objects together on one kernel |
| `ObjectOrder` | what the data queues and mailboxes promise, as refinements of the channels |
| `TaskExcept` | `task_except.c` and `call_texrtn`, with every place that starts an exception routine, on top of `TaskKernel` |
| `TimeEvent` | `time_event.c`, `cyclic.c`, `alarm.c` |
| `Timer` | abstract: when handlers run, in real time without a width |
| `Serial` | `syssvc/serial.c` with the device of `usart.c`, for one port |
| `Syslog` | `syssvc/syslog.c`, `syssvc/logtask.c` |
| `TaskKernelProofs` | each operator of `Sched` preserves `Consistent`; the inductive invariant of `TaskKernel` and the theorems; lemmas about the wait queues and about linked lists; it implements `Dispatching` |
| `SyslogProofs` | the theorems about `Syslog` |
| `KernelUsersProofs` | the theorems about `Semaphore` and `TaskExcept` |
| `WaitObjectsProofs` | all objects: nothing idle while a task waits for it, a wait returns what it waited for |
| `WaitListsProofs` | all objects: their lists, buffers and blocks in memory |
| `PrcSupportProofs` | the theorems about `PrcSupport`; it implements `Dispatching` |
| `SerialProofs` | the theorems about `Serial` |
| `TimeEventProofs` | the heap, the clock and the theorems about `TimeEvent`; it implements `Timer` |
| `MC...` | small instances for TLC |

`TaskKernel` and `PrcSupport` describe one machine at two grains. `TaskKernel`
has every service call and takes each as one step; `PrcSupport` has the steps
between which an interrupt can come and takes a service call only as "check,
lock, change which task is scheduled, dispatch or request, unlock". What joins
them is `Dispatching`: both are shown to implement it (`KeepsPromise` of each
module). The mutual exclusion in `PrcSupport`'s `Masking` is what entitles
`TaskKernel` to take a service call as one step.

The other abstract specifications: `TimeEvent` implements `Timer` (no handler is
early, late or forgotten although the times wrap around and ticks have
fractions); the data queues and mailboxes of `WaitObjects`, and `Serial` for what it writes,
implement `Channel`; the priority data queues and the mailboxes of attribute
`TA_MPRI` implement `PriorityChannel` (`ObjectOrder`).

### Correspondence of the kernel

* **Grain.** A service call runs from `t_lock_cpu` to `t_unlock_cpu` with all
  kernel interrupts masked; a `dispatch()` inside it hands the lock over to the
  task it resumes. A service call, with the dispatch it makes, is therefore one
  action of `TaskKernel`. Where a call acts outside its locked section it is
  several actions: `rel_mpf` reads the block's state before it locks,
  `signal_time` unlocks around each handler, `call_texrtn` around the routine.
* **Composition.** A module of a wait object EXTENDS `TaskKernel`; a call is its
  context guard, its body, `TaskReturn` or `IntReturn`, and what it leaves alone.
  `WaitObjects` instantiates these modules on one `TaskKernel`.
* **Dispatch requests.** The scheduler's functions return
  `dspflg && p_schedtsk changed`; a task's call then dispatches (`TaskReturn`),
  a handler's call sets `reqflg` (`IntReturn`), which `ret_int` or
  `dispatcher_idle` serves. `ter_tsk` is the exception and is written out.
* **Task states.** `tstat` is the set of its bits with the wait factor as a
  member; the order of the factor codes, which `TSTAT_WAIT_WOBJ` and
  `TSTAT_WAIT_WOBJCB` compare, is the pair of sets `WobjFactor`, `WobjcbFactor`.
* **WINFO** is one variable per task, as the union is one word: `E_OK` and the
  null pointer are the same value, and every other word reads as a pointer. What
  an object keeps in the extended WINFO of a waiting task is a variable of its
  module (`flgwait`, `winfo_dtq`, ...) and goes out of scope with it.
* **Time events** of waits are reduced in `TaskKernel` to the callback registered
  for each task; a timer handler may fire a registered event at any moment, which
  covers every order of expiry. The order itself is `TimeEvent`'s.
* **Wait queues** are a constant set of queues of which `TpriQueue` are ordered
  by priority. In `TaskKernel` alone they stay empty.
* **Memory** that the program has not written is `UNINIT`: free lists, message
  headers and ring buffers keep what they held, and reading it shows.
* **Times** are unsigned words modulo `TimeSpan`; the relations between the
  longest relative time, the tick and the width are those of the code.
* Calls that return an error and change nothing are not actions.
* A handler returns with the CPU unlocked (guard `InInterrupt` of `ret_int`);
  `PrcSupport` has the other case under the constant `LockedReturn`.
* `Mempfix`: a task inside `rel_mpf` is not terminated, and `ini_mpf` is not
  called meanwhile (`IniRaces = FALSE`); section 3 says why.
* `TaskExcept`: `frames` is the stack of a task's activations of `call_texrtn`,
  `indispatch` the window in which the routine's task is inside the dispatch that
  `call_texrtn` makes itself.

In `PrcSupport`:

* **Masks** are numbers as in BASEPRI: a smaller number masks more, 0 masks
  nothing. `core_int_entry_1` is the hardware's rule for taking an interrupt,
  followed by the instruction that reads BASEPRI. Instructions that BASEPRI,
  PRIMASK or FAULTMASK keeps together are one step.
* **Program counters.** `thread` is the label Thread mode is at, or "task";
  `tcb[t].pc` is how far the service call of task `t` is, `tcb[t].resume` is
  `TCB_pc`; `stack` holds one frame per active handler.
* **Locals** (`iipm` of `x_lock_cpu`, the call under way) are set back to fixed
  values when they are dead, which changes nothing but the number of states.
* `tcb[t].resume` decides whether a task goes on in `dispatch_r` (CPU locked, it
  unlocks itself), `ret_int_r` (`svc_handler` unlocks) or `start_r`.

### Correspondence of the service modules

* **Serial.** One port. A section under the CPU lock and a callback are one step
  each; a task's place between its service calls is `at[t]`: before a `wai_sem`
  (`..._wai`), waiting in it (`..._blk`), before a character operation
  (`..._chr`), before a `sig_sem` (`..._sig`), for writing, the echo and reading.
  The tasks interleave at their service calls under every priority order, which
  is more than one processor shows. `text` and `left` are what the call still
  has to do. The device is whether its transmit register is occupied
  (`txfull`) and which callbacks are enabled; the transmitter may finish inside
  a locked section (`Registers`). Left out: error codes and their formatting,
  overrun of the receive register, the clearing of the device's interrupt flags
  (a callback is pending as long as its condition holds). `ioctl` is read in the
  locked section. Opening and closing are one step, because the code disables
  dispatching around them. Closing initialises both semaphores: the tasks that wait
  for them are released with E_DLT and their calls return. With `ClsRaces = FALSE`
  no other call is in progress at that moment; section 3 says why. The line is
  silent while the port is closed.
* **Syslog.** Each function of `syslog.c` is one step, because it runs with the
  interrupts locked, except `syslog_msk_log`. The records are numbered, their
  contents abstracted to whether there is a text to print. The serial port is
  whether it has characters to send. `logtask_flush` looks, sleeps in `dly_tsk` when
  it saw too much, and looks again; the sleep may be ended by another task's
  `rel_wai`, and the call then returns E_RLWAI (`"failed"`, as while the port is not
  open).

## 3. Runs

| run | instance | shows |
|---|---|---|
| `kernel2` | 2 tasks, 3 priorities, nesting 2, fair | invariants, `NoPreemption`, the refinement `KeepsPromise`, and liveness: the highest precedence task runs |
| `semaphore3` | 3 tasks, one `TA_TPRI` semaphore of one unit, `PendingBound` | unit accounting, queue membership and order, `KeepsPlace` where a queue has a middle |
| `prc_dispatch` | 2 tasks, 2 interrupts of different priority | CPU lock and saved masks under nesting, no request is lost, `KeepsPromise` |
| `prc_served` | 1 task, 1 interrupt, fair | liveness: a dispatch request is served |
| `prc_locked_return` | 1 task, 2 interrupts, `LockedReturn` | a violation, see below |
| `objects` | 2 tasks and a handler, nine objects | nothing idle while a task waits for it, nothing lost, doubled or reordered |
| `time` | a cyclic handler, an alarm, 16 clock values, ticks of 5/3 ms | `TimeEvent` implements `Timer` over the whole cycle of the clock; liveness of cyclic handlers |
| `time_heap` | 6 alarms, 8 clock values | the heap order under every insertion and deletion |
| `task_except` | 2 tasks, one with a routine, 2 activations, fair | every due exception is started, none twice; liveness |
| `serial` | 2 tasks, buffers of 2, echo, CR, flow control | one owner per direction, the characters keep their order |
| `serial_resume` | 2 tasks, send buffer of 2, fair | a violation, see below |
| `syslog` | 6 records, log buffer of 2, one flushing task, fair | each record accounted for, gaps told in their place; liveness |

### Bounds

Two tasks and three priorities reach every branch of the scheduler (a queue
that empties, one that does not, a higher, equal and lower new priority, no
runnable task); nesting 2 distinguishes the outermost exit from an inner one.
Three tasks are needed for a task that leaves the middle of a queue, and
`semaphore3` has them; `PendingBound` caps how many requests and suspensions are
pending together, since they are independent of the order in the queues.

In `PrcSupport` the CPU lock is level 2 and the interrupts have levels 2 and 3, so
that one is at the lock's own level and one below it, and can be nested;
`chg_ipm` uses 0 (none), 1 (higher than the lock) and 3 (lower). The two tasks
are treated alike (`SYMMETRY`). Interrupts may share a priority, as the two of the
serial device do (`target_serial.cfg:7`): then neither interrupts the other's
handler. The run keeps to two of different priority, which can; with a third of
the priority of the second the instance has 4.1 million states and no error, and
the theorems of section 4 are for any priorities.

`objects` has of each kind what makes its branches differ: an event flag with
`TA_CLR` and one where several tasks wait, a data queue without a buffer and one
of two, a mailbox of each order, two priorities of data, a pool of two blocks. In a
run a behaviour uses one of the nine (`MCSpec` picks it), since the objects
share nothing but the tasks, which two are enough to let wait, contend, time
out and be terminated; `OwnQueues` is the assumption that they share no queue.
Tasks have one priority there: their order is `semaphore3`'s subject.

`time`: the clock wraps around after 16 ms, so that its longest relative time is
7; the relation `TicAssumption` between tick, width and relative time is the
one of the code's 32 bits. `time_heap`: the upward branch of the deletion needs a
hole with a sibling subtree, hence six events.

`task_except`: one exception bit (a pattern is tested and cleared as a whole), an
exception routine that may nest once (`MaxFrames`).

`serial`: a buffer of two is the smallest where full, empty and in between, and
the thresholds of flow control, differ; the texts contain an LF so that a CR is
put before it, the line brings STOP and a character that is echoed and resumes
(`FCANY`). `UINT` is 256 there: the counts wrap around far beyond the buffers.

`syslog`: with a log buffer of two and six records the buffer wraps around and
loses records more than once before and after the log task starts.

### Fairness

`TaskKernel`: strong fairness on unlocking the CPU in a handler and on `ret_int`
at each depth, because a handler is ordinary terminating code whose exit is
postponed only by nested handlers; strong fairness on `dispatcher_idle`, because
the loop tests `reqflg` with the interrupts masked after every interrupt it
takes; weak fairness on start-up. Nothing is assumed of tasks. `PrcSupport`
assumes the same of the same code, and that a pending interrupt that stays
deliverable is delivered; no interrupt need ever be raised (`Raise` is not
fair), so `RequestServed` does not rest on a next interrupt waking the
processor. `TaskExcept` adds that the steps of `call_texrtn`, which is kernel
code, and the exit of its routine go on; `TimeEvent` that `signal_time` is called
again and again and that its loop, with the handlers, goes on; `Syslog` that the log task, which sleeps for a while and
looks again, is scheduled again and again; `Serial` that the device, the
callbacks and the started calls of a task go on.

### Disagreements with the documents

`prc_locked_return` checks `LockReleased` on handlers that may return with the
CPU locked. `doc/porting.txt` (line 2014) has the interrupt exit prepare the
return to the CPU unlocked state, and the design takes the lock to be released
when a handler returns locked. `ret_int` restores BASEPRI only: when it does not
dispatch, `lock_flag` stays set and the interrupted task, which has not locked
the CPU, gets E_CTX from its next service call.

`serial_resume`: after STOP and START `sio_irdy_rcv` sends one character of the
buffer and enables the send callback only if the register was occupied. If it
was free, the rest of the buffer stays, a writer that finds characters in the
buffer does not try the register, and once the buffer is full all writers wait.
`doc/user.txt` (line 1249): on START sending is resumed.

Further cases that the code has and the models exclude by a constant or a
guard, each named where it is excluded:

* `kernel/mempfix.c:314`: `rel_mpf` checks the block before it locks the CPU;
  with `ini_mpf` in between (`IniRaces = TRUE`) the block enters the free list of
  the re-initialised pool, whose unused blocks it belongs to as well. A task
  terminated in between leaves the block allocated, so that is excluded too.
* `syssvc/serial.c:582`: the wait for the send semaphore inside an echo fails
  when another task releases it (`"ech_blk"` in `Released`); the receive
  semaphore is not given back and nobody reads on.
* `syssvc/serial.c:758`: STOP and START go to the register directly or by way of
  `rcv_fc_chr`; a START that finds the register free overtakes a STOP that was
  left to the callback, and the other side stays stopped.
* `target/.../usart.c:206` with `syssvc/serial.c:477`: closing leaves the device
  and its callbacks as they are, and a character that comes while the port is
  closed gives a unit to the semaphore.
* `syssvc/serial.c:432`: a port may be closed and opened again between the
  `wai_sem` of a call and its locked section (`ClsRaces = TRUE`): `ini_sem` makes a
  second unit while the task still has the first, and two tasks have the right to
  write.

## 4. Proofs

The first part of `TaskKernelProofs` proves, for any finite or infinite set of
tasks and any number of priorities, that each scheduler function maps a
consistent record to a consistent record of the new set of runnable tasks. The
second has one lemma per action for an inductive invariant with these parts:

* `KernelInv`: `TypeOK`, `ReadyQueueInv`, `DispatchInv` (which flag
  combinations and which relation between `p_runtsk`, `p_schedtsk` and `reqflg`
  hold in which context) and `BootInv` (nothing runs before `kerflg`). That a
  return to a task finds no request needs that the flags agree, and that in turn
  that a request implies an unraised mask.
* `WaitInv`: `TimerInv` and `WinfoInv`, which are inductive only together.
* `RequestsInv` (of a queued activation, a queued wakeup or a pending termination
  none is left that could be acted on at once) is inductive together with
  `RunWinfoInv`: the WINFO of the running task is out of scope. `ext_tsk` makes
  the running task dormant where it stands, and a dormant task may not be
  linked to anything.

The same module builds on them:

* `ImplementsDispatching`: every action of `TaskKernel` is a step of
  `Dispatching` or leaves its variables alone, `Spec => KeepsPromise`. The
  invariant is needed at the exits: that `ret_int` runs the scheduled task only
  when dispatching is enabled is a fact about reachable states.
* `NoPreemptionCorrect`: the action property needs `LockInv`, which says in which
  contexts the CPU can be locked, and is proved there.

`SyslogProofs` is for every size of the log buffer, number of records and of
flushing tasks. `LogInv` alone is not inductive; the invariant adds

* `RoomInv`: before the log task has written its own record there is a number
  left for it, so that the numbering stays within `MaxLog`;
* `PrintInv`: the record in `logbuf` is the one behind all that were read or
  told, less what is still to be told. It gives `GapsAreTold`;
* `MaskInv`: which masks hold at which place of the log task, so that between
  the two assignments each priority up to LOG_NOTICE is in one of them;
* `FlushInv`: a flush that has passed its first test keeps what it saw, because
  the record numbers in the buffer only grow.

`PrcSupportProofs` is for any finite set of interrupts and any priorities not
above the mask of the CPU lock, equal ones included, under the hypothesis `~LockedReturn`; the known case is the run
`prc_locked_return`. The inductive invariant says

* what the registers, `lock_flag` and the saved mask are at each point of the code
  that is executing;
* that each frame on the stack keeps the mask that the code below it had
  (`FramesInv`, `BottomInv`), and that only a task with mask 0 is ever preempted
  (`TasksInv`, `FlagsInv`): this is what makes the mask right after `ret_int`,
  which may resume another task than the one that was interrupted;
* that each handler on the stack has a higher priority than the one it
  interrupted, from which the bound on the nesting follows by an injection of the
  frames into the priorities: of interrupts with the same priority only one can be
  active.

`ImplementsDispatching` counts a dispatch from the step that makes it certain
(the last test of the scheduled task with interrupts masked). With
`TaskKernelProofs`, both grains of the machine implement `Dispatching`.

The wait queues are part of `TaskKernelProofs` too. `KernelQueues` is what every
object needs: `QueuesInv` with `CbInv` (the tasks in a queue ordered by priority
are those that `chg_pri` moves) and `TmoutOkInv` (`wait_tmout_ok` is used only by
tasks that wait for no object). The lemmas `DeleteMembers`, `DeleteOrdered`,
`InsertTpriLemma` say what leaving and entering a queue does to its order,
`Shrinks` that no action of the kernel lengthens a queue. `init_wait_queue`
releases the waiting tasks one after the other, and each release may change the
ready queue; it is a recursive function, and `ReleaseInOrderLemma` argues about a
smallest position at which it would go wrong, since induction is out of reach.

`KeepsPlaceCorrect` is about the order of the ready queues. Each function of
`task.c` moves at most one task, and always to the tail: `Follows` says that the
tasks that stay keep their order and that what is new is `Last`. The lemmas about
`make_runnable`, `make_non_runnable`, `change_priority` and `rotate_ready_queue`
each give a `Follows`, and `PlaceStep` turns it into `KeepsPlace` for one action;
`AheadIsBefore` and `AppendBefore` translate between positions and the order.
`init_wait_queue` moves many tasks in one step: `ReleasePlace` is again by a
smallest position at which it would go wrong. `SemKeepsPlace` is the same theorem
for the composition with the semaphores, which the run `semaphore3` checks.

The first part of `KernelUsersProofs` is about semaphores alone on the whole
kernel, for every finite or infinite set of tasks and semaphores. `SemCorrect` says that units and waiting
tasks never exist together and that the count stays within `maxsem`,
`QueuesCorrect` that a task is linked where and as long as it waits.

`WaitObjectsProofs` is about the six kinds of objects on one kernel, with any
number of objects, buffer sizes and data.

* `StepOn(O)` (in `TaskKernelProofs`, with the classes below) is all that one kind of object has to know of a step on another:
  for a step on an object with the queues `O`, every task is left alone, begins
  or ends a call, or ends a wait; only tasks in `O` are told `E_OK` for an
  object, and only a running task enters a queue of `O`. Every action of
  `TaskKernel` is a `StepOn({})`.
* The calls are classified by what they do to the kernel: one task is handed
  something (`Hands`), the tasks of one or two queues are released (`Deletes`,
  `DeletesTwo`), the running task waits (`Waits`), or the kernel is left alone.
  Each class is treated once, not per call.
* Each kind has its invariant (`SemKept`, `FlgKept`, `DtqKept`, `PdqKept`,
  `MbxKept`, `MpfKept`), with one lemma for the calls of its own and one for
  `StepOn` of others. `NothingIdle` alone is nearly inductive.
  `ReturnsWhatItGot` is not: it speaks of tasks that have been released, and
  needs `Pending`: a waiting task that was handed nothing yet is still in a queue
  of its kind, or its wait ended with an error. `Distinct` says that two tasks
  were never handed the same message.
* `set_flg` releases the tasks that `Filter` finds in its loop over the queue, a
  recursive function on a sequence. `FilterLemma` (what `Filter` returns holds
  exactly those members) is again argued about a smallest position where it fails.
* A module that is instantiated has copies of `TaskKernel`'s operators; `SameS`
  to `SameM` say that each copy is the original.

`WaitListsProofs` continues with what the objects keep in memory, again for any
number of everything, under the hypothesis `~IniRaces` of the run `objects`
(section 3, `mempfix.c:314`); only the pools need it.

* `IsChain` says which sequence of nodes is linked in memory. With it the
  operations are about sequences: writing behind the last node that is not
  smaller is `Put`, taking the first is `Tail`, and that no other node's link
  changes keeps the rest of the chain. `ChainIs` (in `TaskKernelProofs`) says that
  following the links finds exactly this sequence, so that a chain has no cycle.
* `ListsKept` has a part for each kind of object on top of `ObjectInv` of
  `WaitObjectsProofs`, with one lemma for the calls of the kind's own and one for
  all other steps. `ListsCorrect` needs of the priority data queues
  that each node below `unused` is in one of the two lists and each of the
  others in none, of the mailboxes that no message is linked in two of them and
  that `pk_last` is the end of a list that is not empty, of the pools that `fblkcnt` counts the free blocks and those never
  used.
* A task that waits to send holds its datum on its stack, and a receiver takes
  it from there into the buffer: `Carries` says that this datum is there for as
  long as the task is linked, which is what makes a buffer hold data only.
* The ring of a data queue: `tail` is `count` places behind `head`, also when
  `fsnd_dtq` overwrites the oldest datum and moves both. The code steps an index
  and compares it with the size, `Ring` states the same with `Wrap`, and the
  remainder of `ObjTypeOK` is derived from that.
* A block is free, never used, with one task, or inside one `rel_mpf` (`OneUser`).
  `rel_mpf` checks the block before it locks the CPU, so that between its two
  steps the block must belong to nobody else: this is where `~IniRaces` is used.
* An event flag without `TA_WMUL` has one waiting task at most, because `wai_flg`
  looks at the queue before it waits.

`SerialProofs` is for any set of tasks and any sizes of the buffers. The
semaphores are inductive together with the calls: `CallInv` (which
semaphore a call in progress has), `ClosedInv` (no call on a closed port) and
`WaitersInv` (a waiting call's place agrees with the queue it is in). Each call
that holds a unit moves it: to the next waiting call, back to the semaphore, or
with a nested echo from one to the other. The hypotheses are that the wait of an
echo is not released (`"ech_blk" \notin Released`) and that the port is not closed
while a task is amid its call (`~ClsRaces`); the known cases are `serial.c:582` and
`serial.c:432` of section 3.

`WritesCorrect` is the refinement of `Channel`. It adds `LineInv` to the semaphores:
the two pointers of a ring are `count` cells apart, and what lies between them
are characters of the line. Each step is one of four on the send buffer: a
character is put in, passed to the register of an idle transmitter, taken out or
the buffer is set up again, and `PutContents` and `TakeContents` turn the index
arithmetic of the ring into `Append` and `Tail` of what it contains.

The second part of `KernelUsersProofs` is about task exceptions, for any set of
tasks and any bounds. The activations of
`call_texrtn` are inductive together with the kernel's invariants: `KernelInv`
and `WaitInv` are kept by the two steps that are not `TaskKernel`'s own
(`iras_tex`, which may ask the exit of the handler to look, and the return of an
exception routine, which may dispatch). The invariant adds `TexAt`: exceptions
are enabled only where the bound leaves room for one more activation, and in the
dispatch inside `call_texrtn` they are disabled and an activation exists.
`TexServedCorrect` needs one fact in each direction: a step that lets a task
continue takes its causes (`ResumeLemma`), and only the end of a task makes it
dormant (`AwakeStays`).

`TimeEventProofs` is for any number of cyclic and alarm handlers, any width of
the clock and any length of a tick.

* The heap is treated as an algorithm first. `tmevt_up` and `tmevt_down` move a
  hole up or down a path and write each event they pass into the hole; they are
  recursive functions on the node. `Upward` follows the path from a node to the
  root, and `InductionLemma` (from the library's fact that the numbers are
  well-founded, for a set of numbers in place of a predicate) carries an
  argument along it. The result is that inserting, deleting any node and taking
  the root keep `HeapOK`: each event is in one node and knows it, and no node is
  before its parent.
* "Before" compares times relative to `min_time`, which is a total order only
  while all times lie within the width of it (`EventsInv`). `Sorted` says so of the
  nodes, `TimesInv` of the times: an event's time is not later than its
  `RELTIM` after the moment it was set, in real time without a width.
* `ClockInv` relates `current_time`, `next_time` and `next_subtime` to the number
  of ticks. `TicAssumption` asks for room in the width for the longest relative
  time, one tick and, when ticks have a fraction, one unit for what the fraction
  adds: with one unit less an alarm that a handler starts with the longest time
  would lie a whole width after `min_time`. The tick of the code has no fraction.
* `HeapCorrect`, `EventsCorrect` and `LefttimCorrect` are the invariants of the
  runs; `KeepsTimeCorrect` is the refinement: every step of `TimeEvent` is a step
  of `Timer` or leaves what `Timer` sees alone. It needs the heap only through
  one fact: that nothing is left to expire when the root is not due.

The theorems rest on the named assumptions of the modules and on no others.

Model-checked only: liveness (`Scheduled`, `RequestServed`, `KeepsRunning`,
`TexDelivered`, `AllReported`), which is beyond the prover, and the refinement of
`Channel` and `PriorityChannel` by the objects (`KeepsOrder`). Every
invariant that a passing run checks is a theorem.

## 5. Plan

Done: the kernel of `src/kernel` with its objects, time management and task
exceptions, the processor part, the serial driver and the log; the theorems of
section 4. Left, in this order:

1. The theorem that the objects implement the channels (`KeepsOrder`).
2. The mutex extension with its ceiling priorities, message buffers and the
   overrun handler: each replaces files of `kernel/` and needs a variant of
   `TaskKernel`.
3. Lazy saving of the FPU context in `prc_support.S`, CPU exceptions, the order of
   initialisation and termination routines.
4. The other side of the line in `Serial`, for the order of START and STOP; two
   ports that share the device's interrupt.

## 6. Not modelled

Reading services (`ref_*`, `get_*`, `sns_*`), trace and log calls, stacks and
register contents, the interrupt controller's enable bits, parameter errors,
the extensions, the configurator, scripts, samples and tests, and the second
processor port.

By far the most lines of the repository are device code and headers of the
vendor's development kit (`target/.../simplicity_sdk_*`: register definitions,
clock and energy management), of which the port calls a few functions to set up
clocks, pins and the serial device; they have no states of their own that the
kernel's correctness rests on, and a model of register definitions would say
nothing. Of the lines of the kernel, the processor part and the service modules
the mapped definitions cover the functions that change state.
