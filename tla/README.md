# visOS in TLA+

A verification development for visOS, a teaching simulator of an operating
system: a kernel with three scheduling policies, a simulation engine that
drives it, a command line demo and a Qt window. The modules below model the
simulator's logic, TLC checks them on small instances, and TLAPS proves for every
value of the constants the safety properties of all passing runs, among them that
the kernel and its blocked queue implement their abstract specifications.

## 1. The system

| Component | State | Operations | Interacts with |
|---|---|---|---|
| Process control block (`src/core/process_control_block.*`) | `state_`, `priority_`, `cpu_time_used_` | `applyTransition`, `incrementCpuTime`, `setPriority`, `isFinished` | shared by kernel, queues, CPU |
| Kernel (`src/kernel/kernel.*`) | `config_`, `all_processes_`, `process_metadata_`, `current_tick_`, observers | `submitProgram`, `runProgram`, `notifyTick`, the four event handlers, `dispatchNext` | owns all services; called by the engine; calls observers synchronously |
| CPU (`src/services/cpu.*`) | process, profile, remaining quantum | `executeTick`, `loadProcess`, `unloadProcess` | raises events into the kernel by callback |
| Scheduler and strategies (`src/services/scheduler.*`, `scheduling/`) | a strategy | `selectNextProcess`, `defaultQuantum` | removes from the ready queue |
| Memory manager, ready queue (`src/services/ready_queue.*`) | a deque | `enqueue`, `enqueueByPriority`, `dequeue` | kernel, strategies |
| Blocked queue (`src/services/blocked_queue.*`) | a vector of process and wakeup tick | `add`, `getCompleted` | kernel |
| Program store, pid generator | counters and a map | `store`, `load`, `next` | kernel |
| Clock service, simulation engine (`src/kernel/simulation_engine.*`) | `current_time_`, `tick_count_`, `running_` | `run`, `step`, `stop` | calls `notifyTick` |
| Observer adapter, Gantt model (`app/gui/models/gantt_model.*`) | segments per process, last completed tick | observer callbacks, `generateReport` | hears of every transition and tick |
| Main window, controls (`app/gui/widgets/main_window.*`, `simulation_controls_widget.*`) | kernel, engine, timer, submitted programs, enabled controls | one slot per control, the timer, completion | owns everything; rebuilds the kernel on Reset and Restart |
| Table and queue models | rows, entries | `updateFromKernel`, `setProcessName`, `refresh*`, `clear` | copies of the kernel's state |
| Submission dialog (`program_submission_dialog.*`) | preset, fields, rows of calls | presets, edits, `addSyscallRow`, `removeSyscallRow`, `getMetadata` | the window reads the metadata of an accepted one |
| Process table widget, detail dialog (`process_table_widget.*`, `process_detail_dialog.*`) | what was read of a process | a click on a row, close | opened by the window, also during auto-run |
| Gantt chart (`gantt_widget.*`) | none | `drawRow` | reads the Gantt model when painted |
| Command line demo (`app/cli/main.cpp`) | policy and quantum of the flags | `main` | one kernel, one engine, one `run()` |
| Queue view, event log, logger, timer interrupt | text | formatting | see section 8 |

What makes the code hard to test:

* `notifyTick` moves processes between the ready queue, the CPU, the blocked
  queue and a local vector through several calls, with observer callbacks in
  between. A process must be in exactly the one place its `ProcessState` says,
  and an observer may find no more than one on its way.
* Boundaries in ticks: wakeups, quantum, the last tick of a program, a call on
  that tick, a quantum of 0, a tick budget.
* Orders: `std::partition` promises none; preempted, woken and new processes
  compete for the same queue; `setPriority` does not move a queued process.
* `stop()` may come from another thread while `run()` is between the reads of its
  loop condition.
* Something must eventually happen: `run()` returns, work is finished even while
  the CPU idles, auto-run ends, a ready process is served.
* The window delivers signals once per connection and reconnects on every
  Reset and Restart; timer, dialogs and rebuilds interleave; it holds copies of
  kernel state that go stale.
* The submission dialog and the command line describe the same three programs
  in code of their own; the dialog's form keeps whatever a preset does not set,
  and its rows may claim the same tick.

The full list, with lines and the properties that cover each entry, is in
`PROJECT.json` under `hazards`.

What makes each component correct: the PCB only makes legal transitions; the
kernel keeps every process placed, the CPU busy and the accounts right; the
policies serve in the order they promise; the blocked queue returns exactly the
due processes; the engine ends for a reason; the Gantt model records a gapless
history that agrees with the kernel, and the chart drawn from it one state per
column; the window's controls, lists, views and dialogs agree with the kernel it
currently owns; the submission dialog's metadata is what its form shows; the
command line demo ends with all its programs ended.

## 2. Modules

| Module | Models | Composition |
|---|---|---|
| `Pcb` | the two transition tables | used by `Kernel` |
| `ProcessLifecycle` | abstract: what the kernel promises a process | refined by `Kernel` |
| `Kernel` | kernel, CPU, scheduler, strategies, ready queue, program store, pids | extends `Pcb` |
| `KernelHistory` | `Kernel` with history variables | extends `Kernel` |
| `SimulationEngine` | `run`, `step`, `stop`, clock | extends `Kernel` |
| `SamplePrograms` | program metadata, the sample programs | stands alone |
| `CommandLine` | `main()` of `visos_cli`, beside a library caller | extends `SimulationEngine`, `SamplePrograms` |
| `WakeupSet` | abstract: the blocked queue as a set, and how it is used | refined by `BlockedQueue` and by `Kernel` |
| `BlockedQueue` | the vector and the steps of `std::partition` | stands alone |
| `KernelSetup` | the kernel a rebuild makes | extends `Kernel` |
| `GanttModel` | the segments, the report's numbers, the chart's bars | extends `KernelSetup` |
| `MainWindow` | window, controls, table rows, views, timer, detail dialog | extends `KernelSetup` |
| `ProgramSubmissionDialog` | the form, its presets and rows, the metadata | extends `SamplePrograms` |
| `DataLemmas` | lemmas on sequences, folds, sums, maxima and remainders | extended by the proofs |
| `KernelProofs` | proofs about `Kernel` and the kernels a rebuild makes | extends `KernelSetup`, `DataLemmas` |
| `HistoryProofs`, `GanttProofs`, `WindowProofs` | proofs about `KernelHistory`, `GanttModel`, `MainWindow` | extend that module and `KernelProofs` |
| `EngineProofs` | proofs about `SimulationEngine` and `CommandLine` | extends `CommandLine`, `KernelProofs` |
| `DialogProofs` | proofs about `ProgramSubmissionDialog` | extends that module, `DataLemmas` |
| `BlockedQueueProofs` | proofs about `BlockedQueue` | extends `BlockedQueue`, `DataLemmas` |
| `MC*` | values of the constants for TLC | extend the module they check |

A definition with a suffix after an underscore (`Due_OneLate`) is a plausible
mistake in the code. No specification uses it; putting it in the place of the
definition it is named after makes a property fail, which shows that the
property is about the code.

### Kernel

`Kernel::notifyTick` is one C++ call, but observers are called between its
parts and can read the process list, the queues and the CPU. The model has one
step per part, at most one state transition in each, and `pc` says which comes
next:

    api --NotifyTick--> wake --(Wake)*--> executeTick --> dispatch --> [complete] --> done --> api

* `NotifyTick` sets the clock and takes the due entries out of the blocked
  queue, in any order; each `Wake` makes one of them ready.
* `ExecuteIdle`, `HandleSyscallBlock`, `HandleProcessExit`,
  `HandleQuantumExpired` and `ContinueExecution` are `CPU::executeTick` with the
  handler of the event it raises, up to that handler's call of `dispatchNext`.
  Their guards are the code's tests in the code's order: call, end, quantum.
* `DispatchNext`/`DispatchNone` are `dispatchNext`; `AfterDispatch` is the
  completion test that only `handleProcessExit` makes.
* `SubmitProgram`, `RunProgram`, `SetPriority` are the calls a user can make
  between ticks. `RunProgram` is one step: no observer in the repository reads
  the process list in its callbacks.

A change of state and the move that goes with it are one step, though
`transitionState` calls its observers between the two. `SeenReady` is the ready
queue as such a callback finds it: without the process that is being dispatched,
which `selectNext` has already taken out, and otherwise as it was before the step,
since every other move comes after the transition. The other places are seen as
they were before the step, the states as they are after it.
`ObserversSeeOneInMotion` says what follows.

A program is a record `[cpu, calls]`, with `calls` the map inside
`SyscallProfile`. The C++ exceptions are modelled by absence: `Transition` has
the guard of `applyTransition`; by `Placement` the guard holds wherever a
handler applies a transition, and TLC's deadlock check would report a
`notifyTick` that cannot go on. Ticks are unbounded integers; no run comes
near the width of the code's type. The quantum is a 32-bit int where that shows:
`CountedDown` gives both outcomes a build can have of `remaining_quantum_--` on
INT_MIN, which the code leaves undefined.

### KernelHistory

Adds, without constraining the kernel, the order in which processes became
ready, how long each has waited, the length of the current slice, and the ticks
that emptied the system and announced it.

### SimulationEngine

`BeginRun`, `ReadFlag`, `RunTick`, `EndRun` are the parts of `run()`; `Step` is
`step()`. The loop reads the atomic flag first, then the processes and the tick
count, and then calls the clock. Only `Stop` can come between these, from another
thread, and it writes the flag alone, so that the read of the flag is a step
(`ReadFlag`) and the rest of a turn is one more (`RunTick`, or `EndRun` when
`MayGoOn` is false). `Stop` may come between any two steps, also inside a tick;
`stop_asked` records which it was and `late` counts the ticks that begin with the
flag cleared. A `stop()` before `run()` has set the flag is overwritten and changes
nothing. The clock's time, the engine's tick count and the kernel's tick are
always assigned together, so `tick` stands for the three.

### BlockedQueue and WakeupSet

`GetCompleted`, `ScanUp`, `ScanDown` and `Take` are `getCompleted` with the two
iterators of the usual `std::partition`. `WakeupSet` is the contract between the
two sides: the queue gives back exactly what is due, once and in any order
(`BlockedQueue` implements it, `SleepersSpec`); the kernel never adds a process
that is held, calls with a clock that moves on, and walks through the result
(`WalkOn`) before it adds the next (`Kernel` implements it, `WakeupSpec`, with
`blocked` as `held` and `waking` as `completed`). `BlockedQueue` assumes of its
caller what `Kernel` is so shown to do, which is why `Kernel` may work with the
set in place of the vector.

### GanttModel

`Observe` accompanies each kernel step with the slots it triggers, since the
adapter's signals are delivered synchronously; `Heard` is what the model does
with one step's calls (a creation and a transition in `runProgram`). `Rebuild`
is a Reset: the model is cleared and a new kernel starts at tick 0. `EndShown`,
`TimeShown` and `ContextSwitches` are the numbers of `generateReport` and of the
detail dialog, `BarEnd` and `BarsAt` the bars of `GanttWidget::drawRow`, which
end elsewhere while a segment is ongoing.

### MainWindow

`Emit` is a click and `EmitTimeout` a timeout; `Receive` is the next slot call it
causes, one per connection. Each slot is an action. The kernel's steps run
inside a slot; when the engine returns, `refreshViews` follows (`KernelRuns`).
`SetupKernel` gives every kernel variable its value after a rebuild and the
repeated submission of the remembered programs.

Dialogs are modal: adding a program is one step, `OnSimulationComplete` is a
step of the kernel's completion, and while a detail dialog is open `HasInput` is
false. The detail dialog can be opened during auto-run, though: the table is
never disabled, and timers fire in the dialog's own event loop. `details` is
what the open dialog has read, with the number of slot calls that will open it
again. `elapsed` says that the timer's interval is over; the slider, enabled
during auto-run too, restarts the timer and so takes that back
(`OnSpeedChanged`). A slider moved before the interval is over delays the
timeout in the same way and is not a step of its own.

### ProgramSubmissionDialog and SamplePrograms

`OnPresetSelected`, `AddSyscallRow`, `RemoveSyscallRow` and `GetMetadata` are the
dialog's functions, `EnterField` and `EnterCell` the user's edits, `edited` a
history variable. A preset's values are translated from the dialog's code and
`DemoPrograms` from `main.cpp`, so that comparing the two is a check of the code.
Which row is current belongs to Qt: `RemoveSyscallRow` may take any.
`Runnable` is the part of a program the kernel acts on; `MainWindow` takes any
program of a set where the dialog returns one.

### CommandLine

`ParseFlags` reads the arguments one flag at a time, `SubmitDemo`, `RunDemo`,
`CallRun`, `InRun` and `PrintSummary` follow `main()`. The same module has the
behaviours of a library caller (`Library`), who uses `SimulationEngine` freely,
so that one run checks both users of the engine.

## 3. Runs

| Run | Expected | Shows |
|---|---|---|
| `kernel` | pass | placement, work conservation, CPU accounting, completion, priority, FCFS, refinement of `ProcessLifecycle` and of `WakeupSet`; what observers find inside a callback; bounded waiting, exact slices, service in order, completion announced exactly when due |
| `engine` | pass | `run()` returns, finishes its work, leaves it for a reason only, and begins at most the one tick after a `stop()` that had been admitted before it; `visos_cli` ends its programs whatever its flags |
| `blocked_queue` | pass | the vector, partitioned in place, implements the set; no iterator leaves it |
| `gantt` | pass | recorded history against kernel accounting, the chart's columns, both through rebuilds |
| `window` | pass | controls, program list, table, views, detail dialog and timer stay consistent; choices wait for a rebuild; auto-run ends |
| `dialog` | pass | presets are the command line's programs; rows on the same tick |
| `pending_order` | violation | README:169 on `std::partition` |
| `priority_ties` | violation | README:117 on equal priorities |
| `cpu_time` | violation | README:51 on the estimated CPU time |
| `default_run` | violation | README:577 on the total ticks of the default run |
| `step_click` | violation | README:15 on tick-by-tick stepping |
| `quantum_spin` | violation | a comment on the quantum selector |

The disagreements behind the last six are described in section 7.

### Bounds

* `kernel`: three processes of at most two submitted programs, one that computes
  for three ticks and one that blocks in its work and on its last tick; FCFS,
  Round Robin with a quantum of 0 and 2, and Priority with 1; two priorities, 8
  ticks. Three processes are what it takes for one on the CPU, one blocked and
  one ready, or for two to wake up in one tick while a third runs; 8 ticks let
  them end and let a program run after a completion. The quanta are below, at
  and above one tick, and shorter than the longest program; a quantum of 0 is
  accepted by the configuration.
* `engine`: for a library caller two programs, one with calls that outlast the
  other, no bound on the clock, and a `max_ticks` of 3 (too few) or 200 (more than
  all programs together need). For `visos_cli` its three programs, every list of
  up to three words of a set that has each flag and values that are right, wrong
  and flags themselves, and both flags together with each policy and with the
  quanta 1, 0, 4, INT_MIN and one `std::stoi` rejects.
* `blocked_queue`: three entries of three durations over four ticks reach every
  pair of positions of the two iterators.
* `gantt`: three processes and 12 ticks, quantum 2 with a program of 3 ticks, so
  that preemptions, calls and wakeups mix.
* `window`: two programs, each policy; at most 4 connections, that is up to two
  rebuilds; no bound on the clock, since a step requires an active process.
* `dialog`: up to three rows, so that a row can be the last of three on one tick;
  the ticks the user enters are those of two presets; one name and one number
  that no preset has.

`MaxTick` bounds the free clock of `Kernel`; the engine and the window call
`NotifyTick` themselves and need no such bound. `CHECK_DEADLOCK FALSE` is set in
the two runs of `BlockedQueue`, where the bound on the clock stops the system
with nothing left to add, and in `engine` and `default_run`, where `main()`
returns.

### Fairness

* `SimulationEngine`: weak fairness of the kernel's steps and of `run()`'s loop
  says that a call that was made goes on; it is single-threaded code without
  waiting. Nobody has to call `step`, `run` or `stop`.
* `CommandLine`: besides, `main()` goes on; it is one thread that waits for
  nobody.
* `MainWindow`: time passes, and the event loop delivers what was emitted and the
  timeout of a timer whose interval is over; these are what Qt's event loop
  provides, also under a dialog. Clicks are not fair, and no fairness keeps the
  user from moving the slider: without its second disjunct `AutoRunEnds` fails.
* `ProgramSubmissionDialog`, `Kernel`, `BlockedQueue` and `GanttModel` have safety
  properties only and no fairness.

## 4. Proofs

Assumptions on the constants: programs are records of integers
(`ProgramsAssumption`), configurations are a policy and an integer quantum
(`ConfigsAssumption`), the bounds are natural numbers, the tick interval is
positive and priorities are integers (`BoundsAssumption`); the durations in
`BlockedQueue` are finitely many positive numbers (`QueueAssumption`; the
dialog's run from 1 to 50). Nothing is assumed of the number of processes, of the
programs or of the quantum. Ten theorems have a hypothesis besides, each with
its name:

| Hypothesis | Of | Why |
|---|---|---|
| `ProgramsFitQuantum` | `FcfsHolds` | FCFS's quantum is INT_MAX, an estimate is 64 bits wide: a longer program is preempted by FCFS |
| `QuantumsCountDown` | `SliceHolds`, `BoundedWaitingHolds` | the decrement of a quantum of INT_MIN overflows and may leave a full quantum |
| `TicksByOne` | `RunTimeIsCpuTimeHolds`, `BlockedTimeIsCallTimeHolds` | the report subtracts ticks, the kernel counts them: they agree for the interval 1, which the window and the demo use |
| `CallsTakeTime` | `BlockedTimeIsCallTimeHolds` | a call of duration 0 or less still blocks until the next tick |
| `QuantumsPositive` | `SwitchesAreInterruptionsHolds` | the spin box of the quantum begins at 1 (`simulation_controls_widget.cpp:41`); with 0 the kernel preempts at every tick, and the remainder in the property means nothing |
| `MainIsKnown` | `MainKeepsKernel`, `MainImplementsLifecycle`, `MainUsesWakeupSet`, `SummaryHolds` | the constants of the kernel include the configurations flags can give and `main()`'s programs; it says nothing of a library caller's |

`DataLemmas` has what the proofs need of data: what `InsertAt`, `RemoveAt` and
`Tail` do to the places of a sequence, the length of an injective sequence, a
least counterexample where an induction would be used, and from it that folds
exist and what they return for sums, maxima and appended elements, and how the
remainder of a count changes when the count goes up by one.

The proofs by component, with the invariant each rests on:

* **Kernel** (`KernelProofs`). `Inv == TypeOK /\ Placement /\ ControlInv` is
  inductive. `Placement` alone is not: that `HandleProcessExit` may fire needs the
  relation of `pc` to `waking` and `current` that `ControlInv` states: outside
  `wake` nothing is waking, and in `dispatch` the CPU is empty. The steps are
  those of `Driven`, that is `Next` without the bound on the clock, so that the
  lemmas also serve the modules that drive the kernel on a clock of their own.
* **Kernel, what a tick achieves** (`KernelProofs` too). `TickInv` adds what the
  parts of a tick have established so far (after `dispatchNext` an idle CPU
  means an empty queue, `complete` is reached only without active processes, no
  event is left from the tick before), `AccountInv` ties the CPU time of a
  process to its program, and `FcfsInv` says that under FCFS what is gone of the
  quantum was spent by the process itself. `KernelInv` is the conjunction of the
  first three with `NoOverdueSleeper`, `Promises` what follows from it.
  `ObserversSeeOneInMotion` follows from `Inv` at the start of a step: at most one
  process changes its state (`OneChanges`), by `Placement` all others are where
  their states say, and the one that changes is on the CPU, is new, has just been
  taken out of the ready queue or stands in the vector of the woken.
  `SetupKernelInv` shows `KernelInv` of a kernel that was just rebuilt, with
  whatever programs.
  `KernelImplementsLifecycle`: initial states map to initial states, and each
  action of `Kernel` is an `Admit`, `Dispatch`, `Work` or `IoComplete` of
  `ProcessLifecycle`, or a stutter.
  `KernelUsesWakeupSet`: `NotifyTick`, `Wake` and `HandleSyscallBlock` are the
  set's three actions, the rest stutters. By `Placement` a process on the CPU is
  not blocked, and by `ControlInv` nobody is waking when one blocks.
* **History** (`HistoryProofs`). `ServedInOrder` needs that the ready queue is
  sorted by claim (`OrderInv`), which only `setPriority` can spoil. For
  `SliceIsHonoured`, `SliceInv` says that the rest of the quantum and the slice
  make up the quantum of the dispatch. For `BoundedWaiting`, `WaitInv` gives each
  place of the queue its own bound: what a process has waited, what is left of
  the running slice and a slice for each process before it are together no more
  than a slice for every other process. `EndInv` follows the completion from the
  handler of the last exit to its announcement.
* **Engine and command line** (`EngineProofs`). Every step of `run`, `step` and
  `stop` is a `Driven` step of the kernel or none, and so is every step of
  `main()` but the reading of the flags, during which the kernel is still as
  constructed (`FlagsInv`). Hence both keep all of the kernel's promises and both
  of its refinements on an unbounded clock. `RunInv` ties `running_` to the call
  of `run()` that is active, and the tick that may be late to a turn of the loop
  that read the flag between two ticks; `RunStopsForAReason` and `StopIsPrompt`
  are proved of `EngineMoves`, what either caller does to the engine.
  `SummaryHolds` (of `SummaryIsComplete`, which no run checks) is the safety half
  of `DemoFinishes`, without the end it promises: `MainInv` follows `main()` from one line to the
  next (the store holds its programs in order, all have been run before `run()`
  is called, and `run()` that is back has used its ticks or left nothing active),
  and `KernelInv` says that a process that is not active has terminated with the
  CPU time of its program.
* **Gantt model** (`GanttProofs`). `GanttInv`: the segments of each process are a
  history that ends in its present state and tiles the ticks since its arrival.
  `RunsApart` orders the segments in which different processes run, from which
  `OneRunsAtATime` follows; `RunTimes` and `BlockTimes` say how far the times of
  the report are ahead of or behind the kernel's accounts at each point of a
  tick, for instance that the running process is shown one tick more than it was
  charged, between two ticks. A step of the kernel changes the sums over
  segments by one tick or not at all (`ClockInv` and `DataLemmas`).
  For `SwitchesAreInterruptions`, which compares two sums over all processes,
  `SwitchInv` compares them process by process and at every moment: the segments
  in which a process ran are the interruptions so far, which the program and the
  quantum determine, and one more while it runs or after it ended. An
  interruption by the quantum comes when the ticks since the last call are a
  multiple of it, so the invariant has to know the running quantum as well: it is
  the quantum less the remainder of those ticks, and the remainder is 0 for
  whoever waits. `ProcessMoves` reduces the kernel's actions to the four things
  that can happen to one process.
* **Window** (`WindowProofs`). `MatchInv` makes list, table and kernel one
  sequence, also through the loop of a restart (`RowsFor`); `WindowKeepsKernel`
  carries the kernel's promises through every rebuild; `FreshInv` says that
  each call of the kernel is followed by a refresh. `ControlsInv` needs
  `DeliveryInv` and `AddingInv`, that no program is added while the timer runs;
  `DetailsInv` needs `DialogInv`, that under a dialog nothing but timeouts is
  delivered, so that no rebuild comes under it.
* **Blocked queue** (`BlockedQueueProofs`). `QueueInv` says what the iterators have
  separated so far (`Partitioned`), that no process is held twice and that, while
  the second iterator moves, the first stands at a due entry. `QueueImplementsWakeupSet`: `Add` and the last step of
  the scan are the set's actions; the swaps change the order only, and so
  stutter.
* **Submission dialog** (`DialogProofs`). `LastRowIsCalled` is about a fold over the
  rows, of any number: after the first k rows the map has exactly their ticks, and
  at each the call of the last of them, for every k up to the length
  (`CallsOfTable`, with `Induction` of `DataLemmas` over a set of numbers). For
  `PresetIsDemoProgram`, `DialogInv` says that form and rows are the preset's as
  long as the user has not edited them, and that every widget keeps its range;
  without the ranges the programs handed on (`DialogMakesPrograms`) could have a
  call at tick 0 or of no duration.

TLC checked the invariants of these proofs too, on the instances of the runs
(tiling up to tick 20), before or beside the
proof.

## 5. Only model-checked

Liveness: `RunReturns`, `RunFinishesWork`, `DemoFinishes` and `AutoRunEnds`. The
proof system has no rules for fairness and ENABLED.

## 6. Plan

Order of work, the most important behaviour first:

1. Done: kernel with its queues and policies, history, engine, blocked queue,
   Gantt model, window.
2. Done: the submission dialog and the sample programs, the command line demo,
   the detail dialog, the timer's interval and the slider, the Gantt model under
   Reset and Restart, the chart's bars, the quantum's overflow.
3. Done: proofs about the kernel, its history, the engine, the Gantt model, the
   window and the blocked queue, and the two refinements.
4. Done: proofs about the submission dialog and the command line, the context
   switches of the report, and that the kernel uses the blocked queue as its
   specification has it.

Left are further abstract specifications besides `ProcessLifecycle` and
`WakeupSet`: a clocked source of ticks that the engine implements, and a single
owner of the current kernel that the window implements.

## 7. Disagreements between the code and its documents

* `README.md:169` says that `std::partition` preserves the order of the
  elements that stay. It does not (`std::stable_partition` does), and the
  blocked queue's view can show entries in changed order.
* `README.md:117` promises FCFS order among equal priorities. A process whose
  priority changes while it is queued keeps its place, so equals can be served
  out of their order of arrival.
* `README.md:51` calls the estimate the total ticks needed to finish. A call at
  the last tick costs one tick more, since the call is noticed before the end.
* `README.md:577` shows 30 as the total ticks of the command line's run with
  `--policy rr --quantum 4`. It is 28, in the model and in what the compiled
  program prints.
* `README.md:15` has users step tick by tick. After a Reset or a Restart the
  controls are connected twice, and a click executes two ticks.
* `simulation_controls_widget.cpp:86` says the quantum is disabled for FCFS.
  `setSimulationRunning(false)` enables it whatever the policy.

One more disagreement has no run of its own, since the one guard of `Step` shows
it: `README.md:275` ends a simulation by `run()` or `step()` at `max_ticks`, but
`step()` does not test it, and the window only steps.

The readme itself lists as a limitation (`README.md:622`) that `onContextSwitch` is
never called with two processes. In the kernel's model that is a fact about
`ControlInv`, which is proved: the CPU is empty whenever `dispatchNext` begins.

## 8. Not modelled

The logger (no state depends on it; `--quiet` only switches it), the timer
interrupt (a placeholder without users), register sets and resource descriptors
(carried along and never tested), the queue view's titles and the event log
(text), colours and layout of the widgets, the wording of the report. The message
`run()` logs at its end is not modelled either: it says "max ticks reached"
whenever the count is at `max_ticks`, also when the last process ended in that
very tick.
