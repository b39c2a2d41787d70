----------------------------- MODULE MainWindow -----------------------------
(***************************************************************************)
(* app/gui/widgets/main_window.cpp with simulation_controls_widget.cpp and *)
(* the rows of process_table_model.cpp: the window that owns the kernel,   *)
(* steps it by hand or from a timer, and rebuilds it on Reset and Restart. *)
(*                                                                         *)
(* All of it runs on the GUI thread.  A click or a timeout is delivered to *)
(* one slot per connection, one after the other; every rebuild connects    *)
(* the controls and the timer once more, since only the connections of the *)
(* observer are removed.  `delivery` is the signal being delivered and the *)
(* slot calls it has left.  The dialogs are modal: while one is open, no   *)
(* control can be used.  The detail dialog may be opened during auto-run,  *)
(* and the timer goes on under it.                                         *)
(***************************************************************************)
EXTENDS KernelSetup

CONSTANT MaxConnections   \* bound: the connections of a control

ASSUME WindowAssumption == MaxConnections \in Nat \ {0}

VARIABLES
    connections,      \* the connections of each control and of the timer
    delivery,         \* [signal, left]: the slot calls still to be made
    timer,            \* autoRunTimer_ is active
    elapsed,          \* its interval is over and the timeout not yet emitted
    running,          \* the controls are in the mode of setSimulationRunning
    has_programs,     \* the property "hasPrograms" of restartButton_
    restart_enabled,  \* restartButton_ is enabled
    quantum_enabled,  \* quantumSpin_ is enabled
    chosen,           \* currentPolicy_ and currentQuantum_
    submitted,        \* submittedPrograms_
    rows,             \* the rows of ProcessTableModel: [pid, program]
    shown,            \* what the queue models, the table and the tick label show
    details,          \* what ProcessDetailDialog shows, or NoDetails
    stepped           \* history: the ticks since the last click or timeout

controlVars == <<timer, elapsed, running, restart_enabled, quantum_enabled>>
windowVars == <<connections, has_programs, chosen, submitted, rows>>
wvars == <<vars, controlVars, windowVars, shown, delivery, details, stepped>>

\* QueueModel shows a ready process with its priority, a blocked one with its
\* wakeup tick.
ReadyShown == [i \in DOMAIN ready |-> <<ready[i], priority[ready[i]]>>]
BlockedShown == blocked

\* What ProcessTableModel copies of each process.
TableShown == [p \in Created |-> <<state[p], priority[p], used[p]>>]

\* What refreshViews reads of the kernel.
View == [ready |-> ReadyShown, blocked |-> BlockedShown, tick |-> tick,
         table |-> TableShown]

\* No dialog is open.
NoDetails == [pid |-> NoProc, left |-> 0]

\* The clicks; a timeout is delivered like them.
Signals == {"step", "play", "pause", "reset", "restart", "addProgram"}

WInit == /\ Init
         /\ config = [policy |-> "RoundRobin", quantum |-> 4]
         /\ connections = 1
         /\ delivery = [signal |-> "step", left |-> 0]
         /\ timer = FALSE
         /\ elapsed = FALSE
         /\ running = FALSE
         /\ has_programs = FALSE
         /\ restart_enabled = FALSE
         /\ quantum_enabled = TRUE
         /\ chosen = config
         /\ submitted = <<>>
         /\ rows = <<>>
         /\ shown = View
         /\ details = NoDetails
         /\ stepped = 0

-----------------------------------------------------------------------------
(* Signals.                                                                *)

Quiet == pc = "api" /\ delivery.left = 0

\* The dialog would leave the window to the user.
HasInput_Modeless == Quiet

\* The window, and not a dialog, has the user's input.
HasInput == Quiet /\ details = NoDetails

IsEnabled(signal) ==
    CASE signal = "pause"   -> running
      [] signal = "restart" -> restart_enabled
      [] OTHER              -> ~running

Rebuilds(signal) == signal \in {"reset", "restart"}

\* Begins the delivery of a signal to each of its connections.
Deliver(signal) == /\ delivery' = [signal |-> signal, left |-> connections]
                   /\ stepped' = 0
                   /\ UNCHANGED <<vars, windowVars, shown, details>>

\* A click on an enabled control.
Emit(signal) ==
    /\ HasInput
    /\ IsEnabled(signal)
    /\ Rebuilds(signal) => 2 * connections <= MaxConnections
    /\ Deliver(signal)
    /\ UNCHANGED controlVars

TimerElapses ==
    /\ timer
    /\ ~elapsed
    /\ Quiet
    /\ elapsed' = TRUE
    /\ UNCHANGED <<vars, timer, running, restart_enabled, quantum_enabled,
                   windowVars, shown, delivery, details, stepped>>

\* An event loop runs under each dialog, and timers do not care for modality.
EmitTimeout ==
    /\ Quiet
    /\ elapsed
    /\ elapsed' = FALSE
    /\ Deliver("timeout")
    /\ UNCHANGED <<timer, running, restart_enabled, quantum_enabled>>

\* setInterval starts an active timer anew: the interval that was about to be
\* over is lost.  The slider is enabled while the timer runs.
OnSpeedChanged ==
    /\ HasInput
    /\ elapsed
    /\ elapsed' = FALSE
    /\ UNCHANGED <<vars, timer, running, restart_enabled, quantum_enabled,
                   windowVars, shown, delivery, details, stepped>>

\* QTimer::start and stop.
StartTimer == timer' = TRUE /\ elapsed' = FALSE
StopTimer == timer' = FALSE /\ elapsed' = FALSE

\* The next slot call of the signal being delivered.
Receive(signal) == /\ pc = "api"
                   /\ delivery.signal = signal
                   /\ delivery.left > 0
                   /\ delivery' = [delivery EXCEPT !.left = @ - 1]
                   /\ UNCHANGED details

\* SimulationControlsWidget::setSimulationRunning.
SetSimulationRunning(r) == /\ running' = r
                           /\ quantum_enabled' = ~r
                           /\ restart_enabled' = (~r /\ has_programs)

SetHasPrograms(has) == has_programs' = has /\ restart_enabled' = has

\* The running kernel takes the choice over.
ChooseConfig_AtOnce(c) ==
    /\ HasInput
    /\ ~running
    /\ c # chosen
    /\ chosen' = c
    /\ config' = c
    /\ UNCHANGED <<program_store, next_pid, process_metadata, priority, state,
                   used, ready, blocked, waking, cpuVars, tick, pc, event,
                   controlVars, connections, has_programs, submitted, rows,
                   shown, delivery, details, stepped>>

\* The combo box and the spinner change only what the next kernel will use.
ChooseConfig(c) ==
    /\ HasInput
    /\ ~running
    /\ c # chosen
    /\ c.quantum # chosen.quantum => c.policy = chosen.policy /\ quantum_enabled
    /\ chosen' = c
    /\ quantum_enabled' = IF c.policy = chosen.policy THEN quantum_enabled
                          ELSE c.policy # "FCFS"
    /\ UNCHANGED <<vars, timer, elapsed, running, restart_enabled, connections,
                   has_programs, submitted, rows, shown, delivery, details,
                   stepped>>

-----------------------------------------------------------------------------
(* Slots.                                                                  *)

EngineStep_ClockStuck == NotifyTick(tick) /\ stepped' = stepped + 1

\* SimulationEngine::step through its ClockService.
EngineStep == NotifyTick(tick + TickInterval) /\ stepped' = stepped + 1

OnStepClicked ==
    /\ Receive("step")
    /\ IF HasActiveProcesses THEN EngineStep ELSE UNCHANGED <<vars, stepped>>
    /\ UNCHANGED <<controlVars, windowVars, shown>>

OnPlayClicked ==
    /\ Receive("play")
    /\ IF HasActiveProcesses THEN StartTimer /\ SetSimulationRunning(TRUE)
                             ELSE UNCHANGED controlVars
    /\ UNCHANGED <<vars, windowVars, shown, stepped>>

OnPauseClicked ==
    /\ Receive("pause")
    /\ StopTimer
    /\ SetSimulationRunning(FALSE)
    /\ UNCHANGED <<vars, windowVars, shown, stepped>>

OnAutoRunTick ==
    /\ Receive("timeout")
    /\ IF HasActiveProcesses
       THEN EngineStep /\ UNCHANGED controlVars
       ELSE /\ StopTimer
            /\ SetSimulationRunning(FALSE)
            /\ UNCHANGED <<vars, stepped>>
    /\ UNCHANGED <<windowVars, shown>>

\* ProcessTableModel::setProcessName adds a stub for a pid without a row.
Named(table, p, program) ==
    IF \E i \in DOMAIN table : table[i].pid = p
    THEN [i \in DOMAIN table |-> IF table[i].pid = p
                                 THEN [pid |-> p, program |-> program]
                                 ELSE table[i]]
    ELSE Append(table, [pid |-> p, program |-> program])

\* The names of the programs that are run again, one after the other.
RowsFor(programs) ==
    FoldLeftDomain(LAMBDA table, i : Named(table, i, programs[i]), <<>>, programs)

\* refreshViews: the two queue models, the tick label and the table's rows.
RefreshViews == shown' = View'

\* Forgets the model of the blocked queue.
ClearViews_KeepsBlocked ==
    shown' = [ready |-> <<>>, blocked |-> shown.blocked, tick |-> 0, table |-> <<>>]

\* Both queue models and the rows are cleared, the tick label is set to 0.
ClearViews == shown' = [ready |-> <<>>, blocked |-> {}, tick |-> 0, table |-> <<>>]

\* Forgets the table.
ClearPrograms_KeepsRows == submitted' = <<>> /\ UNCHANGED rows

ClearPrograms == submitted' = <<>> /\ rows' = <<>>

OnResetClicked ==
    /\ Receive("reset")
    /\ StopTimer
    /\ running' = FALSE
    /\ quantum_enabled' = TRUE
    /\ SetHasPrograms(FALSE)
    /\ ClearPrograms
    /\ ClearViews
    /\ SetupKernel(chosen, <<>>)
    /\ connections' = connections + 1
    /\ UNCHANGED <<chosen, stepped>>

OnRestartClicked ==
    /\ Receive("restart")
    /\ IF submitted = <<>>
       THEN UNCHANGED <<vars, controlVars, windowVars, shown>>
       ELSE /\ StopTimer
            /\ running' = FALSE
            /\ quantum_enabled' = TRUE
            /\ SetHasPrograms(TRUE)
            /\ SetupKernel(chosen, submitted)
            /\ rows' = RowsFor(submitted)
            /\ RefreshViews
            /\ connections' = connections + 1
            /\ UNCHANGED <<chosen, submitted>>
    /\ UNCHANGED stepped

OnAddProgramClicked(meta) ==
    /\ Receive("addProgram")
    /\ next_pid <= MaxProcs
    /\ submitted' = Append(submitted, meta)
    /\ SetHasPrograms(TRUE)
    /\ Store(meta)
    /\ next_pid' = next_pid + 1
    /\ process_metadata' = [process_metadata EXCEPT ![next_pid] = meta]
    /\ Transition(next_pid, "Admit")
    /\ EnqueueReady(next_pid)
    /\ rows' = Named(rows, next_pid, meta)
    /\ UNCHANGED <<config, priority, used, blocked, waking, cpuVars, tick, pc,
                   event, timer, elapsed, running, quantum_enabled, connections, chosen,
                   stepped>>
    /\ RefreshViews

\* The dialog is cancelled.
OnAddProgramCancelled ==
    /\ Receive("addProgram")
    /\ UNCHANGED <<vars, controlVars, windowVars, shown, stepped>>

\* Leaves the timer on, for the next timeout to stop.
OnSimulationComplete_KeepsTimer ==
    /\ NotifySimulationComplete
    /\ SetSimulationRunning(FALSE)
    /\ UNCHANGED <<windowVars, shown, timer, elapsed, delivery, details, stepped>>

OnSimulationComplete ==
    /\ NotifySimulationComplete
    /\ StopTimer
    /\ SetSimulationRunning(FALSE)
    /\ UNCHANGED <<windowVars, shown, delivery, details, stepped>>

-----------------------------------------------------------------------------
(* The detail dialog: a click on the last column of the process table,     *)
(* whose slot opens it once for each connection.                           *)

NameForPid(p) == LET i == CHOOSE i \in DOMAIN rows :
                              /\ rows[i].pid = p
                              /\ \A j \in 1..(i-1) : rows[j].pid # p
                 IN  rows[i].program

\* The dialog reads the process once; nothing refreshes it.
Details(p, n) == [pid |-> p, left |-> n, program |-> NameForPid(p),
                  state |-> state[p], used |-> used[p]]

\* ProcessTableWidget takes the pid from the first column of the clicked row.
ClickedPid(i) == rows[i].pid

OnProcessInfoRequested(i) ==
    /\ HasInput
    /\ details' = Details(ClickedPid(i), connections - 1)
    /\ UNCHANGED <<vars, controlVars, windowVars, shown, delivery, stepped>>

\* The next connection's slot opens the dialog again.
CloseDetails ==
    /\ Quiet
    /\ details # NoDetails
    /\ details' = IF details.left > 0 THEN Details(details.pid, details.left - 1)
                                      ELSE NoDetails
    /\ UNCHANGED <<vars, controlVars, windowVars, shown, delivery, stepped>>

-----------------------------------------------------------------------------

\* When engine_->step() returns, the slot that called it refreshes the views.
KernelRuns == /\ KernelStep
              /\ IF pc = "done" THEN RefreshViews ELSE UNCHANGED shown
              /\ pc # "complete"
              /\ UNCHANGED <<controlVars, windowVars, delivery, details, stepped>>

Slot == \/ OnStepClicked \/ OnPlayClicked \/ OnPauseClicked \/ OnAutoRunTick
        \/ OnResetClicked \/ OnRestartClicked \/ OnAddProgramCancelled
        \/ \E meta \in Programs : OnAddProgramClicked(meta)

User == \/ \E signal \in Signals : Emit(signal)
        \/ \E c \in Configs : ChooseConfig(c)
        \/ OnSpeedChanged
        \/ \E i \in DOMAIN rows : OnProcessInfoRequested(i)
        \/ CloseDetails

WNext == KernelRuns \/ OnSimulationComplete \/ Slot \/ User \/ TimerElapses
         \/ EmitTimeout

\* Time passes, and the event loop delivers what was emitted and, unless it is
\* taken back, the timeout of a timer whose interval is over.
WFairness == /\ WF_wvars(KernelRuns \/ OnSimulationComplete)
             /\ WF_wvars(Slot)
             /\ WF_wvars(TimerElapses)
             /\ WF_wvars(EmitTimeout)

WSpec == WInit /\ [][WNext]_wvars /\ WFairness

-----------------------------------------------------------------------------

\* The timer runs exactly while the controls offer Pause, and Restart is offered
\* exactly when nothing runs and there is something to restart; so no click can
\* rebuild the kernel under an active timer.
ControlsMatchTimer ==
    /\ timer <=> running
    /\ restart_enabled <=> (~running /\ submitted # <<>>)

\* The window's list of programs, the kernel's processes and the rows of the
\* table stay in step through additions, Reset and Restart: the i-th program
\* runs as pid i and its row shows its name.
WindowMatchesKernel ==
    /\ Len(submitted) = next_pid - 1
    /\ Len(rows) = next_pid - 1
    /\ \A p \in Created : /\ process_metadata[p] = submitted[p]
                          /\ rows[p] = [pid |-> p, program |-> submitted[p]]

\* Whenever the window waits for the user, its queue views, its table and its
\* tick label show the kernel as it is, also after Reset and Restart.
ViewsAreFresh == Quiet => shown = View

\* After Play the simulation comes to an end and the timer stops, whatever
\* dialogs are opened under it, unless the user keeps moving the speed slider.
AutoRunEnds == (timer ~> ~timer) \/ []<><<OnSpeedChanged>>_wvars

\* The choice of a policy or quantum leaves the simulation alone: a kernel
\* changes its configuration only by being replaced by one that has the chosen
\* configuration and has not executed a tick.
ChoiceWaitsForRebuild ==
    [][config' # config => /\ config' = chosen
                           /\ tick' = 0
                           /\ \A p \in Pid : used'[p] = 0]_wvars

\* An open detail dialog is about a process of the kernel that runs now, shows
\* the program that process runs, and is never ahead of it, though ticks go on
\* under the dialog and Reset and Restart replace every process.
DetailsAreOfThisRun ==
    details # NoDetails =>
        /\ details.pid \in Created
        /\ details.program = process_metadata[details.pid]
        /\ details.used <= used[details.pid]
        /\ details.state = "Terminated" => state[details.pid] = "Terminated"

\* The readme (README.md:15) has users "step through them tick-by-tick": a
\* click on Step executes at most one tick.
OneTickPerClick == delivery.signal = "step" => stepped <= 1

\* The comment on the policy selector (simulation_controls_widget.cpp:86):
\* "Disable quantum for FCFS".
NoQuantumForFcfs == chosen.policy = "FCFS" => ~quantum_enabled

=============================================================================
