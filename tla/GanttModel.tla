----------------------------- MODULE GanttModel -----------------------------
(***************************************************************************)
(* app/gui/models/gantt_model.cpp: the history of every process that the   *)
(* Gantt chart, the process dialog and the narrative report show.  The     *)
(* model hears of the kernel through KernelObserverAdapter, whose signals  *)
(* are delivered synchronously, so that each kernel step carries the slots *)
(* it triggers.                                                            *)
(***************************************************************************)
EXTENDS KernelSetup

VARIABLES
    segments,      \* GanttProcess::segments, per pid
    current_tick   \* GanttModel::currentTick_: the last tick completed

gvars == <<vars, segments, current_tick>>

Ongoing == -1

Segment(s) == [start |-> current_tick, end |-> Ongoing, state |-> s]

GInit == Init /\ segments = [p \in Pid |-> <<>>] /\ current_tick = 0

\* onProcessCreated gives a new process its first segment.
OnProcessCreated(p) == <<Segment("New")>>

\* Closes the last segment with the tick that is still under way.
OnStateTransitioned_ClosesLate(h, to) ==
    Append([h EXCEPT ![Len(h)].end = current_tick + 1], Segment(to))

\* onStateTransitioned closes the last segment of h and opens the next one.
OnStateTransitioned(h, to) ==
    Append([h EXCEPT ![Len(h)].end = current_tick], Segment(to))

\* The transition is notified before the creation, so that no process of that
\* pid is found and the slot returns.
Heard_TransitionFirst(p) == IF segments[p] = <<>> THEN OnProcessCreated(p)
                            ELSE OnStateTransitioned(segments[p], state'[p])

\* runProgram notifies the creation, then the transition to Ready.
Heard(p) == LET h == IF segments[p] = <<>> THEN OnProcessCreated(p)
                                           ELSE segments[p]
            IN  OnStateTransitioned(h, state'[p])

\* Whether the observers learn of a new state of p in this step.
IsNotified(p) == state'[p] # state[p]

\* The kernel runs, and the model hears of its transitions and ticks.
Observe ==
    /\ Next
    /\ segments' = [p \in Pid |-> IF IsNotified(p) THEN Heard(p)
                                  ELSE segments[p]]
    /\ current_tick' = IF pc = "done" THEN tick ELSE current_tick

\* Forgets the tick.
Clear_KeepsTick ==
    segments' = [p \in Pid |-> <<>>] /\ UNCHANGED current_tick

Clear == segments' = [p \in Pid |-> <<>>] /\ current_tick' = 0

\* MainWindow clears the model and builds a new kernel; when it restarts, the
\* programs are then submitted and run again, as the user may do here.
Rebuild == /\ pc = "api"
           /\ Clear
           /\ \E c \in Configs : SetupKernel(c, <<>>)

GNext == Observe \/ Rebuild

GSpec == GInit /\ [][GNext]_gvars

-----------------------------------------------------------------------------

\* The end of a segment as generateReport and ProcessDetailDialog show it.
EndShown(seg) == IF seg.end = Ongoing THEN current_tick ELSE seg.end

\* An ongoing bar ends where the report ends the segment.
BarEnd_AsReported(seg) == IF seg.end = Ongoing THEN current_tick ELSE seg.end

\* Where drawRow ends a bar: it draws the present tick's column as well.
BarEnd(seg) == IF seg.end = Ongoing THEN current_tick + 1 ELSE seg.end

\* The segments of p whose bar covers column t; drawRow skips empty bars.
BarsAt(p, t) == {i \in DOMAIN segments[p] :
                     LET seg == segments[p][i]
                     IN  seg.start <= t /\ t < BarEnd(seg)}

\* Where the history of p has the segments in state s.
Places(p, s) == {i \in DOMAIN segments[p] : segments[p][i].state = s}

\* The total length the report gives to the segments of p in state s.
TimeShown(p, s) ==
    LET h == segments[p]
    IN  SumFunctionOnSet([i \in DOMAIN h |-> EndShown(h[i]) - h[i].start],
                         Places(p, s))

\* The number of segments in state s.
Count(s) == MapThenSumSet(LAMBDA p : Cardinality(Places(p, s)), Created)

\* Forgets that the first segment of a process follows no interruption.
ContextSwitches_All == Count("Running")

\* The "Context switches" of the report.
ContextSwitches == Max({0, Count("Running") - Cardinality(Created)})

\* The segments of a process are a gapless history that ends in its state.
HistoryIsGapless ==
    \A p \in Created :
        LET h == segments[p]
        IN  /\ h[1].state = "New" /\ h[Len(h)].state = state[p]
            /\ h[Len(h)].end = Ongoing
            /\ \A i \in 1..(Len(h) - 1) : /\ h[i].end = h[i+1].start
                                          /\ h[i].start <= h[i].end

\* The report's "total CPU ticks used" is the CPU time the kernel charged; for
\* the process that is on the CPU the chart is one tick ahead, because the
\* tick that dispatched it already counts as running.
RunTimeIsCpuTime ==
    pc = "api" => \A p \in Created :
        TimeShown(p, "Running") = used[p] + (IF p = current THEN 1 ELSE 0)

\* What the calls at the CPU ticks a process has passed take altogether.
CallTime(p) ==
    LET calls == process_metadata[p].calls
    IN  SumFunctionOnSet(calls, DOMAIN calls \cap 1..used[p])

\* A process is shown blocked for exactly as long as its calls take, however
\* late the CPU gets to it afterwards and however its wakeups coincide.
BlockedTimeIsCallTime ==
    pc = "api" => \A p \in Created :
        p \notin InBlocked => TimeShown(p, "Blocked") = CallTime(p)

\* When the event loop runs and the chart can be painted: between two calls of
\* the kernel, and while the message box of the completion is open.
Painted == pc \in {"api", "complete"}

\* A tick that has begun counts as running for one process and as what came
\* before for another, yet no column of the chart shows two on the one CPU.
OneRunsAtATime ==
    Painted => \A t \in 0..current_tick :
        Cardinality({p \in Created :
            \E i \in BarsAt(p, t) : segments[p][i].state = "Running"}) <= 1

\* From its creation on the row of a process has one bar in every column, the
\* last one included, however many segments began and ended within one tick.
RowsAreTiled ==
    Painted => \A p \in Created : \A t \in segments[p][1].start..current_tick :
        Cardinality(BarsAt(p, t)) = 1

\* The CPU ticks at which p was interrupted: the calls, and the ticks that
\* complete a quantum counted from the call before; the last tick is neither.
Interruptions(p) ==
    LET calls == DOMAIN process_metadata[p].calls
        Since(u) == u - Max({0} \cup (calls \cap 1..(u - 1)))
    IN  {u \in 1..(used[p] - 1) : u \in calls \/ Since(u) % DefaultQuantum = 0}

\* When everything has ended, the report's "Context switches" are the
\* preemptions and blocking calls its closing remark explains them by; the
\* programs and the quantum alone determine them, not the interleaving.
SwitchesAreInterruptions ==
    pc = "api" /\ ~HasActiveProcesses =>
        ContextSwitches = MapThenSumSet(LAMBDA p : Cardinality(Interruptions(p)),
                                        Created)

=============================================================================
