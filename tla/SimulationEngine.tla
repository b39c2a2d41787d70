-------------------------- MODULE SimulationEngine --------------------------
(***************************************************************************)
(* kernel/simulation_engine.cpp: the engine that drives a Kernel through   *)
(* its ClockService, with run(), step() and stop().  run() and step() are  *)
(* called by the thread that owns the kernel; stop() only writes an atomic *)
(* flag and may come between any two steps, from an observer inside a tick *)
(* or from another thread.  The loop of run() reads the flag first and the *)
(* rest of its condition after it, so that a stop() can fall in between.   *)
(*                                                                         *)
(* ClockService::current_time_, SimulationEngine::tick_count_ and          *)
(* Kernel::current_tick_ are assigned the same value by each clock tick,   *)
(* so that tick stands for the three of them.                              *)
(***************************************************************************)
EXTENDS Kernel

CONSTANTS MaxTicksChoices,  \* the values of Config::max_ticks
          SafeMaxTicks      \* one that all the programs together cannot reach

ASSUME EngineAssumption == MaxTicksChoices \subseteq Int /\ SafeMaxTicks \in Int

VARIABLES
    max_ticks,   \* SimulationEngine::config_.max_ticks
    running,     \* SimulationEngine::running_
    engine,      \* "run" in the loop of run(), "tested" once it has read a set
                 \* flag and until that turn's tick begins, else "idle"
    stop_asked,  \* history: whether and where stop() came in the last run()
    late         \* history: the ticks that run() began with the flag cleared

engineVars == <<max_ticks, running, engine, stop_asked, late>>
evars == <<vars, engineVars>>

EInit == /\ Init
         /\ max_ticks \in MaxTicksChoices
         /\ running = FALSE
         /\ engine = "idle"
         /\ stop_asked = "no"
         /\ late = 0

ClockTick_Stuck == NotifyTick(tick)

\* ClockService::tick.
ClockTick == NotifyTick(tick + TickInterval)

Step == /\ engine = "idle"
        /\ HasActiveProcesses
        /\ ClockTick
        /\ UNCHANGED engineVars

\* run() up to its loop.
BeginRun == /\ engine = "idle"
            /\ pc = "api"
            /\ engine' = "run"
            /\ running' = TRUE
            /\ stop_asked' = "no"
            /\ late' = 0
            /\ UNCHANGED <<vars, max_ticks>>

\* Loops as long as the rest of the condition holds.
FlagIsSet_Ignored == TRUE

FlagIsSet == running

\* Loops while something is queued or on the CPU.
MayGoOn_IgnoresSleepers == (ready # <<>> \/ current # NoProc) /\ tick < max_ticks

\* The loop's condition but for the flag.
MayGoOn == HasActiveProcesses /\ tick < max_ticks

\* The loop's read of running_, with which each turn of it begins.
ReadFlag == /\ engine = "run"
            /\ pc = "api"
            /\ FlagIsSet
            /\ engine' = "tested"
            /\ UNCHANGED <<vars, max_ticks, running, stop_asked, late>>

RunTick == /\ engine = "tested"
           /\ MayGoOn
           /\ ClockTick
           /\ engine' = "run"
           /\ late' = IF running THEN late ELSE late + 1
           /\ UNCHANGED <<max_ticks, running, stop_asked>>

EndRun == /\ pc = "api"
          /\ \/ engine = "run" /\ ~FlagIsSet
             \/ engine = "tested" /\ ~MayGoOn
          /\ engine' = "idle"
          /\ running' = FALSE
          /\ UNCHANGED <<vars, max_ticks, stop_asked, late>>

Loop == ReadFlag \/ RunTick \/ EndRun

\* stop() outside a run() changes nothing: what it writes, run() overwrites.
Stop == /\ running
        /\ running' = FALSE
        /\ stop_asked' = IF pc = "api" THEN "betweenTicks" ELSE "duringTick"
        /\ UNCHANGED <<vars, max_ticks, engine, late>>

Caller == engine = "idle" /\ UserStep /\ UNCHANGED engineVars

KernelRuns == KernelStep /\ UNCHANGED engineVars

ENext == KernelRuns \/ Caller \/ Step \/ BeginRun \/ Loop \/ Stop

\* A call of notifyTick or run() that was made goes on; nobody has to make one.
Fairness == WF_evars(KernelRuns) /\ WF_evars(Loop)

ESpec == EInit /\ [][ENext]_evars /\ Fairness

-----------------------------------------------------------------------------

InsideRun == engine # "idle"

Stopped == stop_asked # "no"

\* run() returns, whatever its processes do and whenever stop() is called:
\* it cannot loop on an idle CPU, on sleepers or on an exhausted tick budget.
RunReturns == InsideRun ~> ~InsideRun

\* With a sufficient tick budget run() ends every process, unless it is
\* stopped: none starves for good, sleeps on or is forgotten in a queue.
RunFinishesWork ==
    InsideRun /\ max_ticks >= SafeMaxTicks ~> ~HasActiveProcesses \/ Stopped

\* run() leaves work undone only when it was stopped or its budget was used up.
RunStopsForAReason ==
    [][InsideRun /\ ~InsideRun' /\ HasActiveProcesses =>
          Stopped \/ tick >= max_ticks]_evars

\* A stop() from inside a tick, as an observer makes it, lets that tick end and
\* run() begins no other.  One that another thread makes between two ticks is
\* overtaken by one tick at most, that whose turn of the loop had read the flag.
StopIsPrompt == late <= (IF stop_asked = "betweenTicks" THEN 1 ELSE 0)

=============================================================================
