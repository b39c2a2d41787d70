---------------------------- MODULE EngineProofs ----------------------------
(***************************************************************************)
(* Proofs about SimulationEngine and about main() of visos_cli, which uses *)
(* it (CommandLine): for every set of programs, every configuration of     *)
(* kernel and engine, every choice of flags, and a stop() between any two  *)
(* steps.  Neither does anything to its kernel that other drivers do not,  *)
(* so that what KernelProofs shows of a driven kernel holds there too.     *)
(***************************************************************************)
EXTENDS CommandLine, KernelProofs

USE DEF Pid, NoProc

-----------------------------------------------------------------------------
(* The kernel under the engine.                                            *)

LEMMA EngineDrives == [ENext]_evars => [Driven]_vars
  BY DEF ENext, KernelRuns, Caller, Step, BeginRun, Loop, ReadFlag, RunTick,
        EndRun, Stop, ClockTick, Driven, evars

LEMMA EngineInv == ESpec => []KernelInv
  <1>1. EInit => KernelInv
    BY InitKernelInv DEF EInit
  <1> QED BY <1>1, EngineDrives, DrivenKernelInv, PTL DEF ESpec

\* What a kernel promises holds also for the one that run() and step() drive,
\* on whose clock there is no bound: no process is lost, no tick is wasted, the
\* completion is announced at the end only, and sleepers are not overdue.
THEOREM EngineKeepsKernel == ESpec => []Promises
  BY EngineInv, KernelInvPromises, PTL

\* And the processes of such a kernel live the life cycle their programs
\* prescribe, however run(), step() and the caller take turns.
THEOREM EngineImplementsLifecycle == ESpec => LifecycleSpec
  <1>1. EInit => Lifecycle!Init
    BY InitImplements DEF EInit
  <1>2. KernelInv => Inv
    BY DEF KernelInv
  <1> QED BY <1>1, <1>2, EngineInv, EngineDrives, DrivenImplements, PTL
          DEF ESpec, LifecycleSpec, Lifecycle!Spec

\* And such a kernel uses its blocked queue the way the queue expects.
THEOREM EngineUsesWakeupSet == ESpec => WakeupSpec
  <1>1. EInit => Sleepers!Init
    BY DEF EInit, Init, Sleepers!Init
  <1>2. KernelInv => Inv
    BY DEF KernelInv
  <1> QED BY <1>1, <1>2, EngineInv, EngineDrives, DrivenUsesSet, PTL
          DEF ESpec, WakeupSpec, Sleepers!Spec

-----------------------------------------------------------------------------
(* The calls of run() and stop(), by a library caller or by main().        *)

\* What a step does to the engine and to the clock: no other one begins a tick.
EngineMoves == \/ Step \/ BeginRun \/ Loop \/ Stop
               \/ /\ UNCHANGED <<tick, engineVars>>
                  /\ pc = "api" => pc' = pc

\* Only the clock service moves the clock and begins a tick.
LEMMA ClockKept ==
    KernelRuns \/ Caller => /\ UNCHANGED <<tick, engineVars>>
                            /\ pc = "api" => pc' = pc
  BY DEF KernelRuns, KernelStep, Wake, ExecuteIdle, HandleSyscallBlock,
        HandleProcessExit, HandleQuantumExpired, ContinueExecution, ChargeTick,
        DispatchNext, DispatchNone, NotifySimulationComplete,
        NotifyTickCompleted, Caller, UserStep, SubmitProgram, RunProgram,
        SetPriority

LEMMA EngineMovesOn == [ENext]_evars => [EngineMoves]_evars
  BY ClockKept DEF ENext, EngineMoves

LEMMA MainMovesOn == [CNext]_cvars => [EngineMoves]_evars
  <1> SUFFICES ASSUME [CNext]_cvars PROVE EngineMoves
    OBVIOUS
  <1>1. CASE ParseFlags \/ SubmitDemo \/ RunDemo
    BY <1>1 DEF ParseFlags, otherVars, SubmitDemo, SubmitProgram, RunDemo,
          RunProgram, EngineMoves
  <1>2. CASE CallRun \/ InRun
    BY <1>2, ClockKept DEF CallRun, InRun, EngineMoves
  <1>3. CASE MakeKernel \/ PrintSummary \/ UNCHANGED cvars
    BY <1>3 DEF MakeKernel, PrintSummary, cvars, evars, vars, EngineMoves
  <1>4. CASE Library
    BY <1>4, ClockKept DEF Library, ENext, EngineMoves
  <1> QED BY <1>1, <1>2, <1>3, <1>4 DEF CNext, MainStep

\* running_ is set exactly while a run() is active that nobody has stopped.  A
\* turn of the loop that has read the flag is between two ticks, a stop() from
\* inside a tick comes before the next turn, and the one tick that may be late
\* ends the turn it belongs to.
RunInv == /\ tick \in Int /\ max_ticks \in Int
          /\ engine \in {"idle", "run", "tested"}
          /\ running \in BOOLEAN
          /\ stop_asked \in {"no", "duringTick", "betweenTicks"}
          /\ late \in {0, 1}
          /\ running <=> InsideRun /\ ~Stopped
          /\ engine = "tested" => pc = "api"
          /\ engine = "tested" => stop_asked # "duringTick" /\ late = 0
          /\ late = 1 => stop_asked = "betweenTicks"

LEMMA InitRunInv == EInit => RunInv
  <1> SUFFICES ASSUME EInit PROVE RunInv
    OBVIOUS
  <1>1. tick = 0 /\ max_ticks \in Int
    BY EngineAssumption DEF EInit, Init
  <1>2. engine = "idle" /\ running = FALSE /\ stop_asked = "no" /\ late = 0
    BY DEF EInit
  <1>3. tick \in Int /\ late \in {0, 1} /\ late # 1
    BY <1>1, <1>2
  <1> QED BY <1>1, <1>2, <1>3, Zenon DEF RunInv, InsideRun, Stopped

LEMMA NextRunInv == RunInv /\ [EngineMoves]_evars => RunInv'
  <1> SUFFICES ASSUME RunInv, [EngineMoves]_evars PROVE RunInv'
    OBVIOUS
  <1> USE DEF InsideRun, Stopped
  <1>1. tick' \in Int
    <2>1. tick' = tick \/ tick' = tick + TickInterval
      BY DEF EngineMoves, Step, BeginRun, Loop, ReadFlag, RunTick, EndRun,
            Stop, ClockTick, NotifyTick, evars, vars, engineVars
    <2> QED BY <2>1, BoundsAssumption DEF RunInv
  <1>2. CASE Step
    BY <1>1, <1>2 DEF RunInv, Step, engineVars
  <1>3. CASE BeginRun
    BY <1>1, <1>3 DEF RunInv, BeginRun
  <1>4. CASE ReadFlag
    BY <1>1, <1>4 DEF RunInv, ReadFlag, FlagIsSet, vars
  <1>5. CASE RunTick
    <2>1. /\ engine = "tested" /\ engine' = "run"
          /\ late' = IF running THEN late ELSE late + 1
          /\ UNCHANGED <<max_ticks, running, stop_asked>>
      BY <1>5 DEF RunTick
    <2>2. late = 0 /\ stop_asked \in {"no", "betweenTicks"}
      BY <2>1 DEF RunInv
    <2>3. late' \in {0, 1} /\ (late' = 1 => ~running)
      BY <2>1, <2>2
    <2>4. late' = 1 => stop_asked' = "betweenTicks"
      BY <2>1, <2>2, <2>3 DEF RunInv
    <2> QED BY <1>1, <2>1, <2>3, <2>4 DEF RunInv
  <1>6. CASE EndRun
    BY <1>1, <1>6 DEF RunInv, EndRun
  <1>7. CASE Stop
    BY <1>1, <1>7 DEF RunInv, Stop, vars
  <1>8. CASE UNCHANGED <<tick, engineVars>> /\ (pc = "api" => pc' = pc)
    BY <1>8 DEF RunInv, engineVars
  <1>9. CASE UNCHANGED evars
    BY <1>9 DEF RunInv, evars, vars, engineVars
  <1> QED BY <1>2, <1>3, <1>4, <1>5, <1>6, <1>7, <1>8, <1>9 DEF EngineMoves, Loop

LEMMA RunInvHolds == ESpec \/ CSpec => []RunInv /\ [][EngineMoves]_evars
  <1>1. CInit => EInit
    BY DEF CInit
  <1> QED BY <1>1, InitRunInv, NextRunInv, EngineMovesOn, MainMovesOn, PTL
          DEF ESpec, CSpec

\* run() returns with work left only when it was stopped or its budget is gone.
LEMMA EndHasReason ==
    ASSUME RunInv, [EngineMoves]_evars,
           InsideRun, ~InsideRun', HasActiveProcesses
    PROVE  Stopped \/ tick >= max_ticks
  <1>1. EndRun
    BY DEF EngineMoves, Step, BeginRun, Loop, ReadFlag, RunTick, Stop,
          engineVars, evars, InsideRun
  <1>2. CASE engine = "run" /\ ~running
    BY <1>2 DEF RunInv, InsideRun
  <1>3. CASE ~MayGoOn
    BY <1>3 DEF MayGoOn, RunInv
  <1> QED BY <1>1, <1>2, <1>3 DEF EndRun, FlagIsSet

THEOREM RunStopsForAReasonHolds == ESpec \/ CSpec => RunStopsForAReason
  <1>1. RunInv /\ [EngineMoves]_evars =>
            [InsideRun /\ ~InsideRun' /\ HasActiveProcesses =>
                 Stopped \/ tick >= max_ticks]_evars
    BY EndHasReason
  <1> QED BY <1>1, RunInvHolds, PTL DEF RunStopsForAReason

\* A stop() from inside a tick keeps run() from beginning another, and one that
\* another thread makes between two ticks from beginning a second one.
THEOREM StopIsPromptHolds == ESpec \/ CSpec => []StopIsPrompt
  <1>1. RunInv => StopIsPrompt
    BY DEF RunInv, StopIsPrompt
  <1> QED BY <1>1, RunInvHolds, PTL

-----------------------------------------------------------------------------
(* The program visos_cli.                                                  *)

\* The configurations that flags can ask for.
FlagConfigs == [policy : Policies, quantum : IntMin..IntMax]

\* The kernel is one that may have these configurations and the programs of
\* main(); what a library caller does with its own is not restricted by it.
MainIsKnown == /\ FlagConfigs \subseteq Configs
               /\ \A i \in DOMAIN DemoPrograms : Runnable(DemoPrograms[i]) \in Programs

\* Nothing has happened to the kernel while the flags are read.
FlagsInv == main = "flags" => Init /\ config \in FlagConfigs

LEMMA InitFlags == CInit => FlagsInv
  <1>1. DefaultConfig \in FlagConfigs
    <2>1. IntMax \in Int /\ 4 <= IntMax
      BY SMT DEF IntMax
    <2>2. 4 \in IntMin..IntMax
      BY <2>1, SMT DEF IntMin
    <2> QED BY <2>2 DEF DefaultConfig, FlagConfigs, Policies
  <1>2. CInit /\ main = "flags" => Init /\ config = DefaultConfig
    BY DEF CInit, EInit
  <1> QED BY <1>1, <1>2 DEF FlagsInv

\* Reading a flag leaves a kernel that is not built yet.
LEMMA FlagsKeepInit ==
    ASSUME MainIsKnown, FlagsInv, ParseFlags
    PROVE  Init' /\ config' \in FlagConfigs
  <1>1. Init /\ config \in FlagConfigs
    BY DEF FlagsInv, ParseFlags, ReadPolicy, ReadQuantum, ReadBadQuantum,
          ReadHelp, ReadOther, AtFlag
  <1>2. config' \in FlagConfigs
    <2>1. \A s : ParsePolicy(s) \in Policies
      BY DEF ParsePolicy, Policies
    <2>2. CASE ReadPolicy
      BY <1>1, <2>1, <2>2 DEF ReadPolicy, FlagConfigs
    <2>3. CASE ReadQuantum
      <3>1. Numerals[args[2]] \in IntMin..IntMax
        BY <2>3, CommandLineAssumption DEF ReadQuantum
      <3> QED BY <1>1, <2>3, <3>1 DEF ReadQuantum, FlagConfigs
    <2>4. CASE ReadBadQuantum \/ ReadHelp \/ ReadOther
      BY <1>1, <2>4 DEF ReadBadQuantum, ReadHelp, ReadOther
    <2> QED BY <2>2, <2>3, <2>4 DEF ParseFlags
  <1>3. config' \in Configs
    BY <1>2 DEF MainIsKnown
  <1> QED BY <1>1, <1>2, <1>3 DEF Init, ParseFlags, otherVars, cpuVars

\* Once the kernel is built main() drives it as anybody else does.
LEMMA MainDrives ==
    ASSUME MainIsKnown, KernelInv, [CNext]_cvars, ~ParseFlags
    PROVE  [Driven]_vars
  <1>1. CASE Library \/ CallRun \/ InRun
    <2>1. [ENext]_evars
      BY <1>1 DEF Library, CallRun, InRun, ENext
    <2> QED BY <2>1, EngineDrives
  <1>2. CASE SubmitDemo
    <2>1. Len(program_store) + 1 \in DOMAIN DemoPrograms
      BY <1>2 DEF SubmitDemo
    <2> QED BY <1>2, <2>1 DEF SubmitDemo, MainIsKnown, UserStep, Driven
  <1>3. CASE RunDemo
    <2>1. next_pid \in 1..Len(program_store)
      BY <1>3 DEF RunDemo, KernelInv, Inv, TypeOK
    <2>2. next_pid \in DOMAIN program_store
      BY <2>1 DEF KernelInv, Inv, TypeOK
    <2> QED BY <1>3, <2>2 DEF RunDemo, UserStep, Driven
  <1>4. CASE MakeKernel \/ PrintSummary \/ UNCHANGED cvars
    BY <1>4 DEF MakeKernel, PrintSummary, cvars, evars
  <1> QED BY <1>1, <1>2, <1>3, <1>4 DEF CNext, MainStep

LEMMA MainKernelInv == ASSUME MainIsKnown PROVE CSpec => [](KernelInv /\ FlagsInv)
  <1>1. CInit => KernelInv /\ FlagsInv
    BY InitFlags, InitKernelInv DEF CInit, EInit
  <1>2. ASSUME KernelInv, FlagsInv, [CNext]_cvars PROVE (KernelInv /\ FlagsInv)'
    <2>1. CASE ParseFlags
      <3>1. Init' => KernelInv'
        BY InitKernelInv, PTL
      <3> QED BY <1>2, <2>1, <3>1, FlagsKeepInit DEF FlagsInv
    <2>2. CASE ~ParseFlags
      <3>1. KernelInv'
        BY <1>2, <2>2, MainDrives, DrivenKernelInv
      <3>2. main' = "flags" => main = "flags" /\ UNCHANGED vars
        BY <1>2, <2>2 DEF CNext, MainStep, MakeKernel, SubmitDemo, RunDemo,
              CallRun, InRun, PrintSummary, Library, cvars, evars
      <3> QED BY <1>2, <3>1, <3>2 DEF FlagsInv, Init, vars
    <2> QED BY <2>1, <2>2
  <1> QED BY <1>1, <1>2, PTL DEF CSpec

\* Whatever the flags, the kernel of visos_cli keeps what a kernel promises.
THEOREM MainKeepsKernel == ASSUME MainIsKnown PROVE CSpec => []Promises
  BY MainKernelInv, KernelInvPromises, PTL

\* And its processes live the life cycle that their programs prescribe.
THEOREM MainImplementsLifecycle == ASSUME MainIsKnown PROVE CSpec => LifecycleSpec
  <1>1. CInit => Lifecycle!Init
    BY InitImplements DEF CInit, EInit
  <1>2. ASSUME KernelInv, [CNext]_cvars
        PROVE  [Lifecycle!Next]_(Lifecycle!vars)
    <2>1. CASE ParseFlags
      BY <2>1 DEF ParseFlags, otherVars, Lifecycle!vars
    <2>2. CASE ~ParseFlags
      BY <1>2, <2>2, MainDrives, DrivenImplements DEF KernelInv
    <2> QED BY <2>1, <2>2
  <1> QED BY <1>1, <1>2, MainKernelInv, PTL DEF CSpec, LifecycleSpec, Lifecycle!Spec

\* It uses its blocked queue the way the queue expects, too.
THEOREM MainUsesWakeupSet == ASSUME MainIsKnown PROVE CSpec => WakeupSpec
  <1>1. CInit => Sleepers!Init
    BY DEF CInit, EInit, Init, Sleepers!Init
  <1>2. ASSUME KernelInv, [CNext]_cvars
        PROVE  [Sleepers!Next]_(Sleepers!wvars)
    <2>1. CASE ParseFlags
      BY <2>1 DEF ParseFlags, otherVars, Sleepers!wvars
    <2>2. CASE ~ParseFlags
      BY <1>2, <2>2, MainDrives, DrivenUsesSet DEF KernelInv
    <2> QED BY <2>1, <2>2
  <1> QED BY <1>1, <1>2, MainKernelInv, PTL DEF CSpec, WakeupSpec, Sleepers!Spec

\* What the kernel holds of the programs of main(): the first ones, each run
\* once and in order.
HoldsDemo ==
    /\ Len(program_store) <= Len(DemoPrograms)
    /\ \A i \in 1..Len(program_store) : program_store[i] = Runnable(DemoPrograms[i])
    /\ next_pid <= Len(program_store) + 1
    /\ \A p \in Created : process_metadata[p] = Runnable(DemoPrograms[p])

\* How far main() has come, and what its run() left behind.
MainInv ==
    /\ main \in {"library", "flags", "submit", "run", "returned", "aborted", "helped"}
    /\ main \in {"flags", "submit"} => engine = "idle"
    /\ main \in {"flags", "submit", "run"} => ~Stopped
    /\ main \in {"submit", "run", "returned"} => HoldsDemo
    /\ main \in {"run", "returned"} => next_pid > Len(DemoPrograms)
    /\ main = "returned" => engine = "idle"
    /\ main \in {"run", "returned"} /\ engine = "idle" =>
           pc = "api" /\ (HasActiveProcesses => tick >= max_ticks)

LEMMA InitMainInv == CInit => MainInv
  BY DEF CInit, EInit, MainInv, Stopped

LEMMA FlagsMainInv ==
    ASSUME MainInv, FlagsInv, ParseFlags \/ MakeKernel PROVE MainInv'
  <1> USE DEF Stopped
  <1>1. main = "flags" /\ UNCHANGED <<engine, stop_asked>>
    BY DEF ParseFlags, ReadPolicy, ReadQuantum, ReadBadQuantum, ReadHelp,
          ReadOther, AtFlag, otherVars, engineVars, MakeKernel, evars
  <1>2. CASE ParseFlags
    <2>1. main' \in {"flags", "aborted", "helped"}
      BY <1>1, <1>2 DEF ParseFlags, ReadPolicy, ReadQuantum, ReadBadQuantum,
            ReadHelp, ReadOther
    <2> QED BY <1>1, <2>1 DEF MainInv
  <1>3. CASE MakeKernel
    <2>1. main' = "submit" /\ program_store' = <<>> /\ next_pid' = 1
      BY <1>1, <1>3 DEF MakeKernel, FlagsInv, Init, evars, vars
    <2>2. HoldsDemo'
      BY <2>1 DEF HoldsDemo, Created, DemoPrograms
    <2> QED BY <1>1, <2>1, <2>2 DEF MainInv
  <1> QED BY <1>2, <1>3

LEMMA SubmitMainInv ==
    ASSUME MainInv, KernelInv, SubmitDemo \/ RunDemo PROVE MainInv'
  <1> USE DEF Stopped
  <1>1. main = "submit" /\ UNCHANGED <<main, engineVars>> /\ HoldsDemo
    BY DEF SubmitDemo, RunDemo, MainInv
  <1>2. program_store \in Seq(Programs) /\ next_pid \in 1..(MaxProcs + 1)
    BY DEF KernelInv, Inv, TypeOK
  <1> DEFINE n == Len(program_store)
  <1>3. CASE SubmitDemo
    <2> DEFINE m == Runnable(DemoPrograms[n + 1])
    <2>1. program_store' = Append(program_store, m) /\ n < Len(DemoPrograms)
      BY <1>3 DEF SubmitDemo, SubmitProgram, Store
    <2> HIDE DEF m
    <2>2. /\ Len(program_store') = n + 1
          /\ \A i \in 1..(n + 1) : program_store'[i] = IF i = n + 1 THEN m
                                                       ELSE program_store[i]
      BY <1>2, <2>1
    <2>3. UNCHANGED <<next_pid, process_metadata>>
      BY <1>3 DEF SubmitDemo, SubmitProgram
    <2>4. HoldsDemo'
      BY <1>1, <1>2, <2>1, <2>2, <2>3 DEF HoldsDemo, Created, m
    <2> QED BY <1>1, <2>4 DEF MainInv, engineVars
  <1>4. CASE RunDemo
    <2>1. /\ UNCHANGED program_store
          /\ next_pid' = next_pid + 1
          /\ process_metadata' =
                 [process_metadata EXCEPT ![next_pid] = program_store[next_pid]]
          /\ next_pid <= n /\ next_pid \in Pid
      BY <1>2, <1>4, BoundsAssumption DEF RunDemo, RunProgram, Load
    <2>2. process_metadata \in [Pid -> Programs \cup {NoProgram}]
      BY DEF KernelInv, Inv, TypeOK
    <2>3. Created' = Created \cup {next_pid} /\ Created \subseteq Pid
          /\ next_pid \notin Created
      BY <1>2, <2>1, BoundsAssumption DEF Created
    <2>4. \A p \in Created' : process_metadata'[p] = Runnable(DemoPrograms[p])
      <3>1. program_store[next_pid] = Runnable(DemoPrograms[next_pid])
        BY <1>1, <1>2, <2>1 DEF HoldsDemo
      <3>2. \A p \in Created : process_metadata'[p] = process_metadata[p]
        BY <2>1, <2>2, <2>3
      <3>3. process_metadata'[next_pid] = program_store[next_pid]
        BY <2>1, <2>2
      <3> QED BY <1>1, <2>3, <3>1, <3>2, <3>3 DEF HoldsDemo
    <2>5. HoldsDemo'
      BY <1>1, <1>2, <2>1, <2>4 DEF HoldsDemo
    <2> QED BY <1>1, <2>5 DEF MainInv, engineVars
  <1> QED BY <1>3, <1>4

LEMMA RunMainInv ==
    ASSUME MainInv, RunInv, CallRun \/ InRun \/ PrintSummary PROVE MainInv'
  <1> USE DEF Stopped
  <1>1. UNCHANGED <<program_store, next_pid, process_metadata>>
    BY DEF CallRun, BeginRun, InRun, KernelRuns, KernelStep, Wake, ExecuteIdle,
          HandleSyscallBlock, HandleProcessExit, HandleQuantumExpired,
          ContinueExecution, DispatchNext, DispatchNone,
          NotifySimulationComplete, NotifyTickCompleted, Loop, ReadFlag,
          RunTick, ClockTick, NotifyTick, EndRun, PrintSummary, evars, vars,
          userVars
  <1>2. HoldsDemo'
    BY <1>1 DEF MainInv, HoldsDemo, Created, CallRun, InRun, PrintSummary
  <1>3. CASE CallRun
    BY <1>1, <1>2, <1>3 DEF MainInv, CallRun, BeginRun
  <1>4. CASE InRun /\ ~EndRun
    <2>1. main = "run" /\ UNCHANGED <<main, stop_asked>>
      BY <1>4 DEF InRun, Loop, KernelRuns, ReadFlag, RunTick, engineVars
    <2>2. engine' # "idle"
      BY <1>4, ClockKept DEF InRun, Loop, KernelRuns, KernelStep, ReadFlag,
            RunTick, MainInv, Wake, ExecuteIdle, HandleSyscallBlock,
            HandleProcessExit, HandleQuantumExpired, ContinueExecution,
            ChargeTick, DispatchNext, DispatchNone, NotifySimulationComplete,
            NotifyTickCompleted, engineVars
    <2> QED BY <1>1, <1>2, <2>1, <2>2 DEF MainInv
  <1>5. CASE InRun /\ EndRun
    <2>1. /\ main = "run" /\ UNCHANGED <<main, vars, max_ticks, stop_asked>>
          /\ engine' = "idle" /\ pc = "api"
      BY <1>5 DEF InRun, EndRun
    <2>2. ~MayGoOn
      BY <1>5, <2>1 DEF EndRun, FlagIsSet, MainInv, RunInv, InsideRun
    <2>3. HasActiveProcesses' => HasActiveProcesses
      BY <2>1 DEF HasActiveProcesses, Created, vars
    <2>4. HasActiveProcesses' => tick' >= max_ticks'
      BY <2>1, <2>2, <2>3 DEF MayGoOn, RunInv, vars
    <2>5. pc' = "api"
      BY <2>1 DEF vars
    <2> QED BY <1>1, <1>2, <2>1, <2>4, <2>5 DEF MainInv
  <1>6. CASE PrintSummary
    BY <1>1, <1>2, <1>6 DEF MainInv, PrintSummary, evars, vars, engineVars,
          HasActiveProcesses, Created
  <1> QED BY <1>3, <1>4, <1>5, <1>6

LEMMA MainInvHolds == ASSUME MainIsKnown PROVE CSpec => []MainInv
  <1>1. ASSUME MainInv, KernelInv, FlagsInv, RunInv, [CNext]_cvars PROVE MainInv'
    <2>1. CASE Library
      BY <1>1, <2>1 DEF Library, MainInv
    <2>2. CASE UNCHANGED cvars
      BY <1>1, <2>2 DEF MainInv, HoldsDemo, HasActiveProcesses, Created, cvars,
            evars, vars, engineVars, Stopped
    <2> QED BY <1>1, <2>1, <2>2, FlagsMainInv, SubmitMainInv, RunMainInv
            DEF CNext, MainStep
  <1> QED BY <1>1, InitMainInv, MainKernelInv, RunInvHolds, PTL DEF CSpec

\* When visos_cli prints its summary, each of its programs has ended with the
\* CPU time it asked for and not a tick more, unless the ticks main() allows ran
\* out first: what DemoFinishes says, but for the end that it promises.
SummaryIsComplete ==
    main = "returned" =>
        \/ tick >= max_ticks
        \/ \A p \in DOMAIN DemoPrograms : Finished(p, DemoPrograms[p])

\* Whatever the flags, visos_cli prints its summary when its programs have
\* ended, each with the CPU time it asked for, or when its ticks are used up.
THEOREM SummaryHolds == ASSUME MainIsKnown PROVE CSpec => []SummaryIsComplete
  <1>1. ASSUME MainInv, KernelInv PROVE SummaryIsComplete
    <2> SUFFICES ASSUME main = "returned", ~(tick >= max_ticks),
                        NEW p \in DOMAIN DemoPrograms
                 PROVE  Finished(p, DemoPrograms[p])
      BY DEF SummaryIsComplete
    <2>1. HoldsDemo /\ next_pid > Len(DemoPrograms) /\ ~HasActiveProcesses
      BY <1>1 DEF MainInv
    <2>2. p \in Created /\ p \in Pid
      <3>1. next_pid \in 1..(MaxProcs + 1) /\ p \in 1..Len(DemoPrograms)
        BY <1>1 DEF KernelInv, Inv, TypeOK
      <3> HIDE DEF DemoPrograms
      <3> QED BY <2>1, <3>1, BoundsAssumption DEF Created
    <2>3. state[p] = "Terminated"
      BY <2>1, <2>2 DEF HasActiveProcesses
    <2>4. process_metadata[p] = Runnable(DemoPrograms[p])
      BY <2>1, <2>2 DEF HoldsDemo
    <2> DEFINE m == Runnable(DemoPrograms[p])
    <2>5. /\ used[p] \in Nat /\ Exits(m, used[p])
          /\ \A u \in 1..used[p] : Exits(m, u) => u = used[p]
      BY <1>1, <2>2, <2>3, <2>4
         DEF KernelInv, Inv, TypeOK, AccountInv, CpuAccounting
    <2>6. m.cpu = DemoPrograms[p].cpu /\ m.cpu \in Nat \ {0} /\ m.cpu \notin DOMAIN m.calls
      BY DEF Runnable, DemoPrograms, AddSyscall, NoSyscalls
    <2> HIDE DEF m
    <2>7. used[p] = m.cpu
      BY <2>5, <2>6 DEF Exits
    <2> QED BY <2>3, <2>6, <2>7 DEF Finished
  <1> QED BY <1>1, MainInvHolds, MainKernelInv, PTL

=============================================================================
