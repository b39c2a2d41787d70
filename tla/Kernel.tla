------------------------------- MODULE Kernel -------------------------------
(***************************************************************************)
(* The visOS kernel: kernel/kernel.cpp with the services it owns, the CPU, *)
(* the MemoryManager with its ready and blocked queues, the Scheduler with *)
(* its three strategies, the ProgramStore and the PidGenerator.            *)
(*                                                                         *)
(* Kernel::notifyTick is one C++ call, but it calls its observers between  *)
(* its parts, and they read the process list, the queues and the CPU.  The *)
(* model has one step per such part: pc names the part that comes next,    *)
(* and each step applies at most one state transition, together with the   *)
(* move that goes with it.  What onStateTransition finds between the two   *)
(* is a view of the step (SeenReady and what uses it).                     *)
(*                                                                         *)
(*    "api"      no call is active; the user and the clock may call        *)
(*    "wake"     inside checkBlockedCompletions, then cpu_->executeTick    *)
(*    "dispatch" inside the handler of an event, before dispatchNext       *)
(*    "complete" about to call notifySimulationComplete                    *)
(*    "done"     about to call notifyTickCompleted                         *)
(*                                                                         *)
(* A definition whose name has a suffix after an underscore is a variant   *)
(* that a mistake in the code would give.  No specification uses it: it    *)
(* serves to show that a property tells the two apart.                     *)
(***************************************************************************)
EXTENDS Integers, Sequences, FiniteSets, SequencesExt, Pcb

CONSTANTS
    Programs,      \* the ProgramMetadata a user may submit: [cpu, calls]
    Configs,       \* the Kernel::Config a kernel may be built with
    Priorities,    \* the arguments of setPriority
    TickInterval,  \* ClockService::Config::tick_interval
    MaxPrograms,   \* bound: the programs submitted
    MaxProcs,      \* bound: the processes created
    MaxTick        \* bound: the clock

Policies == {"FCFS", "RoundRobin", "Priority"}

\* Tick and int are signed in the code; calls is the map inside a
\* SyscallProfile, from a CPU tick of the process to the call's duration.
ASSUME ProgramsAssumption ==
    \A m \in Programs : /\ m = [cpu |-> m.cpu, calls |-> m.calls]
                        /\ m.cpu \in Int
                        /\ DOMAIN m.calls \subseteq Int
                        /\ \A u \in DOMAIN m.calls : m.calls[u] \in Int

ASSUME ConfigsAssumption == Configs \subseteq [policy : Policies, quantum : Int]

ASSUME BoundsAssumption == /\ Priorities \subseteq Int
                           /\ TickInterval \in Nat \ {0}
                           /\ MaxPrograms \in Nat
                           /\ MaxProcs \in Nat
                           /\ MaxTick \in Nat

Pid == 1..MaxProcs

NoProc == 0   \* a null ProcessControlBlock pointer

\* std::numeric_limits<int>: the largest is the quantum of FCFSStrategy.
IntMax == 2147483647
IntMin == -IntMax - 1

\* A default-constructed ProgramMetadata.
NoProgram == [cpu |-> 0, calls |-> <<>>]

VARIABLES
    config,            \* Kernel::config_
    program_store,     \* ProgramStore::programs_; the ids are 1, 2, ...
    next_pid,          \* PidGenerator::next_pid_
    process_metadata,  \* Kernel::process_metadata_, per pid
    state,             \* ProcessControlBlock::state_, per pid
    priority,          \* ProcessControlBlock::priority_, per pid
    used,              \* ProcessControlBlock::cpu_time_used_, per pid
    ready,             \* ReadyQueue::queue_, the pids front first
    blocked,           \* BlockedQueue::entries_, whose order is unspecified
    waking,            \* the rest of `completed` in checkBlockedCompletions
    current,           \* CPU::current_process_; the CPU is Idle iff NoProc
    quantum,           \* CPU::remaining_quantum_
    tick,              \* Kernel::current_tick_
    pc,                \* where the control of notifyTick stands
    event              \* the KernelEvent the CPU raised in this tick

userVars == <<config, program_store, next_pid, process_metadata, priority>>
cpuVars  == <<current, quantum>>
vars == <<config, program_store, next_pid, process_metadata, priority, state,
          used, ready, blocked, waking, current, quantum, tick, pc, event>>

\* Pids are handed out from 0, the value dispatchNext uses for no process.
Init_PidZero == /\ config \in Configs
                /\ program_store = <<>>
                /\ next_pid = 0
                /\ process_metadata = [p \in Pid |-> NoProgram]
                /\ state = [p \in Pid |-> "New"]
                /\ priority = [p \in Pid |-> 0]
                /\ used = [p \in Pid |-> 0]
                /\ ready = <<>> /\ blocked = {} /\ waking = <<>>
                /\ current = NoProc /\ quantum = 0
                /\ tick = 0 /\ pc = "api" /\ event = "none"

Init == /\ config \in Configs
        /\ program_store = <<>>
        /\ next_pid = 1
        /\ process_metadata = [p \in Pid |-> NoProgram]
        /\ state = [p \in Pid |-> "New"]
        /\ priority = [p \in Pid |-> 0]
        /\ used = [p \in Pid |-> 0]
        /\ ready = <<>>
        /\ blocked = {}
        /\ waking = <<>>
        /\ current = NoProc
        /\ quantum = 0
        /\ tick = 0
        /\ pc = "api"
        /\ event = "none"

\* The pids in all_processes_.
Created == 1..(next_pid - 1)

\* Counts only what is queued or on the CPU.
HasActiveProcesses_NotBlocked ==
    \E p \in Created : state[p] \in {"New", "Ready", "Running"}

HasActiveProcesses == \E p \in Created : state[p] # "Terminated"

\* applyTransition throws on an illegal trigger: no step of the model is one.
Transition(p, t) == /\ IsValidTransition(state[p], t)
                    /\ state' = [state EXCEPT ![p] = TargetState(t)]

-----------------------------------------------------------------------------
(* The ready queue and the strategies.                                     *)

\* In front of its equals.
IsPrioritySlot_BeforeEquals(i, p) ==
    /\ \A j \in 1..(i-1) : priority[ready[j]] > priority[p]
    /\ i <= Len(ready) => priority[ready[i]] <= priority[p]

\* std::find_if in enqueueByPriority: the first entry of lower priority.
IsPrioritySlot(i, p) ==
    /\ \A j \in 1..(i-1) : priority[ready[j]] >= priority[p]
    /\ i <= Len(ready) => priority[ready[i]] < priority[p]

\* push_front for push_back.
IsSlot_Front(i, p) == i = 1

IsSlot(i, p) == IF config.policy = "Priority" THEN IsPrioritySlot(i, p)
                                              ELSE i = Len(ready) + 1

EnqueueReady(p) == \E i \in 1..(Len(ready) + 1) :
                       IsSlot(i, p) /\ ready' = InsertAt(ready, i, p)

\* Trusts the queue to be sorted.
IsFirstHighest_Front(i) == i = 1

\* std::max_element in PriorityStrategy: the first entry of top priority.
IsFirstHighest(i) ==
    /\ \A j \in 1..(i-1) : priority[ready[j]] < priority[ready[i]]
    /\ \A j \in 1..Len(ready) : priority[ready[j]] <= priority[ready[i]]

\* queue.front() in FCFSStrategy and RoundRobinStrategy.
IsFront(i) == i = 1

IsSelected(i) == IF config.policy = "Priority" THEN IsFirstHighest(i)
                                               ELSE IsFront(i)

DefaultQuantum_Configured == config.quantum

DefaultQuantum == IF config.policy = "FCFS" THEN IntMax ELSE config.quantum

-----------------------------------------------------------------------------
(* The public API.                                                         *)

\* The ProgramStore hands out the ids 1, 2, ... and forgets no program.
Store(meta) == program_store' = Append(program_store, meta)

Load(id) == program_store[id]

SubmitProgram(meta) ==
    /\ pc = "api"
    /\ Len(program_store) < MaxPrograms
    /\ Store(meta)
    /\ UNCHANGED <<config, next_pid, process_metadata, priority, state, used,
                   ready, blocked, waking, cpuVars, tick, pc, event>>

\* With an unknown id the code throws before it changes anything.
RunProgram(id) ==
    /\ pc = "api"
    /\ next_pid <= MaxProcs
    /\ next_pid' = next_pid + 1
    /\ process_metadata' = [process_metadata EXCEPT ![next_pid] = Load(id)]
    /\ Transition(next_pid, "Admit")
    /\ EnqueueReady(next_pid)
    /\ UNCHANGED <<config, program_store, priority, used, blocked, waking,
                   cpuVars, tick, pc, event>>

\* A caller holding a process of allProcesses() may set its priority.
SetPriority(p, v) ==
    /\ pc = "api"
    /\ priority[p] # v
    /\ priority' = [priority EXCEPT ![p] = v]
    /\ UNCHANGED <<config, program_store, next_pid, process_metadata, state,
                   used, ready, blocked, waking, cpuVars, tick, pc, event>>

-----------------------------------------------------------------------------
(* notifyTick: the I/O completions.                                        *)

Due_OneLate(t) == {e \in blocked : e.wakeup < t}

Due(t) == {e \in blocked : e.wakeup <= t}

\* std::partition leaves the order of both halves unspecified.
NotifyTick(t) ==
    /\ pc = "api"
    /\ tick' = t
    /\ blocked' = blocked \ Due(t)
    /\ waking' \in SetToSeqs({e.pid : e \in Due(t)})
    /\ pc' = "wake"
    /\ UNCHANGED <<userVars, state, used, ready, cpuVars, event>>

Wake ==
    /\ pc = "wake"
    /\ waking # <<>>
    /\ waking' = Tail(waking)
    /\ Transition(Head(waking), "IoComplete")
    /\ EnqueueReady(Head(waking))
    /\ UNCHANGED <<userVars, used, blocked, cpuVars, tick, pc, event>>

-----------------------------------------------------------------------------
(* notifyTick: CPU::executeTick and the handler of the event it raises, up *)
(* to the handler's call of dispatchNext.                                  *)

Raise(e) == event' = e /\ pc' = "dispatch"

\* Leaves the pointer to the process behind.
UnloadProcess_KeepsPointer == UNCHANGED current /\ quantum' = 0

UnloadProcess == current' = NoProc /\ quantum' = 0

MoveToBlocked(p, t) == blocked' = blocked \cup {[pid |-> p, wakeup |-> t]}

\* The running process's CPU time once the tick is charged to it.
Ran == used[current] + 1

Calls == process_metadata[current].calls

ChargeTick == /\ pc = "wake"
              /\ waking = <<>>
              /\ current # NoProc
              /\ used' = [used EXCEPT ![current] = Ran]

\* Looks the call up before the tick is charged.
HasSyscall_Stale == used[current] \in DOMAIN Calls

HasSyscall == Ran \in DOMAIN Calls

IsFinished_OneLate == Ran > process_metadata[current].cpu

IsFinished == Ran >= process_metadata[current].cpu

\* The values remaining_quantum_-- may leave.  On INT_MIN it overflows, which
\* is undefined: the build wraps around, or it tests as if it had not.
CountedDown == IF quantum = IntMin THEN {IntMin, IntMax} ELSE {quantum - 1}

\* Tests the quantum before it counts it down.
QuantumIsOver_BeforeCount(q) == quantum <= 0

QuantumIsOver(q) == q <= 0

\* handleCpuIdle does nothing.
ExecuteIdle_NoDispatch ==
    /\ pc = "wake"
    /\ waking = <<>>
    /\ current = NoProc
    /\ event' = "CpuIdle"
    /\ pc' = "done"
    /\ UNCHANGED <<userVars, state, used, ready, blocked, waking, cpuVars, tick>>

ExecuteIdle ==
    /\ pc = "wake"
    /\ waking = <<>>
    /\ current = NoProc
    /\ Raise("CpuIdle")
    /\ UNCHANGED <<userVars, state, used, ready, blocked, waking, cpuVars, tick>>

HandleSyscallBlock ==
    /\ ChargeTick
    /\ HasSyscall
    /\ Raise("SyscallBlock")
    /\ Transition(current, "BlockingSyscall")
    /\ UnloadProcess
    /\ MoveToBlocked(current, tick + Calls[Ran])
    /\ UNCHANGED <<userVars, ready, waking, tick>>

HandleProcessExit ==
    /\ ChargeTick
    /\ ~HasSyscall
    /\ IsFinished
    /\ Raise("ProcessExit")
    /\ Transition(current, "Exit")
    /\ UnloadProcess
    /\ UNCHANGED <<userVars, ready, blocked, waking, tick>>

HandleQuantumExpired ==
    /\ ChargeTick
    /\ ~HasSyscall
    /\ ~IsFinished
    /\ \E q \in CountedDown : QuantumIsOver(q)
    /\ Raise("QuantumExpired")
    /\ Transition(current, "QuantumExpired")
    /\ UnloadProcess
    /\ EnqueueReady(current)
    /\ UNCHANGED <<userVars, blocked, waking, tick>>

ContinueExecution ==
    /\ ChargeTick
    /\ ~HasSyscall
    /\ ~IsFinished
    /\ quantum' \in {q \in CountedDown : ~QuantumIsOver(q)}
    /\ pc' = "done"
    /\ UNCHANGED <<userVars, state, ready, blocked, waking, current, tick, event>>

-----------------------------------------------------------------------------
(* notifyTick: dispatchNext, and what its callers and notifyTick do after. *)

\* Tests for the end after every dispatch.
AfterDispatch_AnyEvent == IF ~HasActiveProcesses THEN "complete" ELSE "done"

AfterDispatch == IF event = "ProcessExit" /\ ~HasActiveProcesses
                 THEN "complete" ELSE "done"

LoadProcess(p) == current' = p /\ quantum' = DefaultQuantum

DispatchNext ==
    /\ pc = "dispatch"
    /\ \E i \in 1..Len(ready) :
           /\ IsSelected(i)
           /\ Transition(ready[i], "Dispatch")
           /\ ready' = RemoveAt(ready, i)
           /\ LoadProcess(ready[i])
    /\ pc' = AfterDispatch
    /\ UNCHANGED <<userVars, used, blocked, waking, tick, event>>

DispatchNone ==
    /\ pc = "dispatch"
    /\ ready = <<>>
    /\ pc' = AfterDispatch
    /\ UNCHANGED <<userVars, state, used, ready, blocked, waking, cpuVars,
                   tick, event>>

NotifySimulationComplete ==
    /\ pc = "complete"
    /\ pc' = "done"
    /\ UNCHANGED <<userVars, state, used, ready, blocked, waking, cpuVars,
                   tick, event>>

NotifyTickCompleted ==
    /\ pc = "done"
    /\ pc' = "api"
    /\ event' = "none"
    /\ UNCHANGED <<userVars, state, used, ready, blocked, waking, cpuVars, tick>>

-----------------------------------------------------------------------------
(* What the kernel does by itself once notifyTick was called, and what its *)
(* callers do.                                                             *)

KernelStep == \/ Wake
              \/ ExecuteIdle
              \/ HandleSyscallBlock
              \/ HandleProcessExit
              \/ HandleQuantumExpired
              \/ ContinueExecution
              \/ DispatchNext
              \/ DispatchNone
              \/ NotifySimulationComplete
              \/ NotifyTickCompleted

UserStep == \/ \E meta \in Programs : SubmitProgram(meta)
            \/ \E id \in DOMAIN program_store : RunProgram(id)
            \/ \E p \in Created, v \in Priorities : SetPriority(p, v)

ClockStep == /\ tick + TickInterval <= MaxTick
             /\ NotifyTick(tick + TickInterval)

Next == KernelStep \/ UserStep \/ ClockStep

Spec == Init /\ [][Next]_vars

-----------------------------------------------------------------------------
(* Properties.                                                             *)

TypeOK ==
    /\ config \in Configs
    /\ program_store \in Seq(Programs)
    /\ next_pid \in 1..(MaxProcs + 1)
    /\ process_metadata \in [Pid -> Programs \cup {NoProgram}]
    /\ state \in [Pid -> ProcessState]
    /\ priority \in [Pid -> Priorities \cup {0}]
    /\ used \in [Pid -> Nat]
    /\ ready \in Seq(Pid)
    /\ blocked \subseteq [pid : Pid, wakeup : Int]
    /\ waking \in Seq(Pid)
    /\ current \in Pid \cup {NoProc}
    /\ quantum \in Int
    /\ tick \in Nat
    /\ pc \in {"api", "wake", "dispatch", "complete", "done"}
    /\ event \in {"none", "CpuIdle", "SyscallBlock", "ProcessExit",
                  "QuantumExpired"}

InBlocked == {e.pid : e \in blocked}

ReadyQueueHoldsReady == /\ \A p \in Pid : state[p] = "Ready" <=> p \in ToSet(ready)
                        /\ IsInjective(ready)

CpuHoldsRunning == \A p \in Pid : state[p] = "Running" <=> p = current

BlockedHeldOnce ==
    /\ \A p \in Pid : state[p] = "Blocked" <=>
                          p \in InBlocked \cup ToSet(waking)
    /\ InBlocked \cap ToSet(waking) = {}
    /\ IsInjective(waking)
    /\ \A d, e \in blocked : d.pid = e.pid => d = e

NewUntilCreated == \A p \in Pid : state[p] = "New" <=> p \notin Created

\* The kernel moves a process between the ready queue, the CPU, the blocked
\* queue and checkBlockedCompletions' local vector through several calls; none
\* of them loses it, duplicates it or, when the move is made, leaves it where its
\* ProcessState says it is not, and so no applyTransition ever throws.
Placement == /\ NewUntilCreated
             /\ ReadyQueueHoldsReady
             /\ CpuHoldsRunning
             /\ BlockedHeldOnce

\* The ready queue as onStateTransition finds it: selectNext has taken the process
\* out that is dispatched, every other move comes after the transition.
SeenReady_NotTakenYet == ready

SeenReady == IF pc = "dispatch" THEN ready' ELSE ready

\* The step changes the state of p, and its observers find p in no queue, and
\* every other process where its state says and not also elsewhere.
OnlyInMotion(p) ==
    /\ p \notin ToSet(SeenReady) \cup InBlocked
    /\ \A q \in Pid \ {p} :
           /\ state'[q] = "Ready" <=> q \in ToSet(SeenReady)
           /\ state'[q] = "Running" <=> q = current
           /\ state'[q] = "Blocked" <=> q \in InBlocked \cup ToSet(waking)

\* An observer that reads the kernel inside onStateTransition sees a half-updated
\* one: the state is new and the place is not.  That is so of the one process it
\* is told about and of no other, however many wake up in the tick, and no queue
\* shows that process under a state it no longer has.
ObserversSeeOneInMotion ==
    [][\A p \in Pid : state'[p] # state[p] => OnlyInMotion(p)]_vars

\* No tick ends with the CPU idle while a process is ready: every handler
\* that empties the CPU ends in dispatchNext, and an idle tick dispatches.
WorkConserving == pc = "done" /\ current = NoProc => ready = <<>>

\* The call a blocked process waits for is the one at its CPU time, and its
\* wakeup lies ahead of the clock, unless the call takes no time at all.
NoOverdueSleeper ==
    \A e \in blocked :
        LET p == e.pid  m == process_metadata[p]
        IN  /\ used[p] \in DOMAIN m.calls
            /\ e.wakeup <= tick => m.calls[used[p]] <= 0

\* onSimulationComplete is called only when nothing is left to do anywhere.
CompletionIsFinal ==
    pc = "complete" => /\ \A p \in Created : state[p] = "Terminated"
                       /\ ready = <<>> /\ blocked = {} /\ waking = <<>>
                       /\ current = NoProc

\* Under the Priority policy the process a tick dispatched has the highest
\* priority of those that waited, though setPriority leaves the queue unsorted.
HighestPriorityRuns ==
    pc = "done" /\ event # "none" /\ current # NoProc /\ config.policy = "Priority" =>
        \A p \in ToSet(ready) : priority[p] <= priority[current]

Exits(m, u) == u >= m.cpu /\ u \notin DOMAIN m.calls

\* The CPU time of a process follows from its program alone: whatever the
\* interleaving, it ends at the first tick that completes its work without
\* being a call, and it is never charged a tick beyond that one.
CpuAccounting ==
    \A p \in Pid :
        LET m == process_metadata[p]
            done == state[p] = "Terminated"
        IN  /\ \A u \in 1..used[p] : Exits(m, u) => done /\ u = used[p]
            /\ done => Exits(m, used[p])

\* The readme on the control block (README.md:51): "Estimated CPU time" is the
\* "total ticks needed to finish".
EstimateIsTotal ==
    \A p \in Pid : state[p] = "Terminated" => used[p] = process_metadata[p].cpu

\* FCFS never preempts: its quantum outlasts every program of the runs.
FcfsNeverPreempts == config.policy = "FCFS" => event # "QuantumExpired"

\* The kernel implements the life cycle of ProcessLifecycle.
Lifecycle == INSTANCE ProcessLifecycle WITH program <- process_metadata
LifecycleSpec == Lifecycle!Spec

\* The kernel uses the blocked queue as WakeupSet has it, never adding a process
\* twice and waking all it was given back before it adds another.
Sleepers == INSTANCE WakeupSet
                WITH Procs <- Pid, Tick <- Int,
                     held <- blocked, completed <- waking, clock <- tick
WakeupSpec == Sleepers!Spec

=============================================================================
