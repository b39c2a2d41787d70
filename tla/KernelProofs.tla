---------------------------- MODULE KernelProofs ----------------------------
(***************************************************************************)
(* Proofs about Kernel, for every set of programs, every configuration and *)
(* all bounds.  The argument rests on one inductive invariant, Inv: where  *)
(* the processes are (Placement) can only be maintained together with what *)
(* the point of control in notifyTick implies (ControlInv).                *)
(*                                                                         *)
(* On top of it stands what a tick achieves: the CPU is given away when it *)
(* can be, to the process that should have it; completion is announced     *)
(* only at the end; sleepers are not overdue; the CPU time of a process    *)
(* follows from its program; and its life is the one the life cycle allows.*)
(***************************************************************************)
EXTENDS KernelSetup, DataLemmas

USE DEF Pid, NoProc

\* What happens to a kernel that somebody drives: Next without the bound on the
\* clock.  A SimulationEngine and the window drive one in this way too.
Driven == KernelStep \/ UserStep \/ NotifyTick(tick + TickInterval)

LEMMA NextIsDriven == [Next]_vars => [Driven]_vars
  BY DEF Next, ClockStep, Driven

-----------------------------------------------------------------------------
(* What the shared parts of the actions do.                                *)

\* applyTransition leaves every other process alone.
LEMMA TransitionEffect ==
    ASSUME NEW p \in Pid, NEW t \in StateTransition,
           state \in [Pid -> ProcessState], Transition(p, t)
    PROVE  /\ state[p] = Source[t]
           /\ state' \in [Pid -> ProcessState]
           /\ state'[p] = Target[t]
           /\ \A q \in Pid \ {p} : state'[q] = state[q]
  <1>1. Target[t] \in ProcessState
    BY DEF StateTransition, Target, ProcessState
  <1> QED BY <1>1 DEF Transition, IsValidTransition, TargetState

\* Whatever the policy, enqueueReady adds the process to the ready queue.
LEMMA EnqueueEffect ==
    ASSUME NEW p \in Pid, ready \in Seq(Pid), EnqueueReady(p)
    PROVE  /\ ready' \in Seq(Pid)
           /\ ToSet(ready') = ToSet(ready) \cup {p}
           /\ IsInjective(ready) /\ p \notin ToSet(ready) => IsInjective(ready')
  <1>1. PICK i \in 1..(Len(ready) + 1) : ready' = InsertAt(ready, i, p)
    BY DEF EnqueueReady
  <1> HIDE DEF Pid
  <1>2. ready' \in Seq(Pid)
    BY <1>1, InsertAtPlaces
  <1>3. ToSet(ready') = ToSet(ready) \cup {p}
    BY <1>1, InsertAtElements
  <1>4. ASSUME IsInjective(ready), p \notin ToSet(ready)
        PROVE  IsInjective(ready')
    BY <1>1, <1>4, InsertAtElements
  <1> QED BY <1>2, <1>3, <1>4

\* The pids that checkBlockedCompletions goes through.
LEMMA WakingEffect ==
    ASSUME blocked \subseteq [pid : Pid, wakeup : Int], NEW t,
           waking' \in SetToSeqs({e.pid : e \in Due(t)})
    PROVE  /\ waking' \in Seq(Pid)
           /\ ToSet(waking') = {e.pid : e \in Due(t)}
           /\ IsInjective(waking')
  <1> DEFINE T == {e.pid : e \in Due(t)}
  <1>1. T \subseteq Pid
    BY DEF Due
  <1>2. IsFiniteSet(Pid)
    BY FS_Interval, BoundsAssumption
  <1>3. IsFiniteSet(T)
    BY <1>1, <1>2, FS_Subset
  <1>4. waking' \in Seq(T) /\ ToSet(waking') = T /\ IsInjective(waking')
    <2> HIDE DEF T
    <2>1. waking' \in SetToSeqs(T)
      BY DEF T
    <2> QED BY <1>3, <2>1, EnumerationElements
  <1>5. waking' \in Seq(Pid)
    BY <1>1, <1>4, SeqMonotonic
  <1> QED BY <1>4, <1>5

-----------------------------------------------------------------------------
(* Type correctness.                                                       *)

\* The call at a CPU tick of a process takes an integer number of ticks.
LEMMA CallType ==
    ASSUME TypeOK, NEW p \in Pid, NEW u \in DOMAIN process_metadata[p].calls
    PROVE  process_metadata[p].calls[u] \in Int
  <1>1. process_metadata[p] \in Programs \cup {NoProgram}
    BY DEF TypeOK
  <1>2. CASE process_metadata[p] \in Programs
    BY <1>2, ProgramsAssumption
  <1>3. CASE process_metadata[p] = NoProgram
    BY <1>3 DEF NoProgram
  <1> QED BY <1>1, <1>2, <1>3

LEMMA InitTypeOK == Init => TypeOK
  BY BoundsAssumption DEF Init, TypeOK, ProcessState

\* What runProgram does with the program that it loads.
Admits(m) == /\ next_pid <= MaxProcs
             /\ next_pid' = next_pid + 1
             /\ process_metadata' = [process_metadata EXCEPT ![next_pid] = m]
             /\ Transition(next_pid, "Admit")
             /\ EnqueueReady(next_pid)
             /\ UNCHANGED <<config, priority, used, blocked, waking, current,
                            quantum, tick, pc, event>>

LEMMA AdmitTypeOK ==
    ASSUME TypeOK, NEW m \in Programs, Admits(m), program_store' \in Seq(Programs)
    PROVE  TypeOK'
  <1>1. next_pid \in Pid /\ next_pid' \in 1..(MaxProcs + 1)
    BY BoundsAssumption DEF TypeOK, Admits
  <1>2. state' \in [Pid -> ProcessState]
    BY <1>1, TransitionEffect DEF TypeOK, Admits, StateTransition
  <1>3. ready' \in Seq(Pid)
    BY <1>1, EnqueueEffect DEF TypeOK, Admits
  <1>4. process_metadata' \in [Pid -> Programs \cup {NoProgram}]
    BY <1>1 DEF TypeOK, Admits
  <1> QED BY <1>1, <1>2, <1>3, <1>4 DEF TypeOK, Admits

LEMMA RunAdmits ==
    ASSUME TypeOK, NEW id \in DOMAIN program_store, RunProgram(id)
    PROVE  /\ Load(id) \in Programs /\ Admits(Load(id))
           /\ program_store' \in Seq(Programs)
  BY DEF TypeOK, Load, RunProgram, Admits, cpuVars

\* What the caller may do at any time keeps every type.
LEMMA UserTypeOK == TypeOK /\ UserStep => TypeOK'
  <1> SUFFICES ASSUME TypeOK, UserStep PROVE TypeOK'
    OBVIOUS
  <1>1. CASE \E meta \in Programs : SubmitProgram(meta)
    BY <1>1 DEF TypeOK, SubmitProgram, Store, cpuVars
  <1>2. CASE \E id \in DOMAIN program_store : RunProgram(id)
    BY <1>2, RunAdmits, AdmitTypeOK
  <1>3. CASE \E p \in Created, v \in Priorities : SetPriority(p, v)
    <2>1. PICK p \in Created, v \in Priorities : SetPriority(p, v)
      BY <1>3
    <2>2. priority' \in [Pid -> Priorities \cup {0}]
      BY <2>1 DEF TypeOK, SetPriority
    <2> QED BY <2>1, <2>2 DEF TypeOK, SetPriority, cpuVars
  <1> QED BY <1>1, <1>2, <1>3 DEF UserStep

LEMMA ClockTypeOK == TypeOK /\ NotifyTick(tick + TickInterval) => TypeOK'
  <1> SUFFICES ASSUME TypeOK, NotifyTick(tick + TickInterval) PROVE TypeOK'
    OBVIOUS
  <1>1. tick' = tick + TickInterval /\ tick' \in Nat
    BY BoundsAssumption DEF TypeOK, NotifyTick
  <1>2. waking' \in Seq(Pid)
    BY WakingEffect DEF TypeOK, NotifyTick
  <1>3. blocked' \subseteq [pid : Pid, wakeup : Int]
    BY DEF TypeOK, NotifyTick
  <1> QED BY <1>1, <1>2, <1>3 DEF TypeOK, NotifyTick, userVars, cpuVars

LEMMA KernelTypeOK == TypeOK /\ KernelStep => TypeOK'
  <1> SUFFICES ASSUME TypeOK, KernelStep PROVE TypeOK'
    OBVIOUS
  <1>1. CASE Wake
    <2>1. Head(waking) \in Pid /\ waking' \in Seq(Pid)
      BY <1>1, HeadTailProperties DEF TypeOK, Wake
    <2>2. state' \in [Pid -> ProcessState]
      BY <1>1, <2>1, TransitionEffect DEF TypeOK, Wake, StateTransition
    <2>3. ready' \in Seq(Pid)
      BY <1>1, <2>1, EnqueueEffect DEF TypeOK, Wake
    <2> QED BY <1>1, <2>1, <2>2, <2>3 DEF TypeOK, Wake, userVars, cpuVars
  <1>2. CASE ExecuteIdle
    BY <1>2 DEF TypeOK, ExecuteIdle, Raise, userVars, cpuVars
  <1>3. ASSUME ChargeTick
        PROVE  current \in Pid /\ Ran \in Nat /\ used' \in [Pid -> Nat]
    BY <1>3 DEF TypeOK, ChargeTick, Ran
  <1>4. CASE HandleSyscallBlock
    <2>1. current \in Pid /\ used' \in [Pid -> Nat]
      BY <1>3, <1>4 DEF HandleSyscallBlock
    <2>2. state' \in [Pid -> ProcessState]
      BY <1>4, <2>1, TransitionEffect
         DEF TypeOK, HandleSyscallBlock, StateTransition
    <2>3. Calls[Ran] \in Int
      BY <1>4, <2>1, CallType DEF HandleSyscallBlock, HasSyscall, Calls
    <2>4. blocked' \subseteq [pid : Pid, wakeup : Int]
      BY <1>4, <2>1, <2>3 DEF TypeOK, HandleSyscallBlock, MoveToBlocked
    <2> QED BY <1>4, <2>1, <2>2, <2>4
            DEF TypeOK, HandleSyscallBlock, Raise, UnloadProcess, userVars
  <1>5. CASE HandleProcessExit
    <2>1. current \in Pid /\ used' \in [Pid -> Nat]
      BY <1>3, <1>5 DEF HandleProcessExit
    <2>2. state' \in [Pid -> ProcessState]
      BY <1>5, <2>1, TransitionEffect
         DEF TypeOK, HandleProcessExit, StateTransition
    <2> QED BY <1>5, <2>1, <2>2
            DEF TypeOK, HandleProcessExit, Raise, UnloadProcess, userVars
  <1>6. CASE HandleQuantumExpired
    <2>1. current \in Pid /\ used' \in [Pid -> Nat]
      BY <1>3, <1>6 DEF HandleQuantumExpired
    <2>2. state' \in [Pid -> ProcessState]
      BY <1>6, <2>1, TransitionEffect
         DEF TypeOK, HandleQuantumExpired, StateTransition
    <2>3. ready' \in Seq(Pid)
      BY <1>6, <2>1, EnqueueEffect DEF TypeOK, HandleQuantumExpired
    <2> QED BY <1>6, <2>1, <2>2, <2>3
            DEF TypeOK, HandleQuantumExpired, Raise, UnloadProcess, userVars
  <1>7. CASE ContinueExecution
    <2>1. quantum' \in Int
      BY <1>7 DEF TypeOK, ContinueExecution, CountedDown, IntMin, IntMax
    <2> QED BY <1>3, <1>7, <2>1 DEF TypeOK, ContinueExecution, userVars
  <1>8. ASSUME pc' = AfterDispatch
        PROVE  pc' \in {"complete", "done"}
    BY <1>8 DEF AfterDispatch
  <1>9. CASE DispatchNext
    <2>1. PICK i \in 1..Len(ready) : /\ Transition(ready[i], "Dispatch")
                                     /\ ready' = RemoveAt(ready, i)
                                     /\ current' = ready[i]
                                     /\ quantum' = DefaultQuantum
      BY <1>9 DEF DispatchNext, LoadProcess
    <2>2. ready[i] \in Pid
      BY <2>1, PlaceElement DEF TypeOK
    <2>3. state' \in [Pid -> ProcessState]
      BY <2>1, <2>2, TransitionEffect DEF TypeOK, StateTransition
    <2>4. ready' \in Seq(Pid)
      BY <2>1, RemoveAtPlaces DEF TypeOK
    <2>5. DefaultQuantum \in Int
      BY ConfigsAssumption DEF TypeOK, DefaultQuantum, IntMax
    <2> QED BY <1>8, <1>9, <2>1, <2>2, <2>3, <2>4, <2>5
            DEF TypeOK, DispatchNext, userVars
  <1>10. CASE DispatchNone
    BY <1>8, <1>10 DEF TypeOK, DispatchNone, userVars, cpuVars
  <1>11. CASE NotifySimulationComplete
    BY <1>11 DEF TypeOK, NotifySimulationComplete, userVars, cpuVars
  <1>12. CASE NotifyTickCompleted
    BY <1>12 DEF TypeOK, NotifyTickCompleted, userVars, cpuVars
  <1> QED BY <1>1, <1>2, <1>4, <1>5, <1>6, <1>7, <1>9, <1>10, <1>11, <1>12
          DEF KernelStep

\* Every variable of the kernel keeps its type, whatever the programs, the
\* configuration and the interleaving of the callers with the clock.
THEOREM TypeCorrect == Spec => []TypeOK
  <1>1. TypeOK /\ [Driven]_vars => TypeOK'
    <2>1. TypeOK /\ UNCHANGED vars => TypeOK'
      BY DEF TypeOK, vars
    <2> QED BY <2>1, UserTypeOK, ClockTypeOK, KernelTypeOK DEF Driven
  <1> QED BY <1>1, InitTypeOK, NextIsDriven, PTL DEF Spec

-----------------------------------------------------------------------------
(* Placement.                                                              *)

\* The vector of woken processes is empty outside checkBlockedCompletions, and
\* a handler has emptied the CPU before it calls dispatchNext.
ControlInv == /\ waking # <<>> => pc = "wake"
              /\ pc = "dispatch" => current = NoProc

Inv == TypeOK /\ Placement /\ ControlInv

LEMMA InitInv == Init => Inv
  <1> SUFFICES ASSUME Init PROVE Inv
    OBVIOUS
  <1>1. ToSet(<<>>) = {} /\ IsInjective(<<>>)
    BY DEF ToSet, IsInjective
  <1>2. Created = {}
    BY DEF Init, Created
  <1>3. InBlocked = {}
    BY DEF Init, InBlocked
  <1>4. Placement
    BY <1>1, <1>2, <1>3 DEF Init, Placement, NewUntilCreated,
          ReadyQueueHoldsReady, CpuHoldsRunning, BlockedHeldOnce
  <1> QED BY <1>4, InitTypeOK DEF Init, Inv, ControlInv

\* runProgram moves the new process from nowhere into the ready queue.
LEMMA AdmitPlacement ==
    ASSUME Inv, NEW m, Admits(m)
    PROVE  Placement' /\ ControlInv'
  <1> USE DEF Inv
  <1>1. next_pid \in Pid /\ next_pid' = next_pid + 1
    BY BoundsAssumption DEF TypeOK, Admits
  <1>2. /\ state[next_pid] = "New"
        /\ state'[next_pid] = "Ready"
        /\ \A q \in Pid \ {next_pid} : state'[q] = state[q]
    BY <1>1, TransitionEffect DEF TypeOK, Admits, StateTransition, Source, Target
  <1>3. /\ ToSet(ready') = ToSet(ready) \cup {next_pid}
        /\ IsInjective(ready) /\ next_pid \notin ToSet(ready)
               => IsInjective(ready')
    BY <1>1, EnqueueEffect DEF TypeOK, Admits
  <1>4. UNCHANGED <<blocked, waking, current, pc>>
    BY DEF Admits
  <1>5. NewUntilCreated'
    BY <1>1, <1>2 DEF TypeOK, Placement, NewUntilCreated, Created
  <1>6. ReadyQueueHoldsReady'
    BY <1>1, <1>2, <1>3 DEF Placement, ReadyQueueHoldsReady
  <1>7. CpuHoldsRunning'
    BY <1>1, <1>2, <1>4 DEF Placement, CpuHoldsRunning
  <1>8. BlockedHeldOnce'
    BY <1>1, <1>2, <1>4 DEF Placement, BlockedHeldOnce, InBlocked
  <1>9. ControlInv'
    BY <1>4 DEF ControlInv
  <1> QED BY <1>5, <1>6, <1>7, <1>8, <1>9 DEF Placement

\* The other calls of the API move nothing.
LEMMA UserPlacement == Inv /\ UserStep => Placement' /\ ControlInv'
  <1> SUFFICES ASSUME Inv, UserStep PROVE Placement' /\ ControlInv'
    OBVIOUS
  <1> USE DEF Inv
  <1>1. CASE \E meta \in Programs : SubmitProgram(meta)
    BY <1>1 DEF SubmitProgram, cpuVars, Placement, NewUntilCreated, Created,
          ReadyQueueHoldsReady, CpuHoldsRunning, BlockedHeldOnce, InBlocked,
          ControlInv
  <1>2. CASE \E id \in DOMAIN program_store : RunProgram(id)
    BY <1>2, RunAdmits, AdmitPlacement
  <1>3. CASE \E p \in Created, v \in Priorities : SetPriority(p, v)
    BY <1>3 DEF SetPriority, cpuVars, Placement, NewUntilCreated, Created,
          ReadyQueueHoldsReady, CpuHoldsRunning, BlockedHeldOnce, InBlocked,
          ControlInv
  <1> QED BY <1>1, <1>2, <1>3 DEF UserStep

\* getCompleted moves the due processes from the blocked queue into the vector
\* that checkBlockedCompletions goes through.
LEMMA ClockPlacement ==
    Inv /\ NotifyTick(tick + TickInterval) => Placement' /\ ControlInv'
  <1> SUFFICES ASSUME Inv, NotifyTick(tick + TickInterval)
               PROVE  Placement' /\ ControlInv'
    OBVIOUS
  <1> USE DEF Inv
  <1> DEFINE t == tick + TickInterval
             D == {e.pid : e \in Due(t)}
  <1>1. /\ pc = "api" /\ pc' = "wake"
        /\ blocked' = blocked \ Due(t)
        /\ waking' \in SetToSeqs(D)
        /\ UNCHANGED <<next_pid, state, ready, current>>
    BY DEF NotifyTick, userVars, cpuVars
  <1>2. ToSet(waking') = D /\ IsInjective(waking')
    BY <1>1, WakingEffect DEF TypeOK
  <1>3. waking = <<>> /\ ToSet(waking) = {}
    BY <1>1 DEF ControlInv, ToSet
  <1>4. \A d, e \in blocked : d.pid = e.pid => d = e
    BY DEF Placement, BlockedHeldOnce
  <1>5. InBlocked = InBlocked' \cup D /\ InBlocked' \cap D = {}
    BY <1>1, <1>4 DEF InBlocked, Due
  <1>6. BlockedHeldOnce'
    <2>1. \A p \in Pid : state'[p] = "Blocked" <=>
                             p \in InBlocked' \cup ToSet(waking')
      BY <1>1, <1>2, <1>3, <1>5 DEF Placement, BlockedHeldOnce
    <2>2. \A d, e \in blocked' : d.pid = e.pid => d = e
      BY <1>1, <1>4
    <2> QED BY <1>2, <1>5, <2>1, <2>2 DEF BlockedHeldOnce
  <1>7. NewUntilCreated' /\ ReadyQueueHoldsReady' /\ CpuHoldsRunning'
    BY <1>1 DEF Placement, NewUntilCreated, Created, ReadyQueueHoldsReady,
          CpuHoldsRunning
  <1>8. ControlInv'
    BY <1>1 DEF ControlInv
  <1> QED BY <1>6, <1>7, <1>8 DEF Placement

\* A transition of an existing process to an existing state leaves it created.
LEMMA StaysCreated ==
    ASSUME Inv, NEW p \in Pid, UNCHANGED next_pid, state[p] # "New",
           state'[p] # "New", \A q \in Pid \ {p} : state'[q] = state[q]
    PROVE  NewUntilCreated'
  BY DEF Inv, Placement, NewUntilCreated, Created

\* checkBlockedCompletions moves a woken process into the ready queue.
LEMMA WakePlacement == Inv /\ Wake => Placement' /\ ControlInv'
  <1> SUFFICES ASSUME Inv, Wake PROVE Placement' /\ ControlInv'
    OBVIOUS
  <1> USE DEF Inv
  <1> DEFINE p == Head(waking)
  <1>1. /\ waking # <<>> /\ waking \in Seq(Pid) /\ waking' = Tail(waking)
        /\ pc = "wake" /\ UNCHANGED <<next_pid, blocked, current, pc>>
    BY DEF Wake, TypeOK, userVars, cpuVars
  <1>2. IsInjective(waking) /\ InBlocked \cap ToSet(waking) = {}
    BY DEF Placement, BlockedHeldOnce
  <1>3. /\ p \in ToSet(waking) /\ p \in Pid
        /\ ToSet(waking') = ToSet(waking) \ {p}
        /\ IsInjective(waking')
    BY <1>1, <1>2, TailElements
  <1> HIDE DEF p
  <1>4. /\ state[p] = "Blocked" /\ state'[p] = "Ready"
        /\ \A q \in Pid \ {p} : state'[q] = state[q]
    BY <1>3, TransitionEffect
       DEF Wake, TypeOK, StateTransition, Source, Target, p
  <1>5. /\ ToSet(ready') = ToSet(ready) \cup {p}
        /\ IsInjective(ready) /\ p \notin ToSet(ready) => IsInjective(ready')
    BY <1>3, EnqueueEffect DEF Wake, TypeOK, p
  <1>6. NewUntilCreated'
    BY <1>1, <1>3, <1>4, StaysCreated
  <1>7. ReadyQueueHoldsReady'
    BY <1>3, <1>4, <1>5 DEF Placement, ReadyQueueHoldsReady
  <1>8. CpuHoldsRunning'
    BY <1>1, <1>3, <1>4 DEF Placement, CpuHoldsRunning
  <1>9. BlockedHeldOnce'
    <2>1. InBlocked' = InBlocked
      BY <1>1 DEF InBlocked
    <2> QED BY <1>1, <1>2, <1>3, <1>4, <2>1 DEF Placement, BlockedHeldOnce
  <1>10. ControlInv'
    BY <1>1 DEF ControlInv
  <1> QED BY <1>6, <1>7, <1>8, <1>9, <1>10 DEF Placement

\* What the three handlers that empty the CPU have in common.
LEMMA UnloadPlacement ==
    ASSUME Inv, ChargeTick, current' = NoProc, pc' = "dispatch",
           UNCHANGED <<next_pid, waking>>, NEW t \in StateTransition,
           Source[t] = "Running", Transition(current, t)
    PROVE  /\ current \in Pid /\ state[current] = "Running"
           /\ state'[current] = Target[t]
           /\ \A q \in Pid \ {current} : state'[q] = state[q]
           /\ NewUntilCreated' /\ CpuHoldsRunning' /\ ControlInv'
  <1> USE DEF Inv
  <1>1. current \in Pid /\ waking = <<>>
    BY DEF TypeOK, ChargeTick
  <1>2. /\ state[current] = "Running" /\ state'[current] = Target[t]
        /\ \A q \in Pid \ {current} : state'[q] = state[q]
    BY <1>1, TransitionEffect DEF TypeOK
  <1>3. Target[t] \notin {"New", "Running"}
    BY DEF StateTransition, Source, Target
  <1>4. NewUntilCreated'
    BY <1>1, <1>2, <1>3, StaysCreated
  <1>5. CpuHoldsRunning'
    BY <1>1, <1>2, <1>3 DEF Placement, CpuHoldsRunning
  <1>6. ControlInv'
    BY <1>1 DEF ControlInv
  <1> QED BY <1>1, <1>2, <1>4, <1>5, <1>6

\* handleSyscallBlock moves the running process into the blocked queue.
LEMMA SyscallPlacement == Inv /\ HandleSyscallBlock => Placement' /\ ControlInv'
  <1> SUFFICES ASSUME Inv, HandleSyscallBlock PROVE Placement' /\ ControlInv'
    OBVIOUS
  <1> DEFINE e == [pid |-> current, wakeup |-> tick + Calls[Ran]]
  <1>1. /\ ChargeTick /\ Transition(current, "BlockingSyscall")
        /\ current' = NoProc /\ pc' = "dispatch"
        /\ blocked' = blocked \cup {e}
        /\ UNCHANGED <<next_pid, waking, ready>>
    BY DEF HandleSyscallBlock, Raise, UnloadProcess, MoveToBlocked, userVars
  <1>2. /\ current \in Pid /\ state[current] = "Running"
        /\ state'[current] = "Blocked"
        /\ \A q \in Pid \ {current} : state'[q] = state[q]
        /\ NewUntilCreated' /\ CpuHoldsRunning' /\ ControlInv'
    BY <1>1, UnloadPlacement DEF StateTransition, Source, Target
  <1>3. e.pid = current
    OBVIOUS
  <1> HIDE DEF e
  <1> USE DEF Inv
  <1>4. InBlocked' = InBlocked \cup {current} /\ current \notin InBlocked
    BY <1>1, <1>2, <1>3 DEF InBlocked, Placement, BlockedHeldOnce
  <1>5. BlockedHeldOnce'
    <2>1. \A p \in Pid : state'[p] = "Blocked" <=>
                             p \in InBlocked' \cup ToSet(waking')
      BY <1>1, <1>2, <1>4 DEF Placement, BlockedHeldOnce
    <2>2. InBlocked' \cap ToSet(waking') = {} /\ IsInjective(waking')
      BY <1>1, <1>2, <1>4 DEF Placement, BlockedHeldOnce
    <2>3. \A d \in blocked : d.pid # current
      BY <1>4 DEF InBlocked
    <2>4. \A c, d \in blocked' : c.pid = d.pid => c = d
      BY <1>1, <1>3, <2>3 DEF Placement, BlockedHeldOnce
    <2> QED BY <2>1, <2>2, <2>4 DEF BlockedHeldOnce
  <1>6. ReadyQueueHoldsReady'
    BY <1>1, <1>2 DEF Placement, ReadyQueueHoldsReady
  <1> QED BY <1>2, <1>5, <1>6 DEF Placement

\* handleProcessExit takes the running process off the CPU for good.
LEMMA ExitPlacement == Inv /\ HandleProcessExit => Placement' /\ ControlInv'
  <1> SUFFICES ASSUME Inv, HandleProcessExit PROVE Placement' /\ ControlInv'
    OBVIOUS
  <1>1. /\ ChargeTick /\ Transition(current, "Exit")
        /\ current' = NoProc /\ pc' = "dispatch"
        /\ UNCHANGED <<next_pid, waking, ready, blocked>>
    BY DEF HandleProcessExit, Raise, UnloadProcess, userVars
  <1>2. /\ current \in Pid /\ state[current] = "Running"
        /\ state'[current] = "Terminated"
        /\ \A q \in Pid \ {current} : state'[q] = state[q]
        /\ NewUntilCreated' /\ CpuHoldsRunning' /\ ControlInv'
    BY <1>1, UnloadPlacement DEF StateTransition, Source, Target
  <1> USE DEF Inv
  <1>3. ReadyQueueHoldsReady'
    BY <1>1, <1>2 DEF Placement, ReadyQueueHoldsReady
  <1>4. BlockedHeldOnce'
    BY <1>1, <1>2 DEF Placement, BlockedHeldOnce, InBlocked
  <1> QED BY <1>2, <1>3, <1>4 DEF Placement

\* handleQuantumExpired moves the running process into the ready queue.
LEMMA QuantumPlacement ==
    Inv /\ HandleQuantumExpired => Placement' /\ ControlInv'
  <1> SUFFICES ASSUME Inv, HandleQuantumExpired PROVE Placement' /\ ControlInv'
    OBVIOUS
  <1>1. /\ ChargeTick /\ Transition(current, "QuantumExpired")
        /\ current' = NoProc /\ pc' = "dispatch"
        /\ UNCHANGED <<next_pid, waking, blocked>>
    BY DEF HandleQuantumExpired, Raise, UnloadProcess, userVars
  <1>2. /\ current \in Pid /\ state[current] = "Running"
        /\ state'[current] = "Ready"
        /\ \A q \in Pid \ {current} : state'[q] = state[q]
        /\ NewUntilCreated' /\ CpuHoldsRunning' /\ ControlInv'
    BY <1>1, UnloadPlacement DEF StateTransition, Source, Target
  <1> USE DEF Inv
  <1>3. /\ ToSet(ready') = ToSet(ready) \cup {current}
        /\ IsInjective(ready) /\ current \notin ToSet(ready)
               => IsInjective(ready')
    BY <1>2, EnqueueEffect DEF HandleQuantumExpired, TypeOK
  <1>4. ReadyQueueHoldsReady'
    BY <1>2, <1>3 DEF Placement, ReadyQueueHoldsReady
  <1>5. BlockedHeldOnce'
    BY <1>1, <1>2 DEF Placement, BlockedHeldOnce, InBlocked
  <1> QED BY <1>2, <1>4, <1>5 DEF Placement

\* dispatchNext moves the selected process from the ready queue to the CPU.
LEMMA DispatchPlacement == Inv /\ DispatchNext => Placement' /\ ControlInv'
  <1> SUFFICES ASSUME Inv, DispatchNext PROVE Placement' /\ ControlInv'
    OBVIOUS
  <1> USE DEF Inv
  <1>1. PICK i \in 1..Len(ready) : /\ Transition(ready[i], "Dispatch")
                                   /\ ready' = RemoveAt(ready, i)
                                   /\ current' = ready[i]
    BY DEF DispatchNext, LoadProcess
  <1>2. ready \in Seq(Pid) /\ IsInjective(ready)
    BY DEF TypeOK, Placement, ReadyQueueHoldsReady
  <1> DEFINE p == ready[i]
  <1>3. p \in Pid /\ p \in ToSet(ready)
    BY <1>1, <1>2, PlaceElement
  <1>4. ToSet(ready') = ToSet(ready) \ {p} /\ IsInjective(ready')
    BY <1>1, <1>2, RemoveAtElements
  <1>5. current' = p
    BY <1>1
  <1>6. Transition(p, "Dispatch")
    BY <1>1
  <1> HIDE DEF p
  <1>7. /\ state[p] = "Ready" /\ state'[p] = "Running"
        /\ \A q \in Pid \ {p} : state'[q] = state[q]
    BY <1>3, <1>6, TransitionEffect DEF TypeOK, StateTransition, Source, Target
  <1>8. current = NoProc /\ UNCHANGED <<next_pid, blocked, waking>>
    BY DEF DispatchNext, ControlInv, userVars
  <1>9. pc' # "dispatch" /\ waking' = <<>>
    BY <1>8 DEF DispatchNext, AfterDispatch, ControlInv
  <1>10. NewUntilCreated'
    BY <1>3, <1>7, <1>8, StaysCreated
  <1>11. ReadyQueueHoldsReady'
    BY <1>3, <1>4, <1>7 DEF Placement, ReadyQueueHoldsReady
  <1>12. CpuHoldsRunning'
    BY <1>3, <1>5, <1>7, <1>8 DEF Placement, CpuHoldsRunning
  <1>13. BlockedHeldOnce'
    BY <1>3, <1>7, <1>8 DEF Placement, BlockedHeldOnce, InBlocked
  <1>14. ControlInv'
    BY <1>9 DEF ControlInv
  <1> QED BY <1>10, <1>11, <1>12, <1>13, <1>14 DEF Placement

\* The other steps of notifyTick move nothing.
LEMMA QuietPlacement ==
    Inv /\ (\/ ExecuteIdle \/ ContinueExecution \/ DispatchNone
            \/ NotifySimulationComplete \/ NotifyTickCompleted)
        => Placement' /\ ControlInv'
  <1> SUFFICES ASSUME Inv,
                      \/ ExecuteIdle \/ ContinueExecution \/ DispatchNone
                      \/ NotifySimulationComplete \/ NotifyTickCompleted
               PROVE  Placement' /\ ControlInv'
    OBVIOUS
  <1>1. UNCHANGED <<next_pid, state, ready, blocked, waking, current>>
    BY DEF ExecuteIdle, ContinueExecution, DispatchNone,
          NotifySimulationComplete, NotifyTickCompleted, userVars, cpuVars
  <1>2. Placement'
    BY <1>1 DEF Inv, Placement, NewUntilCreated, Created, ReadyQueueHoldsReady,
          CpuHoldsRunning, BlockedHeldOnce, InBlocked
  <1>3. ControlInv'
    BY <1>1 DEF Inv, ControlInv, ExecuteIdle, Raise, ContinueExecution,
          DispatchNone, AfterDispatch, NotifySimulationComplete,
          NotifyTickCompleted, ChargeTick
  <1> QED BY <1>2, <1>3

LEMMA DrivenInv == Inv /\ [Driven]_vars => Inv'
  <1> SUFFICES ASSUME Inv, [Driven]_vars PROVE Inv'
    OBVIOUS
  <1>1. CASE UserStep
    BY <1>1, UserTypeOK, UserPlacement DEF Inv
  <1>2. CASE NotifyTick(tick + TickInterval)
    BY <1>2, ClockTypeOK, ClockPlacement DEF Inv
  <1>3. CASE KernelStep
    <2>1. Placement' /\ ControlInv'
      BY <1>3, WakePlacement, SyscallPlacement, ExitPlacement,
         QuantumPlacement, DispatchPlacement, QuietPlacement DEF KernelStep
    <2> QED BY <1>3, <2>1, KernelTypeOK DEF Inv
  <1>4. CASE UNCHANGED vars
    BY <1>4 DEF Inv, TypeOK, Placement, NewUntilCreated, Created, vars,
          ReadyQueueHoldsReady, CpuHoldsRunning, BlockedHeldOnce, InBlocked,
          ControlInv
  <1> QED BY <1>1, <1>2, <1>3, <1>4 DEF Driven

\* There are never more processes than the bound lets be created.
LEMMA PidRange ==
    ASSUME NEW n \in 1..(MaxProcs + 1)
    PROVE  1..(n - 1) \subseteq Pid
  BY BoundsAssumption

LEMMA CreatedPids == Inv => Created \subseteq Pid
  <1>1. Inv => next_pid \in 1..(MaxProcs + 1)
    BY DEF Inv, TypeOK
  <1> HIDE DEF Pid
  <1> QED BY <1>1, PidRange DEF Created

LEMMA NextCreatedPids == Inv' => Created' \subseteq Pid
  <1>1. Inv' => next_pid' \in 1..(MaxProcs + 1)
    BY DEF Inv, TypeOK
  <1> HIDE DEF Pid
  <1> QED BY <1>1, PidRange DEF Created

\* No process is forgotten, and the clock does not go back.
LEMMA OnlyForward ==
    ASSUME Inv, [Driven]_vars
    PROVE  /\ next_pid' \in Nat /\ next_pid' >= next_pid
           /\ Created \subseteq Created'
           /\ tick' \in Nat /\ tick' >= tick
  <1>1. next_pid \in Nat /\ tick \in Nat /\ TickInterval \in Nat
    <2>1. next_pid \in 1..(MaxProcs + 1) /\ MaxProcs \in Nat
      BY BoundsAssumption DEF Inv, TypeOK
    <2> QED BY <2>1, BoundsAssumption DEF Inv, TypeOK
  <1>2. /\ next_pid' = next_pid \/ next_pid' = next_pid + 1
        /\ tick' = tick \/ tick' = tick + TickInterval
    BY DEF Driven, UserStep, KernelStep, SubmitProgram, RunProgram,
          SetPriority, NotifyTick, Wake, ExecuteIdle, HandleSyscallBlock,
          HandleProcessExit, HandleQuantumExpired, ContinueExecution,
          DispatchNext, DispatchNone, NotifySimulationComplete,
          NotifyTickCompleted, userVars, vars
  <1>3. /\ next_pid' \in Nat /\ next_pid' >= next_pid
        /\ tick' \in Nat /\ tick' >= tick
    BY <1>1, <1>2
  <1>4. ASSUME NEW m \in Nat, NEW n \in Nat, n >= m
        PROVE  1..(m - 1) \subseteq 1..(n - 1)
    BY <1>4
  <1>5. 1..(next_pid - 1) \subseteq 1..(next_pid' - 1)
    BY <1>1, <1>3, <1>4
  <1> QED BY <1>3, <1>5 DEF Created

LEMMA NextInv == Inv /\ [Next]_vars => Inv'
  BY DrivenInv, NextIsDriven

THEOREM InvHolds == Spec => []Inv
  BY InitInv, NextInv, PTL DEF Spec

\* Whenever a move is made the queues, the CPU and the vector of woken processes
\* agree with the ProcessStates: no process is lost or held twice, so that no
\* transition is illegal.
THEOREM PlacementHolds == Spec => []Placement
  <1>1. Inv => Placement
    BY DEF Inv
  <1> QED BY <1>1, InvHolds, PTL

\* A process that changes its state makes one transition, and it is the only one.
LEMMA OneChanges ==
    ASSUME Inv, [Driven]_vars, NEW p \in Pid, state'[p] # state[p]
    PROVE  \E t \in StateTransition :
               /\ Transition(p, t) /\ state[p] = Source[t]
               /\ \A q \in Pid \ {p} : state'[q] = state[q]
               /\ t = "IoComplete" => pc = "wake" /\ p \in ToSet(waking)
               /\ pc = "dispatch" => \E i \in 1..Len(ready) :
                      ready[i] = p /\ ready' = RemoveAt(ready, i) /\ t = "Dispatch"
               /\ t = "Dispatch" => pc = "dispatch"
  <1> USE DEF Inv
  <1>1. ASSUME NEW r \in Pid, NEW t \in StateTransition, Transition(r, t)
        PROVE  /\ r = p /\ state[p] = Source[t]
               /\ \A q \in Pid \ {p} : state'[q] = state[q]
    BY <1>1, TransitionEffect DEF TypeOK
  <1>2. CASE \E id \in DOMAIN program_store : RunProgram(id)
    <2>1. next_pid \in Pid
      BY <1>2, BoundsAssumption DEF RunProgram, TypeOK
    <2>2. Transition(next_pid, "Admit") /\ pc = "api"
      BY <1>2 DEF RunProgram
    <2>3. "Admit" \in StateTransition
      BY DEF StateTransition
    <2> QED BY <1>1, <2>1, <2>2, <2>3
  <1>3. CASE Wake
    <2>1. Head(waking) \in Pid /\ Head(waking) \in ToSet(waking)
      BY <1>3, TailElements DEF Wake, TypeOK, Placement, BlockedHeldOnce
    <2>2. Transition(Head(waking), "IoComplete") /\ pc = "wake"
      BY <1>3 DEF Wake
    <2>3. "IoComplete" \in StateTransition
      BY DEF StateTransition
    <2> QED BY <1>1, <2>1, <2>2, <2>3
  <1>4. CASE HandleSyscallBlock \/ HandleProcessExit \/ HandleQuantumExpired
    <2>1. current \in Pid /\ pc = "wake"
      BY <1>4 DEF HandleSyscallBlock, HandleProcessExit, HandleQuantumExpired,
            ChargeTick, TypeOK
    <2>2. PICK t \in {"BlockingSyscall", "Exit", "QuantumExpired"} :
              Transition(current, t)
      BY <1>4 DEF HandleSyscallBlock, HandleProcessExit, HandleQuantumExpired
    <2>3. t \in StateTransition
      BY DEF StateTransition
    <2> QED BY <1>1, <2>1, <2>2, <2>3
  <1>5. CASE DispatchNext
    <2>1. PICK i \in 1..Len(ready) : /\ Transition(ready[i], "Dispatch")
                                     /\ ready' = RemoveAt(ready, i)
      BY <1>5 DEF DispatchNext
    <2>2. ready[i] \in Pid
      BY <2>1, PlaceElement DEF TypeOK
    <2>3. "Dispatch" \in StateTransition /\ pc = "dispatch"
      BY <1>5 DEF StateTransition, DispatchNext
    <2> QED BY <1>1, <2>1, <2>2, <2>3
  <1>6. CASE (\E meta \in Programs : SubmitProgram(meta))
             \/ (\E r \in Created, v \in Priorities : SetPriority(r, v))
             \/ NotifyTick(tick + TickInterval) \/ ExecuteIdle
             \/ ContinueExecution \/ DispatchNone
             \/ NotifySimulationComplete \/ NotifyTickCompleted
             \/ UNCHANGED vars
    BY <1>6 DEF SubmitProgram, SetPriority, NotifyTick, ExecuteIdle,
          ContinueExecution, DispatchNone, NotifySimulationComplete,
          NotifyTickCompleted, vars
  <1> QED BY <1>2, <1>3, <1>4, <1>5, <1>6 DEF Driven, UserStep, KernelStep

LEMMA ChangeIsSeen ==
    ASSUME Inv, [Driven]_vars, NEW p \in Pid, state'[p] # state[p]
    PROVE  OnlyInMotion(p)
  <1> USE DEF Inv
  <1>1. PICK t \in StateTransition :
            /\ Transition(p, t) /\ state[p] = Source[t]
            /\ \A q \in Pid \ {p} : state'[q] = state[q]
            /\ t = "IoComplete" => pc = "wake" /\ p \in ToSet(waking)
            /\ pc = "dispatch" => \E i \in 1..Len(ready) :
                   ready[i] = p /\ ready' = RemoveAt(ready, i) /\ t = "Dispatch"
            /\ t = "Dispatch" => pc = "dispatch"
    BY OneChanges
  <1>2. ToSet(SeenReady) = ToSet(ready) \ {p}
    <2>1. CASE pc = "dispatch"
      <3>1. ready \in Seq(Pid) /\ IsInjective(ready)
        BY DEF TypeOK, Placement, ReadyQueueHoldsReady
      <3> QED BY <1>1, <2>1, <3>1, RemoveAtElements DEF SeenReady
    <2>2. CASE pc # "dispatch"
      <3>1. state[p] # "Ready"
        BY <1>1, <2>2 DEF StateTransition, Source
      <3>2. p \notin ToSet(ready)
        BY <3>1 DEF Placement, ReadyQueueHoldsReady
      <3> QED BY <2>2, <3>2 DEF SeenReady
    <2> QED BY <2>1, <2>2
  <1>3. p \notin InBlocked
    <2>1. state[p] # "Blocked" \/ t = "IoComplete"
      BY <1>1 DEF StateTransition, Source
    <2> QED BY <1>1, <2>1 DEF Placement, BlockedHeldOnce
  <1>4. ASSUME NEW q \in Pid \ {p}
        PROVE  /\ state'[q] = "Ready" <=> q \in ToSet(SeenReady)
               /\ state'[q] = "Running" <=> q = current
               /\ state'[q] = "Blocked" <=> q \in InBlocked \cup ToSet(waking)
    BY <1>1, <1>2 DEF Placement, ReadyQueueHoldsReady, CpuHoldsRunning,
          BlockedHeldOnce
  <1> QED BY <1>2, <1>3, <1>4 DEF OnlyInMotion

\* Inside onStateTransition one process is between two places, the one the
\* callback is about; no queue holds it and all others are where they belong.
THEOREM ObserversSeeOneInMotionHolds == Spec => ObserversSeeOneInMotion
  <1>1. Inv /\ [Next]_vars =>
            [\A p \in Pid : state'[p] # state[p] => OnlyInMotion(p)]_vars
    BY ChangeIsSeen, NextIsDriven
  <1> QED BY <1>1, InvHolds, PTL DEF Spec, ObserversSeeOneInMotion

-----------------------------------------------------------------------------
(* The kernel the window builds on Reset and Restart.                      *)

\* It is in order from the start, like one that has run its programs.
LEMMA SetupInv ==
    ASSUME NEW c \in Configs, NEW programs \in Seq(Programs),
           Len(programs) <= MaxProcs, SetupKernel(c, programs)
    PROVE  Inv'
  <1> DEFINE n == Len(programs)
  <1>1. n \in Nat /\ n <= MaxProcs
    OBVIOUS
  <1>2. /\ config' = c /\ program_store' = programs /\ next_pid' = n + 1
        /\ process_metadata' =
               [p \in Pid |-> IF p <= n THEN programs[p] ELSE NoProgram]
        /\ state' = [p \in Pid |-> IF p <= n THEN "Ready" ELSE "New"]
        /\ ready' = [i \in 1..n |-> i]
        /\ priority' = [p \in Pid |-> 0] /\ used' = [p \in Pid |-> 0]
        /\ blocked' = {} /\ waking' = <<>> /\ current' = NoProc
        /\ quantum' = 0 /\ tick' = 0 /\ pc' = "api" /\ event' = "none"
    BY DEF SetupKernel
  <1>3. \A p \in Pid : p <= n => programs[p] \in Programs
    BY <1>1
  <1> HIDE DEF n
  <1>4. ready' \in Seq(Pid) /\ IsInjective(ready') /\ ToSet(ready') = 1..n
    <2>1. 1..n \subseteq Pid
      BY <1>1, BoundsAssumption
    <2>2. ready' \in Seq(1..n) /\ Len(ready') = n /\ \A i \in 1..n : ready'[i] = i
      BY <1>1, <1>2
    <2> QED BY <1>1, <1>2, <2>1, <2>2 DEF ToSet, IsInjective
  <1>5. TypeOK'
    <2>1. next_pid' \in 1..(MaxProcs + 1)
      BY <1>1, <1>2, BoundsAssumption
    <2>2. process_metadata' \in [Pid -> Programs \cup {NoProgram}]
      BY <1>2, <1>3
    <2> QED BY <1>2, <1>4, <2>1, <2>2 DEF TypeOK, ProcessState
  <1>6. \A p \in Pid : p \in Created' <=> p <= n
    BY <1>1, <1>2 DEF Created
  <1>7. ToSet(<<>>) = {} /\ IsInjective(<<>>)
    BY DEF ToSet, IsInjective
  <1>8. NewUntilCreated' /\ ReadyQueueHoldsReady'
    BY <1>1, <1>2, <1>4, <1>6 DEF NewUntilCreated, ReadyQueueHoldsReady
  <1>9. CpuHoldsRunning' /\ BlockedHeldOnce'
    BY <1>2, <1>7 DEF CpuHoldsRunning, BlockedHeldOnce, InBlocked
  <1> QED BY <1>2, <1>5, <1>8, <1>9 DEF Inv, Placement, ControlInv

-----------------------------------------------------------------------------
(* The end of a tick.                                                      *)

\* After dispatchNext an idle CPU means an empty ready queue; a completion is
\* announced when all is over; no event is left from the tick before; and the
\* process just dispatched was the right one.
TickInv == /\ pc \in {"complete", "done"} /\ current = NoProc => ready = <<>>
           /\ pc = "complete" => /\ ~HasActiveProcesses
                                 /\ current = NoProc
           /\ pc \in {"api", "wake"} => event = "none"
           /\ HighestPriorityRuns

\* std::max_element: no process of the queue has a higher priority than the
\* selected one.
LEMMA SelectedIsHighest ==
    ASSUME NEW i \in 1..Len(ready), IsSelected(i), config.policy = "Priority",
           ready \in Seq(Pid), NEW p \in ToSet(ready)
    PROVE  priority[p] <= priority[ready[i]]
  <1>1. PICK j \in 1..Len(ready) : p = ready[j]
    BY DEF ToSet
  <1> QED BY <1>1 DEF IsSelected, IsFirstHighest

LEMMA DispatchTickInv == Inv /\ TickInv /\ DispatchNext => TickInv'
  <1> SUFFICES ASSUME Inv, TickInv, DispatchNext PROVE TickInv'
    OBVIOUS
  <1>1. PICK i \in 1..Len(ready) : /\ IsSelected(i)
                                   /\ ready' = RemoveAt(ready, i)
                                   /\ current' = ready[i]
    BY DEF DispatchNext, LoadProcess
  <1>2. ready \in Seq(Pid) /\ IsInjective(ready)
    BY DEF Inv, TypeOK, Placement, ReadyQueueHoldsReady
  <1>3. current' \in ToSet(ready) /\ current' \in Pid /\ current' # NoProc
    <2>1. ready[i] \in Pid /\ ready[i] \in ToSet(ready)
      BY <1>2, PlaceElement
    <2> QED BY <1>1, <2>1
  <1>4. HasActiveProcesses
    <2>1. state[current'] = "Ready"
      BY <1>3 DEF Inv, Placement, ReadyQueueHoldsReady
    <2>2. current' \in Created
      BY <1>3, <2>1 DEF Inv, Placement, NewUntilCreated
    <2> QED BY <2>1, <2>2 DEF HasActiveProcesses
  <1>5. pc' = "done" /\ UNCHANGED <<priority, config, event>>
    BY <1>4 DEF DispatchNext, AfterDispatch, userVars
  <1>6. ToSet(ready') \subseteq ToSet(ready)
    BY <1>1, <1>2, RemoveAtElements
  <1>7. ASSUME config.policy = "Priority", NEW p \in ToSet(ready')
        PROVE  priority[p] <= priority[current']
    <2>1. p \in ToSet(ready)
      BY <1>6, <1>7
    <2>2. IsSelected(i) /\ i \in 1..Len(ready)
      BY <1>1
    <2>3. priority[p] <= priority[ready[i]]
      BY <1>2, <1>7, <2>1, <2>2, SelectedIsHighest
    <2> QED BY <1>1, <2>3
  <1>8. HighestPriorityRuns'
    BY <1>5, <1>7 DEF HighestPriorityRuns
  <1> QED BY <1>3, <1>5, <1>8 DEF TickInv

LEMMA DrivenTickInv == Inv /\ TickInv /\ [Driven]_vars => TickInv'
  <1> SUFFICES ASSUME Inv, TickInv, [Driven]_vars PROVE TickInv'
    OBVIOUS
  <1>1. CASE UserStep
    <2>1. pc = "api" /\ UNCHANGED <<pc, event>>
      BY <1>1 DEF UserStep, SubmitProgram, RunProgram, SetPriority
    <2> QED BY <2>1 DEF TickInv, HighestPriorityRuns
  <1>2. CASE NotifyTick(tick + TickInterval)
    <2>1. pc = "api" /\ pc' = "wake" /\ UNCHANGED event
      BY <1>2 DEF NotifyTick
    <2> QED BY <2>1 DEF TickInv, HighestPriorityRuns
  <1>3. CASE Wake
    <2>1. pc = "wake" /\ UNCHANGED <<pc, event>>
      BY <1>3 DEF Wake
    <2> QED BY <2>1 DEF TickInv, HighestPriorityRuns
  <1>4. CASE \/ ExecuteIdle \/ HandleSyscallBlock \/ HandleProcessExit
             \/ HandleQuantumExpired
    <2>1. pc' = "dispatch"
      BY <1>4 DEF ExecuteIdle, HandleSyscallBlock, HandleProcessExit,
            HandleQuantumExpired, Raise
    <2> QED BY <2>1 DEF TickInv, HighestPriorityRuns
  <1>5. CASE ContinueExecution
    <2>1. /\ pc = "wake" /\ pc' = "done" /\ UNCHANGED <<event, current>>
          /\ current # NoProc
      BY <1>5 DEF ContinueExecution, ChargeTick
    <2> QED BY <2>1 DEF TickInv, HighestPriorityRuns
  <1>6. CASE DispatchNext
    BY <1>6, DispatchTickInv
  <1>7. CASE DispatchNone
    <2>1. /\ current = NoProc /\ ready = <<>> /\ pc' = AfterDispatch
          /\ UNCHANGED <<current, ready, state, next_pid>>
      BY <1>7 DEF DispatchNone, Inv, ControlInv, cpuVars, userVars
    <2>2. pc' = "complete" => ~HasActiveProcesses'
      BY <2>1 DEF AfterDispatch, HasActiveProcesses, Created
    <2>3. pc' \in {"complete", "done"}
      BY <2>1 DEF AfterDispatch
    <2> QED BY <2>1, <2>2, <2>3 DEF TickInv, HighestPriorityRuns
  <1>8. CASE NotifySimulationComplete
    <2>1. pc = "complete" /\ pc' = "done" /\ UNCHANGED <<current, ready>>
      BY <1>8 DEF NotifySimulationComplete, cpuVars
    <2> QED BY <2>1 DEF TickInv, HighestPriorityRuns
  <1>9. CASE NotifyTickCompleted
    BY <1>9 DEF TickInv, HighestPriorityRuns, NotifyTickCompleted
  <1>10. CASE UNCHANGED vars
    BY <1>10 DEF TickInv, HighestPriorityRuns, HasActiveProcesses, Created, vars
  <1> QED BY <1>1, <1>2, <1>3, <1>4, <1>5, <1>6, <1>7, <1>8, <1>9, <1>10
          DEF Driven, KernelStep

LEMMA NextTickInv == Inv /\ TickInv /\ [Next]_vars => TickInv'
  BY DrivenTickInv, NextIsDriven

LEMMA InitTickInv == Init => TickInv
  BY DEF Init, TickInv, HighestPriorityRuns

LEMMA TickInvHolds == Spec => []TickInv
  BY InitTickInv, InvHolds, NextTickInv, PTL DEF Spec

\* No tick ends with an idle CPU and a process that could have had it.
THEOREM WorkConservingHolds == Spec => []WorkConserving
  <1>1. TickInv => WorkConserving
    BY DEF TickInv, WorkConserving
  <1> QED BY <1>1, TickInvHolds, PTL

\* Under the Priority policy a dispatched process has the highest priority of
\* all that waited, whatever setPriority did to the order of the queue.
THEOREM HighestPriorityHolds == Spec => []HighestPriorityRuns
  <1>1. TickInv => HighestPriorityRuns
    BY DEF TickInv
  <1> QED BY <1>1, TickInvHolds, PTL

LEMMA CompletionFollows == Inv /\ TickInv => CompletionIsFinal
  <1> SUFFICES ASSUME Inv, TickInv, pc = "complete"
               PROVE  /\ \A p \in Created : state[p] = "Terminated"
                      /\ ready = <<>> /\ blocked = {} /\ waking = <<>>
                      /\ current = NoProc
    BY DEF CompletionIsFinal
  <1>1. current = NoProc /\ ready = <<>> /\ waking = <<>>
    BY DEF TickInv, Inv, ControlInv
  <1>2. \A p \in Created : state[p] = "Terminated"
    BY DEF TickInv, HasActiveProcesses
  <1>3. ASSUME NEW e \in blocked PROVE FALSE
    <2>1. e.pid \in Pid /\ state[e.pid] = "Blocked"
      BY <1>3 DEF Inv, TypeOK, Placement, BlockedHeldOnce, InBlocked
    <2>2. e.pid \in Created
      BY <1>3, <2>1 DEF Inv, Placement, NewUntilCreated
    <2> QED BY <1>2, <2>1, <2>2
  <1> QED BY <1>1, <1>2, <1>3

\* onSimulationComplete is called only when every process has terminated and
\* nothing is left in a queue, on the CPU or on its way between them.
THEOREM CompletionHolds == Spec => []CompletionIsFinal
  BY CompletionFollows, InvHolds, TickInvHolds, PTL

-----------------------------------------------------------------------------
(* Sleepers.                                                               *)

\* Between ticks and while they run, a step that touches neither the clock nor
\* the blocked queue nor a sleeper leaves the sleepers as they should be.
LEMMA SleepersKept ==
    ASSUME NoOverdueSleeper, UNCHANGED <<blocked, tick>>,
           \A e \in blocked : /\ used'[e.pid] = used[e.pid]
                              /\ process_metadata'[e.pid] = process_metadata[e.pid]
    PROVE  NoOverdueSleeper'
  BY DEF NoOverdueSleeper

\* A sleeper is neither on the CPU nor yet to be created.
LEMMA SleeperPlace ==
    ASSUME Inv, NEW e \in blocked
    PROVE  /\ e.pid \in Pid /\ e.wakeup \in Int
           /\ e.pid # current /\ e.pid # next_pid
           /\ state[e.pid] = "Blocked"
  <1>1. e.pid \in Pid /\ e.wakeup \in Int /\ state[e.pid] = "Blocked"
    BY DEF Inv, TypeOK, Placement, BlockedHeldOnce, InBlocked
  <1>2. e.pid # current
    BY <1>1 DEF Inv, Placement, CpuHoldsRunning
  <1>3. e.pid \in Created
    BY <1>1 DEF Inv, Placement, NewUntilCreated
  <1>4. e.pid # next_pid
    BY <1>3 DEF Created, Inv, TypeOK
  <1> QED BY <1>1, <1>2, <1>4

LEMMA DrivenSleepers ==
    Inv /\ NoOverdueSleeper /\ [Driven]_vars => NoOverdueSleeper'
  <1> SUFFICES ASSUME Inv, NoOverdueSleeper, [Driven]_vars
               PROVE  NoOverdueSleeper'
    OBVIOUS
  <1>1. CASE UserStep
    <2>1. /\ UNCHANGED <<blocked, tick, used>>
          /\ \A p \in Pid \ {next_pid} :
                 process_metadata'[p] = process_metadata[p]
      BY <1>1 DEF UserStep, SubmitProgram, RunProgram, SetPriority, Inv, TypeOK
    <2> QED BY <2>1, SleeperPlace, SleepersKept
  <1>2. CASE NotifyTick(tick + TickInterval)
    <2>1. /\ tick' = tick + TickInterval /\ tick' \in Int
          /\ blocked' = blocked \ Due(tick')
          /\ UNCHANGED <<used, process_metadata>>
      BY <1>2, BoundsAssumption
         DEF NotifyTick, userVars, Inv, TypeOK
    <2>2. \A e \in blocked' : e \in blocked /\ ~(e.wakeup <= tick')
      BY <2>1 DEF Due
    <2> QED BY <2>1, <2>2 DEF NoOverdueSleeper
  <1>3. CASE HandleSyscallBlock
    <2> DEFINE s == [pid |-> current, wakeup |-> tick + Calls[Ran]]
    <2>1. /\ current \in Pid /\ Ran \in DOMAIN Calls
          /\ used' = [used EXCEPT ![current] = Ran]
          /\ blocked' = blocked \cup {s}
          /\ UNCHANGED <<tick, process_metadata>>
      BY <1>3 DEF HandleSyscallBlock, ChargeTick, HasSyscall, MoveToBlocked, userVars,
            Inv, TypeOK
    <2>2. Calls[Ran] \in Int
      BY <2>1, CallType DEF Inv, Calls
    <2>3. /\ s.pid = current /\ used'[current] = Ran
          /\ s.wakeup <= tick' => Calls[Ran] <= 0
      BY <2>1, <2>2 DEF Inv, TypeOK
    <2>4. \A e \in blocked : used'[e.pid] = used[e.pid]
      BY <2>1, SleeperPlace DEF Inv, TypeOK
    <2>5. process_metadata'[current].calls = Calls
      BY <2>1 DEF Calls
    <2> HIDE DEF s
    <2> QED BY <2>1, <2>3, <2>4, <2>5 DEF NoOverdueSleeper
  <1>4. CASE HandleProcessExit \/ HandleQuantumExpired \/ ContinueExecution
    <2>1. /\ used' = [used EXCEPT ![current] = Ran]
          /\ UNCHANGED <<blocked, tick, process_metadata>>
      BY <1>4 DEF HandleProcessExit, HandleQuantumExpired, ContinueExecution,
            ChargeTick, userVars
    <2>2. \A e \in blocked : used'[e.pid] = used[e.pid]
      BY <2>1, SleeperPlace DEF Inv, TypeOK
    <2> QED BY <2>1, <2>2, SleepersKept
  <1>5. CASE \/ Wake \/ ExecuteIdle \/ DispatchNext \/ DispatchNone
             \/ NotifySimulationComplete \/ NotifyTickCompleted
             \/ UNCHANGED vars
    <2>1. UNCHANGED <<blocked, tick, used, process_metadata>>
      BY <1>5 DEF Wake, ExecuteIdle, DispatchNext, DispatchNone, vars,
            NotifySimulationComplete, NotifyTickCompleted, userVars
    <2> QED BY <2>1, SleepersKept
  <1> QED BY <1>1, <1>2, <1>3, <1>4, <1>5 DEF Driven, KernelStep

\* A blocked process waits for the call at its CPU time, and no longer than
\* that call takes.
THEOREM NoOverdueSleeperHolds == Spec => []NoOverdueSleeper
  <1>1. Init => NoOverdueSleeper
    BY DEF Init, NoOverdueSleeper
  <1> QED BY <1>1, InvHolds, DrivenSleepers, NextIsDriven, PTL DEF Spec

-----------------------------------------------------------------------------
(* CPU time.                                                               *)

\* A process that is not created yet has used no CPU time, so that the program
\* it is given later finds its account empty.
AccountInv == /\ CpuAccounting
              /\ \A p \in Pid : state[p] = "New" => used[p] = 0

\* What CpuAccounting says of one process.
Account(p) == /\ \A u \in 1..used[p] : Exits(process_metadata[p], u) =>
                                           /\ state[p] = "Terminated"
                                           /\ u = used[p]
              /\ state[p] = "Terminated" => Exits(process_metadata[p], used[p])
              /\ state[p] = "New" => used[p] = 0

\* A transition between states of a live process leaves its account in order.
LEMMA AccountMoved ==
    ASSUME NEW p \in Pid, Account(p),
           used'[p] = used[p], process_metadata'[p] = process_metadata[p],
           \/ state'[p] = state[p]
           \/ state[p] # "Terminated" /\ state'[p] \notin {"New", "Terminated"}
    PROVE  Account(p)'
  BY DEF Account, Exits

\* A charged tick ends the process exactly when its program ends there.
LEMMA AccountCharged ==
    ASSUME Inv, NEW p \in Pid, Account(p), state[p] = "Running",
           used'[p] = used[p] + 1, process_metadata'[p] = process_metadata[p],
           state'[p] # "New",
           state'[p] = "Terminated" <=> Exits(process_metadata[p], used[p] + 1)
    PROVE  Account(p)'
  <1>1. used[p] \in Nat
    BY DEF Inv, TypeOK
  <1>2. \A u \in 1..used[p] : ~Exits(process_metadata[p], u)
    BY DEF Account
  <1>3. \A u \in 1..used'[p] : u \in 1..used[p] \/ u = used[p] + 1
    BY <1>1
  <1> QED BY <1>1, <1>2, <1>3 DEF Account, Exits

\* A process is admitted with an empty account.
LEMMA AdmitAccount ==
    ASSUME Inv, NEW m, Admits(m), NEW q \in Pid, Account(q)
    PROVE  Account(q)'
  <1>1. next_pid \in Pid /\ UNCHANGED used
    BY BoundsAssumption DEF Inv, TypeOK, Admits
  <1>2. /\ state[next_pid] = "New" /\ state'[next_pid] = "Ready"
        /\ \A p \in Pid \ {next_pid} : state'[p] = state[p]
    BY <1>1, TransitionEffect
       DEF Inv, TypeOK, Admits, StateTransition, Source, Target
  <1>3. \A p \in Pid \ {next_pid} : process_metadata'[p] = process_metadata[p]
    BY <1>1 DEF Inv, TypeOK, Admits
  <1>4. CASE q = next_pid
    BY <1>1, <1>2, <1>4 DEF Account
  <1>5. CASE q # next_pid
    BY <1>1, <1>2, <1>3, <1>5, AccountMoved
  <1> QED BY <1>4, <1>5

LEMMA DrivenAccountInv == Inv /\ AccountInv /\ [Driven]_vars => AccountInv'
  <1> SUFFICES ASSUME Inv, AccountInv, [Driven]_vars, NEW q \in Pid
               PROVE  Account(q)'
    BY DEF AccountInv, CpuAccounting, Account
  <1> USE DEF Inv
  <1>1. Account(q)
    BY DEF AccountInv, CpuAccounting, Account
  <1>2. ASSUME NEW id \in DOMAIN program_store, RunProgram(id)
        PROVE  Account(q)'
    BY <1>1, <1>2, RunAdmits, AdmitAccount
  <1>3. CASE (\E meta \in Programs : SubmitProgram(meta)) 
             \/ NotifyTick(tick + TickInterval)
             \/ (\E p \in Created, v \in Priorities : SetPriority(p, v))
             \/ ExecuteIdle \/ DispatchNone \/ NotifySimulationComplete
             \/ NotifyTickCompleted \/ UNCHANGED vars
    <2>1. UNCHANGED <<used, process_metadata, state>>
      BY <1>3 DEF SubmitProgram, NotifyTick, SetPriority, vars,
            ExecuteIdle, DispatchNone, NotifySimulationComplete,
            NotifyTickCompleted, userVars
    <2> QED BY <1>1, <2>1, AccountMoved
  <1>4. CASE Wake
    <2>1. Head(waking) \in Pid /\ UNCHANGED <<used, process_metadata>>
      BY <1>4, HeadTailProperties DEF TypeOK, Wake, userVars
    <2>2. /\ state[Head(waking)] = "Blocked" /\ state'[Head(waking)] = "Ready"
          /\ \A p \in Pid \ {Head(waking)} : state'[p] = state[p]
      BY <1>4, <2>1, TransitionEffect
         DEF TypeOK, Wake, StateTransition, Source, Target
    <2> QED BY <1>1, <2>1, <2>2, AccountMoved
  <1>5. CASE DispatchNext
    <2>1. PICK i \in 1..Len(ready) : Transition(ready[i], "Dispatch")
      BY <1>5 DEF DispatchNext
    <2>2. ready[i] \in Pid /\ UNCHANGED <<used, process_metadata>>
      BY <1>5, <2>1, PlaceElement DEF TypeOK, DispatchNext, userVars
    <2>3. /\ state[ready[i]] = "Ready" /\ state'[ready[i]] = "Running"
          /\ \A p \in Pid \ {ready[i]} : state'[p] = state[p]
      BY <2>1, <2>2, TransitionEffect
         DEF TypeOK, StateTransition, Source, Target
    <2> QED BY <1>1, <2>2, <2>3, AccountMoved
  <1>6. CASE \/ HandleSyscallBlock \/ HandleProcessExit
             \/ HandleQuantumExpired \/ ContinueExecution
    <2>1. /\ current \in Pid /\ state[current] = "Running"
          /\ used' = [used EXCEPT ![current] = used[current] + 1]
          /\ UNCHANGED process_metadata
      BY <1>6 DEF HandleSyscallBlock, HandleProcessExit, HandleQuantumExpired,
            ContinueExecution, ChargeTick, Ran, userVars, TypeOK, Placement,
            CpuHoldsRunning
    <2>2. /\ \A p \in Pid \ {current} : state'[p] = state[p]
          /\ state'[current] # "New"
          /\ state'[current] = "Terminated" <=> HandleProcessExit
      <3>1. CASE HandleSyscallBlock
        BY <2>1, <3>1, TransitionEffect
           DEF TypeOK, HandleSyscallBlock, HandleProcessExit, StateTransition,
               Target
      <3>2. CASE HandleProcessExit
        BY <2>1, <3>2, TransitionEffect
           DEF TypeOK, HandleProcessExit, StateTransition, Target
      <3>3. CASE HandleQuantumExpired
        BY <2>1, <3>3, TransitionEffect
           DEF TypeOK, HandleQuantumExpired, HandleProcessExit,
               StateTransition, Target
      <3>4. CASE ContinueExecution
        BY <2>1, <3>4 DEF ContinueExecution, HandleProcessExit
      <3> QED BY <1>6, <3>1, <3>2, <3>3, <3>4
    <2>3. HandleProcessExit <=>
              Exits(process_metadata[current], used[current] + 1)
      BY <1>6 DEF HandleSyscallBlock, HandleProcessExit, HandleQuantumExpired,
            ContinueExecution, HasSyscall, IsFinished, Exits, Calls, Ran
    <2>4. CASE q = current
      <3>1. used'[q] = used[q] + 1
        BY <2>1, <2>4 DEF TypeOK
      <3> QED BY <1>1, <2>1, <2>2, <2>3, <2>4, <3>1, AccountCharged
    <2>5. CASE q # current
      <3>1. used'[q] = used[q]
        BY <2>1, <2>5 DEF TypeOK
      <3> QED BY <1>1, <2>1, <2>2, <2>5, <3>1, AccountMoved
    <2> QED BY <2>4, <2>5
  <1> QED BY <1>2, <1>3, <1>4, <1>5, <1>6 DEF Driven, UserStep, KernelStep

LEMMA InitAccountInv == Init => AccountInv
  BY DEF Init, AccountInv, CpuAccounting

\* Whatever the policy, the quantum and the other processes, a process ends at
\* the first tick that completes its work without being a call.
THEOREM CpuAccountingHolds == Spec => []CpuAccounting
  <1>1. AccountInv => CpuAccounting
    BY DEF AccountInv
  <1> QED BY <1>1, InitAccountInv, InvHolds, DrivenAccountInv, NextIsDriven, PTL
          DEF Spec

-----------------------------------------------------------------------------
(* FCFS.                                                                   *)

\* Every program can be finished within one quantum of FCFS: its estimate, an
\* int64 in the code, is not beyond the largest int.
ProgramsFitQuantum == \A m \in Programs : m.cpu <= IntMax

\* Under FCFS a process has at least the rest of a full quantum before it, and
\* what is gone of the quantum it has had as CPU time.
FcfsInv == config.policy = "FCFS" =>
               /\ current # NoProc => /\ quantum >= 1
                                      /\ used[current] >= IntMax - quantum
               /\ event # "QuantumExpired"

\* A kernel keeps the configuration it was built with.
LEMMA ConfigKept == [Next]_vars => UNCHANGED config
  BY DEF Next, UserStep, ClockStep, KernelStep, SubmitProgram, RunProgram,
        SetPriority, NotifyTick, Wake, ExecuteIdle, HandleSyscallBlock,
        HandleProcessExit, HandleQuantumExpired, ContinueExecution,
        DispatchNext, DispatchNone, NotifySimulationComplete,
        NotifyTickCompleted, userVars, vars

LEMMA EstimateBound ==
    ASSUME ProgramsFitQuantum, Inv, NEW p \in Pid
    PROVE  process_metadata[p].cpu \in Int /\ process_metadata[p].cpu <= IntMax
  <1>1. process_metadata[p] \in Programs \cup {NoProgram}
    BY DEF Inv, TypeOK
  <1>2. CASE process_metadata[p] \in Programs
    BY <1>2, ProgramsAssumption DEF ProgramsFitQuantum
  <1>3. CASE process_metadata[p] = NoProgram
    BY <1>3 DEF NoProgram, IntMax
  <1> QED BY <1>1, <1>2, <1>3

\* The tick that would exhaust the quantum is one that ends the process.
LEMMA NextFcfsInv ==
    ASSUME ProgramsFitQuantum, Inv, FcfsInv, [Next]_vars
    PROVE  FcfsInv'
  <1> USE DEF Inv
  <1> SUFFICES ASSUME config'.policy = "FCFS"
               PROVE  /\ current' # NoProc => /\ quantum' >= 1
                                              /\ used'[current'] >= IntMax - quantum'
                      /\ event' # "QuantumExpired"
    BY DEF FcfsInv
  <1>1. UNCHANGED config
    BY ConfigKept
  <1>2. /\ event # "QuantumExpired"
        /\ current # NoProc => quantum >= 1 /\ used[current] >= IntMax - quantum
    BY <1>1 DEF FcfsInv
  <1>3. CASE HandleSyscallBlock \/ HandleProcessExit
    BY <1>3 DEF HandleSyscallBlock, HandleProcessExit, Raise, UnloadProcess
  <1>4. ASSUME ChargeTick
        PROVE  /\ current \in Pid /\ used[current] \in Nat
               /\ quantum \in Int /\ CountedDown = {quantum - 1}
    BY <1>2, <1>4 DEF ChargeTick, TypeOK, CountedDown, IntMin, IntMax
  <1>5. CASE HandleQuantumExpired
    <2>1. quantum - 1 <= 0 /\ ~(used[current] + 1 >= process_metadata[current].cpu)
      BY <1>4, <1>5 DEF HandleQuantumExpired, QuantumIsOver, IsFinished, Ran
    <2>2. ChargeTick
      BY <1>5 DEF HandleQuantumExpired
    <2>3. process_metadata[current].cpu \in Int /\ process_metadata[current].cpu <= IntMax
      BY <1>4, <2>2, EstimateBound
    <2>4. current # NoProc
      BY <2>2 DEF ChargeTick
    <2>5. used[current] + 1 >= IntMax
      BY <1>2, <1>4, <2>1, <2>2, <2>4 DEF IntMax
    <2> QED BY <1>4, <2>1, <2>2, <2>3, <2>5 DEF IntMax
  <1>6. CASE ContinueExecution
    <2>1. /\ quantum' = quantum - 1 /\ ~(quantum' <= 0)
          /\ used' = [used EXCEPT ![current] = used[current] + 1]
          /\ UNCHANGED <<current, event>> /\ ChargeTick
      BY <1>4, <1>6 DEF ContinueExecution, QuantumIsOver, ChargeTick, Ran
    <2>2. used'[current] = used[current] + 1
      BY <1>4, <2>1 DEF TypeOK
    <2> QED BY <1>2, <1>4, <2>1, <2>2 DEF IntMax
  <1>7. CASE DispatchNext
    <2>1. PICK i \in 1..Len(ready) : current' = ready[i] /\ quantum' = DefaultQuantum
      BY <1>7 DEF DispatchNext, LoadProcess
    <2>2. ready[i] \in Pid
      BY <2>1, PlaceElement DEF TypeOK
    <2>3. quantum' = IntMax /\ UNCHANGED <<used, event>>
      BY <1>1, <1>7, <2>1 DEF DefaultQuantum, DispatchNext
    <2> QED BY <1>2, <2>1, <2>2, <2>3 DEF TypeOK, IntMax
  <1>8. CASE UserStep
    BY <1>2, <1>8 DEF UserStep, SubmitProgram, RunProgram, SetPriority, cpuVars
  <1>9. CASE ClockStep
    BY <1>2, <1>9 DEF ClockStep, NotifyTick, cpuVars
  <1>10. CASE \/ Wake \/ DispatchNone \/ NotifySimulationComplete
              \/ UNCHANGED vars
    BY <1>2, <1>10 DEF Wake, DispatchNone, NotifySimulationComplete, vars,
          cpuVars
  <1>11. CASE ExecuteIdle \/ NotifyTickCompleted
    BY <1>2, <1>11 DEF ExecuteIdle, Raise, NotifyTickCompleted, cpuVars
  <1> QED BY <1>3, <1>5, <1>6, <1>7, <1>8, <1>9, <1>10, <1>11
          DEF Next, KernelStep

\* FCFS preempts nobody, as long as no program is longer than the quantum that
\* FCFSStrategy hands out.
THEOREM FcfsHolds ==
    ASSUME ProgramsFitQuantum PROVE Spec => []FcfsNeverPreempts
  <1>1. Init => FcfsInv
    BY DEF Init, FcfsInv
  <1>2. Inv /\ FcfsInv /\ [Next]_vars => FcfsInv'
    BY NextFcfsInv
  <1>3. FcfsInv => FcfsNeverPreempts
    BY DEF FcfsInv, FcfsNeverPreempts
  <1> QED BY <1>1, <1>2, <1>3, InvHolds, PTL DEF Spec

-----------------------------------------------------------------------------
(* All of it, for those who own a kernel.                                  *)

KernelInv == Inv /\ TickInv /\ NoOverdueSleeper /\ AccountInv

\* What a kernel promises.
Promises == /\ Placement /\ WorkConserving /\ HighestPriorityRuns
            /\ CompletionIsFinal /\ NoOverdueSleeper /\ CpuAccounting

LEMMA KernelInvPromises == KernelInv => Promises
  BY CompletionFollows
     DEF KernelInv, Promises, Inv, TickInv, WorkConserving, AccountInv

LEMMA InitKernelInv == Init => KernelInv
  BY InitInv, InitTickInv, InitAccountInv
     DEF KernelInv, Init, NoOverdueSleeper

LEMMA DrivenKernelInv == KernelInv /\ [Driven]_vars => KernelInv'
  BY DrivenInv, DrivenTickInv, DrivenSleepers, DrivenAccountInv DEF KernelInv

\* A program may also be stored and run in one call.
LEMMA AdmitKernelInv ==
    ASSUME KernelInv, pc = "api", NEW m \in Programs, Admits(m),
           program_store' \in Seq(Programs)
    PROVE  KernelInv'
  <1> USE DEF KernelInv
  <1>1. Inv'
    BY AdmitTypeOK, AdmitPlacement DEF Inv
  <1>2. TickInv'
    BY DEF TickInv, HighestPriorityRuns, Admits
  <1>3. NoOverdueSleeper'
    <2>1. /\ UNCHANGED <<blocked, tick, used>>
          /\ \A p \in Pid \ {next_pid} : process_metadata'[p] = process_metadata[p]
      BY DEF Admits, Inv, TypeOK
    <2> QED BY <2>1, SleeperPlace, SleepersKept
  <1>4. ASSUME NEW q \in Pid PROVE Account(q)'
    <2>1. Account(q)
      BY DEF AccountInv, CpuAccounting, Account
    <2> QED BY <2>1, AdmitAccount
  <1>5. AccountInv'
    BY <1>4 DEF AccountInv, CpuAccounting, Account
  <1> QED BY <1>1, <1>2, <1>3, <1>5

\* A kernel that is built anew begins like the first one.
LEMMA SetupKernelInv ==
    ASSUME NEW c \in Configs, NEW programs \in Seq(Programs),
           Len(programs) <= MaxProcs, SetupKernel(c, programs)
    PROVE  KernelInv'
  <1>1. /\ pc' = "api" /\ event' = "none" /\ blocked' = {}
        /\ used' = [p \in Pid |-> 0]
        /\ \A p \in Pid : state'[p] # "Terminated"
    BY DEF SetupKernel
  <1>2. TickInv' /\ NoOverdueSleeper'
    BY <1>1 DEF TickInv, HighestPriorityRuns, NoOverdueSleeper
  <1>3. AccountInv'
    BY <1>1 DEF AccountInv, CpuAccounting
  <1> QED BY <1>2, <1>3, SetupInv DEF KernelInv

-----------------------------------------------------------------------------
(* Kernel implements ProcessLifecycle.  Seen through a process's program,  *)
(* state and CPU time, every step of the kernel is one step of one process,*)
(* or none; that there is one CPU comes from Placement.                    *)

LEMMA InitImplements == Init => Lifecycle!Init
  BY DEF Init, Lifecycle!Init, NoProgram

\* runProgram implements Admit.
LEMMA RunImplements ==
    ASSUME Inv, NEW id \in DOMAIN program_store, RunProgram(id)
    PROVE  \E p \in Pid, m \in Programs : Lifecycle!Admit(p, m)
  <1> USE DEF Inv
  <1>1. next_pid \in Pid
    BY BoundsAssumption DEF TypeOK, RunProgram
  <1>2. Load(id) \in Programs
    BY DEF TypeOK, Load
  <1>3. Lifecycle!Admit(next_pid, Load(id))
    BY <1>1 DEF Lifecycle!Admit, RunProgram, Transition, IsValidTransition,
          TargetState, Source, Target
  <1> QED BY <1>1, <1>2, <1>3

\* A woken process has its I/O completed.
LEMMA WakeImplements ==
    ASSUME Inv, Wake
    PROVE  \E p \in Pid : Lifecycle!IoComplete(p)
  <1> USE DEF Inv
  <1>1. Head(waking) \in Pid
    BY HeadTailProperties DEF TypeOK, Wake
  <1>2. Lifecycle!IoComplete(Head(waking))
    BY <1>1 DEF Lifecycle!IoComplete, Wake, Transition, IsValidTransition,
          TargetState, Source, Target, userVars
  <1> QED BY <1>1, <1>2

\* A dispatch finds the CPU free of any running process.
LEMMA DispatchImplements ==
    ASSUME Inv, DispatchNext
    PROVE  \E p \in Pid : Lifecycle!Dispatch(p)
  <1> USE DEF Inv
  <1>1. PICK i \in 1..Len(ready) : Transition(ready[i], "Dispatch")
    BY DEF DispatchNext
  <1>2. ready[i] \in Pid
    BY <1>1, PlaceElement DEF TypeOK
  <1>3. \A q \in Pid : state[q] # "Running"
    BY DEF DispatchNext, ControlInv, Placement, CpuHoldsRunning
  <1>4. Lifecycle!Dispatch(ready[i])
    BY <1>1, <1>2, <1>3 DEF Lifecycle!Dispatch, DispatchNext, Transition,
          IsValidTransition, TargetState, Source, Target, userVars
  <1> QED BY <1>2, <1>4

\* Each of the four ways to spend a tick is one unit of work, with the outcome
\* that the program prescribes.
LEMMA WorkImplements ==
    ASSUME Inv, \/ HandleSyscallBlock \/ HandleProcessExit
                \/ HandleQuantumExpired \/ ContinueExecution
    PROVE  \E p \in Pid : Lifecycle!Work(p)
  <1> USE DEF Inv
  <1> DEFINE m == process_metadata[current]
  <1>1. /\ current \in Pid /\ state[current] = "Running"
        /\ used' = [used EXCEPT ![current] = used[current] + 1]
        /\ UNCHANGED process_metadata
    BY DEF HandleSyscallBlock, HandleProcessExit, HandleQuantumExpired,
          ContinueExecution, ChargeTick, Ran, userVars, TypeOK, Placement,
          CpuHoldsRunning
  <1>2. \E s \in Lifecycle!Outcomes(m, used[current] + 1) :
            state' = [state EXCEPT ![current] = s]
    <2> DEFINE u == used[current] + 1
    <2>1. CASE HandleSyscallBlock
      <3>1. "Blocked" \in Lifecycle!Outcomes(m, u)
        BY <2>1 DEF HandleSyscallBlock, HasSyscall, Calls, Ran,
              Lifecycle!Outcomes, Lifecycle!Blocks
      <3>2. state' = [state EXCEPT ![current] = "Blocked"]
        BY <2>1 DEF HandleSyscallBlock, Transition, TargetState, Target
      <3> QED BY <3>1, <3>2
    <2>2. CASE HandleProcessExit
      <3>1. "Terminated" \in Lifecycle!Outcomes(m, u)
        BY <2>2 DEF HandleProcessExit, HasSyscall, IsFinished, Calls, Ran,
              Lifecycle!Outcomes, Lifecycle!Blocks, Lifecycle!Ends
      <3>2. state' = [state EXCEPT ![current] = "Terminated"]
        BY <2>2 DEF HandleProcessExit, Transition, TargetState, Target
      <3> QED BY <3>1, <3>2
    <2>3. ASSUME ~HasSyscall, ~IsFinished
          PROVE  Lifecycle!Outcomes(m, u) = {"Running", "Ready"}
      BY <2>3 DEF HasSyscall, IsFinished, Calls, Ran, Lifecycle!Outcomes,
            Lifecycle!Blocks, Lifecycle!Ends
    <2>4. CASE HandleQuantumExpired
      <3>1. state' = [state EXCEPT ![current] = "Ready"]
        BY <2>4 DEF HandleQuantumExpired, Transition, TargetState, Target
      <3> QED BY <2>3, <2>4, <3>1 DEF HandleQuantumExpired
    <2>5. CASE ContinueExecution
      <3>1. state' = [state EXCEPT ![current] = "Running"]
        BY <1>1, <2>5 DEF ContinueExecution, TypeOK
      <3> QED BY <2>3, <2>5, <3>1 DEF ContinueExecution
    <2> QED BY <2>1, <2>2, <2>4, <2>5
  <1>3. Lifecycle!Work(current)
    BY <1>1, <1>2 DEF Lifecycle!Work
  <1> QED BY <1>1, <1>3

LEMMA DrivenImplements == Inv /\ [Driven]_vars => [Lifecycle!Next]_(Lifecycle!vars)
  <1> SUFFICES ASSUME Inv, [Driven]_vars
               PROVE  Lifecycle!Next \/ UNCHANGED Lifecycle!vars
    OBVIOUS
  <1>1. ASSUME NEW id \in DOMAIN program_store, RunProgram(id)
        PROVE  Lifecycle!Next
    BY <1>1, RunImplements DEF Lifecycle!Next
  <1>2. CASE Wake
    BY <1>2, WakeImplements DEF Lifecycle!Next
  <1>3. CASE DispatchNext
    BY <1>3, DispatchImplements DEF Lifecycle!Next
  <1>4. CASE \/ HandleSyscallBlock \/ HandleProcessExit
             \/ HandleQuantumExpired \/ ContinueExecution
    BY <1>4, WorkImplements DEF Lifecycle!Next
  <1>5. CASE \/ (\E meta \in Programs : SubmitProgram(meta))
             \/ NotifyTick(tick + TickInterval)
             \/ (\E p \in Created, v \in Priorities : SetPriority(p, v))
             \/ ExecuteIdle \/ DispatchNone \/ NotifySimulationComplete
             \/ NotifyTickCompleted \/ UNCHANGED vars
    BY <1>5 DEF SubmitProgram, NotifyTick, SetPriority, vars,
          ExecuteIdle, DispatchNone, NotifySimulationComplete,
          NotifyTickCompleted, userVars, Lifecycle!vars
  <1> QED BY <1>1, <1>2, <1>3, <1>4, <1>5 DEF Driven, UserStep, KernelStep

\* Whatever the policy and the interleaving, each process lives the life cycle
\* its program prescribes, with one process on the CPU at a time.
THEOREM KernelImplementsLifecycle == Spec => LifecycleSpec
  BY InitImplements, InvHolds, NextIsDriven, DrivenImplements, PTL
     DEF Spec, LifecycleSpec, Lifecycle!Spec

-----------------------------------------------------------------------------
(* Kernel lives by WakeupSet.                                              *)

\* A process that blocks was running, and so is not held yet.
LEMMA BlockAdds ==
    ASSUME Inv, HandleSyscallBlock
    PROVE  \E e \in blocked' : Sleepers!Add(e)
  <1> USE DEF Inv
  <1> DEFINE e == [pid |-> current, wakeup |-> tick + Calls[Ran]]
  <1>1. /\ current \in Pid /\ state[current] = "Running"
        /\ Ran \in DOMAIN Calls /\ waking = <<>>
        /\ blocked' = blocked \cup {e} /\ UNCHANGED <<waking, tick>>
    BY DEF HandleSyscallBlock, HasSyscall, ChargeTick, MoveToBlocked, TypeOK,
          Placement, CpuHoldsRunning
  <1>2. e \in [pid : Pid, wakeup : Int]
    <2>1. Calls[Ran] \in Int /\ tick \in Int
      BY <1>1, CallType DEF Calls, TypeOK
    <2> QED BY <1>1, <2>1
  <1>3. \A f \in blocked : f.pid # current
    BY <1>1 DEF Placement, BlockedHeldOnce, InBlocked
  <1> HIDE DEF e
  <1>4. Sleepers!Add(e)
    BY <1>1, <1>2, <1>3 DEF Sleepers!Add, e
  <1> QED BY <1>1, <1>4

LEMMA TickGetsCompleted ==
    ASSUME Inv, NotifyTick(tick + TickInterval)
    PROVE  Sleepers!GetCompleted
  <1>1. tick' = tick + TickInterval /\ tick' > tick
    BY BoundsAssumption DEF Inv, TypeOK, NotifyTick
  <1>2. Sleepers!SetToSeqs({e.pid : e \in Due(tick')}) =
            SetToSeqs({e.pid : e \in Due(tick')})
    BY DEF Sleepers!SetToSeqs, SetToSeqs, Sleepers!Cardinality, Cardinality
  <1> QED BY <1>1, <1>2 DEF NotifyTick, Due, Sleepers!GetCompleted

LEMMA DrivenUsesSet == Inv /\ [Driven]_vars => [Sleepers!Next]_(Sleepers!wvars)
  <1> SUFFICES ASSUME Inv, [Driven]_vars
               PROVE  Sleepers!Next \/ UNCHANGED Sleepers!wvars
    OBVIOUS
  <1>1. CASE HandleSyscallBlock
    BY <1>1, BlockAdds DEF Sleepers!Next
  <1>2. CASE NotifyTick(tick + TickInterval)
    BY <1>2, TickGetsCompleted DEF Sleepers!Next
  <1>3. CASE Wake
    BY <1>3 DEF Wake, Sleepers!WalkOn, Sleepers!Next
  <1>4. CASE UserStep \/ UNCHANGED vars
    BY <1>4 DEF UserStep, SubmitProgram, RunProgram, SetPriority, vars,
          Sleepers!wvars
  <1>5. CASE \/ HandleProcessExit \/ HandleQuantumExpired \/ ContinueExecution
             \/ ExecuteIdle \/ DispatchNext \/ DispatchNone
             \/ NotifySimulationComplete \/ NotifyTickCompleted
    BY <1>5 DEF HandleProcessExit, HandleQuantumExpired, ContinueExecution,
          ExecuteIdle, DispatchNext, DispatchNone, NotifySimulationComplete,
          NotifyTickCompleted, Sleepers!wvars
  <1> QED BY <1>1, <1>2, <1>3, <1>4, <1>5 DEF Driven, KernelStep

\* The kernel never adds a process twice to the blocked queue, and wakes each
\* one it was given back once, before anything else is added.
THEOREM KernelUsesWakeupSet == Spec => WakeupSpec
  <1>1. Init => Sleepers!Init
    BY DEF Init, Sleepers!Init
  <1> QED BY <1>1, InvHolds, NextIsDriven, DrivenUsesSet, PTL
          DEF Spec, WakeupSpec, Sleepers!Spec

=============================================================================
