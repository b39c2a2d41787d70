---------------------------- MODULE HistoryProofs ----------------------------
(***************************************************************************)
(* Proofs of the promises that relate a dispatch to what happened before   *)
(* it: how long a slice is, how long a ready process waits, in which order *)
(* the ready processes are served, and when the end is announced.  Each    *)
(* has an invariant that ties a history variable to the kernel's own       *)
(* variables, on top of the invariants of the kernel.                      *)
(***************************************************************************)
EXTENDS KernelHistory, KernelProofs

USE DEF Pid, NoProc

-----------------------------------------------------------------------------
(* The history follows the kernel.                                         *)

LEMMA HistoryStep == [HNext]_hvars => [Next]_vars
  BY DEF HNext, hvars

\* What is proved of the kernel holds of the kernel with its history.
LEMMA HistoryInv == HSpec => [](Inv /\ TickInv)
  <1>1. HInit => Inv /\ TickInv
    BY InitInv DEF HInit, Init, TickInv, HighestPriorityRuns
  <1>2. Inv /\ TickInv /\ [HNext]_hvars => (Inv /\ TickInv)'
    BY HistoryStep, NextInv, NextTickInv
  <1> QED BY <1>1, <1>2, PTL DEF HSpec

\* A step changes the state of one process at most; a process becomes ready
\* only as runProgram, a wakeup or a preemption puts it into the ready queue,
\* and leaves the queue only as dispatchNext gives it the CPU.
LEMMA ReadyMoves ==
    ASSUME Inv, [Next]_vars
    PROVE  \/ /\ \A p \in Pid : ~BecomesReady(p)
              /\ \A p \in Pid : state[p] = "Ready" => StaysReady(p)
              /\ UNCHANGED ready
           \/ \E p \in Pid :
                  /\ BecomesReady(p)
                  /\ \A q \in Pid \ {p} : ~BecomesReady(q)
                  /\ \A q \in Pid : state[q] = "Ready" => StaysReady(q)
                  /\ EnqueueReady(p)
                  /\ UNCHANGED priority
                  /\ ~DispatchNext
           \/ \E i \in 1..Len(ready) :
                  /\ DispatchNext /\ UNCHANGED priority
                  /\ IsSelected(i)
                  /\ ready' = RemoveAt(ready, i) /\ current' = ready[i]
                  /\ \A q \in Pid : ~BecomesReady(q)
                  /\ \A q \in Pid \ {ready[i]} : state[q] = "Ready" => StaysReady(q)
                  /\ ~StaysReady(ready[i])
  <1> USE DEF Inv
  <1>a. state \in [Pid -> ProcessState]
    BY DEF TypeOK
  <1>1. ASSUME NEW p \in Pid, NEW t \in {"Admit", "IoComplete", "QuantumExpired"},
               Transition(p, t), EnqueueReady(p), UNCHANGED priority,
               ~DispatchNext
        PROVE  \E r \in Pid :
                  /\ BecomesReady(r)
                  /\ \A q \in Pid \ {r} : ~BecomesReady(q)
                  /\ \A q \in Pid : state[q] = "Ready" => StaysReady(q)
                  /\ EnqueueReady(r)
                  /\ UNCHANGED priority
                  /\ ~DispatchNext
    <2>1. /\ state[p] # "Ready" /\ state'[p] = "Ready"
          /\ \A q \in Pid \ {p} : state'[q] = state[q]
      BY <1>a, <1>1, TransitionEffect DEF StateTransition, Source, Target
    <2> QED BY <1>1, <2>1 DEF BecomesReady, StaysReady
  <1>2. ASSUME UNCHANGED ready, NEW p \in Pid,
               state[p] # "Ready", state'[p] # "Ready",
               \A q \in Pid \ {p} : state'[q] = state[q]
        PROVE  /\ \A q \in Pid : ~BecomesReady(q)
               /\ \A q \in Pid : state[q] = "Ready" => StaysReady(q)
               /\ UNCHANGED ready
    BY <1>2 DEF BecomesReady, StaysReady
  <1>3. ASSUME NEW id \in DOMAIN program_store, RunProgram(id)
        PROVE  \E p \in Pid, t \in {"Admit", "IoComplete", "QuantumExpired"} :
                  /\ Transition(p, t) /\ EnqueueReady(p)
                  /\ UNCHANGED priority /\ ~DispatchNext
    <2>1. next_pid \in Pid
      BY <1>3, BoundsAssumption DEF TypeOK, RunProgram
    <2> QED BY <1>3, <2>1 DEF RunProgram, DispatchNext
  <1>4. CASE Wake
    <2>1. Head(waking) \in Pid
      BY <1>4, HeadTailProperties DEF TypeOK, Wake
    <2>2. /\ Transition(Head(waking), "IoComplete")
          /\ EnqueueReady(Head(waking)) /\ UNCHANGED priority /\ ~DispatchNext
      BY <1>4 DEF Wake, DispatchNext, userVars
    <2> QED BY <1>1, <2>1, <2>2
  <1>5. CASE HandleQuantumExpired
    <2>1. current \in Pid
      BY <1>5 DEF TypeOK, HandleQuantumExpired, ChargeTick
    <2>2. /\ Transition(current, "QuantumExpired")
          /\ EnqueueReady(current) /\ UNCHANGED priority /\ ~DispatchNext
      BY <1>5 DEF HandleQuantumExpired, ChargeTick, DispatchNext, userVars
    <2> QED BY <1>1, <2>1, <2>2
  <1>6. CASE HandleSyscallBlock \/ HandleProcessExit
    <2>1. current \in Pid /\ UNCHANGED ready
      BY <1>6 DEF TypeOK, HandleSyscallBlock, HandleProcessExit, ChargeTick
    <2>2. \/ Transition(current, "BlockingSyscall")
          \/ Transition(current, "Exit")
      BY <1>6 DEF HandleSyscallBlock, HandleProcessExit
    <2>3. /\ state[current] # "Ready" /\ state'[current] # "Ready"
          /\ \A q \in Pid \ {current} : state'[q] = state[q]
      BY <1>a, <2>1, <2>2, TransitionEffect DEF StateTransition, Source, Target
    <2> QED BY <1>2, <2>1, <2>3
  <1>7. CASE DispatchNext
    <2>1. PICK i \in 1..Len(ready) : /\ IsSelected(i)
                                     /\ Transition(ready[i], "Dispatch")
                                     /\ ready' = RemoveAt(ready, i)
                                     /\ current' = ready[i]
      BY <1>7 DEF DispatchNext, LoadProcess
    <2>2. ready[i] \in Pid
      BY <2>1, PlaceElement DEF TypeOK
    <2>3. /\ state'[ready[i]] = "Running"
          /\ \A q \in Pid \ {ready[i]} : state'[q] = state[q]
      BY <1>a, <2>1, <2>2, TransitionEffect DEF StateTransition, Source, Target
    <2>4. \A q \in Pid : ~BecomesReady(q)
      BY <2>2, <2>3 DEF BecomesReady
    <2>5. \A q \in Pid \ {ready[i]} : state[q] = "Ready" => StaysReady(q)
      BY <2>3 DEF StaysReady
    <2>6. ~StaysReady(ready[i])
      BY <2>3 DEF StaysReady
    <2>7. UNCHANGED priority
      BY <1>7 DEF DispatchNext, userVars
    <2> QED BY <1>7, <2>1, <2>4, <2>5, <2>6, <2>7
  <1>8. CASE (\E meta \in Programs : SubmitProgram(meta)) \/ ClockStep
             \/ (\E p \in Created, v \in Priorities : SetPriority(p, v))
             \/ ExecuteIdle \/ ContinueExecution \/ DispatchNone
             \/ NotifySimulationComplete \/ NotifyTickCompleted
             \/ UNCHANGED vars
    <2>1. UNCHANGED <<state, ready>>
      BY <1>8 DEF SubmitProgram, ClockStep, NotifyTick, SetPriority, vars,
            ExecuteIdle, ContinueExecution, DispatchNone,
            NotifySimulationComplete, NotifyTickCompleted
    <2> QED BY <2>1 DEF BecomesReady, StaysReady
  <1>9. CASE \E id \in DOMAIN program_store : RunProgram(id)
    BY <1>1, <1>3, <1>9
  <1> QED BY <1>4, <1>5, <1>6, <1>7, <1>8, <1>9 DEF Next, UserStep, KernelStep

-----------------------------------------------------------------------------
(* The order of service.                                                   *)

\* arrivals holds the ready processes, as the ready queue does.
ArrivalsInv == /\ arrivals \in Seq(Pid)
               /\ ToSet(arrivals) = ToSet(ready)
               /\ IsInjective(arrivals)

\* p has a better claim to the CPU than q.
Precedes(p, q) ==
    IF config.policy = "Priority"
    THEN \/ stirred
         \/ priority[p] > priority[q]
         \/ priority[p] = priority[q] /\ Ahead(arrivals, p, q)
    ELSE Ahead(arrivals, p, q)

\* The ready queue is sorted by claim.
OrderInv == \A p, q \in Pid : Ahead(ready, p, q) => Precedes(p, q)

\* The history of arrivals sees the moves of ReadyMoves, no more and no less.
LEMMA ArrivalsMoves ==
    ASSUME Inv, ArrivalsInv, RecordArrival
    PROVE  /\ /\ \A p \in Pid : ~BecomesReady(p)
              /\ \A p \in Pid : state[p] = "Ready" => StaysReady(p)
              => UNCHANGED arrivals
           /\ \A p \in Pid :
                  /\ BecomesReady(p)
                  /\ \A q \in Pid \ {p} : ~BecomesReady(q)
                  /\ \A q \in Pid : state[q] = "Ready" => StaysReady(q)
                  => arrivals' = Append(arrivals, p)
           /\ \A p \in ToSet(ready) :
                  /\ ~StaysReady(p)
                  /\ \A q \in Pid : ~BecomesReady(q)
                  /\ \A q \in Pid \ {p} : state[q] = "Ready" => StaysReady(q)
                  => \E j \in 1..Len(arrivals) :
                         arrivals[j] = p /\ arrivals' = RemoveAt(arrivals, j)
  <1>1. /\ DOMAIN arrivals = 1..Len(arrivals)
        /\ \A j \in 1..Len(arrivals) : /\ arrivals[j] \in ToSet(ready)
                                       /\ arrivals[j] \in Pid
                                       /\ state[arrivals[j]] = "Ready"
    <2>1. arrivals \in Seq(Pid) /\ ToSet(arrivals) = ToSet(ready)
      BY DEF ArrivalsInv
    <2>2. \A j \in 1..Len(arrivals) : arrivals[j] \in Pid /\ arrivals[j] \in ToSet(ready)
      <3> HIDE DEF Pid
      <3> QED BY <2>1, PlaceElement
    <2> QED BY <2>1, <2>2 DEF Inv, Placement, ReadyQueueHoldsReady
  <1>2. ASSUME NEW p \in ToSet(ready)
        PROVE  \E j \in 1..Len(arrivals) : arrivals[j] = p
    BY <1>1, <1>2 DEF ArrivalsInv, ToSet
  <1> QED BY <1>1, <1>2 DEF RecordArrival

LEMMA NextArrivalsInv ==
    ASSUME Inv, ArrivalsInv, [HNext]_hvars
    PROVE  ArrivalsInv'
  <1> USE DEF Inv
  <1>1. CASE UNCHANGED hvars
    BY <1>1 DEF ArrivalsInv, hvars, vars, historyVars
  <1>2. CASE HNext
    <2>1. [Next]_vars /\ RecordArrival
      BY <1>2 DEF HNext, Record
    <2>2. CASE /\ \A p \in Pid : ~BecomesReady(p)
               /\ \A p \in Pid : state[p] = "Ready" => StaysReady(p)
               /\ UNCHANGED ready
      BY <2>1, <2>2, ArrivalsMoves DEF ArrivalsInv
    <2>3. ASSUME NEW p \in Pid, BecomesReady(p), EnqueueReady(p),
                 \A q \in Pid \ {p} : ~BecomesReady(q),
                 \A q \in Pid : state[q] = "Ready" => StaysReady(q)
          PROVE  ArrivalsInv'
      <3>1. arrivals' = Append(arrivals, p)
        BY <2>1, <2>3, ArrivalsMoves
      <3>2. ToSet(ready') = ToSet(ready) \cup {p}
        BY <2>3, EnqueueEffect DEF TypeOK
      <3>3. p \notin ToSet(ready)
        BY <2>3 DEF BecomesReady, Placement, ReadyQueueHoldsReady
      <3>4. arrivals' \in Seq(Pid)
        BY <2>3, <3>1 DEF ArrivalsInv
      <3>5. /\ ToSet(arrivals') = ToSet(arrivals) \cup {p}
            /\ IsInjective(arrivals) /\ p \notin ToSet(arrivals)
                   => IsInjective(arrivals')
        <4> HIDE DEF Pid
        <4> QED BY <2>3, <3>1, AppendOrder DEF ArrivalsInv
      <3> QED BY <3>2, <3>3, <3>4, <3>5 DEF ArrivalsInv
    <2>4. ASSUME NEW i \in 1..Len(ready), ready' = RemoveAt(ready, i),
                 \A q \in Pid : ~BecomesReady(q), ~StaysReady(ready[i]),
                 \A q \in Pid \ {ready[i]} : state[q] = "Ready" => StaysReady(q)
          PROVE  ArrivalsInv'
      <3>1. ready \in Seq(Pid) /\ IsInjective(ready)
        BY DEF TypeOK, Placement, ReadyQueueHoldsReady
      <3>2. ready[i] \in ToSet(ready)
        BY <2>4, <3>1, PlaceElement
      <3>3. PICK j \in 1..Len(arrivals) :
                arrivals[j] = ready[i] /\ arrivals' = RemoveAt(arrivals, j)
        BY <2>1, <2>4, <3>2, ArrivalsMoves
      <3>4. ToSet(ready') = ToSet(ready) \ {ready[i]}
        BY <2>4, <3>1, RemoveAtElements
      <3>5. arrivals' \in Seq(Pid)
        BY <3>3, RemoveAtPlaces DEF ArrivalsInv
      <3>6. /\ ToSet(arrivals') = ToSet(arrivals) \ {ready[i]}
            /\ IsInjective(arrivals')
        BY <3>3, RemoveAtElements DEF ArrivalsInv
      <3> QED BY <3>4, <3>5, <3>6 DEF ArrivalsInv
    <2> QED BY <2>1, <2>2, <2>3, <2>4, ReadyMoves
  <1> QED BY <1>1, <1>2

LEMMA PriorityType == ASSUME Inv PROVE priority \in [Pid -> Int]
  <1>1. Priorities \cup {0} \subseteq Int
    BY BoundsAssumption
  <1>2. priority \in [Pid -> Priorities \cup {0}]
    BY DEF Inv, TypeOK
  <1> HIDE DEF Pid
  <1> QED BY <1>1, <1>2

\* Two processes of an injective sequence are in one order or the other.
LEMMA AheadElements ==
    ASSUME NEW s \in Seq(Pid), NEW p, NEW q, Ahead(s, p, q)
    PROVE  /\ p \in ToSet(s) /\ q \in ToSet(s)
           /\ IsInjective(s) => p # q /\ ~Ahead(s, q, p)
  BY DEF Ahead, ToSet, IsInjective

\* enqueueReady puts a process where its claim belongs, behind all whose claim
\* is as good.
LEMMA EnqueueOrder ==
    ASSUME Inv, ArrivalsInv, OrderInv, NEW r \in Pid, r \notin ToSet(ready),
           EnqueueReady(r), NEW p \in Pid, NEW q \in Pid, Ahead(ready', p, q),
           config.policy = "Priority" => ~stirred
    PROVE  \/ /\ Ahead(ready, p, q)
              /\ p \in ToSet(ready) /\ q \in ToSet(ready) /\ Precedes(p, q)
           \/ /\ q = r /\ p \in ToSet(ready)
              /\ config.policy = "Priority" => priority[p] >= priority[q]
           \/ /\ p = r /\ q \in ToSet(ready) /\ config.policy = "Priority"
              /\ priority[p] > priority[q]
  <1>1. /\ ready \in Seq(Pid) /\ priority \in [Pid -> Int]
        /\ DOMAIN ready = 1..Len(ready)
    BY PriorityType DEF Inv, TypeOK
  <1>2. PICK i \in 1..(Len(ready) + 1) : /\ IsSlot(i, r)
                                         /\ ready' = InsertAt(ready, i, r)
    BY DEF EnqueueReady
  <1>3. \/ Ahead(ready, p, q)
        \/ p = r /\ \E j \in i..Len(ready) : ready[j] = q
        \/ q = r /\ \E j \in 1..(i-1) : ready[j] = p
    <2> HIDE DEF Pid
    <2> QED BY <1>1, <1>2, InsertAtOrder
  <1>4. CASE Ahead(ready, p, q)
    BY <1>1, <1>4, AheadElements DEF OrderInv
  <1>5. ASSUME q = r, NEW j \in 1..(i-1), ready[j] = p
        PROVE  /\ p \in ToSet(ready)
               /\ config.policy = "Priority" => priority[p] >= priority[q]
    BY <1>1, <1>2, <1>5 DEF IsSlot, IsPrioritySlot, ToSet
  <1>6. ASSUME p = r, NEW j \in i..Len(ready), ready[j] = q
        PROVE  /\ q \in ToSet(ready) /\ config.policy = "Priority"
               /\ priority[p] > priority[q]
    <2>1. j \in 1..Len(ready) /\ i \in 1..Len(ready)
      BY <1>1, <1>2
    <2>2. config.policy = "Priority"
      BY <1>1, <1>2, <2>1 DEF IsSlot
    <2>3. priority[ready[i]] < priority[p] /\ ready[i] \in Pid
      <3>1. priority[ready[i]] < priority[r]
        BY <1>2, <2>1, <2>2 DEF IsSlot, IsPrioritySlot
      <3>2. ready[i] \in Pid
        <4> HIDE DEF Pid
        <4> QED BY <1>1, <2>1, PlaceElement
      <3> QED BY <1>6, <3>1, <3>2
    <2>4. priority[q] <= priority[ready[i]]
      <3>1. CASE j = i
        BY <1>1, <1>6, <2>3, <3>1
      <3>2. CASE j # i
        <4>1. Ahead(ready, ready[i], q)
          BY <1>1, <1>6, <2>1, <3>2 DEF Ahead
        <4>2. Precedes(ready[i], q)
          BY <2>3, <4>1 DEF OrderInv
        <4> QED BY <1>1, <2>2, <2>3, <4>2 DEF Precedes
      <3> QED BY <3>1, <3>2
    <2>5. q \in ToSet(ready)
      BY <1>1, <1>6, <2>1 DEF ToSet
    <2> QED BY <1>1, <2>2, <2>3, <2>4, <2>5
  <1> QED BY <1>3, <1>4, <1>5, <1>6

\* While setPriority leaves the queue alone, no step changes the priority of a
\* process that is in it.
LEMMA QueuePriorities ==
    ASSUME HNext, ~stirred', ready' # <<>>
    PROVE  ~stirred /\ \A p \in ToSet(ready) : priority'[p] = priority[p]
  BY DEF HNext, Record

LEMMA NextOrderInv ==
    ASSUME Inv, ArrivalsInv, OrderInv, [HNext]_hvars
    PROVE  OrderInv'
  <1> USE DEF Inv
  <1>1. CASE UNCHANGED hvars
    BY <1>1 DEF OrderInv, Precedes, hvars, vars, historyVars
  <1> SUFFICES ASSUME HNext, NEW p \in Pid, NEW q \in Pid, Ahead(ready', p, q),
                      config'.policy = "Priority" => ~stirred'
               PROVE  Precedes(p, q)'
    BY <1>1 DEF OrderInv, Precedes
  <1>2. [Next]_vars /\ RecordArrival /\ UNCHANGED config
    BY ConfigKept DEF HNext, Record
  <1>3. /\ ready \in Seq(Pid) /\ IsInjective(ready)
        /\ arrivals \in Seq(Pid) /\ ToSet(arrivals) = ToSet(ready)
    BY DEF TypeOK, Placement, ReadyQueueHoldsReady, ArrivalsInv
  <1>4. ready' # <<>>
    BY DEF Ahead
  <1>5. config.policy = "Priority" =>
            ~stirred /\ \A r \in ToSet(ready) : priority'[r] = priority[r]
    BY <1>2, <1>4, QueuePriorities
  <1>6. ASSUME Ahead(ready, p, q), Precedes(p, q),
               Ahead(arrivals, p, q) => Ahead(arrivals', p, q)
        PROVE  Precedes(p, q)'
    <2>1. p \in ToSet(ready) /\ q \in ToSet(ready)
      BY <1>3, <1>6, AheadElements
    <2> QED BY <1>2, <1>5, <1>6, <2>1 DEF Precedes
  <1>7. CASE /\ \A r \in Pid : ~BecomesReady(r)
             /\ \A r \in Pid : state[r] = "Ready" => StaysReady(r)
             /\ UNCHANGED ready
    <2>1. UNCHANGED arrivals
      BY <1>2, <1>7, ArrivalsMoves
    <2> QED BY <1>6, <1>7, <2>1 DEF OrderInv
  <1>8. ASSUME NEW r \in Pid, BecomesReady(r), EnqueueReady(r), UNCHANGED priority,
               \A s \in Pid \ {r} : ~BecomesReady(s),
               \A s \in Pid : state[s] = "Ready" => StaysReady(s)
        PROVE  Precedes(p, q)'
    <2>1. arrivals' = Append(arrivals, r)
      BY <1>2, <1>8, ArrivalsMoves
    <2>2. r \notin ToSet(ready)
      BY <1>8 DEF BecomesReady, Placement, ReadyQueueHoldsReady
    <2>3. /\ Ahead(arrivals, p, q) => Ahead(arrivals', p, q)
          /\ p \in ToSet(ready) => Ahead(arrivals', p, r)
      <3> HIDE DEF Pid
      <3> QED BY <1>3, <1>8, <2>1, AppendOrder
    <2>4. \/ Ahead(ready, p, q) /\ Precedes(p, q)
          \/ /\ q = r /\ p \in ToSet(ready)
             /\ config.policy = "Priority" => priority[p] >= priority[q]
          \/ /\ p = r /\ q \in ToSet(ready) /\ config.policy = "Priority"
             /\ priority[p] > priority[q]
      BY <1>5, <1>8, <2>2, EnqueueOrder
    <2>5. priority[p] \in Int /\ priority[q] \in Int
      BY PriorityType
    <2>6. CASE Ahead(ready, p, q) /\ Precedes(p, q)
      BY <1>6, <2>3, <2>6
    <2>7. CASE /\ q = r /\ p \in ToSet(ready)
               /\ config.policy = "Priority" => priority[p] >= priority[q]
      BY <1>2, <1>8, <2>3, <2>5, <2>7 DEF Precedes
    <2>8. CASE config.policy = "Priority" /\ priority[p] > priority[q]
      BY <1>2, <1>8, <2>8 DEF Precedes
    <2> QED BY <2>4, <2>6, <2>7, <2>8
  <1>9. ASSUME NEW i \in 1..Len(ready), ready' = RemoveAt(ready, i),
               \A s \in Pid : ~BecomesReady(s), ~StaysReady(ready[i]),
               \A s \in Pid \ {ready[i]} : state[s] = "Ready" => StaysReady(s)
        PROVE  Precedes(p, q)'
    <2>1. ready[i] \in ToSet(ready)
      BY <1>3, <1>9, PlaceElement
    <2>2. PICK j \in 1..Len(arrivals) :
              arrivals[j] = ready[i] /\ arrivals' = RemoveAt(arrivals, j)
      BY <1>2, <1>9, <2>1, ArrivalsMoves
    <2>3. Ahead(ready, p, q)
      <3> HIDE DEF Pid
      <3> QED BY <1>3, <1>9, RemoveAtOrder
    <2>4. p # ready[i] /\ q # ready[i]
      <3>1. ready' \in Seq(Pid) /\ ToSet(ready') = ToSet(ready) \ {ready[i]}
        <4> HIDE DEF Pid
        <4> QED BY <1>3, <1>9, RemoveAtElements, RemoveAtPlaces
      <3> QED BY <3>1, AheadElements
    <2>5. Ahead(arrivals, p, q) => Ahead(arrivals', p, q)
      <3> HIDE DEF Pid
      <3> QED BY <1>3, <2>2, <2>4, RemoveAtOrder
    <2> QED BY <1>6, <2>3, <2>5 DEF OrderInv
  <1> QED BY <1>2, <1>7, <1>8, <1>9, ReadyMoves

\* The process that selectNext picks is overtaking nobody.
LEMMA SelectedIsNext ==
    ASSUME Inv, ArrivalsInv, OrderInv, DispatchNext,
           config.policy = "Priority" => ~stirred,
           NEW j \in DOMAIN arrivals, arrivals[j] = current'
    PROVE  ~Overtakes(j)
  <1> USE DEF Inv
  <1>1. PICK k \in 1..Len(ready) : IsSelected(k) /\ current' = ready[k]
    BY DEF DispatchNext, LoadProcess
  <1>2. /\ ready \in Seq(Pid) /\ DOMAIN ready = 1..Len(ready)
        /\ arrivals \in Seq(Pid) /\ DOMAIN arrivals = 1..Len(arrivals)
        /\ IsInjective(arrivals) /\ ToSet(arrivals) = ToSet(ready)
        /\ priority \in [Pid -> Int]
    BY PriorityType DEF TypeOK, ArrivalsInv
  <1> SUFFICES ASSUME NEW i \in 1..(j-1),
                      \/ config.policy # "Priority"
                      \/ priority[arrivals[i]] = priority[arrivals[j]]
               PROVE  FALSE
    BY DEF Overtakes
  <1> DEFINE p == arrivals[i]
             q == arrivals[j]
  <1>3. /\ p \in Pid /\ q \in Pid /\ q = ready[k] /\ p # q
        /\ Ahead(arrivals, p, q) /\ p \in ToSet(ready)
    <2>1. i \in 1..Len(arrivals) /\ j \in 1..Len(arrivals) /\ i < j
      BY <1>2
    <2>2. p \in Pid /\ p \in ToSet(arrivals) /\ q \in Pid /\ p # q
      <3> HIDE DEF Pid
      <3>1. p \in Pid /\ p \in ToSet(arrivals) /\ q \in Pid
        BY <1>2, <2>1, PlaceElement
      <3>2. i \in DOMAIN arrivals /\ j \in DOMAIN arrivals /\ i # j
        BY <1>2, <2>1
      <3>3. p # q
        BY <1>2, <3>2, Zenon DEF IsInjective
      <3> QED BY <3>1, <3>3
    <2>3. Ahead(arrivals, p, q)
      BY <1>2, <2>1 DEF Ahead
    <2> QED BY <1>1, <1>2, <2>2, <2>3
  <1>4. ~Ahead(arrivals, q, p)
    BY <1>2, <1>3, AheadElements
  <1>5. PICK l \in 1..Len(ready) : ready[l] = p
    BY <1>2, <1>3 DEF ToSet
  <1> HIDE DEF p, q
  <1>6. CASE l < k
    <2>1. config.policy = "Priority"
      BY <1>1, <1>6 DEF IsSelected, IsFront
    <2>2. priority[p] < priority[q]
      BY <1>1, <1>3, <1>5, <1>6, <2>1 DEF IsSelected, IsFirstHighest
    <2> QED BY <1>2, <1>3, <2>1, <2>2 DEF p, q
  <1>7. CASE k < l
    <2>1. Ahead(ready, q, p)
      BY <1>2, <1>3, <1>5, <1>7 DEF Ahead
    <2>2. Precedes(q, p)
      BY <1>3, <2>1 DEF OrderInv
    <2> QED BY <1>2, <1>3, <1>4, <2>2 DEF Precedes, p, q
  <1> QED BY <1>3, <1>5, <1>6, <1>7

\* Whatever the interleaving, a process is never served before one that became
\* ready earlier and has the same claim; under the Priority policy, until
\* setPriority meddles with a queue that is already sorted.
THEOREM ServedInOrderHolds == HSpec => ServedInOrder
  <1> DEFINE I == Inv /\ ArrivalsInv /\ OrderInv
  <1>1. HInit => I
    <2>1. ASSUME HInit PROVE ArrivalsInv /\ OrderInv
      <3>1. arrivals = <<>> /\ ready = <<>>
        BY <2>1 DEF HInit, Init
      <3>2. ToSet(<<>>) = {} /\ IsInjective(<<>>)
        BY DEF ToSet, IsInjective
      <3> QED BY <3>1, <3>2 DEF ArrivalsInv, OrderInv, Ahead
    <2> QED BY <2>1, InitInv DEF HInit
  <1>2. I /\ [HNext]_hvars => I'
    BY HistoryStep, NextInv, NextArrivalsInv, NextOrderInv
  <1>3. I /\ [HNext]_hvars =>
            [DispatchNext /\ (config.policy = "Priority" => ~stirred) =>
                \A j \in DOMAIN arrivals : arrivals[j] = current' => ~Overtakes(j)]_hvars
    BY SelectedIsNext
  <1> QED BY <1>1, <1>2, <1>3, PTL DEF HSpec, ServedInOrder

-----------------------------------------------------------------------------
(* Slices.                                                                 *)

\* No configuration has the one quantum whose decrement overflows.
QuantumsCountDown == \A c \in Configs : c.quantum # IntMin

\* What is left of the quantum and what is gone of the slice make up the
\* quantum of the dispatch; a process that goes on has some of it left.
SliceInv == /\ slice \in Nat
            /\ slice <= Slice
            /\ current # NoProc => /\ quantum + slice = DefaultQuantum
                                   /\ slice = 0 \/ quantum > 0
            /\ event = "QuantumExpired" /\ pc = "dispatch" => slice = Slice

LEMMA SliceType == ASSUME Inv
                   PROVE  /\ DefaultQuantum \in Int /\ Slice \in Nat
                          /\ Slice >= 1 /\ DefaultQuantum <= Slice
                          /\ QuantumsCountDown => DefaultQuantum # IntMin
  BY ConfigsAssumption DEF Inv, TypeOK, DefaultQuantum, Slice, IntMax, IntMin,
     QuantumsCountDown

\* A running process has not used up its slice.
LEMMA SliceLeft ==
    ASSUME Inv, SliceInv, current # NoProc
    PROVE  slice < Slice /\ (QuantumsCountDown => CountedDown = {quantum - 1})
  <1>1. /\ quantum \in Int /\ DefaultQuantum \in Int /\ Slice \in Nat
        /\ Slice >= 1 /\ DefaultQuantum <= Slice
        /\ QuantumsCountDown => DefaultQuantum # IntMin
    BY SliceType DEF Inv, TypeOK
  <1>2. slice < Slice
    BY <1>1 DEF SliceInv
  <1>3. QuantumsCountDown => quantum # IntMin
    BY <1>1 DEF SliceInv, IntMin, IntMax
  <1> QED BY <1>2, <1>3 DEF CountedDown

\* The four steps that charge a tick to the running process, and what the
\* others do to the CPU.
LEMMA ChargeMoves ==
    ASSUME Inv, Next
    PROVE  \/ /\ CpuTickCharged /\ current # NoProc /\ current' = NoProc
              /\ \/ HandleSyscallBlock \/ HandleProcessExit
                 \/ HandleQuantumExpired
           \/ CpuTickCharged /\ ContinueExecution
           \/ /\ ~CpuTickCharged /\ UNCHANGED <<current, quantum>>
              /\ ~(event' = "QuantumExpired" /\ pc' = "dispatch")
           \/ ~CpuTickCharged /\ DispatchNext /\ current = NoProc
  <1> USE DEF Inv
  <1>1. ASSUME ChargeTick PROVE CpuTickCharged /\ current # NoProc
    <2>1. current \in Pid /\ used[current] \in Nat
      BY <1>1 DEF ChargeTick, TypeOK
    <2>2. used'[current] = used[current] + 1
      BY <1>1, <2>1 DEF ChargeTick, Ran, TypeOK
    <2>3. used'[current] # used[current]
      BY <2>1, <2>2
    <2> QED BY <1>1, <2>3 DEF CpuTickCharged, ChargeTick
  <1>2. CASE HandleSyscallBlock \/ HandleProcessExit \/ HandleQuantumExpired
    BY <1>1, <1>2 DEF HandleSyscallBlock, HandleProcessExit,
          HandleQuantumExpired, UnloadProcess
  <1>3. CASE ContinueExecution
    BY <1>1, <1>3 DEF ContinueExecution
  <1>4. CASE DispatchNext
    BY <1>4 DEF DispatchNext, ControlInv, CpuTickCharged
  <1>5. CASE UserStep
    BY <1>5 DEF UserStep, SubmitProgram, RunProgram, SetPriority, cpuVars,
          CpuTickCharged
  <1>6. CASE ClockStep \/ Wake \/ ExecuteIdle
    BY <1>6 DEF ClockStep, NotifyTick, Wake, ExecuteIdle, Raise, cpuVars,
          CpuTickCharged
  <1>7. CASE DispatchNone \/ NotifySimulationComplete \/ NotifyTickCompleted
    BY <1>7 DEF DispatchNone, AfterDispatch, NotifySimulationComplete,
          NotifyTickCompleted, cpuVars, CpuTickCharged
  <1> QED BY <1>2, <1>3, <1>4, <1>5, <1>6, <1>7 DEF Next, KernelStep

LEMMA NextSliceInv ==
    ASSUME QuantumsCountDown, Inv, SliceInv, [HNext]_hvars
    PROVE  SliceInv'
  <1>1. CASE UNCHANGED hvars
    BY <1>1 DEF SliceInv, Slice, DefaultQuantum, hvars, vars, historyVars
  <1> SUFFICES ASSUME HNext PROVE SliceInv'
    BY <1>1
  <1>2. /\ [Next]_vars
        /\ slice' = IF current = NoProc THEN 0
                    ELSE IF CpuTickCharged THEN slice + 1 ELSE slice
        /\ UNCHANGED <<Slice, DefaultQuantum>>
    BY ConfigKept DEF HNext, Record, Slice, DefaultQuantum
  <1>3. /\ DefaultQuantum \in Int /\ Slice \in Nat
        /\ Slice >= 1 /\ DefaultQuantum <= Slice /\ quantum \in Int
    BY SliceType DEF Inv, TypeOK
  <1>4. ASSUME CpuTickCharged, current # NoProc
        PROVE  /\ slice' = slice + 1 /\ slice' \in Nat /\ slice' <= Slice
               /\ CountedDown = {quantum - 1}
    BY <1>2, <1>3, <1>4, SliceLeft DEF SliceInv
  <1>5. CASE /\ CpuTickCharged /\ current # NoProc /\ current' = NoProc
             /\ HandleSyscallBlock \/ HandleProcessExit
    <2>1. event' # "QuantumExpired"
      BY <1>5 DEF HandleSyscallBlock, HandleProcessExit, Raise
    <2> QED BY <1>4, <1>5, <2>1, <1>2 DEF SliceInv
  <1>6. CASE /\ CpuTickCharged /\ current # NoProc /\ current' = NoProc
             /\ HandleQuantumExpired
    <2>1. quantum - 1 <= 0
      BY <1>4, <1>6 DEF HandleQuantumExpired, QuantumIsOver
    <2>2. slice + 1 = Slice
      <3>1. CASE slice = 0
        BY <1>3, <1>6, <2>1, <3>1 DEF SliceInv, Slice
      <3>2. CASE slice # 0
        BY <1>3, <1>6, <2>1, <3>2 DEF SliceInv, Slice
      <3> QED BY <3>1, <3>2
    <2> QED BY <1>2, <1>4, <1>6, <2>2 DEF SliceInv
  <1>7. CASE CpuTickCharged /\ ContinueExecution
    <2>1. current # NoProc /\ UNCHANGED current /\ pc' = "done"
      BY <1>7 DEF ContinueExecution, ChargeTick
    <2>2. quantum' = quantum - 1 /\ ~(quantum' <= 0)
      BY <1>4, <1>7, <2>1 DEF ContinueExecution, QuantumIsOver
    <2> QED BY <1>2, <1>3, <1>4, <1>7, <2>1, <2>2 DEF SliceInv
  <1>8. CASE /\ ~CpuTickCharged /\ UNCHANGED <<current, quantum>>
             /\ ~(event' = "QuantumExpired" /\ pc' = "dispatch")
    BY <1>2, <1>3, <1>8 DEF SliceInv
  <1>9. CASE ~CpuTickCharged /\ DispatchNext /\ current = NoProc
    <2>1. quantum' = DefaultQuantum /\ pc' # "dispatch"
      BY <1>9 DEF DispatchNext, LoadProcess, AfterDispatch
    <2> QED BY <1>2, <1>3, <1>9, <2>1 DEF SliceInv
  <1>10. Next
    BY DEF HNext
  <1> QED BY <1>5, <1>6, <1>7, <1>8, <1>9, <1>10, ChargeMoves

LEMMA SliceInvHolds ==
    ASSUME QuantumsCountDown PROVE HSpec => []SliceInv
  <1>1. HInit => SliceInv
    <2>1. ASSUME HInit PROVE SliceInv
      <3>1. Inv /\ slice = 0 /\ current = NoProc /\ event = "none"
        BY <2>1, InitInv DEF HInit, Init
      <3> QED BY <3>1, SliceType DEF SliceInv
    <2> QED BY <2>1
  <1>2. Inv /\ SliceInv /\ [HNext]_hvars => SliceInv'
    BY NextSliceInv
  <1> QED BY <1>1, <1>2, HistoryInv, PTL DEF HSpec

\* A process is preempted exactly when it has had the slice its last dispatch
\* granted, and keeps the CPU no longer, unless the quantum is the one whose
\* decrement overflows.
THEOREM SliceHolds ==
    ASSUME QuantumsCountDown PROVE HSpec => []SliceIsHonoured
  <1>1. SliceInv => SliceIsHonoured
    BY DEF SliceInv, SliceIsHonoured
  <1> QED BY <1>1, SliceInvHolds, PTL

-----------------------------------------------------------------------------
(* Waiting.                                                                *)

\* The rest of the slice of the running process.
Rest == IF current = NoProc THEN 0 ELSE Slice - slice

\* A ready process has yet to wait for the rest of the running slice and for
\* one slice of each process before it: with what it has waited already, no
\* more than a slice of every other process.
WaitInv ==
    /\ waited \in [Pid -> Nat]
    /\ \A p \in Pid : state[p] # "Ready" => waited[p] = 0
    /\ config.policy = "RoundRobin" =>
           \A i \in 1..Len(ready) :
               waited[ready[i]] + (i - 1) * Slice + Rest <= (MaxProcs - 1) * Slice

LEMMA Products ==
    ASSUME NEW s \in Nat
    PROVE  /\ \A n \in Int : (n + 1) * s = n * s + s /\ n * s \in Int
           /\ \A m, n \in Int : m <= n => m * s <= n * s
  <1>1. \A n \in Int : (n + 1) * s = n * s + s /\ n * s \in Int
    OBVIOUS
  <1>2. ASSUME NEW m \in Int, NEW n \in Int, m <= n PROVE m * s <= n * s
    <2>1. n * s = m * s + (n - m) * s /\ m * s \in Int
      OBVIOUS
    <2>2. (n - m) * s >= 0
      BY <1>2
    <2> QED BY <2>1, <2>2
  <1> QED BY <1>1, <1>2

\* The ready queue and the CPU hold different processes.
Room == Len(ready) + (IF current = NoProc THEN 0 ELSE 1) <= MaxProcs

LEMMA RoomInQueue == Inv => Room
  <1> SUFFICES ASSUME Inv
               PROVE  Len(ready) + (IF current = NoProc THEN 0 ELSE 1) <= MaxProcs
    BY DEF Room
  <1>1. IsFiniteSet(Pid) /\ Cardinality(Pid) = MaxProcs
    BY FS_Interval, BoundsAssumption
  <1>2. ready \in Seq(Pid) /\ IsInjective(ready)
    BY DEF Inv, TypeOK, Placement, ReadyQueueHoldsReady
  <1>3. IsFiniteSet(ToSet(ready)) /\ Len(ready) = Cardinality(ToSet(ready))
    <2> HIDE DEF Pid
    <2> QED BY <1>1, <1>2, InjectiveLength
  <1>4. ToSet(ready) \subseteq Pid
    <2> HIDE DEF Pid
    <2> QED BY <1>2 DEF ToSet
  <1>5. CASE current = NoProc
    <2>1. Cardinality(ToSet(ready)) <= Cardinality(Pid)
      BY <1>1, <1>4, FS_Subset
    <2> QED BY <1>1, <1>2, <1>3, <1>5, <2>1, BoundsAssumption
  <1>6. CASE current # NoProc
    <2>1. current \in Pid /\ current \notin ToSet(ready)
      BY <1>6 DEF Inv, TypeOK, Placement, CpuHoldsRunning, ReadyQueueHoldsReady
    <2>2. /\ IsFiniteSet(ToSet(ready) \cup {current})
          /\ Cardinality(ToSet(ready) \cup {current}) = Len(ready) + 1
      BY <1>3, <2>1, FS_AddElement
    <2>3. ToSet(ready) \cup {current} \subseteq Pid
      BY <1>4, <2>1
    <2>4. Cardinality(ToSet(ready) \cup {current}) <= Cardinality(Pid)
      BY <1>1, <2>3, FS_Subset
    <2> QED BY <1>1, <1>6, <2>2, <2>4
  <1> QED BY <1>5, <1>6

LEMMA RoomInNextQueue == Inv' => Room'
  BY RoomInQueue, PTL

\* A charged tick shortens the running slice, and only a dispatch begins one.
LEMMA RestEffect ==
    ASSUME Inv, SliceInv, Inv', SliceInv', HNext
    PROVE  \E s \in Nat : \E r, t \in 0..s :
               /\ Slice = s /\ Slice' = s /\ Rest = r /\ Rest' = t
               /\ ~DispatchNext => t + (IF CpuTickCharged THEN 1 ELSE 0) <= r
               /\ DispatchNext => r = 0 /\ ~CpuTickCharged
  <1>1. PICK s \in Nat : s = Slice
    BY SliceType
  <1>2. Slice' = s
    BY <1>1, ConfigKept DEF HNext, Slice, DefaultQuantum
  <1>3. slice \in 0..s /\ (current # NoProc => slice < s)
    BY <1>1, SliceLeft DEF SliceInv
  <1>4. slice' \in 0..s
    BY <1>1, ConfigKept DEF HNext, SliceInv, Slice, DefaultQuantum
  <1> DEFINE r == IF current = NoProc THEN 0 ELSE s - slice
             t == IF current' = NoProc THEN 0 ELSE s - slice'
  <1>5. Rest = r /\ Rest' = t
    BY <1>1, <1>2 DEF Rest
  <1>6. r \in 0..s /\ t \in 0..s
    <2> HIDE DEF r, t
    <2>1. ASSUME NEW x \in 0..s
          PROVE  s - x \in 0..s
      OBVIOUS
    <2>2. slice \in 0..s
      BY <1>3
    <2>3. s - slice \in 0..s
      BY <2>1, <2>2
    <2>4. s - slice' \in 0..s
      BY <1>4, <2>1
    <2>5. 0 \in 0..s
      OBVIOUS
    <2> QED BY <2>3, <2>4, <2>5 DEF r, t
  <1>7. Next /\ slice' = IF current = NoProc THEN 0
                         ELSE IF CpuTickCharged THEN slice + 1 ELSE slice
    BY DEF HNext, Record
  <1>8. ~DispatchNext => t + (IF CpuTickCharged THEN 1 ELSE 0) <= r
    <2>1. CASE CpuTickCharged /\ current # NoProc /\ current' = NoProc
      BY <1>3, <2>1
    <2>2. CASE CpuTickCharged /\ ContinueExecution
      <3>1. current # NoProc /\ current' = current
        BY <2>2 DEF ContinueExecution, ChargeTick
      <3> QED BY <1>3, <1>7, <2>2, <3>1
    <2>3. CASE ~CpuTickCharged /\ UNCHANGED current
      BY <1>3, <1>7, <2>3
    <2> QED BY <1>7, <2>1, <2>2, <2>3, ChargeMoves
  <1>9. DispatchNext => r = 0 /\ ~CpuTickCharged
    BY DEF DispatchNext, CpuTickCharged, Inv, ControlInv
  <1> HIDE DEF r, t
  <1> QED BY <1>1, <1>2, <1>5, <1>6, <1>8, <1>9

LEMMA NextWaitInv ==
    ASSUME QuantumsCountDown, Inv, SliceInv, WaitInv, [HNext]_hvars
    PROVE  WaitInv'
  <1>1. CASE UNCHANGED hvars
    BY <1>1 DEF WaitInv, Rest, Slice, DefaultQuantum, hvars, vars, historyVars
  <1> SUFFICES ASSUME HNext PROVE WaitInv'
    BY <1>1
  <1>2. [HNext]_hvars /\ [Next]_vars /\ Inv' /\ SliceInv'
    BY HistoryStep, NextInv, NextSliceInv
  <1> DEFINE charged == IF CpuTickCharged THEN 1 ELSE 0
             bound == MaxProcs - 1
  <1>3. waited' = [p \in Pid |-> IF ~StaysReady(p) THEN 0
                                 ELSE waited[p] + charged]
    BY DEF HNext, Record, WaitInv
  <1>4. /\ waited \in [Pid -> Nat] /\ waited' \in [Pid -> Nat]
        /\ \A p \in Pid : state'[p] # "Ready" => waited'[p] = 0
        /\ \A p \in Pid : waited'[p] <= waited[p] + charged
        /\ \A p \in Pid : BecomesReady(p) => waited'[p] = 0
    BY <1>3 DEF WaitInv, StaysReady, BecomesReady
  <1>b. PICK s \in Nat : \E r, t \in 0..s :
            /\ Slice = s /\ Slice' = s /\ Rest = r /\ Rest' = t
            /\ ~DispatchNext => t + charged <= r
            /\ DispatchNext => r = 0 /\ ~CpuTickCharged
    BY <1>2, RestEffect
  <1>5. PICK r, t \in 0..s :
            /\ Slice = s /\ Slice' = s /\ Rest = r /\ Rest' = t
            /\ ~DispatchNext => t + charged <= r
            /\ DispatchNext => r = 0 /\ ~CpuTickCharged
    BY <1>b
  <1>6. /\ ready \in Seq(Pid) /\ ready' \in Seq(Pid) /\ UNCHANGED config
        /\ bound \in Int /\ MaxProcs \in Nat
    BY <1>2, BoundsAssumption, ConfigKept DEF Inv, TypeOK
  <1>7. /\ \A n \in Int : (n + 1) * s = n * s + s /\ n * s \in Int
        /\ \A m, n \in Int : m <= n => m * s <= n * s
    BY Products
  <1> HIDE DEF charged, bound, Pid
  <1> SUFFICES ASSUME config.policy = "RoundRobin", NEW i \in 1..Len(ready')
               PROVE  waited'[ready'[i]] + (i - 1) * s + t <= bound * s
    BY <1>4, <1>5, <1>6 DEF WaitInv, bound
  <1>8. \A j \in 1..Len(ready) :
            waited[ready[j]] + (j - 1) * s + r <= bound * s
    BY <1>5 DEF WaitInv, bound
  <1>9. charged \in 0..1
    BY DEF charged
  <1>a. i \in Int /\ bound * s \in Int /\ (i - 1) * s \in Int
    BY <1>6, <1>7
  <1>10. ASSUME i \in 1..Len(ready), ready'[i] = ready[i], ~DispatchNext
         PROVE  waited'[ready'[i]] + (i - 1) * s + t <= bound * s
    <2> DEFINE p == ready[i]
    <2>1. p \in Pid
      BY <1>6, <1>10, PlaceElement
    <2>2. waited[p] + (i - 1) * s + r <= bound * s
      BY <1>8, <1>10
    <2> HIDE DEF p
    <2>3. waited'[p] <= waited[p] + charged /\ waited[p] \in Nat /\ waited'[p] \in Nat
      BY <1>4, <2>1
    <2>4. t + charged <= r
      BY <1>5, <1>10
    <2> DEFINE a == (i - 1) * s
               b == bound * s
    <2>5. a \in Int /\ b \in Int /\ waited[p] + a + r <= b
      BY <1>a, <2>2
    <2> HIDE DEF a, b
    <2> DEFINE v == waited[p]
               w == waited'[p]
               c == charged
    <2>6. w + a + t <= b
      <3>1. w \in Int /\ v \in Int /\ c \in Int /\ w <= v + c
        BY <1>9, <2>3
      <3>2. t + c <= r /\ v + a + r <= b
        BY <2>4, <2>5
      <3> HIDE DEF v, w, c
      <3> QED BY <2>5, <3>1, <3>2
    <2>7. ready'[i] = p
      BY <1>10 DEF p
    <2> QED BY <2>6, <2>7, Zenon DEF a, b
  <1>11. CASE UNCHANGED ready /\ ~DispatchNext
    BY <1>10, <1>11
  <1>12. ASSUME NEW p \in Pid, BecomesReady(p), EnqueueReady(p), ~DispatchNext
         PROVE  waited'[ready'[i]] + (i - 1) * s + t <= bound * s
    <2>1. ready' = InsertAt(ready, Len(ready) + 1, p)
      BY <1>12 DEF EnqueueReady, IsSlot
    <2>2. Len(ready) + 1 \in 1..(Len(ready) + 1)
      BY <1>6
    <2>3. /\ Len(ready') = Len(ready) + 1
          /\ \A j \in 1..(Len(ready) + 1) :
                 ready'[j] = IF j < Len(ready) + 1 THEN ready[j]
                             ELSE IF j = Len(ready) + 1 THEN p ELSE ready[j-1]
      BY <1>6, <1>12, <2>1, <2>2, InsertAtPlaces
    <2>4. CASE i \in 1..Len(ready)
      BY <1>6, <1>10, <1>12, <2>3, <2>4
    <2>5. CASE i = Len(ready) + 1
      <3>1. waited'[ready'[i]] = 0
        BY <1>4, <1>6, <1>12, <2>3, <2>5
      <3>2. i + (IF current' = NoProc THEN 0 ELSE 1) <= MaxProcs
        <4>1. Len(ready') + (IF current' = NoProc THEN 0 ELSE 1) <= MaxProcs
          BY <1>2, RoomInNextQueue DEF Room
        <4> QED BY <2>3, <2>5, <4>1
      <3>3. CASE current' = NoProc
        <4>1. Rest' = 0
          BY <3>3 DEF Rest
        <4>2. t = 0
          BY <1>5, <4>1
        <4>3. i - 1 \in Int /\ i - 1 <= bound
          BY <1>6, <3>2, <3>3 DEF bound
        <4>4. (i - 1) * s <= bound * s
          BY <1>6, <1>7, <4>3
        <4> QED BY <1>a, <3>1, <4>2, <4>4
      <3>4. CASE current' # NoProc
        <4>1. i \in Int /\ i <= bound
          BY <1>6, <3>2, <3>4 DEF bound
        <4>2. i * s <= bound * s
          BY <1>6, <1>7, <4>1
        <4>3. i * s = (i - 1) * s + s
          <5>1. i - 1 \in Int /\ (i - 1) + 1 = i
            BY <1>a
          <5> QED BY <1>7, <5>1
        <4> QED BY <1>a, <3>1, <4>2, <4>3
      <3> QED BY <3>3, <3>4
    <2> QED BY <1>6, <2>3, <2>4, <2>5
  <1>13. ASSUME NEW k \in 1..Len(ready), DispatchNext, IsSelected(k),
                ready' = RemoveAt(ready, k)
         PROVE  waited'[ready'[i]] + (i - 1) * s + t <= bound * s
    <2>1. k = 1 /\ r = 0 /\ charged = 0
      BY <1>5, <1>13 DEF IsSelected, IsFront, charged
    <2>2. /\ Len(ready') = Len(ready) - 1
          /\ \A j \in 1..(Len(ready) - 1) :
                 ready'[j] = IF j < k THEN ready[j] ELSE ready[j+1]
      BY <1>6, <1>13, RemoveAtPlaces
    <2>3. ready'[i] = ready[i + 1] /\ i + 1 \in 1..Len(ready)
      BY <1>6, <2>1, <2>2
    <2> DEFINE p == ready[i + 1]
    <2>4. p \in Pid
      BY <1>6, <2>3, PlaceElement
    <2>5. waited[p] + ((i + 1) - 1) * s + r <= bound * s
      BY <1>8, <2>3
    <2> HIDE DEF p
    <2>6. waited'[p] <= waited[p] /\ waited[p] \in Nat /\ waited'[p] \in Nat
      BY <1>4, <2>1, <2>4
    <2>7. ((i + 1) - 1) * s = (i - 1) * s + s
      <3>1. i - 1 \in Int /\ (i - 1) + 1 = (i + 1) - 1
        BY <1>a
      <3> QED BY <1>7, <3>1
    <2>8. waited'[p] + (i - 1) * s + t <= bound * s
      <3>1. ASSUME NEW x \in Int, NEW b \in Int, waited[p] + (x + s) <= b
            PROVE  waited'[p] + x + t <= b
        BY <2>6, <3>1
      <3>2. waited[p] + ((i - 1) * s + s) <= bound * s
        <4>1. ASSUME NEW x \in Int, NEW b \in Int, waited[p] + x + r <= b
              PROVE  waited[p] + x <= b
          BY <2>1, <2>6, <4>1
        <4>2. (i - 1) * s + s \in Int
          BY <1>a
        <4> QED BY <1>a, <2>5, <2>7, <4>1, <4>2
      <3> QED BY <1>a, <3>1, <3>2
    <2> QED BY <2>3, <2>8 DEF p
  <1>14. CASE ~DispatchNext
    BY <1>2, <1>11, <1>12, <1>14, ReadyMoves
  <1>15. CASE DispatchNext
    <2>1. PICK k \in 1..Len(ready) : IsSelected(k) /\ ready' = RemoveAt(ready, k)
      BY <1>15 DEF DispatchNext
    <2> QED BY <1>13, <1>15, <2>1
  <1> QED BY <1>14, <1>15

\* Round Robin has bounded waiting, however many processes arrive, wake up or
\* block meanwhile: it takes no more than a slice of every other process.
THEOREM BoundedWaitingHolds ==
    ASSUME QuantumsCountDown PROVE HSpec => []BoundedWaiting
  <1>1. HInit => WaitInv
    BY DEF HInit, Init, WaitInv
  <1>2. Inv /\ SliceInv /\ WaitInv /\ [HNext]_hvars => WaitInv'
    BY NextWaitInv
  <1>3. ASSUME Inv, SliceInv, WaitInv PROVE BoundedWaiting
    <2> SUFFICES ASSUME config.policy = "RoundRobin", NEW p \in Pid
                 PROVE  waited[p] <= (MaxProcs - 1) * Slice
      BY DEF BoundedWaiting
    <2>1. PICK s \in Nat : s = Slice
      BY <1>3, SliceType
    <2>2. /\ MaxProcs - 1 \in Nat /\ waited[p] \in Nat
          /\ \A n \in Int : n * s \in Int
          /\ \A m, n \in Int : m <= n => m * s <= n * s
      BY <1>3, BoundsAssumption, Products DEF WaitInv
    <2>3. CASE state[p] # "Ready"
      <3>1. 0 * s <= (MaxProcs - 1) * s
        BY <2>2
      <3> QED BY <1>3, <2>1, <2>3, <3>1 DEF WaitInv
    <2>4. CASE state[p] = "Ready"
      <3>1. ready \in Seq(Pid) /\ p \in ToSet(ready)
        BY <1>3, <2>4 DEF Inv, TypeOK, Placement, ReadyQueueHoldsReady
      <3>2. PICK i \in 1..Len(ready) : p = ready[i]
        BY <3>1 DEF ToSet
      <3>3. PICK r \in 0..s : r = Rest
        <4>1. slice \in 0..s
          BY <1>3, <2>1 DEF SliceInv
        <4>2. 0 \in 0..s /\ s - slice \in 0..s
          BY <4>1
        <4> QED BY <2>1, <4>2 DEF Rest
      <3>4. waited[p] + (i - 1) * s + r <= (MaxProcs - 1) * s
        BY <1>3, <2>1, <3>2, <3>3 DEF WaitInv
      <3>5. i - 1 \in Int /\ MaxProcs - 1 \in Int /\ 0 <= i - 1
        BY <2>2, <3>1
      <3>6. /\ 0 * s <= (i - 1) * s /\ (i - 1) * s \in Int
            /\ (MaxProcs - 1) * s \in Int
        BY <2>2, <3>5
      <3>7. ASSUME NEW x \in Int, NEW b \in Int, 0 <= x, waited[p] + x + r <= b
            PROVE  waited[p] <= b
        BY <2>2, <3>7
      <3>8. waited[p] <= (MaxProcs - 1) * s
        BY <3>4, <3>6, <3>7
      <3> QED BY <2>1, <3>8
    <2> QED BY <2>3, <2>4
  <1>4. Inv /\ SliceInv /\ WaitInv => BoundedWaiting
    BY <1>3
  <1> QED BY <1>1, <1>2, <1>4, HistoryInv, SliceInvHolds, PTL DEF HSpec

-----------------------------------------------------------------------------
(* Completion.                                                             *)

\* From the handler of the last exit to its announcement the two differ.
EndInv ==
    /\ pc \in {"api", "wake", "done"} => announced = drained
    /\ pc = "complete" => drained = tick
    /\ pc = "dispatch" => IF event = "ProcessExit" /\ ~HasActiveProcesses
                          THEN drained = tick ELSE announced = drained

\* Only handleProcessExit can end the last active process.
LEMMA ActiveKept ==
    ASSUME Inv, Next, ~HandleProcessExit, HasActiveProcesses
    PROVE  HasActiveProcesses'
  <1> USE DEF Inv
  <1>1. PICK p \in Created : state[p] # "Terminated"
    BY DEF HasActiveProcesses
  <1>2. p \in Pid
    BY <1>1, CreatedPids
  <1>3. p \in Created'
    BY <1>1, NextIsDriven, OnlyForward
  <1>4. state'[p] # "Terminated"
    <2>1. state' # state => \E q, t : /\ Transition(q, t)
                                      /\ t \in StateTransition \ {"Exit"}
      BY DEF Next, UserStep, ClockStep, KernelStep, SubmitProgram, RunProgram,
            SetPriority, NotifyTick, Wake, ExecuteIdle, HandleSyscallBlock,
            HandleQuantumExpired, ContinueExecution, DispatchNext,
            DispatchNone, NotifySimulationComplete, NotifyTickCompleted,
            StateTransition
    <2>2. CASE state' = state
      BY <1>1, <2>2
    <2>3. ASSUME NEW q, NEW t \in StateTransition \ {"Exit"}, Transition(q, t)
          PROVE  state'[p] # "Terminated"
      <3>1. Target[t] # "Terminated"
        BY DEF StateTransition, Target
      <3> QED BY <1>1, <1>2, <2>3, <3>1 DEF Transition, TargetState, TypeOK
    <2> QED BY <2>1, <2>2, <2>3
  <1> QED BY <1>3, <1>4 DEF HasActiveProcesses

LEMMA NextEndInv ==
    ASSUME Inv, TickInv, EndInv, [HNext]_hvars
    PROVE  EndInv'
  <1> USE DEF Inv
  <1>1. CASE UNCHANGED hvars
    BY <1>1 DEF EndInv, HasActiveProcesses, Created, hvars, vars, historyVars
  <1> SUFFICES ASSUME HNext PROVE EndInv'
    BY <1>1
  <1>2. /\ Next
        /\ drained' = IF HasActiveProcesses /\ ~HasActiveProcesses' THEN tick
                      ELSE drained
        /\ announced' = IF pc = "complete" THEN tick ELSE announced
    BY DEF HNext, Record
  <1>3. ~HandleProcessExit => drained' = drained
    BY <1>2, ActiveKept
  <1>4. CASE UserStep \/ ClockStep
    <2>1. pc = "api" /\ pc' \in {"api", "wake"} /\ ~HandleProcessExit
      BY <1>4 DEF UserStep, SubmitProgram, RunProgram, SetPriority, ClockStep,
            NotifyTick, HandleProcessExit, ChargeTick
    <2> QED BY <1>2, <1>3, <2>1 DEF EndInv
  <1>5. CASE Wake \/ ContinueExecution
    <2>1. pc = "wake" /\ pc' \in {"wake", "done"} /\ ~HandleProcessExit
      BY <1>5 DEF Wake, ContinueExecution, HandleProcessExit, ChargeTick
    <2> QED BY <1>2, <1>3, <2>1 DEF EndInv
  <1>6. CASE ExecuteIdle \/ HandleSyscallBlock \/ HandleQuantumExpired
    <2>1. /\ pc = "wake" /\ pc' = "dispatch" /\ event' # "ProcessExit"
          /\ ~HandleProcessExit
      BY <1>6 DEF ExecuteIdle, HandleSyscallBlock, HandleQuantumExpired,
            HandleProcessExit, ChargeTick, Raise
    <2> QED BY <1>2, <1>3, <2>1 DEF EndInv
  <1>7. CASE HandleProcessExit
    <2>1. /\ pc = "wake" /\ pc' = "dispatch" /\ event' = "ProcessExit"
          /\ UNCHANGED tick /\ current \in Pid
      BY <1>7 DEF HandleProcessExit, ChargeTick, Raise, TypeOK
    <2>2. HasActiveProcesses
      <3>1. state[current] = "Running"
        BY <2>1 DEF Placement, CpuHoldsRunning
      <3>2. current \in Created
        BY <2>1, <3>1 DEF Placement, NewUntilCreated
      <3> QED BY <3>1, <3>2 DEF HasActiveProcesses
    <2> QED BY <1>2, <2>1, <2>2 DEF EndInv
  <1>8. CASE DispatchNext
    <2>1. PICK i \in 1..Len(ready) : ready[i] = current'
      BY <1>8 DEF DispatchNext, LoadProcess
    <2>2. ready[i] \in Pid /\ ready[i] \in ToSet(ready)
      BY <2>1, PlaceElement DEF TypeOK
    <2>3. HasActiveProcesses
      <3>1. state[ready[i]] = "Ready"
        BY <2>2 DEF Placement, ReadyQueueHoldsReady
      <3>2. ready[i] \in Created
        BY <2>2, <3>1 DEF Placement, NewUntilCreated
      <3> QED BY <3>1, <3>2 DEF HasActiveProcesses
    <2>4. pc = "dispatch" /\ pc' = "done" /\ ~HandleProcessExit
      BY <1>8, <2>3 DEF DispatchNext, AfterDispatch, HandleProcessExit, ChargeTick
    <2> QED BY <1>2, <1>3, <2>3, <2>4 DEF EndInv
  <1>9. CASE DispatchNone
    <2>1. /\ pc = "dispatch" /\ pc' = AfterDispatch /\ UNCHANGED tick
          /\ ~HandleProcessExit
      BY <1>9 DEF DispatchNone, HandleProcessExit, ChargeTick
    <2> QED BY <1>2, <1>3, <2>1 DEF EndInv, AfterDispatch
  <1>10. CASE NotifySimulationComplete
    <2>1. pc = "complete" /\ pc' = "done" /\ ~HandleProcessExit
      BY <1>10 DEF NotifySimulationComplete, HandleProcessExit, ChargeTick
    <2> QED BY <1>2, <1>3, <2>1 DEF EndInv
  <1>11. CASE NotifyTickCompleted
    <2>1. pc = "done" /\ pc' = "api" /\ ~HandleProcessExit
      BY <1>11 DEF NotifyTickCompleted, HandleProcessExit, ChargeTick
    <2> QED BY <1>2, <1>3, <2>1 DEF EndInv
  <1> QED BY <1>2, <1>4, <1>5, <1>6, <1>7, <1>8, <1>9, <1>10, <1>11
          DEF Next, KernelStep

\* The end of the simulation is announced in the tick that brings it about,
\* once each time, also when programs are run after it.
THEOREM CompletionAnnouncedHolds == HSpec => []CompletionAnnounced
  <1>1. HInit => EndInv
    BY DEF HInit, Init, EndInv
  <1>2. Inv /\ TickInv /\ EndInv /\ [HNext]_hvars => EndInv'
    BY NextEndInv
  <1>3. EndInv => CompletionAnnounced
    BY DEF EndInv, CompletionAnnounced
  <1> QED BY <1>1, <1>2, <1>3, HistoryInv, PTL DEF HSpec

=============================================================================
