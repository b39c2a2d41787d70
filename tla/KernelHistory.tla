--------------------------- MODULE KernelHistory ---------------------------
(***************************************************************************)
(* Kernel with history variables, for the promises that relate a dispatch  *)
(* to what happened before it.  The history follows the kernel's variables *)
(* and never constrains them.                                              *)
(***************************************************************************)
EXTENDS Kernel

VARIABLES
    arrivals,   \* the ready processes, in the order in which they became ready
    waited,     \* per ready process, the CPU ticks others had since it did
    slice,      \* the CPU ticks of the running process since its dispatch
    stirred,    \* setPriority changed a process of the present ready queue
    drained,    \* the last tick that ended the last active process, or 0
    announced   \* the last tick that called onSimulationComplete, or 0

historyVars == <<arrivals, waited, slice, stirred, drained, announced>>
hvars == <<vars, historyVars>>

HInit == /\ Init
         /\ arrivals = <<>>
         /\ waited = [p \in Pid |-> 0]
         /\ slice = 0
         /\ stirred = FALSE
         /\ drained = 0
         /\ announced = 0

BecomesReady(p) == state[p] # "Ready" /\ state'[p] = "Ready"

StaysReady(p) == state[p] = "Ready" /\ state'[p] = "Ready"

\* A process that becomes ready takes the last place, one that no longer is
\* gives up its own.  A step changes the state of at most one process.
RecordArrival ==
    \/ \E p \in Pid : BecomesReady(p) /\ arrivals' = Append(arrivals, p)
    \/ \E i \in DOMAIN arrivals : /\ ~StaysReady(arrivals[i])
                                  /\ arrivals' = RemoveAt(arrivals, i)
    \/ /\ \A p \in Pid : ~BecomesReady(p)
       /\ \A i \in DOMAIN arrivals : StaysReady(arrivals[i])
       /\ UNCHANGED arrivals

CpuTickCharged == used' # used

Record ==
    /\ RecordArrival
    /\ waited' = [p \in Pid |-> IF ~StaysReady(p) THEN 0
                                ELSE IF CpuTickCharged THEN waited[p] + 1
                                ELSE waited[p]]
    /\ slice' = IF current = NoProc THEN 0
                ELSE IF CpuTickCharged THEN slice + 1 ELSE slice
    /\ stirred' = /\ ready' # <<>>
                  /\ \/ stirred
                     \/ \E p \in ToSet(ready) : priority'[p] # priority[p]
    /\ drained' = IF HasActiveProcesses /\ ~HasActiveProcesses' THEN tick
                  ELSE drained
    /\ announced' = IF pc = "complete" THEN tick ELSE announced

HNext == Next /\ Record

HSpec == HInit /\ [][HNext]_hvars

-----------------------------------------------------------------------------

\* The ticks a dispatch grants: a quantum below one still grants one tick.
Slice == IF DefaultQuantum < 1 THEN 1 ELSE DefaultQuantum

\* Round Robin has bounded waiting: a ready process gets the CPU after at most
\* one slice of every other process, whoever arrives, wakes up or blocks.
BoundedWaiting ==
    config.policy = "RoundRobin" =>
        \A p \in Pid : waited[p] <= (MaxProcs - 1) * Slice

\* A process is preempted exactly when it has used up the slice of its last
\* dispatch, and no process keeps the CPU for longer.
SliceIsHonoured ==
    /\ slice <= Slice
    /\ event = "QuantumExpired" /\ pc = "dispatch" => slice = Slice

\* The ready process at place j of arrivals is served before an earlier one
\* that has the same claim to the CPU.
Overtakes(j) == \E i \in 1..(j-1) :
                    \/ config.policy # "Priority"
                    \/ priority[arrivals[i]] = priority[arrivals[j]]

\* Processes are served in the order in which they became ready, whatever is
\* done to their priorities; under the Priority policy, those of equal priority
\* are, as long as no priority is changed while it orders the queue.
ServedInOrder ==
    [][DispatchNext /\ (config.policy = "Priority" => ~stirred) =>
          \A j \in DOMAIN arrivals : arrivals[j] = current' => ~Overtakes(j)]_hvars

\* The readme on the Priority policy (README.md:117): "If priorities are
\* equal, FCFS order is used as a tiebreaker."
PriorityTiesAreFcfs ==
    [][DispatchNext /\ config.policy = "Priority" =>
          \A j \in DOMAIN arrivals : arrivals[j] = current' => ~Overtakes(j)]_hvars

\* A tick announces the completion of the simulation exactly when it ended
\* the last active process, also when programs run after a completion.
CompletionAnnounced == pc = "api" => announced = drained

=============================================================================
