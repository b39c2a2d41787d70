-------------------------- MODULE ProcessLifecycle --------------------------
(***************************************************************************)
(* What the kernel promises each process, whatever the policy, the quantum *)
(* and the other processes do.  There is one CPU; a process that holds it  *)
(* is charged one unit of CPU time per tick; its program alone decides at  *)
(* which of these ticks it blocks and at which it ends; and a process that *)
(* ended stays ended.  The states are those of core/process_state.hpp.     *)
(***************************************************************************)
EXTENDS Integers

CONSTANTS Pid,       \* the processes there may ever be
          Programs   \* their programs: [cpu, calls]

VARIABLES program,   \* the program each process was created from
          state,     \* its ProcessState
          used       \* the CPU time charged to it

vars == <<program, state, used>>

\* A tick of CPU time at which a process running m makes a blocking call.
Blocks(m, u) == u \in DOMAIN m.calls

\* One at which it ends: a call takes precedence over the end of the work.
Ends(m, u) == u >= m.cpu /\ ~Blocks(m, u)

\* Where a tick of CPU time may leave a running process.
Outcomes(m, u) == IF Blocks(m, u) THEN {"Blocked"}
                  ELSE IF Ends(m, u) THEN {"Terminated"}
                  ELSE {"Running", "Ready"}

Init == /\ program \in [Pid -> {[cpu |-> 0, calls |-> <<>>]}]
        /\ state = [p \in Pid |-> "New"]
        /\ used = [p \in Pid |-> 0]

Admit(p, m) == /\ state[p] = "New"
               /\ state' = [state EXCEPT ![p] = "Ready"]
               /\ program' = [program EXCEPT ![p] = m]
               /\ used' = used

Dispatch(p) == /\ state[p] = "Ready"
               /\ \A q \in Pid : state[q] # "Running"
               /\ state' = [state EXCEPT ![p] = "Running"]
               /\ UNCHANGED <<program, used>>

Work(p) == /\ state[p] = "Running"
           /\ used' = [used EXCEPT ![p] = @ + 1]
           /\ \E s \in Outcomes(program[p], used[p] + 1) :
                  state' = [state EXCEPT ![p] = s]
           /\ program' = program

IoComplete(p) == /\ state[p] = "Blocked"
                 /\ state' = [state EXCEPT ![p] = "Ready"]
                 /\ UNCHANGED <<program, used>>

Next == \E p \in Pid : \/ \E m \in Programs : Admit(p, m)
                       \/ Dispatch(p)
                       \/ Work(p)
                       \/ IoComplete(p)

Spec == Init /\ [][Next]_vars

=============================================================================
