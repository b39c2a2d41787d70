------------------------------ MODULE MCKernel ------------------------------
(* Constant values for model checking KernelHistory, and with it Kernel.   *)
EXTENDS KernelHistory

\* A program that computes for longer than two quanta, and one that blocks in
\* the middle of its work and again on its last tick.
MCPrograms == {[cpu |-> 3, calls |-> <<>>],
               [cpu |-> 2, calls |-> <<2, 1>>]}

MCConfigs == {[policy |-> "FCFS", quantum |-> 1],
              [policy |-> "RoundRobin", quantum |-> 0],
              [policy |-> "RoundRobin", quantum |-> 2],
              [policy |-> "Priority", quantum |-> 1]}

PriorityConfig == {[policy |-> "Priority", quantum |-> 1]}

=============================================================================
