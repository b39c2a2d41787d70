---------------------------- MODULE MCMainWindow ----------------------------
(* Constant values for model checking MainWindow.                          *)
EXTENDS MainWindow

\* A program that only computes and one that blocks.
MCPrograms == {[cpu |-> 1, calls |-> <<>>],
               [cpu |-> 2, calls |-> <<2>>]}

\* The window starts with Round Robin and a quantum of 4.
MCConfigs == {[policy |-> "RoundRobin", quantum |-> 4],
              [policy |-> "RoundRobin", quantum |-> 1],
              [policy |-> "FCFS", quantum |-> 4],
              [policy |-> "Priority", quantum |-> 4]}

=============================================================================
