---------------------------- MODULE MCGanttModel ----------------------------
(* Constant values for model checking GanttModel.                          *)
EXTENDS GanttModel

\* A program with a short and a long call, and one that only computes.
MCPrograms == {[cpu |-> 3, calls |-> <<1, 3>>],
               [cpu |-> 3, calls |-> <<>>]}

MCConfigs == {[policy |-> "FCFS", quantum |-> 1],
              [policy |-> "RoundRobin", quantum |-> 2]}

=============================================================================
