-------------------------------- MODULE Pcb --------------------------------
(***************************************************************************)
(* The life cycle a process control block enforces: the states of          *)
(* core/process_state.hpp, the triggers of core/process_control_block.hpp  *)
(* and the two constexpr tables that ProcessControlBlock::applyTransition  *)
(* consults before it assigns state_.                                      *)
(***************************************************************************)

ProcessState == {"New", "Ready", "Running", "Blocked", "Terminated"}

StateTransition == {"Admit", "Dispatch", "QuantumExpired",
                    "BlockingSyscall", "IoComplete", "Exit"}

\* The state a trigger may be applied from.
Source == [Admit           |-> "New",
           Dispatch        |-> "Ready",
           QuantumExpired  |-> "Running",
           BlockingSyscall |-> "Running",
           IoComplete      |-> "Blocked",
           Exit            |-> "Running"]

IsValidTransition(from, t) == from = Source[t]

\* The state a trigger leads to.
Target == [Admit           |-> "Ready",
           Dispatch        |-> "Running",
           QuantumExpired  |-> "Ready",
           BlockingSyscall |-> "Blocked",
           IoComplete      |-> "Ready",
           Exit            |-> "Terminated"]

TargetState(t) == Target[t]

=============================================================================
