--------------------------- MODULE SamplePrograms ---------------------------
(***************************************************************************)
(* core/program_metadata.hpp with core/syscall_profile.hpp, and the three  *)
(* sample programs app/cli/main.cpp submits; the dialog of the GUI offers  *)
(* programs of the same names.                                             *)
(***************************************************************************)
EXTENDS Integers, Sequences

Syscall(type, duration) == [type |-> type, duration |-> duration]

NoSyscalls == <<>>

\* Inserts into the map, which leaves an entry that is there.
AddSyscall_KeepsFirst(calls, at_tick, syscall) ==
    [t \in DOMAIN calls \cup {at_tick} |->
        IF t \in DOMAIN calls THEN calls[t] ELSE syscall]

\* SyscallProfile::addSyscall assigns to the map's entry.
AddSyscall(calls, at_tick, syscall) ==
    [t \in DOMAIN calls \cup {at_tick} |->
        IF t = at_tick THEN syscall ELSE calls[t]]

DemoPrograms == <<
    [name |-> "Calculator", cpu |-> 5, memory |-> 64, devices |-> 0,
     calls |-> NoSyscalls],
    [name |-> "FileReader", cpu |-> 8, memory |-> 128, devices |-> 1,
     calls |-> AddSyscall(NoSyscalls, 3, Syscall("IoRead", 4))],
    [name |-> "WebServer", cpu |-> 12, memory |-> 256, devices |-> 2,
     calls |-> AddSyscall(AddSyscall(NoSyscalls, 4, Syscall("IoRead", 3)),
                          9, Syscall("IoWrite", 2))] >>

\* What the kernel acts on: the CPU time and the duration of each call, which
\* SyscallHandler passes on whatever the call's type.
Runnable(m) == [cpu |-> m.cpu,
                calls |-> [t \in DOMAIN m.calls |-> m.calls[t].duration]]

=============================================================================
