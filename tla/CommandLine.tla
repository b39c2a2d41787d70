----------------------------- MODULE CommandLine -----------------------------
(***************************************************************************)
(* app/cli/main.cpp: the program that reads its flags, submits and runs    *)
(* the sample programs, calls SimulationEngine::run once and prints what   *)
(* became of them.  The module has two kinds of behaviour: the program     *)
(* `visos_cli`, and a library caller that uses the engine freely.          *)
(*                                                                         *)
(* Until the kernel is built, config holds main's variables policy and     *)
(* quantum.  --quiet and the printing leave no trace in the model.         *)
(***************************************************************************)
EXTENDS SimulationEngine, SamplePrograms

CONSTANTS
    ArgLists,     \* the argument lists, sequences of strings
    Numerals,     \* the strings std::stoi accepts, each with its value
    LibraryProcs  \* bound: the programs and processes of a library caller

ASSUME CommandLineAssumption == /\ \A s \in DOMAIN Numerals :
                                       Numerals[s] \in IntMin..IntMax
                                /\ LibraryProcs \in Nat

VARIABLES
    main,  \* where main() stands, or "library" if there is none
    args   \* the arguments main() has yet to read

cvars == <<evars, main, args>>

DefaultConfig == [policy |-> "RoundRobin", quantum |-> 4]

CInit == /\ EInit
         /\ \/ main = "library" /\ args = <<>>
            \/ /\ main = "flags"
               /\ args \in ArgLists
               /\ config = DefaultConfig
               /\ max_ticks = 200

-----------------------------------------------------------------------------
(* The flags.                                                              *)

ParsePolicy(s) == CASE s = "fcfs"     -> "FCFS"
                    [] s = "rr"       -> "RoundRobin"
                    [] s = "priority" -> "Priority"
                    [] OTHER          -> "RoundRobin"

\* The next argument is flag, and one follows that can be its value.
HasValue(flag) == args[1] = flag /\ Len(args) > 1

AtFlag == main = "flags" /\ args # <<>>

ReadPolicy == /\ AtFlag
              /\ HasValue("--policy")
              /\ config' = [config EXCEPT !.policy = ParsePolicy(args[2])]
              /\ args' = SubSeq(args, 3, Len(args))
              /\ UNCHANGED main

ReadQuantum == /\ AtFlag
               /\ HasValue("--quantum")
               /\ args[2] \in DOMAIN Numerals
               /\ config' = [config EXCEPT !.quantum = Numerals[args[2]]]
               /\ args' = SubSeq(args, 3, Len(args))
               /\ UNCHANGED main

\* std::stoi throws and nobody catches it.
ReadBadQuantum == /\ AtFlag
                  /\ HasValue("--quantum")
                  /\ args[2] \notin DOMAIN Numerals
                  /\ main' = "aborted"
                  /\ UNCHANGED <<config, args>>

ReadHelp == /\ AtFlag
            /\ args[1] = "--help"
            /\ main' = "helped"
            /\ UNCHANGED <<config, args>>

\* --quiet, a flag without its value, and anything else.
ReadOther == /\ AtFlag
             /\ args[1] # "--help"
             /\ ~HasValue("--policy") /\ ~HasValue("--quantum")
             /\ args' = Tail(args)
             /\ UNCHANGED <<config, main>>

\* All variables but those the flags set.
otherVars == <<program_store, next_pid, process_metadata, priority, state, used,
               ready, blocked, waking, cpuVars, tick, pc, event, engineVars>>

ParseFlags == /\ ReadPolicy \/ ReadQuantum \/ ReadBadQuantum \/ ReadHelp \/ ReadOther
              /\ UNCHANGED otherVars

-----------------------------------------------------------------------------
(* The simulation.                                                         *)

MakeKernel == /\ main = "flags"
              /\ args = <<>>
              /\ main' = "submit"
              /\ UNCHANGED <<evars, args>>

SubmitDemo == /\ main = "submit"
              /\ Len(program_store) < Len(DemoPrograms)
              /\ SubmitProgram(Runnable(DemoPrograms[Len(program_store) + 1]))
              /\ UNCHANGED <<engineVars, main, args>>

RunDemo == /\ main = "submit"
           /\ Len(program_store) = Len(DemoPrograms)
           /\ next_pid <= Len(program_store)
           /\ RunProgram(next_pid)
           /\ UNCHANGED <<engineVars, main, args>>

CallRun == /\ main = "submit"
           /\ next_pid > Len(DemoPrograms)
           /\ BeginRun
           /\ main' = "run"
           /\ UNCHANGED args

\* The run() of main(); no observer stops it.
InRun == /\ main = "run"
         /\ KernelRuns \/ Loop
         /\ UNCHANGED <<main, args>>

PrintSummary == /\ main = "run"
                /\ engine = "idle"
                /\ main' = "returned"
                /\ UNCHANGED <<evars, args>>

MainStep == \/ ParseFlags \/ MakeKernel \/ SubmitDemo \/ RunDemo \/ CallRun
            \/ InRun \/ PrintSummary

Library == /\ main = "library"
           /\ ENext
           /\ Len(program_store') <= LibraryProcs
           /\ next_pid' <= LibraryProcs + 1
           /\ UNCHANGED <<main, args>>

CNext == MainStep \/ Library

\* main() is one thread that goes on, and so is the thread inside a run().
CSpec == CInit /\ [][CNext]_cvars /\ Fairness /\ WF_cvars(MainStep)

-----------------------------------------------------------------------------

Finished(p, m) == state[p] = "Terminated" /\ used[p] = m.cpu

\* Whatever the flags, visos_cli ends, and once it has submitted its programs
\* it prints a summary in which each of them has ended with the CPU time the
\* program asked for, within the 200 ticks main() allows.
DemoFinishes ==
    main = "submit" ~> /\ main = "returned"
                       /\ \A p \in DOMAIN DemoPrograms : Finished(p, DemoPrograms[p])

\* The readme's sample output of a run with Round Robin and a quantum of 4, the
\* default (README.md:577): "Total ticks: 30".
DefaultRunTakes30Ticks == main = "returned" /\ config = DefaultConfig => tick = 30

=============================================================================
