---------------------------- MODULE MCCommandLine ----------------------------
(* Constant values for model checking CommandLine.                         *)
EXTENDS CommandLine

\* A program that never blocks and one that blocks twice, for longer than the
\* other one runs; together they need fewer than SafeMaxTicks ticks.
MCPrograms == {[cpu |-> 2, calls |-> <<>>],
               [cpu |-> 2, calls |-> <<3, 1>>]}

\* The default configuration of the command line among them.
MCConfigs == [policy : Policies, quantum : {1}] \cup {DefaultConfig}

\* The smallest int is one a user can pass; std::stoi stops at the first
\* character that is no digit.
MCNumerals == [s \in {"1", "0", "4x", "-2147483648"} |->
                  CASE s = "1"  -> 1
                    [] s = "0"  -> 0
                    [] s = "4x" -> 4
                    [] OTHER    -> IntMin]

\* Every list of up to three of these, and both flags with each of their values.
Words == {"--help", "--policy", "--quantum", "--quiet", "fcfs", "1", "x"}

MCArgLists ==
    BoundedSeq(Words, 3) \cup
    {<<"--policy", p, "--quantum", q>> :
        p \in {"fcfs", "rr", "priority"}, q \in DOMAIN MCNumerals \cup {"x"}}

=============================================================================
