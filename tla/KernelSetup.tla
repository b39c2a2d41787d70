---------------------------- MODULE KernelSetup ----------------------------
(***************************************************************************)
(* The new kernel MainWindow builds on Reset and Restart, for the modules  *)
(* that follow what the window shows of it.                                *)
(***************************************************************************)
EXTENDS Kernel

\* A new kernel with configuration c after its first programs were submitted
\* and run; with equal priorities each policy queues them in order.
SetupKernel(c, programs) ==
    LET n == Len(programs) IN
    /\ config' = c
    /\ program_store' = programs
    /\ next_pid' = n + 1
    /\ process_metadata' =
           [p \in Pid |-> IF p <= n THEN programs[p] ELSE NoProgram]
    /\ state' = [p \in Pid |-> IF p <= n THEN "Ready" ELSE "New"]
    /\ ready' = [i \in 1..n |-> i]
    /\ priority' = [p \in Pid |-> 0]
    /\ used' = [p \in Pid |-> 0]
    /\ blocked' = {}
    /\ waking' = <<>>
    /\ current' = NoProc
    /\ quantum' = 0
    /\ tick' = 0
    /\ pc' = "api"
    /\ event' = "none"

=============================================================================
