----------------------------- MODULE WakeupSet -----------------------------
(***************************************************************************)
(* What Kernel relies on from the blocked queue, and how it uses it: the   *)
(* queue holds each process at most once, with its wakeup tick, and gives  *)
(* back, once each and in some order, exactly those whose wakeup the clock *)
(* has reached; the kernel has walked through these before it adds the     *)
(* next.  BlockedQueue implements this set, Kernel lives by it.            *)
(***************************************************************************)
EXTENDS Integers, SequencesExt

CONSTANTS Procs, Tick

VARIABLES held,       \* a set of [pid, wakeup]
          completed,  \* what is left of what getCompleted returned
          clock       \* the tick that getCompleted was called for

wvars == <<held, completed, clock>>

Init == held = {} /\ completed = <<>> /\ clock = 0

Add(e) == /\ e \in [pid : Procs, wakeup : Tick]
          /\ \A f \in held : f.pid # e.pid
          /\ held' = held \cup {e}
          /\ completed' = <<>>
          /\ clock' = clock

GetCompleted ==
    LET due == {e \in held : e.wakeup <= clock'}
    IN  /\ clock' > clock
        /\ held' = held \ due
        /\ completed' \in SetToSeqs({e.pid : e \in due})

\* The caller goes on to the next of those it was given.
WalkOn == /\ completed # <<>>
          /\ completed' = Tail(completed)
          /\ UNCHANGED <<held, clock>>

Next == \/ \E e \in held' : Add(e)
        \/ GetCompleted
        \/ WalkOn

Spec == Init /\ [][Next]_wvars

=============================================================================
