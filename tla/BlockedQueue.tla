---------------------------- MODULE BlockedQueue ----------------------------
(***************************************************************************)
(* services/blocked_queue.cpp: a vector of entries, from which             *)
(* getCompleted takes those that are due with std::partition.  The library *)
(* does not say in which order std::partition leaves the elements; the     *)
(* steps below are those of the usual implementation for a vector (two     *)
(* iterators that close in on each other and swap what each of them stops  *)
(* at), which libstdc++ and libc++ share.                                  *)
(***************************************************************************)
EXTENDS Integers, Sequences, FiniteSets, SequencesExt

CONSTANTS Procs,      \* the processes
          Durations,  \* the durations of their calls
          MaxTick     \* bound: the clock

ASSUME QueueAssumption == /\ Durations \subseteq Nat \ {0}
                          /\ IsFiniteSet(Durations)
                          /\ MaxTick \in Nat

Tick == 0..(MaxTick + Max(Durations))

VARIABLES entries,    \* entries_: a sequence of [pid, wakeup]
          completed,  \* the vector the last getCompleted returned
          first,      \* the place std::partition's first iterator points at
          last,       \* the place its second one points at, one past the range
          tick,       \* the current_tick of the kernel
          pc,         \* "idle", or where std::partition stands
          added       \* history: the held processes in the order of their add

vars == <<entries, completed, first, last, tick, pc, added>>

Init == /\ entries = <<>>
        /\ completed = <<>>
        /\ first = 1 /\ last = 1
        /\ tick = 0
        /\ pc = "idle"
        /\ added = <<>>

Held == {entries[i].pid : i \in DOMAIN entries}

Add(p, wakeup) ==
    /\ pc = "idle"
    /\ p \notin Held
    /\ entries' = Append(entries, [pid |-> p, wakeup |-> wakeup])
    /\ completed' = <<>>
    /\ added' = Append(added, p)
    /\ UNCHANGED <<first, last, tick, pc>>

IsPending_OneLate(e) == e.wakeup >= tick

\* The predicate of the partition: the entry stays.
IsPending(e) == e.wakeup > tick

\* The second iterator starts one place too far.
GetCompleted_PastEnd ==
    /\ pc = "idle"
    /\ tick < MaxTick
    /\ tick' = tick + 1
    /\ first' = 1
    /\ last' = Len(entries) + 2
    /\ pc' = "up"
    /\ UNCHANGED <<entries, completed, added>>

GetCompleted ==
    /\ pc = "idle"
    /\ tick < MaxTick
    /\ tick' = tick + 1
    /\ first' = 1
    /\ last' = Len(entries) + 1
    /\ pc' = "up"
    /\ UNCHANGED <<entries, completed, added>>

\* The first iterator skips the entries that stay.
ScanUp ==
    /\ pc = "up"
    /\ first # last
    /\ IF IsPending(entries[first])
       THEN first' = first + 1 /\ UNCHANGED <<last, pc>>
       ELSE last' = last - 1 /\ pc' = "down" /\ UNCHANGED first
    /\ UNCHANGED <<entries, completed, tick, added>>

\* The second one skips those that go; the two entries then change places.
ScanDown ==
    /\ pc = "down"
    /\ first # last
    /\ IF IsPending(entries[last])
       THEN /\ entries' = [entries EXCEPT ![first] = entries[last],
                                          ![last] = entries[first]]
            /\ first' = first + 1
            /\ pc' = "up"
            /\ UNCHANGED last
       ELSE last' = last - 1 /\ UNCHANGED <<entries, first, pc>>
    /\ UNCHANGED <<completed, tick, added>>

\* The entries from first on are moved out and erased.
Take ==
    /\ pc # "idle"
    /\ first = last
    /\ LET out == SubSeq(entries, first, Len(entries))
       IN  completed' = [i \in DOMAIN out |-> out[i].pid]
    /\ entries' = SubSeq(entries, 1, first - 1)
    /\ added' = SelectSeq(added, LAMBDA p : \E i \in DOMAIN entries' :
                                                entries'[i].pid = p)
    /\ pc' = "idle"
    /\ UNCHANGED <<first, last, tick>>

Next == \/ \E p \in Procs, d \in Durations : Add(p, tick + d)
        \/ GetCompleted
        \/ ScanUp
        \/ ScanDown
        \/ Take

Spec == Init /\ [][Next]_vars

-----------------------------------------------------------------------------

TypeOK == /\ entries \in Seq([pid : Procs, wakeup : Nat])
          /\ completed \in Seq(Procs)
          /\ first \in 1..(Len(entries) + 1)
          /\ last \in 1..(Len(entries) + 1)
          /\ first <= last \/ pc = "idle"
          /\ tick \in 0..MaxTick
          /\ pc \in {"idle", "up", "down"}

\* The vector implements the set of sleepers that Kernel works with; the call
\* counts as made when std::partition and the erase are done.
Sleepers == INSTANCE WakeupSet
                WITH held <- ToSet(entries),
                     clock <- IF pc = "idle" THEN tick ELSE tick - 1
SleepersSpec == Sleepers!Spec

\* The readme on determinism (README.md:169): getCompleted "uses
\* `std::partition`, which preserves relative order of non-completed elements".
PendingKeepOrder ==
    pc = "idle" => [i \in DOMAIN entries |-> entries[i].pid] = added

=============================================================================
