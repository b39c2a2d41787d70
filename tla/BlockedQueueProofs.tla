------------------------- MODULE BlockedQueueProofs -------------------------
(***************************************************************************)
(* Proofs about BlockedQueue, for every set of processes, all durations    *)
(* and every clock: std::partition leaves the entries that are pending in  *)
(* front of those that are due and loses none of them, so that the vector  *)
(* implements the set of sleepers that Kernel works with.                  *)
(***************************************************************************)
EXTENDS BlockedQueue, DataLemmas

Entry == [pid : Procs, wakeup : Nat]

\* While the iterators move, everything before the first one stays and everything
\* from the second one on, or beyond it, goes.
Partitioned ==
    pc # "idle" =>
        /\ \A i \in 1..(first - 1) : IsPending(entries[i])
        /\ \A i \in DOMAIN entries :
               i > last \/ (i = last /\ pc = "up") => ~IsPending(entries[i])

\* No process is held twice.
HeldOnce == \A i, j \in DOMAIN entries : entries[i].pid = entries[j].pid => i = j

\* While the second iterator moves down, the entry that the first one stopped
\* at is due, and the second one points at an entry.
StoppedAtDue == pc = "down" => /\ last \in DOMAIN entries
                               /\ ~IsPending(entries[first])

QueueInv == TypeOK /\ HeldOnce /\ Partitioned /\ StoppedAtDue

\* Where the iterators point.
LEMMA Places ==
    ASSUME TypeOK, pc # "idle"
    PROVE  /\ DOMAIN entries = 1..Len(entries) /\ Len(entries) \in Nat
           /\ first \in Nat /\ first >= 1 /\ first <= last
           /\ last \in Nat /\ last <= Len(entries) + 1
           /\ first # last => first \in DOMAIN entries
  BY DEF TypeOK

\* The exchange of two entries.
Swapped(s, i, j) == [s EXCEPT ![i] = s[j], ![j] = s[i]]

LEMMA SwapPlaces ==
    ASSUME NEW S, NEW s \in Seq(S), NEW i \in DOMAIN s, NEW j \in DOMAIN s
    PROVE  /\ Swapped(s, i, j) \in Seq(S) /\ Len(Swapped(s, i, j)) = Len(s)
           /\ DOMAIN Swapped(s, i, j) = DOMAIN s
           /\ ToSet(Swapped(s, i, j)) = ToSet(s)
           /\ Swapped(s, i, j)[i] = s[j] /\ Swapped(s, i, j)[j] = s[i]
           /\ \A k \in DOMAIN s \ {i, j} : Swapped(s, i, j)[k] = s[k]
  <1> DEFINE t == Swapped(s, i, j)
  <1>1. /\ DOMAIN t = DOMAIN s
        /\ t[i] = s[j] /\ t[j] = s[i] /\ \A k \in DOMAIN s \ {i, j} : t[k] = s[k]
    BY DEF Swapped
  <1>2. DOMAIN s = 1..Len(s) /\ Len(s) \in Nat /\ \A k \in DOMAIN s : s[k] \in S
    OBVIOUS
  <1>3. t = [k \in 1..Len(s) |-> t[k]]
    BY <1>1, <1>2 DEF Swapped
  <1> HIDE DEF t
  <1>4. t \in Seq(S) /\ Len(t) = Len(s)
    <2>1. \A k \in 1..Len(s) : t[k] \in S
      BY <1>1, <1>2
    <2> QED BY <1>2, <1>3, <2>1
  <1>5. ToSet(t) = ToSet(s)
    BY <1>1 DEF ToSet
  <1> QED BY <1>1, <1>4, <1>5 DEF t

LEMMA AddInv ==
    ASSUME QueueInv, NEW p \in Procs, NEW d \in Durations, Add(p, tick + d)
    PROVE  QueueInv'
  <1> DEFINE e == [pid |-> p, wakeup |-> tick + d]
             n == Len(entries)
  <1>1. /\ pc = "idle" /\ p \notin Held /\ entries' = Append(entries, e)
        /\ completed' = <<>> /\ UNCHANGED <<first, last, tick, pc>>
    BY DEF Add
  <1>2. e \in Entry /\ e.pid = p
    BY QueueAssumption DEF Entry, QueueInv, TypeOK
  <1>3. entries \in Seq(Entry) /\ n \in Nat /\ DOMAIN entries = 1..n
    BY DEF QueueInv, TypeOK, Entry
  <1> HIDE DEF e, n
  <1>4. /\ entries' \in Seq(Entry) /\ Len(entries') = n + 1
        /\ DOMAIN entries' = 1..(n + 1) /\ entries'[n + 1] = e
        /\ \A i \in 1..n : entries'[i] = entries[i]
    BY <1>1, <1>2, <1>3 DEF n
  <1>5. TypeOK'
    BY <1>1, <1>3, <1>4 DEF QueueInv, TypeOK, Entry, n
  <1>6. \A i \in 1..n : entries[i].pid # p
    BY <1>1, <1>3 DEF Held
  <1>7. HeldOnce'
    <2>1. \A i, j \in 1..n : entries[i].pid = entries[j].pid => i = j
      BY <1>3 DEF QueueInv, HeldOnce
    <2>2. \A i \in 1..(n + 1) : i \in 1..n \/ i = n + 1
      BY <1>3
    <2> QED BY <1>2, <1>4, <1>6, <2>1, <2>2 DEF HeldOnce
  <1> QED BY <1>1, <1>5, <1>7 DEF QueueInv, Partitioned, StoppedAtDue

LEMMA GetCompletedInv ==
    ASSUME QueueInv, GetCompleted
    PROVE  QueueInv'
  <1>1. /\ tick' = tick + 1 /\ tick < MaxTick /\ first' = 1
        /\ last' = Len(entries) + 1 /\ pc' = "up"
        /\ UNCHANGED <<entries, completed>>
    BY DEF GetCompleted
  <1>2. DOMAIN entries = 1..Len(entries) /\ Len(entries) \in Nat
    BY DEF QueueInv, TypeOK
  <1>3. TypeOK'
    BY <1>1, <1>2, QueueAssumption DEF QueueInv, TypeOK
  <1>4. Partitioned'
    BY <1>1, <1>2 DEF Partitioned
  <1> QED BY <1>1, <1>3, <1>4 DEF QueueInv, HeldOnce, StoppedAtDue

LEMMA ScanUpInv ==
    ASSUME QueueInv, ScanUp
    PROVE  QueueInv'
  <1> USE DEF QueueInv
  <1>1. /\ pc = "up" /\ first # last
        /\ UNCHANGED <<entries, completed, tick>>
    BY DEF ScanUp
  <1>2. /\ DOMAIN entries = 1..Len(entries) /\ Len(entries) \in Nat
        /\ first \in Nat /\ first >= 1 /\ first <= last
        /\ last \in Nat /\ last <= Len(entries) + 1
    BY <1>1, Places
  <1>3. CASE IsPending(entries[first])
    <2>1. first' = first + 1 /\ UNCHANGED <<last, pc>>
      BY <1>3 DEF ScanUp
    <2>2. TypeOK'
      BY <1>1, <1>2, <2>1 DEF TypeOK
    <2>3. \A i \in 1..(first' - 1) : IsPending(entries[i])
      <3>1. \A i \in 1..(first' - 1) : i \in 1..(first - 1) \/ i = first
        BY <1>2, <2>1
      <3> QED BY <1>1, <1>3, <3>1 DEF Partitioned
    <2>4. Partitioned'
      BY <1>1, <2>1, <2>3 DEF Partitioned, IsPending
    <2> QED BY <1>1, <2>1, <2>2, <2>4 DEF HeldOnce, StoppedAtDue
  <1>4. CASE ~IsPending(entries[first])
    <2>1. last' = last - 1 /\ pc' = "down" /\ UNCHANGED first
      BY <1>4 DEF ScanUp
    <2>2. TypeOK' /\ last' \in DOMAIN entries
      BY <1>1, <1>2, <2>1 DEF TypeOK
    <2>3. \A i \in DOMAIN entries : i > last' => i > last \/ i = last
      BY <1>2, <2>1
    <2>4. Partitioned'
      BY <1>1, <2>1, <2>3 DEF Partitioned, IsPending
    <2> QED BY <1>1, <1>4, <2>1, <2>2, <2>4
            DEF HeldOnce, StoppedAtDue, IsPending
  <1> QED BY <1>3, <1>4

LEMMA ScanDownInv ==
    ASSUME QueueInv, ScanDown
    PROVE  QueueInv' /\ ToSet(entries)' = ToSet(entries)
  <1> USE DEF QueueInv
  <1>1. /\ pc = "down" /\ first # last /\ UNCHANGED <<completed, tick>>
    BY DEF ScanDown
  <1>2. /\ DOMAIN entries = 1..Len(entries) /\ Len(entries) \in Nat
        /\ first \in Nat /\ first >= 1 /\ first <= last
        /\ last \in Nat /\ last <= Len(entries) + 1
        /\ first \in DOMAIN entries
    BY <1>1, Places
  <1>3. last \in DOMAIN entries /\ ~IsPending(entries[first])
    BY <1>1 DEF StoppedAtDue
  <1>4. entries \in Seq(Entry)
    BY DEF TypeOK, Entry
  <1>5. CASE IsPending(entries[last])
    <2>1. /\ entries' = [entries EXCEPT ![first] = entries[last],
                                        ![last] = entries[first]]
          /\ first' = first + 1 /\ pc' = "up" /\ UNCHANGED last
      BY <1>5 DEF ScanDown
    <2>2. /\ entries' \in Seq(Entry) /\ Len(entries') = Len(entries)
          /\ DOMAIN entries' = DOMAIN entries /\ ToSet(entries') = ToSet(entries)
          /\ entries'[first] = entries[last] /\ entries'[last] = entries[first]
          /\ \A k \in DOMAIN entries \ {first, last} : entries'[k] = entries[k]
      <3>1. entries' = Swapped(entries, first, last)
        BY <2>1 DEF Swapped
      <3>2. first \in DOMAIN entries /\ last \in DOMAIN entries
        BY <1>2, <1>3
      <3> QED BY <1>4, <3>1, <3>2, SwapPlaces
    <2>3. TypeOK'
      BY <1>1, <1>2, <2>1, <2>2 DEF TypeOK, Entry
    <2>4. HeldOnce'
      BY <1>2, <1>3, <2>2 DEF HeldOnce
    <2>5. ASSUME NEW i \in 1..(first' - 1) PROVE IsPending(entries'[i])
      <3>1. i \in 1..(first - 1) \/ i = first
        BY <1>2, <2>1
      <3>2. i \in DOMAIN entries /\ i # last
        BY <1>1, <1>2, <3>1
      <3> QED BY <1>1, <1>5, <2>2, <3>1, <3>2 DEF Partitioned
    <2>6. ASSUME NEW i \in DOMAIN entries, i > last \/ i = last
          PROVE  ~IsPending(entries'[i])
      <3>1. i = last \/ (i > last /\ i # first)
        BY <1>2, <2>6
      <3> QED BY <1>1, <1>3, <2>2, <3>1 DEF Partitioned
    <2>7. Partitioned'
      BY <1>1, <2>1, <2>2, <2>5, <2>6 DEF Partitioned, IsPending
    <2> QED BY <2>1, <2>2, <2>3, <2>4, <2>7 DEF StoppedAtDue
  <1>6. CASE ~IsPending(entries[last])
    <2>1. last' = last - 1 /\ UNCHANGED <<entries, first, pc>>
      BY <1>6 DEF ScanDown
    <2>2. TypeOK' /\ last' \in DOMAIN entries
      BY <1>1, <1>2, <1>3, <2>1 DEF TypeOK
    <2>3. \A i \in DOMAIN entries : i > last' => i > last \/ i = last
      BY <1>2, <2>1
    <2>4. Partitioned'
      BY <1>1, <1>6, <2>1, <2>2, <2>3 DEF Partitioned, IsPending
    <2> QED BY <1>1, <1>3, <2>1, <2>2, <2>4
            DEF HeldOnce, StoppedAtDue, IsPending
  <1> QED BY <1>5, <1>6

\* What the iterators have separated when they meet.
LEMMA TakeSplit ==
    ASSUME QueueInv, Take
    PROVE  /\ pc # "idle" /\ pc' = "idle" /\ UNCHANGED <<first, last, tick>>
           /\ first \in 1..(Len(entries) + 1) /\ Len(entries) \in Nat
           /\ DOMAIN entries = 1..Len(entries)
           /\ entries' = SubSeq(entries, 1, first - 1)
           /\ LET out == SubSeq(entries, first, Len(entries))
              IN  completed' = [i \in DOMAIN out |-> out[i].pid]
           /\ \A i \in 1..(first - 1) : IsPending(entries[i])
           /\ \A i \in first..Len(entries) : ~IsPending(entries[i])
  <1>1. /\ pc # "idle" /\ first = last /\ pc' = "idle"
        /\ UNCHANGED <<first, last, tick>>
        /\ entries' = SubSeq(entries, 1, first - 1)
        /\ LET out == SubSeq(entries, first, Len(entries))
           IN  completed' = [i \in DOMAIN out |-> out[i].pid]
    BY DEF Take
  <1>2. /\ first \in 1..(Len(entries) + 1) /\ Len(entries) \in Nat
        /\ DOMAIN entries = 1..Len(entries) /\ pc \in {"up", "down"}
    BY <1>1 DEF QueueInv, TypeOK
  <1>3. \A i \in 1..(first - 1) : IsPending(entries[i])
    BY <1>1 DEF QueueInv, Partitioned
  <1>4. ASSUME NEW i \in first..Len(entries) PROVE ~IsPending(entries[i])
    <2>1. i \in DOMAIN entries /\ (i > last \/ i = last)
      BY <1>1, <1>2
    <2> QED BY <1>1, <1>2, <2>1 DEF QueueInv, Partitioned, StoppedAtDue
  <1> QED BY <1>1, <1>2, <1>3, <1>4

\* What is kept and what is taken, place by place.
LEMMA TakePlaces ==
    ASSUME QueueInv, Take
    PROVE  /\ entries' \in Seq(Entry) /\ Len(entries') = first - 1
           /\ DOMAIN entries' = 1..(first - 1)
           /\ \A i \in 1..(first - 1) : entries'[i] = entries[i]
           /\ completed' \in Seq(Procs)
           /\ Len(completed') = Len(entries) - first + 1
           /\ DOMAIN completed' = 1..(Len(entries) - first + 1)
           /\ \A i \in 1..(Len(entries) - first + 1) :
                  completed'[i] = entries[first + i - 1].pid
  <1> DEFINE n == Len(entries)
             k == n - first + 1
             out == SubSeq(entries, first, n)
  <1>1. /\ first \in 1..(n + 1) /\ n \in Nat /\ DOMAIN entries = 1..n
        /\ entries' = SubSeq(entries, 1, first - 1)
        /\ completed' = [i \in DOMAIN out |-> out[i].pid]
    BY TakeSplit
  <1>2. entries \in Seq(Entry)
    BY DEF QueueInv, TypeOK, Entry
  <1>3. /\ entries' \in Seq(Entry) /\ Len(entries') = first - 1
        /\ \A i \in 1..(first - 1) : entries'[i] = entries[i]
    BY <1>1, <1>2, SMT
  <1>4. /\ out \in Seq(Entry) /\ Len(out) = k
        /\ \A i \in 1..k : out[i] = entries[first + i - 1]
    BY <1>1, <1>2, SMT
  <1>5. k \in Nat
    BY <1>1
  <1> HIDE DEF out, k
  <1>6. DOMAIN out = 1..k /\ \A i \in 1..k : out[i].pid \in Procs
    <2>1. DOMAIN out = 1..k /\ \A i \in 1..k : out[i] \in Entry
      BY <1>4, <1>5
    <2> QED BY <2>1 DEF Entry
  <1>7. completed' = [i \in 1..k |-> out[i].pid]
    BY <1>1, <1>6
  <1>8. completed' \in Seq(Procs) /\ Len(completed') = k
    BY <1>5, <1>6, <1>7
  <1> QED BY <1>1, <1>3, <1>4, <1>5, <1>7, <1>8 DEF k

LEMMA TakeInv ==
    ASSUME QueueInv, Take
    PROVE  QueueInv'
  <1>1. /\ pc' = "idle" /\ UNCHANGED <<first, last, tick>>
        /\ first \in 1..(Len(entries) + 1) /\ Len(entries) \in Nat
        /\ DOMAIN entries = 1..Len(entries) /\ first = last
    BY TakeSplit DEF Take
  <1>2. /\ entries' \in Seq(Entry) /\ Len(entries') = first - 1
        /\ DOMAIN entries' = 1..(first - 1)
        /\ \A i \in 1..(first - 1) : entries'[i] = entries[i]
        /\ completed' \in Seq(Procs)
    BY TakePlaces
  <1>3. TypeOK'
    BY <1>1, <1>2 DEF QueueInv, TypeOK, Entry
  <1>4. HeldOnce'
    BY <1>1, <1>2 DEF QueueInv, HeldOnce
  <1> QED BY <1>1, <1>3, <1>4 DEF QueueInv, Partitioned, StoppedAtDue

LEMMA InitQueueInv == Init => QueueInv
  BY QueueAssumption
     DEF Init, QueueInv, TypeOK, HeldOnce, Partitioned, StoppedAtDue

LEMMA NextQueueInv == QueueInv /\ [Next]_vars => QueueInv'
  <1> SUFFICES ASSUME QueueInv, [Next]_vars PROVE QueueInv'
    OBVIOUS
  <1>1. CASE UNCHANGED vars
    BY <1>1 DEF vars, QueueInv, TypeOK, HeldOnce, Partitioned, StoppedAtDue, IsPending
  <1> QED BY <1>1, AddInv, GetCompletedInv, ScanUpInv, ScanDownInv, TakeInv
          DEF Next

\* The iterators stay within the vector, whatever it holds.
THEOREM QueueTypeCorrect == Spec => []TypeOK
  <1>1. QueueInv => TypeOK
    BY DEF QueueInv
  <1> QED BY <1>1, InitQueueInv, NextQueueInv, PTL DEF Spec

-----------------------------------------------------------------------------
(* The vector implements WakeupSet.                                        *)

LEMMA AddImplements ==
    ASSUME QueueInv, NEW p \in Procs, NEW d \in Durations, Add(p, tick + d)
    PROVE  \E e \in ToSet(entries)' : Sleepers!Add(e)
  <1> DEFINE w == tick + d
             e == [pid |-> p, wakeup |-> w]
  <1>1. /\ pc = "idle" /\ p \notin Held /\ entries' = Append(entries, e)
        /\ completed' = <<>> /\ UNCHANGED <<tick, pc>>
    BY DEF Add
  <1>2. entries \in Seq(Entry) /\ tick \in 0..MaxTick
    BY DEF QueueInv, TypeOK, Entry
  <1>3. w \in Tick
    <2>1. d \in Nat /\ Max(Durations) \in Nat /\ d <= Max(Durations)
      <3>1. Durations \subseteq Int /\ IsFiniteSet(Durations)
        BY QueueAssumption
      <3>2. Max(Durations) \in Durations /\ d <= Max(Durations)
        BY <3>1, MaxBounds
      <3> QED BY <3>2, QueueAssumption
    <2> QED BY <1>2, <2>1, QueueAssumption DEF Tick
  <1>4. \A h \in ToSet(entries) : h.pid # p
    BY <1>1 DEF ToSet, Held
  <1>5. ToSet(entries)' = ToSet(entries) \cup {e}
    <2> HIDE DEF e
    <2>1. e \in Entry
      BY <1>2, <1>3, QueueAssumption DEF Entry, e, Tick
    <2> QED BY <1>1, <1>2, <2>1, AppendOrder
  <1>6. Sleepers!Add(e)
    BY <1>1, <1>3, <1>4, <1>5 DEF Sleepers!Add
  <1> QED BY <1>5, <1>6

\* What is taken are the entries that are due, each of them once.
LEMMA TakeImplements ==
    ASSUME QueueInv, Take
    PROVE  Sleepers!GetCompleted
  <1> DEFINE n == Len(entries)
             k == n - first + 1
             due == {e \in ToSet(entries) : e.wakeup <= tick}
             pids == {e.pid : e \in due}
  <1>1. /\ pc # "idle" /\ pc' = "idle" /\ tick' = tick
        /\ first \in 1..(n + 1) /\ n \in Nat /\ DOMAIN entries = 1..n
        /\ \A i \in 1..(first - 1) : IsPending(entries[i])
        /\ \A i \in first..n : ~IsPending(entries[i])
    BY TakeSplit
  <1>2. /\ Len(entries') = first - 1 /\ DOMAIN entries' = 1..(first - 1)
        /\ \A i \in 1..(first - 1) : entries'[i] = entries[i]
        /\ completed' \in Seq(Procs) /\ Len(completed') = k
        /\ DOMAIN completed' = 1..k
        /\ \A i \in 1..k : completed'[i] = entries[first + i - 1].pid
    BY TakePlaces
  <1>3. /\ tick \in Nat /\ \A i \in 1..n : entries[i].wakeup \in Nat
    <2>1. entries \in Seq(Entry) /\ tick \in Nat
      BY DEF QueueInv, TypeOK, Entry
    <2>2. \A i \in DOMAIN entries : entries[i] \in Entry
      BY <2>1
    <2> QED BY <1>1, <2>1, <2>2 DEF Entry
  <1>4. \A i \in 1..n : entries[i] \in due <=> i >= first
    <2> SUFFICES ASSUME NEW i \in 1..n
                 PROVE  entries[i] \in due <=> i >= first
      OBVIOUS
    <2>1. entries[i] \in ToSet(entries)
      BY <1>1 DEF ToSet
    <2>2. IF i >= first THEN i \in first..n ELSE i \in 1..(first - 1)
      BY <1>1
    <2> QED BY <1>1, <1>3, <2>1, <2>2 DEF IsPending
  <1>5. \A e \in ToSet(entries) : \E i \in 1..n : e = entries[i]
    BY <1>1 DEF ToSet
  <1>6. ToSet(entries)' = ToSet(entries) \ due
    <2>1. ASSUME NEW e \in ToSet(entries)' PROVE e \in ToSet(entries) \ due
      <3>1. PICK i \in 1..(first - 1) : e = entries[i]
        BY <1>2 DEF ToSet
      <3>2. i \in 1..n /\ ~(i >= first)
        BY <1>1
      <3> QED BY <1>1, <1>4, <3>1, <3>2 DEF ToSet
    <2>2. ASSUME NEW e \in ToSet(entries) \ due PROVE e \in ToSet(entries)'
      <3>1. PICK i \in 1..n : e = entries[i]
        BY <1>5
      <3>2. i \in 1..(first - 1)
        BY <1>1, <1>4, <2>2, <3>1
      <3> QED BY <1>2, <3>1, <3>2 DEF ToSet
    <2> QED BY <2>1, <2>2
  <1>7. ToSet(completed') = pids
    <2>1. ASSUME NEW p \in ToSet(completed') PROVE p \in pids
      <3>1. PICK i \in 1..k : p = entries[first + i - 1].pid
        BY <1>2 DEF ToSet
      <3>2. first + i - 1 \in 1..n /\ first + i - 1 >= first
        BY <1>1
      <3> QED BY <1>4, <3>1, <3>2
    <2>2. ASSUME NEW e \in due PROVE e.pid \in ToSet(completed')
      <3>1. PICK j \in 1..n : e = entries[j]
        BY <1>5
      <3>2. j >= first
        BY <1>4, <3>1
      <3>3. j - first + 1 \in 1..k /\ first + (j - first + 1) - 1 = j
        BY <1>1, <3>2
      <3>4. completed'[j - first + 1] = e.pid
        BY <1>2, <3>1, <3>3
      <3> QED BY <1>2, <3>3, <3>4 DEF ToSet
    <2> QED BY <2>1, <2>2
  <1>8. IsInjective(completed')
    <2> SUFFICES ASSUME NEW i \in 1..k, NEW j \in 1..k,
                        completed'[i] = completed'[j]
                 PROVE  i = j
      BY <1>2 DEF IsInjective
    <2>1. first + i - 1 \in 1..n /\ first + j - 1 \in 1..n
      BY <1>1
    <2>2. PICK a \in 1..n, b \in 1..n : a = first + i - 1 /\ b = first + j - 1
      BY <2>1
    <2>3. entries[a].pid = entries[b].pid
      BY <1>2, <2>2
    <2>4. a = b
      BY <1>1, <2>3 DEF QueueInv, HeldOnce
    <2> QED BY <1>1, <2>2, <2>4
  <1>9. completed' \in Sleepers!SetToSeqs(pids)
    <2>1. PICK c \in Seq(Procs) : c = completed'
      BY <1>2
    <2>2. IsInjective(c) /\ ToSet(c) = pids /\ DOMAIN c = 1..Len(c)
      BY <1>7, <1>8, <2>1
    <2> HIDE DEF pids
    <2>3. Len(c) = Cardinality(pids)
      BY <2>2, InjectiveLength
    <2>4. c \in [1..Cardinality(pids) -> pids]
      BY <2>2, <2>3 DEF ToSet
    <2>5. \A i, j \in 1..Cardinality(pids) : i # j => c[i] # c[j]
      BY <2>2, <2>3 DEF IsInjective
    <2>6. Sleepers!Cardinality(pids) = Cardinality(pids)
      BY DEF Sleepers!Cardinality, Cardinality
    <2> QED BY <2>1, <2>4, <2>5, <2>6 DEF Sleepers!SetToSeqs
  <1> HIDE DEF pids
  <1>10. /\ (IF pc = "idle" THEN tick ELSE tick - 1)' = tick
         /\ tick > (IF pc = "idle" THEN tick ELSE tick - 1)
    BY <1>1, <1>3
  <1> QED BY <1>6, <1>9, <1>10 DEF Sleepers!GetCompleted, pids

LEMMA NextImplements ==
    QueueInv /\ [Next]_vars => [Sleepers!Next]_(Sleepers!wvars)
  <1> SUFFICES ASSUME QueueInv, [Next]_vars
               PROVE  Sleepers!Next \/ UNCHANGED Sleepers!wvars
    OBVIOUS
  <1>1. ASSUME NEW p \in Procs, NEW d \in Durations, Add(p, tick + d)
        PROVE  Sleepers!Next
    BY <1>1, AddImplements DEF Sleepers!Next
  <1>2. CASE GetCompleted
    <2>1. /\ pc = "idle" /\ pc' = "up" /\ tick' = tick + 1
          /\ UNCHANGED <<entries, completed>> /\ tick \in Nat
      BY <1>2 DEF GetCompleted, QueueInv, TypeOK
    <2>2. tick' - 1 = tick
      BY <2>1
    <2> QED BY <2>1, <2>2 DEF Sleepers!wvars, ToSet
  <1>3. CASE ScanUp
    <2>1. /\ pc = "up" /\ pc' \in {"up", "down"}
          /\ UNCHANGED <<entries, completed, tick>>
      BY <1>3 DEF ScanUp
    <2> QED BY <2>1 DEF Sleepers!wvars, ToSet
  <1>4. CASE ScanDown
    <2>1. /\ pc = "down" /\ pc' \in {"up", "down"} /\ UNCHANGED <<completed, tick>>
      BY <1>4 DEF ScanDown
    <2> QED BY <1>4, <2>1, ScanDownInv DEF Sleepers!wvars
  <1>5. CASE Take
    BY <1>5, TakeImplements DEF Sleepers!Next
  <1>6. CASE UNCHANGED vars
    BY <1>6 DEF vars, Sleepers!wvars, ToSet
  <1> QED BY <1>1, <1>2, <1>3, <1>4, <1>5, <1>6 DEF Next

\* getCompleted gives back, once each, exactly those whose time has come.
THEOREM QueueImplementsWakeupSet == Spec => SleepersSpec
  <1>1. Init => Sleepers!Init
    BY DEF Init, Sleepers!Init, ToSet
  <1> QED BY <1>1, InitQueueInv, NextQueueInv, NextImplements, PTL
          DEF Spec, SleepersSpec, Sleepers!Spec

=============================================================================
