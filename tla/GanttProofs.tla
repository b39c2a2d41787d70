----------------------------- MODULE GanttProofs -----------------------------
(***************************************************************************)
(* Proofs about GanttModel, for every set of programs, every configuration *)
(* and all bounds: the segments of a process are a history without gaps,   *)
(* every column of its row has one bar, and no column shows two processes  *)
(* on the CPU.  The slot onStateTransitioned only ever closes the last     *)
(* segment and opens the next one, both at the last completed tick, so     *)
(* that all of it follows from what one such call does to a history.       *)
(***************************************************************************)
EXTENDS GanttModel, KernelProofs

USE DEF Pid, NoProc

-----------------------------------------------------------------------------
(* One history.                                                            *)

Segments == [start : Nat, end : Nat \cup {Ongoing}, state : ProcessState]

\* The segments h are those of a process that was created, and is now in state
\* s, no later than at tick t.
IsHistory(h, s, t) ==
    /\ h \in Seq(Segments) /\ h # <<>>
    /\ h[1].state = "New"
    /\ h[Len(h)].state = s
    /\ \A i \in DOMAIN h : /\ h[i].end = Ongoing <=> i = Len(h)
                           /\ h[i].start <= t
                           /\ h[i].end <= t
    /\ \A i \in 1..(Len(h) - 1) : /\ h[i].end = h[i+1].start
                                  /\ h[i].start <= h[i].end

\* No two of its segments cover the same tick, and together they cover all of
\* them from the first one on.
IsTiled(h) ==
    /\ \A i, j \in DOMAIN h : i < j => h[i].end <= h[j].start
    /\ \A u \in Int : u >= h[1].start =>
           \E i \in DOMAIN h : h[i].start <= u /\ (i = Len(h) \/ u < h[i].end)

\* What onStateTransitioned does, segment by segment.
LEMMA TransitionedPlaces ==
    ASSUME NEW h \in Seq(Segments), h # <<>>, NEW to \in ProcessState,
           current_tick \in Nat
    PROVE  LET g == OnStateTransitioned(h, to)
           IN  /\ g \in Seq(Segments) /\ Len(g) = Len(h) + 1
               /\ g[Len(h) + 1] = Segment(to)
               /\ \A i \in 1..Len(h) : /\ g[i].start = h[i].start
                                       /\ g[i].state = h[i].state
                                       /\ g[i].end = IF i = Len(h) THEN current_tick
                                                     ELSE h[i].end
  <1> DEFINE n == Len(h)
             k == [h EXCEPT ![n].end = current_tick]
             g == Append(k, Segment(to))
  <1>1. n \in Nat /\ n >= 1 /\ \A i \in 1..n : h[i] \in Segments
    OBVIOUS
  <1>2. /\ k = [i \in 1..n |-> IF i = n THEN [h[n] EXCEPT !.end = current_tick]
                               ELSE h[i]]
    BY <1>1
  <1>3. \A i \in 1..n : /\ k[i] \in Segments
                        /\ k[i].start = h[i].start /\ k[i].state = h[i].state
                        /\ k[i].end = IF i = n THEN current_tick ELSE h[i].end
    BY <1>1, <1>2 DEF Segments
  <1>4. k \in Seq(Segments) /\ Len(k) = n
    <2>1. k \in [1..n -> Segments]
      BY <1>2, <1>3
    <2> HIDE DEF k, n
    <2> QED BY <1>1, <2>1
  <1>5. Segment(to) \in Segments
    BY DEF Segment, Segments, Ongoing
  <1> HIDE DEF k
  <1>6. /\ g \in Seq(Segments) /\ Len(g) = n + 1 /\ g[n + 1] = Segment(to)
        /\ \A i \in 1..n : g[i] = k[i]
    BY <1>1, <1>4, <1>5
  <1> QED BY <1>1, <1>3, <1>6 DEF OnStateTransitioned, k

\* It carries a history on to the new state.
LEMMA TransitionedHistory ==
    ASSUME NEW h, NEW s, IsHistory(h, s, current_tick), NEW to \in ProcessState,
           current_tick \in Nat
    PROVE  IsHistory(OnStateTransitioned(h, to), to, current_tick)
  <1> DEFINE n == Len(h)
             g == OnStateTransitioned(h, to)
  <1>1. h \in Seq(Segments) /\ h # <<>> /\ n \in Nat /\ n >= 1
    BY DEF IsHistory
  <1>2. /\ g \in Seq(Segments) /\ Len(g) = n + 1 /\ g[n + 1] = Segment(to)
        /\ \A i \in 1..n : /\ g[i].start = h[i].start
                           /\ g[i].state = h[i].state
                           /\ g[i].end = IF i = n THEN current_tick ELSE h[i].end
    BY <1>1, TransitionedPlaces
  <1>3. /\ g[n + 1].start = current_tick /\ g[n + 1].end = Ongoing
        /\ g[n + 1].state = to
    BY <1>2 DEF Segment
  <1>4. \A i \in 1..n : h[i] \in Segments
    BY <1>1
  <1> HIDE DEF g, n
  <1>5. g # <<>> /\ g[1].state = "New" /\ g[Len(g)].state = to
    BY <1>1, <1>2, <1>3 DEF IsHistory
  <1>6. ASSUME NEW i \in DOMAIN g
        PROVE  /\ g[i].end = Ongoing <=> i = Len(g)
               /\ g[i].start <= current_tick
               /\ g[i].end <= current_tick
    <2>1. i \in 1..n \/ i = n + 1
      BY <1>1, <1>2
    <2>2. CASE i = n + 1
      BY <1>2, <1>3, <2>2 DEF Ongoing
    <2>3. CASE i \in 1..n
      <3>1. h[i].start <= current_tick /\ h[i].end <= current_tick
            /\ (h[i].end = Ongoing <=> i = n)
        BY <1>1, <2>3 DEF IsHistory, n
      <3>2. g[i].end # Ongoing
        BY <1>2, <2>3, <3>1 DEF Ongoing
      <3> QED BY <1>1, <1>2, <2>3, <3>1, <3>2
    <2> QED BY <2>1, <2>2, <2>3
  <1>7. ASSUME NEW i \in 1..n
        PROVE  g[i].end = g[i+1].start /\ g[i].start <= g[i].end
    <2>1. CASE i = n
      BY <1>1, <1>2, <1>3, <2>1 DEF IsHistory, n
    <2>2. CASE i # n
      <3>1. i \in 1..(n - 1) /\ i + 1 \in 1..n
        BY <1>1, <2>2
      <3> QED BY <1>2, <2>2, <3>1 DEF IsHistory, n
    <2> QED BY <2>1, <2>2
  <1>8. Len(g) - 1 = n
    BY <1>1, <1>2
  <1> QED BY <1>2, <1>5, <1>6, <1>7, <1>8 DEF IsHistory, g

\* It leaves no gap and no overlap.
LEMMA TransitionedTiling ==
    ASSUME NEW h, NEW s, IsHistory(h, s, current_tick), IsTiled(h),
           NEW to \in ProcessState, current_tick \in Nat
    PROVE  IsTiled(OnStateTransitioned(h, to))
  <1> DEFINE n == Len(h)
             g == OnStateTransitioned(h, to)
  <1>1. h \in Seq(Segments) /\ h # <<>> /\ n \in Nat /\ n >= 1
    BY DEF IsHistory
  <1>2. /\ Len(g) = n + 1 /\ g[n + 1] = Segment(to) /\ DOMAIN g = 1..(n + 1)
        /\ \A i \in 1..n : /\ g[i].start = h[i].start
                           /\ g[i].end = IF i = n THEN current_tick ELSE h[i].end
    BY <1>1, TransitionedPlaces
  <1>3. g[n + 1].start = current_tick
    BY <1>2 DEF Segment
  <1>4. /\ \A i \in 1..n : h[i].end <= current_tick
        /\ \A i \in 1..n, j \in 1..n : i < j => h[i].end <= h[j].start
    BY <1>1 DEF IsHistory, IsTiled
  <1> HIDE DEF g
  <1>5. ASSUME NEW i \in DOMAIN g, NEW j \in DOMAIN g, i < j
        PROVE  g[i].end <= g[j].start
    <2>1. i \in 1..n
      BY <1>1, <1>2, <1>5
    <2>2. CASE j = n + 1
      BY <1>1, <1>2, <1>3, <1>4, <2>1, <2>2
    <2>3. CASE j # n + 1
      <3>1. j \in 1..n /\ i # n
        BY <1>1, <1>2, <1>5, <2>3
      <3> QED BY <1>2, <1>4, <1>5, <2>1, <3>1
    <2> QED BY <2>2, <2>3
  <1>6. ASSUME NEW u \in Int, u >= g[1].start
        PROVE  \E i \in DOMAIN g :
                   g[i].start <= u /\ (i = Len(g) \/ u < g[i].end)
    <2>1. u >= h[1].start
      BY <1>1, <1>2, <1>6
    <2>2. PICK i \in 1..n : h[i].start <= u /\ (i = n \/ u < h[i].end)
      BY <1>1, <2>1 DEF IsTiled
    <2>3. CASE i = n /\ u >= current_tick
      BY <1>1, <1>2, <1>3, <2>3
    <2>4. CASE ~(i = n /\ u >= current_tick)
      BY <1>1, <1>2, <2>2, <2>4
    <2> QED BY <2>3, <2>4
  <1> QED BY <1>5, <1>6 DEF IsTiled, g

\* A history begins with the segment that onProcessCreated gives it.
LEMMA CreatedHistory ==
    ASSUME current_tick \in Nat, NEW p
    PROVE  /\ IsHistory(OnProcessCreated(p), "New", current_tick)
           /\ IsTiled(OnProcessCreated(p))
  <1> DEFINE h == OnProcessCreated(p)
  <1>1. Segment("New") \in Segments
    BY DEF Segment, Segments, Ongoing, ProcessState
  <1>2. /\ h \in Seq(Segments) /\ Len(h) = 1 /\ h[1] = Segment("New")
        /\ DOMAIN h = {1}
    BY <1>1 DEF OnProcessCreated
  <1>3. /\ h[1].start = current_tick /\ h[1].end = Ongoing
        /\ h[1].state = "New"
    BY <1>2 DEF Segment
  <1> HIDE DEF h
  <1>4. IsHistory(h, "New", current_tick)
    <2>1. h \in Seq(Segments) /\ Len(h) # Len(<<>>)
      BY <1>2
    <2>2. h[1].state = "New" /\ h[Len(h)].state = "New"
      BY <1>2, <1>3
    <2>3. \A i \in DOMAIN h : /\ h[i].end = Ongoing <=> i = Len(h)
                              /\ h[i].start <= current_tick
                              /\ h[i].end <= current_tick
      BY <1>2, <1>3 DEF Ongoing
    <2>4. 1..(Len(h) - 1) = {}
      BY <1>2
    <2>5. \A i \in 1..(Len(h) - 1) : h[i].end = h[i+1].start /\ h[i].start <= h[i].end
      BY <2>4
    <2>6. h # <<>>
      BY <2>1
    <2> QED BY <2>1, <2>2, <2>3, <2>5, <2>6 DEF IsHistory
  <1>5. IsTiled(h)
    BY <1>2, <1>3 DEF IsTiled
  <1> QED BY <1>4, <1>5 DEF h

-----------------------------------------------------------------------------
(* All histories.                                                          *)

\* Every process that was created has a history that ends in its state, and no
\* other has segments; the model is never ahead of the kernel's clock.
GanttInv ==
    /\ current_tick \in Nat /\ current_tick <= tick
    /\ \A p \in Pid \ Created : segments[p] = <<>>
    /\ \A p \in Created : /\ IsHistory(segments[p], state[p], current_tick)
                          /\ IsTiled(segments[p])

\* After a step of the kernel and before the model takes the tick over.
LEMMA ObserveHistories ==
    ASSUME Inv, Inv', GanttInv, Observe
    PROVE  /\ \A p \in Pid \ Created' : segments'[p] = <<>>
           /\ \A p \in Created' : /\ IsHistory(segments'[p], state'[p], current_tick)
                                  /\ IsTiled(segments'[p])
  <1>1. Created \subseteq Created'
    BY NextIsDriven, OnlyForward DEF Observe
  <1>2. segments' = [p \in Pid |-> IF IsNotified(p) THEN Heard(p)
                                   ELSE segments[p]]
    BY DEF Observe
  <1>3. \A p \in Pid : /\ state[p] = "New" <=> p \notin Created
                       /\ state'[p] = "New" <=> p \notin Created'
                       /\ state'[p] \in ProcessState
    BY DEF Inv, TypeOK, Placement, NewUntilCreated
  <1>4. ASSUME NEW p \in Pid, p \notin Created'
        PROVE  segments'[p] = <<>>
    BY <1>1, <1>2, <1>3, <1>4 DEF GanttInv, IsNotified
  <1>5. Created' \subseteq Pid
    BY NextCreatedPids
  <1>6. ASSUME NEW p \in Created'
        PROVE  /\ IsHistory(segments'[p], state'[p], current_tick)
               /\ IsTiled(segments'[p])
    <2>1. CASE ~IsNotified(p)
      BY <1>2, <1>3, <1>5, <2>1 DEF GanttInv, IsNotified
    <2>2. CASE IsNotified(p)
      <3>1. segments'[p] = Heard(p) /\ state'[p] \in ProcessState
        BY <1>2, <1>3, <1>5, <2>2
      <3>2. PICK h, s : /\ IsHistory(h, s, current_tick) /\ IsTiled(h)
                        /\ Heard(p) = OnStateTransitioned(h, state'[p])
        <4>1. CASE p \in Created
          <5>1. segments[p] # <<>>
            BY <4>1 DEF GanttInv, IsHistory
          <5> QED BY <4>1, <5>1 DEF GanttInv, Heard
        <4>2. CASE p \notin Created
          BY <1>5, <4>2, CreatedHistory DEF GanttInv, Heard
        <4> QED BY <4>1, <4>2
      <3> QED BY <3>1, <3>2, TransitionedHistory, TransitionedTiling DEF GanttInv
    <2> QED BY <2>1, <2>2
  <1> QED BY <1>4, <1>6

\* A later tick does no harm to a history.
LEMMA HistoryLater ==
    ASSUME NEW h, NEW s, NEW t \in Nat, NEW u \in Nat, t <= u, IsHistory(h, s, t)
    PROVE  IsHistory(h, s, u)
  <1>1. h \in Seq(Segments) /\ \A i \in DOMAIN h : h[i] \in Segments
    BY DEF IsHistory
  <1>2. ASSUME NEW i \in DOMAIN h PROVE h[i].start <= u /\ h[i].end <= u
    <2>1. h[i].start \in Int /\ h[i].end \in Int
      BY <1>1 DEF Segments, Ongoing
    <2>2. h[i].start <= t /\ h[i].end <= t
      BY DEF IsHistory
    <2> QED BY <2>1, <2>2
  <1> QED BY <1>2 DEF IsHistory

LEMMA RebuildInv == Rebuild => Inv'
  <1> SUFFICES ASSUME Rebuild PROVE Inv'
    OBVIOUS
  <1>1. PICK c \in Configs : SetupKernel(c, <<>>)
    BY DEF Rebuild
  <1>2. <<>> \in Seq(Programs) /\ Len(<<>>) <= MaxProcs
    BY BoundsAssumption
  <1> QED BY <1>1, <1>2, SetupInv

LEMMA NextGanttInv == Inv /\ GanttInv /\ [GNext]_gvars => Inv' /\ GanttInv'
  <1> SUFFICES ASSUME Inv, GanttInv, [GNext]_gvars
               PROVE  Inv' /\ GanttInv'
    OBVIOUS
  <1>1. CASE Observe
    <2>1. Inv' /\ tick' \in Nat /\ tick' >= tick
      BY <1>1, NextInv, NextIsDriven, OnlyForward DEF Observe
    <2>2. /\ current_tick' \in Nat /\ current_tick' <= tick'
          /\ current_tick <= current_tick'
      BY <1>1, <2>1 DEF Observe, GanttInv, Inv, TypeOK
    <2> QED BY <1>1, <2>1, <2>2, ObserveHistories, HistoryLater DEF GanttInv
  <1>2. CASE Rebuild
    <2>1. /\ segments' = [p \in Pid |-> <<>>] /\ current_tick' = 0
          /\ tick' = 0 /\ next_pid' = 1
      BY <1>2 DEF Rebuild, Clear, SetupKernel
    <2>2. Created' = {}
      BY <2>1 DEF Created
    <2> QED BY <1>2, <2>1, <2>2, RebuildInv DEF GanttInv
  <1>3. CASE UNCHANGED gvars
    <2>1. Inv'
      BY <1>3, NextInv DEF gvars
    <2> QED BY <1>3, <2>1 DEF GanttInv, Created, gvars, vars
  <1> QED BY <1>1, <1>2, <1>3 DEF GNext

LEMMA GanttInvHolds == GSpec => [](Inv /\ GanttInv)
  <1>1. GInit => Inv /\ GanttInv
    BY InitInv DEF GInit, Init, GanttInv, Created
  <1> QED BY <1>1, NextGanttInv, PTL DEF GSpec

\* The segments of a process follow each other without a gap, from New to the
\* state it is in.
THEOREM HistoryIsGaplessHolds == GSpec => []HistoryIsGapless
  <1>1. GanttInv => HistoryIsGapless
    <2> SUFFICES ASSUME GanttInv, NEW p \in Created
                 PROVE  LET h == segments[p]
                        IN  /\ h[1].state = "New" /\ h[Len(h)].state = state[p]
                            /\ h[Len(h)].end = Ongoing
                            /\ \A i \in 1..(Len(h) - 1) :
                                   /\ h[i].end = h[i+1].start
                                   /\ h[i].start <= h[i].end
      BY DEF HistoryIsGapless
    <2>1. IsHistory(segments[p], state[p], current_tick)
      BY DEF GanttInv
    <2>2. Len(segments[p]) \in DOMAIN segments[p]
      BY <2>1 DEF IsHistory
    <2> QED BY <2>1, <2>2 DEF IsHistory
  <1> QED BY <1>1, GanttInvHolds, PTL

\* From its creation on a process has exactly one bar in every column.
THEOREM RowsAreTiledHolds == GSpec => []RowsAreTiled
  <1>1. ASSUME GanttInv, NEW p \in Created,
               NEW t \in segments[p][1].start..current_tick
        PROVE  Cardinality(BarsAt(p, t)) = 1
    <2> DEFINE h == segments[p]
    <2>1. /\ IsHistory(h, state[p], current_tick) /\ IsTiled(h)
          /\ current_tick \in Nat
      BY <1>1 DEF GanttInv
    <2>2. h \in Seq(Segments) /\ \A i \in DOMAIN h : h[i] \in Segments
      BY <2>1 DEF IsHistory
    <2>3. h[1].start \in Nat /\ t \in Int /\ t >= h[1].start /\ t <= current_tick
      BY <2>1, <2>2 DEF IsHistory, Segments
    <2> HIDE DEF h
    <2>4. BarsAt(p, t) = {i \in DOMAIN h : h[i].start <= t /\ t < BarEnd(h[i])}
      BY DEF BarsAt, h
    <2>5. \A i \in DOMAIN h : BarEnd(h[i]) = IF i = Len(h) THEN current_tick + 1
                                             ELSE h[i].end
      BY <2>1 DEF BarEnd, IsHistory
    <2>6. PICK i \in DOMAIN h : h[i].start <= t /\ (i = Len(h) \/ t < h[i].end)
      BY <2>1, <2>3 DEF IsTiled
    <2>7. i \in BarsAt(p, t)
      <3>1. t < current_tick + 1
        BY <2>1, <2>3
      <3> QED BY <2>4, <2>5, <2>6, <3>1
    <2>8. ASSUME NEW j \in BarsAt(p, t), NEW k \in BarsAt(p, t), j < k
          PROVE  FALSE
      <3>1. /\ j \in DOMAIN h /\ k \in DOMAIN h /\ j # Len(h)
            /\ h[k].start <= t /\ t < h[j].end
        BY <2>2, <2>4, <2>5, <2>8
      <3>2. h[j].end <= h[k].start
        BY <2>1, <2>8, <3>1 DEF IsTiled
      <3>3. h[j].end \in Int /\ h[k].start \in Int
        BY <2>2, <3>1 DEF Segments, Ongoing
      <3> QED BY <2>3, <3>1, <3>2, <3>3
    <2>9. BarsAt(p, t) \subseteq Nat
      BY <2>2, <2>4
    <2>10. BarsAt(p, t) = {i}
      BY <2>7, <2>8, <2>9
    <2> QED BY <2>10, FS_Singleton
  <1>2. GanttInv => RowsAreTiled
    BY <1>1 DEF RowsAreTiled
  <1> QED BY <1>2, GanttInvHolds, PTL

-----------------------------------------------------------------------------
(* One CPU.                                                                *)

Before(a, b) == a.end # Ongoing /\ a.end <= b.start

\* Of two segments in which different processes run, one has ended before the
\* other begins.
RunsApart ==
    \A p, q \in Pid : p # q =>
        \A i \in Places(p, "Running"), j \in Places(q, "Running") :
            \/ Before(segments[p][i], segments[q][j])
            \/ Before(segments[q][j], segments[p][i])

\* A segment in which a process runs was there before the step, if perhaps
\* ongoing, or its process was dispatched in it.
LEMMA RunningPlaces ==
    ASSUME Inv, Inv', GanttInv, Observe, NEW p \in Pid,
           NEW i \in Places(p, "Running")'
    PROVE  \/ /\ state'[p] = "Running"
              /\ segments'[p][i].start = current_tick
           \/ /\ i \in Places(p, "Running")
              /\ segments'[p][i].start = segments[p][i].start
              /\ segments[p][i].end # Ongoing =>
                     segments'[p][i].end = segments[p][i].end
  <1>1. segments' = [q \in Pid |-> IF IsNotified(q) THEN Heard(q)
                                   ELSE segments[q]]
    BY DEF Observe
  <1>2. CASE ~IsNotified(p)
    <2>1. segments'[p] = segments[p]
      BY <1>1, <1>2
    <2> QED BY <2>1 DEF Places
  <1>3. CASE IsNotified(p)
    <2> DEFINE h == IF segments[p] = <<>> THEN OnProcessCreated(p)
                                          ELSE segments[p]
    <2>1. segments'[p] = OnStateTransitioned(h, state'[p])
      BY <1>1, <1>3 DEF Heard
    <2>2. state'[p] \in ProcessState /\ current_tick \in Nat
      BY DEF Inv, TypeOK, GanttInv
    <2>3. \E s : IsHistory(h, s, current_tick)
      <3>1. CASE p \in Created
        BY <3>1 DEF GanttInv, IsHistory
      <3>2. CASE p \notin Created
        BY <3>2, <2>2, CreatedHistory DEF GanttInv
      <3> QED BY <3>1, <3>2
    <2>4. segments[p] = <<>> => Len(h) = 1 /\ h[1].state = "New"
      BY DEF OnProcessCreated, Segment
    <2>5. segments[p] # <<>> => h = segments[p]
      OBVIOUS
    <2> HIDE DEF h
    <2>6. h \in Seq(Segments) /\ h # <<>> /\ Len(h) \in Nat
      BY <2>3 DEF IsHistory
    <2> DEFINE g == segments'[p]
    <2>7. /\ Len(g) = Len(h) + 1 /\ g[Len(h) + 1] = Segment(state'[p])
          /\ DOMAIN g = 1..(Len(h) + 1)
          /\ \A k \in 1..Len(h) :
                 /\ g[k].start = h[k].start /\ g[k].state = h[k].state
                 /\ g[k].end = IF k = Len(h) THEN current_tick ELSE h[k].end
      BY <2>1, <2>2, <2>6, TransitionedPlaces
    <2>8. i \in DOMAIN g /\ g[i].state = "Running"
      BY DEF Places
    <2>9. CASE i = Len(h) + 1
      BY <2>7, <2>8, <2>9 DEF Segment
    <2>10. CASE i # Len(h) + 1
      <3>1. i \in 1..Len(h) /\ h[i].state = "Running"
        BY <2>6, <2>7, <2>8, <2>10
      <3>2. segments[p] # <<>>
        <4>1. Len(h) = 1 => i = 1
          BY <3>1
        <4> QED BY <2>4, <3>1, <4>1
      <3>3. h = segments[p] /\ p \in Created
        BY <2>5, <3>2 DEF GanttInv
      <3>4. h[i].end # Ongoing => i # Len(h)
        BY <2>6, <3>1, <3>3 DEF GanttInv, IsHistory
      <3>5. i \in Places(p, "Running")
        BY <2>6, <3>1, <3>3 DEF Places
      <3> QED BY <2>7, <3>1, <3>3, <3>4, <3>5
    <2> QED BY <2>9, <2>10
  <1> QED BY <1>2, <1>3

\* While one process is dispatched, every run of another has ended.
LEMMA RunEnded ==
    ASSUME Inv, Inv', GanttInv, Observe,
           NEW p \in Pid, NEW q \in Pid, p # q, state'[p] = "Running",
           NEW j \in Places(q, "Running")'
    PROVE  segments'[q][j].end # Ongoing /\ segments'[q][j].end <= current_tick
  <1>1. state'[q] # "Running"
    BY DEF Inv, Placement, CpuHoldsRunning
  <1>2. j \in DOMAIN segments'[q] /\ segments'[q][j].state = "Running"
    BY DEF Places
  <1>3. q \in Created'
    <2>1. segments'[q] # <<>>
      BY <1>2
    <2> QED BY <2>1, ObserveHistories
  <1>4. IsHistory(segments'[q], state'[q], current_tick)
    BY <1>3, ObserveHistories
  <1> QED BY <1>1, <1>2, <1>4 DEF IsHistory

LEMMA NextRunsApart ==
    Inv /\ GanttInv /\ RunsApart /\ [GNext]_gvars => RunsApart'
  <1> SUFFICES ASSUME Inv, GanttInv, RunsApart, [GNext]_gvars PROVE RunsApart'
    OBVIOUS
  <1>1. CASE Observe
    <2> SUFFICES ASSUME NEW p \in Pid, NEW q \in Pid, p # q,
                        NEW i \in Places(p, "Running")',
                        NEW j \in Places(q, "Running")'
                 PROVE  \/ Before(segments'[p][i], segments'[q][j])
                        \/ Before(segments'[q][j], segments'[p][i])
      BY DEF RunsApart, Before
    <2>1. Inv'
      BY NextGanttInv
    <2> DEFINE Dispatched(r, k) == /\ state'[r] = "Running"
                                   /\ segments'[r][k].start = current_tick
               Kept(r, k) == /\ k \in Places(r, "Running")
                             /\ segments'[r][k].start = segments[r][k].start
                             /\ segments[r][k].end # Ongoing =>
                                    segments'[r][k].end = segments[r][k].end
    <2>2. /\ Dispatched(p, i) \/ Kept(p, i)
          /\ Dispatched(q, j) \/ Kept(q, j)
      BY <1>1, <2>1, RunningPlaces
    <2>3. CASE Dispatched(p, i)
      <3>1. segments'[q][j].end # Ongoing /\ segments'[q][j].end <= current_tick
        BY <1>1, <2>1, <2>3, RunEnded
      <3> QED BY <2>3, <3>1 DEF Before
    <2>4. CASE Dispatched(q, j)
      <3>1. segments'[p][i].end # Ongoing /\ segments'[p][i].end <= current_tick
        BY <1>1, <2>1, <2>4, RunEnded
      <3> QED BY <2>4, <3>1 DEF Before
    <2>5. CASE Kept(p, i) /\ Kept(q, j)
      BY <2>5 DEF RunsApart, Before
    <2> QED BY <2>2, <2>3, <2>4, <2>5
  <1>2. CASE Rebuild
    <2>1. \A p \in Pid : segments'[p] = <<>>
      BY <1>2 DEF Rebuild, Clear
    <2>2. \A p \in Pid : Places(p, "Running")' = {}
      BY <2>1 DEF Places
    <2> QED BY <2>2 DEF RunsApart
  <1>3. CASE UNCHANGED gvars
    BY <1>3 DEF RunsApart, Before, Places, gvars
  <1> QED BY <1>1, <1>2, <1>3 DEF GNext

\* No column of the chart shows two processes on the one CPU.
THEOREM OneRunsAtATimeHolds == GSpec => []OneRunsAtATime
  <1>1. ASSUME Inv, GanttInv, RunsApart, NEW t \in 0..current_tick
        PROVE  Cardinality({p \in Created :
                   \E i \in BarsAt(p, t) : segments[p][i].state = "Running"}) <= 1
    <2> DEFINE R == {p \in Created :
                         \E i \in BarsAt(p, t) : segments[p][i].state = "Running"}
    <2>1. t \in Int /\ current_tick \in Nat /\ Created \subseteq Pid
      BY <1>1, CreatedPids DEF GanttInv
    <2>2. ASSUME NEW p \in R, NEW q \in R, p # q
          PROVE  FALSE
      <3>1. PICK i \in BarsAt(p, t) : segments[p][i].state = "Running"
        BY <2>2
      <3>2. PICK j \in BarsAt(q, t) : segments[q][j].state = "Running"
        BY <2>2
      <3>3. i \in Places(p, "Running") /\ j \in Places(q, "Running")
        BY <3>1, <3>2 DEF BarsAt, Places
      <3>4. \/ Before(segments[p][i], segments[q][j])
            \/ Before(segments[q][j], segments[p][i])
        BY <1>1, <2>1, <2>2, <3>3 DEF RunsApart
      <3>5. ASSUME NEW r \in Created, NEW k \in BarsAt(r, t)
            PROVE  /\ segments[r][k].start \in Int /\ segments[r][k].end \in Int
                   /\ segments[r][k].start <= t
                   /\ segments[r][k].end # Ongoing => t < segments[r][k].end
        <4>1. segments[r] \in Seq(Segments) /\ k \in DOMAIN segments[r]
          BY <1>1, <3>5 DEF GanttInv, IsHistory, BarsAt
        <4>2. segments[r][k] \in Segments
          BY <4>1
        <4> QED BY <3>5, <4>2 DEF Segments, Ongoing, BarsAt, BarEnd
      <3> DEFINE a == segments[p][i]
                 b == segments[q][j]
      <3>6. /\ a.start \in Int /\ a.end \in Int /\ a.start <= t
            /\ a.end # Ongoing => t < a.end
        BY <3>5
      <3>7. /\ b.start \in Int /\ b.end \in Int /\ b.start <= t
            /\ b.end # Ongoing => t < b.end
        BY <3>5
      <3>8. Before(a, b) \/ Before(b, a)
        BY <3>4
      <3> HIDE DEF a, b
      <3> QED BY <2>1, <3>6, <3>7, <3>8 DEF Before
    <2>3. R = {} \/ \E p : R = {p}
      BY <2>2
    <2>4. Cardinality(R) = 0 \/ Cardinality(R) = 1
      <3> HIDE DEF R
      <3> QED BY <2>3, FS_EmptySet, FS_Singleton
    <2> QED BY <2>4
  <1>2. Inv /\ GanttInv /\ RunsApart => OneRunsAtATime
    BY <1>1 DEF OneRunsAtATime
  <1>3. GInit => RunsApart
    BY DEF GInit, RunsApart, Places
  <1> QED BY <1>2, <1>3, GanttInvHolds, NextRunsApart, PTL DEF GSpec

-----------------------------------------------------------------------------
(* The times of the report.                                                *)

\* The total length of the segments of h in state s, as they are at tick t.
ShownIn(h, s, t) ==
    SumFunctionOnSet([i \in DOMAIN h |->
                         (IF h[i].end = Ongoing THEN t ELSE h[i].end) - h[i].start],
                     {i \in DOMAIN h : h[i].state = s})

LEMMA TimeIsShown ==
    ASSUME NEW p, NEW s
    PROVE  TimeShown(p, s) = ShownIn(segments[p], s, current_tick)
  BY DEF TimeShown, ShownIn, Places, EndShown

LEMMA LengthType ==
    ASSUME NEW h \in Seq(Segments), NEW s, NEW t \in Nat
    PROVE  /\ IsFiniteSet({i \in DOMAIN h : h[i].state = s})
           /\ \A i \in DOMAIN h :
                 (IF h[i].end = Ongoing THEN t ELSE h[i].end) - h[i].start \in Int
  <1>1. IsFiniteSet(DOMAIN h)
    BY FS_Interval
  <1>2. IsFiniteSet({i \in DOMAIN h : h[i].state = s})
    BY <1>1, FS_Subset
  <1>3. \A i \in DOMAIN h : h[i] \in Segments
    OBVIOUS
  <1> QED BY <1>2, <1>3 DEF Segments, Ongoing

\* A transition neither gains nor loses any time: what is closed ends at the
\* tick up to which it was shown, and what is opened has no length yet.
LEMMA TransitionedTime ==
    ASSUME NEW h, NEW s, IsHistory(h, s, current_tick), NEW to \in ProcessState,
           NEW r, current_tick \in Nat
    PROVE  ShownIn(OnStateTransitioned(h, to), r, current_tick) =
               ShownIn(h, r, current_tick)
  <1> DEFINE n == Len(h)
             g == OnStateTransitioned(h, to)
             t == current_tick
             F(k) == [i \in DOMAIN k |->
                         (IF k[i].end = Ongoing THEN t ELSE k[i].end) - k[i].start]
             P(k) == {i \in DOMAIN k : k[i].state = r}
  <1>1. h \in Seq(Segments) /\ h # <<>> /\ n \in Nat /\ n >= 1
    BY DEF IsHistory
  <1>2. /\ g \in Seq(Segments) /\ Len(g) = n + 1 /\ g[n + 1] = Segment(to)
        /\ \A i \in 1..n : /\ g[i].start = h[i].start
                           /\ g[i].state = h[i].state
                           /\ g[i].end = IF i = n THEN t ELSE h[i].end
    BY <1>1, TransitionedPlaces
  <1>3. /\ g[n + 1].start = t /\ g[n + 1].end = Ongoing /\ g[n + 1].state = to
    BY <1>2 DEF Segment
  <1>4. DOMAIN h = 1..n /\ DOMAIN g = 1..(n + 1)
    BY <1>1, <1>2
  <1> HIDE DEF g, n
  <1>5. ASSUME NEW i \in 1..n PROVE F(g)[i] = F(h)[i]
    <2>1. h[i].end = Ongoing <=> i = n
      BY <1>1, <1>4 DEF IsHistory, n
    <2>2. t # Ongoing
      BY DEF Ongoing
    <2> QED BY <1>1, <1>2, <1>4, <2>1, <2>2
  <1>6. F(g)[n + 1] = 0
    BY <1>1, <1>3, <1>4
  <1>7. /\ IsFiniteSet(P(h)) /\ \A i \in 1..n : F(h)[i] \in Int
        /\ IsFiniteSet(P(g)) /\ \A i \in 1..(n + 1) : F(g)[i] \in Int
    BY <1>1, <1>2, <1>4, LengthType
  <1>8. P(h) \subseteq 1..n /\ n + 1 \notin P(h)
    BY <1>1, <1>4
  <1>9. P(g) = IF to = r THEN P(h) \cup {n + 1} ELSE P(h)
    BY <1>1, <1>2, <1>3, <1>4
  <1>10. ShownIn(g, r, t) = SumFunctionOnSet(F(g), P(g)) /\ ShownIn(h, r, t) = SumFunctionOnSet(F(h), P(h))
    BY DEF ShownIn
  <1> HIDE DEF F, P
  <1>11. SumFunctionOnSet(F(g), P(h)) = SumFunctionOnSet(F(h), P(h))
    BY <1>5, <1>7, <1>8, SumSame
  <1>12. ASSUME to = r PROVE ShownIn(g, r, t) = ShownIn(h, r, t)
    <2>1. P(g) \ {n + 1} = P(h) /\ n + 1 \in P(g)
      BY <1>8, <1>9, <1>12
    <2>2. \A i \in P(g) : F(g)[i] \in Int
      BY <1>1, <1>7, <1>8, <1>9, <1>12
    <2>3. SumFunctionOnSet(F(g), P(g)) = 0 + SumFunctionOnSet(F(g), P(h))
      BY <1>6, <1>7, <2>1, <2>2, SumRemove
    <2>4. SumFunctionOnSet(F(h), P(h)) \in Int
      BY <1>7, <1>8, SumRemove
    <2>5. SumFunctionOnSet(F(g), P(g)) = SumFunctionOnSet(F(h), P(h))
      BY <1>11, <2>3, <2>4
    <2> QED BY <1>10, <2>5
  <1>13. ASSUME to # r PROVE ShownIn(g, r, t) = ShownIn(h, r, t)
    <2>1. P(g) = P(h)
      BY <1>9, <1>13
    <2> QED BY <1>10, <1>11, <2>1
  <1>14. ShownIn(g, r, t) = ShownIn(h, r, t)
    BY <1>12, <1>13
  <1> QED BY <1>14 DEF g, t

\* A tick adds one to the time of the state that a process is in.
LEMMA LaterTime ==
    ASSUME NEW h, NEW s, NEW t \in Nat, IsHistory(h, s, t), NEW r
    PROVE  /\ ShownIn(h, r, t) \in Int
           /\ ShownIn(h, r, t + 1) = ShownIn(h, r, t) + (IF s = r THEN 1 ELSE 0)
  <1> DEFINE n == Len(h)
             F(u) == [i \in DOMAIN h |->
                         (IF h[i].end = Ongoing THEN u ELSE h[i].end) - h[i].start]
             P == {i \in DOMAIN h : h[i].state = r}
  <1>1. h \in Seq(Segments) /\ h # <<>> /\ n \in Nat /\ n >= 1 /\ n \in DOMAIN h
    BY DEF IsHistory
  <1>2. /\ h[n].state = s
        /\ \A i \in DOMAIN h : /\ h[i] \in Segments
                               /\ h[i].end = Ongoing <=> i = n
    BY <1>1 DEF IsHistory
  <1>3. /\ IsFiniteSet(P)
        /\ \A i \in P : F(t)[i] \in Int /\ F(t + 1)[i] \in Int
    <2>1. IsFiniteSet(P) /\ \A i \in DOMAIN h : F(t)[i] \in Int
      BY <1>1, LengthType
    <2>2. t + 1 \in Nat
      OBVIOUS
    <2>3. \A i \in DOMAIN h : F(t + 1)[i] \in Int
      BY <1>1, <2>2, LengthType
    <2> QED BY <2>1, <2>3
  <1>4. \A i \in P \ {n} : F(t + 1)[i] = F(t)[i]
    BY <1>2
  <1>5. F(t + 1)[n] = F(t)[n] + 1
    BY <1>1, <1>2 DEF Segments
  <1>6. n \in P <=> s = r
    BY <1>1, <1>2
  <1>7. /\ ShownIn(h, r, t) = SumFunctionOnSet(F(t), P)
        /\ ShownIn(h, r, t + 1) = SumFunctionOnSet(F(t + 1), P)
    BY DEF ShownIn
  <1> HIDE DEF F, P, n
  <1>8. SumFunctionOnSet(F(t), P) \in Int
    BY <1>3, SumRemove
  <1>9. IsFiniteSet(P \ {n}) /\ \A i \in P \ {n} : F(t)[i] \in Int
    BY <1>3, FS_Subset
  <1>10. /\ SumFunctionOnSet(F(t + 1), P \ {n}) = SumFunctionOnSet(F(t), P \ {n})
         /\ SumFunctionOnSet(F(t), P \ {n}) \in Int
    BY <1>4, <1>9, SumSame, SumRemove
  <1>11. CASE s = r
    <2>1. n \in P
      BY <1>6, <1>11
    <2>2. /\ SumFunctionOnSet(F(t), P) = F(t)[n] + SumFunctionOnSet(F(t), P \ {n})
          /\ SumFunctionOnSet(F(t + 1), P) =
                 F(t + 1)[n] + SumFunctionOnSet(F(t + 1), P \ {n})
          /\ F(t)[n] \in Int
      BY <1>3, <2>1, SumRemove
    <2>3. SumFunctionOnSet(F(t + 1), P) = SumFunctionOnSet(F(t), P) + 1
      <3>1. PICK a \in Int : a = SumFunctionOnSet(F(t), P \ {n})
        BY <1>10
      <3>2. PICK b \in Int : b = F(t)[n]
        BY <2>2
      <3> QED BY <1>5, <1>10, <2>2, <3>1, <3>2
    <2> QED BY <1>7, <1>8, <1>11, <2>3
  <1>12. CASE s # r
    <2>1. P \ {n} = P
      BY <1>6, <1>12
    <2>2. PICK a \in Int : a = SumFunctionOnSet(F(t), P)
      BY <1>8
    <2>3. ShownIn(h, r, t) = a /\ ShownIn(h, r, t + 1) = a
      BY <1>7, <1>10, <2>1, <2>2
    <2> QED BY <1>12, <2>3
  <1> QED BY <1>11, <1>12

\* A new process has been nothing but New.
LEMMA CreatedTime ==
    ASSUME NEW p, NEW r, r # "New", current_tick \in Nat
    PROVE  ShownIn(OnProcessCreated(p), r, current_tick) = 0
  <1> DEFINE h == OnProcessCreated(p)
  <1>1. {i \in DOMAIN h : h[i].state = r} = {}
    BY DEF OnProcessCreated, Segment
  <1> QED BY <1>1, SumRemove, FS_EmptySet DEF ShownIn

-----------------------------------------------------------------------------
(* The times of the report, on a clock that ticks by ones.                 *)

\* What generateReport shows as CPU time and as time blocked counts ticks of
\* one unit, as the clock of the GUI and of the demo makes them.
TicksByOne == TickInterval = 1

\* The model takes over a tick when it is completed.
ClockInv == tick = IF pc = "api" THEN current_tick ELSE current_tick + 1

LEMMA NextClockInv ==
    ASSUME TicksByOne, Inv, GanttInv, ClockInv, [GNext]_gvars
    PROVE  ClockInv'
  <1>1. tick \in Nat /\ current_tick \in Nat
    BY DEF Inv, TypeOK, GanttInv
  <1>2. CASE Observe
    <2>1. current_tick' = IF pc = "done" THEN tick ELSE current_tick
      BY <1>2 DEF Observe
    <2>2. CASE UserStep
      <3>1. UNCHANGED <<tick, pc>> /\ pc = "api"
        BY <2>2 DEF UserStep, SubmitProgram, RunProgram, SetPriority
      <3> QED BY <2>1, <3>1 DEF ClockInv
    <2>3. CASE ClockStep
      BY <1>1, <2>1, <2>3 DEF ClockStep, NotifyTick, ClockInv, TicksByOne
    <2>4. CASE KernelStep /\ pc # "done"
      <3>1. UNCHANGED tick /\ pc # "api" /\ pc' # "api"
        BY <2>4
           DEF KernelStep, Wake, ExecuteIdle, HandleSyscallBlock,
               HandleProcessExit, HandleQuantumExpired, ContinueExecution,
               ChargeTick, Raise, DispatchNext, DispatchNone, AfterDispatch,
               NotifySimulationComplete, NotifyTickCompleted
      <3> QED BY <2>1, <2>4, <3>1 DEF ClockInv
    <2>5. CASE KernelStep /\ pc = "done"
      <3>1. UNCHANGED tick /\ pc' = "api"
        BY <2>5
           DEF KernelStep, Wake, ExecuteIdle, HandleSyscallBlock,
               HandleProcessExit, HandleQuantumExpired, ContinueExecution,
               ChargeTick, DispatchNext, DispatchNone,
               NotifySimulationComplete, NotifyTickCompleted
      <3> QED BY <2>1, <2>5, <3>1 DEF ClockInv
    <2> QED BY <1>2, <2>2, <2>3, <2>4, <2>5 DEF Observe, Next
  <1>3. CASE Rebuild
    BY <1>3 DEF Rebuild, Clear, SetupKernel, ClockInv
  <1>4. CASE UNCHANGED gvars
    BY <1>4 DEF gvars, vars, ClockInv
  <1> QED BY <1>2, <1>3, <1>4 DEF GNext

\* Of a process that has no history yet nothing is shown.
TimeBefore(p, r) == IF p \in Created THEN TimeShown(p, r) ELSE 0

\* A step of the kernel adds to the times only when it completes a tick, and
\* then one to the state that each process is in.
LEMMA ObserveTimes ==
    ASSUME Inv, Inv', GanttInv, ClockInv, Observe, NEW r, r # "New",
           NEW p \in Created'
    PROVE  /\ TimeBefore(p, r) \in Int
           /\ TimeShown(p, r)' = TimeBefore(p, r) +
                  (IF pc = "done" /\ state'[p] = r THEN 1 ELSE 0)
  <1> DEFINE t == current_tick
  <1>1. t \in Nat /\ p \in Pid /\ (state[p] = "New" <=> p \notin Created)
    BY NextCreatedPids DEF GanttInv, Inv, Placement, NewUntilCreated
  <1>2. TimeShown(p, r) = ShownIn(segments[p], r, t)
    BY TimeIsShown
  <1>3. TimeShown(p, r)' = ShownIn(segments'[p], r, current_tick')
    BY DEF TimeShown, ShownIn, Places, EndShown
  <1>4. IsHistory(segments'[p], state'[p], t)
    BY ObserveHistories
  <1>5. ShownIn(segments'[p], r, t) = TimeBefore(p, r)
    <2>1. segments'[p] = IF IsNotified(p) THEN Heard(p) ELSE segments[p]
      BY <1>1 DEF Observe
    <2>2. state'[p] \in ProcessState /\ state'[p] # "New"
      BY <1>1 DEF Inv, TypeOK, Placement, NewUntilCreated
    <2>3. ASSUME p \in Created
          PROVE  ShownIn(segments'[p], r, t) = ShownIn(segments[p], r, t)
      <3>1. IsHistory(segments[p], state[p], t)
        BY <2>3 DEF GanttInv
      <3>2. segments[p] # <<>>
        BY <3>1 DEF IsHistory
      <3>3. Heard(p) = OnStateTransitioned(segments[p], state'[p])
        BY <3>2 DEF Heard
      <3> QED BY <1>1, <2>1, <2>2, <3>1, <3>3, TransitionedTime
    <2>4. ASSUME p \notin Created
          PROVE  ShownIn(segments'[p], r, t) = 0
      <3>1. segments[p] = <<>> /\ IsNotified(p)
        BY <1>1, <2>2, <2>4 DEF GanttInv, IsNotified
      <3>2. segments'[p] = OnStateTransitioned(OnProcessCreated(p), state'[p])
        BY <2>1, <3>1 DEF Heard
      <3>3. IsHistory(OnProcessCreated(p), "New", t)
        BY <1>1, CreatedHistory
      <3> QED BY <1>1, <2>2, <3>2, <3>3, TransitionedTime, CreatedTime
    <2> QED BY <1>2, <2>3, <2>4 DEF TimeBefore
  <1>6. current_tick' = IF pc = "done" THEN t + 1 ELSE t
    BY DEF Observe, ClockInv
  <1> HIDE DEF t
  <1>7. /\ ShownIn(segments'[p], r, t) \in Int
        /\ ShownIn(segments'[p], r, t + 1) =
               ShownIn(segments'[p], r, t) + (IF state'[p] = r THEN 1 ELSE 0)
    BY <1>1, <1>4, LaterTime
  <1> QED BY <1>3, <1>5, <1>6, <1>7

GanttKernelInv == KernelInv /\ GanttInv /\ ClockInv

LEMMA NextChartInv ==
    KernelInv /\ GanttInv /\ [GNext]_gvars => KernelInv' /\ GanttInv'
  <1> SUFFICES ASSUME KernelInv, GanttInv, [GNext]_gvars
               PROVE  KernelInv' /\ GanttInv'
    OBVIOUS
  <1>1. KernelInv'
    <2>1. CASE Observe
      BY <2>1, NextIsDriven, DrivenKernelInv DEF Observe
    <2>2. CASE Rebuild
      <3>1. PICK c \in Configs : SetupKernel(c, <<>>)
        BY <2>2 DEF Rebuild
      <3>2. <<>> \in Seq(Programs) /\ Len(<<>>) <= MaxProcs
        BY BoundsAssumption
      <3> QED BY <3>1, <3>2, SetupKernelInv
    <2>3. CASE UNCHANGED gvars
      BY <2>3, DrivenKernelInv DEF gvars
    <2> QED BY <2>1, <2>2, <2>3 DEF GNext
  <1> QED BY <1>1, NextGanttInv DEF KernelInv

LEMMA NextGanttKernelInv ==
    ASSUME TicksByOne, GanttKernelInv, [GNext]_gvars
    PROVE  GanttKernelInv'
  BY NextChartInv, NextClockInv DEF GanttKernelInv, KernelInv

LEMMA InitGanttKernelInv == GInit => GanttKernelInv
  BY InitKernelInv DEF GInit, Init, GanttKernelInv, GanttInv, ClockInv, Created

\* The process on the CPU is shown one tick more than it was charged, from the
\* end of the tick that dispatched it until it is charged the next one.
RunTimes ==
    \A p \in Created :
        TimeShown(p, "Running") =
            used[p] + (IF p = current /\ pc \in {"api", "wake"} THEN 1 ELSE 0)

\* How a step of the kernel charges CPU time.
LEMMA ChargingSteps ==
    ASSUME Inv, Next
    PROVE  \/ /\ pc \in {"api", "wake"} /\ pc' \in {"api", "wake"}
              /\ UNCHANGED <<used, current>>
           \/ /\ pc = "wake" /\ current = NoProc
              /\ pc' = "dispatch" /\ UNCHANGED <<used, current>>
           \/ /\ pc = "wake" /\ current \in Pid
              /\ pc' \in {"dispatch", "done"} /\ current' \in {current, NoProc}
              /\ used' = [used EXCEPT ![current] = used[current] + 1]
           \/ pc \in {"dispatch", "complete"} /\ pc' \in {"complete", "done"}
              /\ UNCHANGED used
           \/ pc = "done" /\ pc' = "api" /\ UNCHANGED <<used, current>>
  <1>1. CASE UserStep \/ ClockStep \/ Wake
    BY <1>1 DEF UserStep, SubmitProgram, RunProgram, SetPriority, ClockStep,
          NotifyTick, Wake, cpuVars
  <1>2. CASE ExecuteIdle
    BY <1>2 DEF ExecuteIdle, Raise, cpuVars
  <1>3. CASE \/ HandleSyscallBlock \/ HandleProcessExit
             \/ HandleQuantumExpired \/ ContinueExecution
    <2>1. /\ pc = "wake" /\ current \in Pid
          /\ used' = [used EXCEPT ![current] = used[current] + 1]
      BY <1>3 DEF HandleSyscallBlock, HandleProcessExit, HandleQuantumExpired,
            ContinueExecution, ChargeTick, Ran, Inv, TypeOK
    <2>2. pc' \in {"dispatch", "done"} /\ current' \in {current, NoProc}
      BY <1>3 DEF HandleSyscallBlock, HandleProcessExit, HandleQuantumExpired,
            ContinueExecution, UnloadProcess, Raise
    <2> QED BY <2>1, <2>2
  <1>4. CASE DispatchNext \/ DispatchNone \/ NotifySimulationComplete
    BY <1>4 DEF DispatchNext, DispatchNone, AfterDispatch,
          NotifySimulationComplete
  <1>5. CASE NotifyTickCompleted
    BY <1>5 DEF NotifyTickCompleted, cpuVars
  <1> QED BY <1>1, <1>2, <1>3, <1>4, <1>5 DEF Next, KernelStep

LEMMA NextRunTimes ==
    ASSUME TicksByOne, GanttKernelInv, RunTimes, [GNext]_gvars
    PROVE  RunTimes'
  <1>1. CASE Observe
    <2> SUFFICES ASSUME NEW p \in Created'
                 PROVE  TimeShown(p, "Running")' =
                            used'[p] + (IF p = current' /\ pc' \in {"api", "wake"}
                                        THEN 1 ELSE 0)
      BY DEF RunTimes
    <2>1. Inv /\ GanttInv /\ ClockInv /\ AccountInv /\ Inv'
      BY NextGanttKernelInv DEF GanttKernelInv, KernelInv
    <2>2. /\ TimeShown(p, "Running")' = TimeBefore(p, "Running") +
                 (IF pc = "done" /\ state'[p] = "Running" THEN 1 ELSE 0)
          /\ p \in Pid
      BY <1>1, <2>1, NextCreatedPids, ObserveTimes
    <2>3. /\ used[p] \in Nat /\ current \in Pid \cup {NoProc}
          /\ state[p] = "New" <=> p \notin Created
          /\ state[p] = "Running" <=> p = current
          /\ state'[p] = "Running" <=> p = current'
      BY <2>1, <2>2 DEF Inv, TypeOK, Placement, NewUntilCreated, CpuHoldsRunning
    <2>4. TimeBefore(p, "Running") =
              used[p] + (IF p = current /\ pc \in {"api", "wake"} THEN 1 ELSE 0)
      BY <2>1, <2>2, <2>3 DEF TimeBefore, RunTimes, AccountInv
    <2>5. p # NoProc
      BY <2>2
    <2>6. Next
      BY <1>1 DEF Observe
    <2>7. CASE /\ pc = "wake" /\ current \in Pid
               /\ pc' \in {"dispatch", "done"} /\ current' \in {current, NoProc}
               /\ used' = [used EXCEPT ![current] = used[current] + 1]
      <3>1. used'[p] = IF p = current THEN used[p] + 1 ELSE used[p]
        BY <2>1, <2>2, <2>7 DEF Inv, TypeOK
      <3> QED BY <2>2, <2>3, <2>4, <2>7, <3>1
    <2> QED BY <2>1, <2>2, <2>3, <2>4, <2>5, <2>6, <2>7, ChargingSteps
  <1>2. CASE Rebuild
    BY <1>2 DEF Rebuild, SetupKernel, Created, RunTimes
  <1>3. CASE UNCHANGED gvars
    BY <1>3 DEF gvars, vars, RunTimes, Created, TimeShown, Places, EndShown
  <1> QED BY <1>1, <1>2, <1>3 DEF GNext

\* The CPU ticks of the report are those that the kernel charged.
THEOREM RunTimeIsCpuTimeHolds ==
    ASSUME TicksByOne PROVE GSpec => []RunTimeIsCpuTime
  <1>1. GInit => GanttKernelInv /\ RunTimes
    BY InitGanttKernelInv DEF GInit, Init, RunTimes, Created
  <1>2. GanttKernelInv /\ RunTimes /\ [GNext]_gvars =>
            GanttKernelInv' /\ RunTimes'
    BY NextGanttKernelInv, NextRunTimes
  <1>3. RunTimes => RunTimeIsCpuTime
    BY DEF RunTimes, RunTimeIsCpuTime
  <1> QED BY <1>1, <1>2, <1>3, PTL DEF GSpec

\* Every call takes some time, as the dialog and the demo have it: the spin box
\* of a duration begins at 1.
CallsTakeTime ==
    \A m \in Programs : \A u \in DOMAIN m.calls : m.calls[u] >= 1

\* The call times up to the CPU tick n.
CallTimeAt(calls, n) == SumFunctionOnSet(calls, DOMAIN calls \cap 1..n)

LEMMA CallTimeNone ==
    ASSUME NEW calls PROVE CallTimeAt(calls, 0) = 0
  <1>1. DOMAIN calls \cap 1..0 = {}
    OBVIOUS
  <1>2. SumFunctionOnSet(calls, {}) = 0
    BY FS_EmptySet, SumRemove
  <1> QED BY <1>1, <1>2 DEF CallTimeAt

LEMMA CallTimeNext ==
    ASSUME NEW calls, \A u \in DOMAIN calls : calls[u] \in Int, NEW n \in Nat
    PROVE  /\ CallTimeAt(calls, n) \in Int
           /\ CallTimeAt(calls, n + 1) =
                  CallTimeAt(calls, n) + (IF n + 1 \in DOMAIN calls
                                          THEN calls[n + 1] ELSE 0)
  <1> DEFINE S(k) == DOMAIN calls \cap 1..k
  <1>1. ASSUME NEW k \in Nat
        PROVE  IsFiniteSet(S(k)) /\ \A u \in S(k) : calls[u] \in Int
    <2>1. IsFiniteSet(1..k)
      BY FS_Interval
    <2> QED BY <2>1, FS_Subset
  <1>2. n + 1 \in Nat
    OBVIOUS
  <1>3. IF n + 1 \in DOMAIN calls
        THEN n + 1 \in S(n + 1) /\ S(n + 1) \ {n + 1} = S(n)
        ELSE S(n + 1) = S(n)
    OBVIOUS
  <1>4. \A k \in Nat : CallTimeAt(calls, k) = SumFunctionOnSet(calls, S(k))
    BY DEF CallTimeAt
  <1> HIDE DEF S
  <1>5. CallTimeAt(calls, n) \in Int /\ CallTimeAt(calls, n + 1) \in Int
    BY <1>1, <1>2, <1>4, SumRemove
  <1>7. ASSUME n + 1 \in DOMAIN calls
        PROVE  CallTimeAt(calls, n + 1) = CallTimeAt(calls, n) + calls[n + 1]
    <2>1. SumFunctionOnSet(calls, S(n + 1)) =
              calls[n + 1] + SumFunctionOnSet(calls, S(n))
      BY <1>1, <1>2, <1>3, <1>7, SumRemove
    <2>2. PICK a \in Int : a = CallTimeAt(calls, n)
      BY <1>5
    <2>3. PICK d \in Int : d = calls[n + 1]
      BY <1>7
    <2>4. CallTimeAt(calls, n + 1) = d + a
      BY <1>2, <1>4, <2>1, <2>2, <2>3
    <2> QED BY <2>2, <2>3, <2>4
  <1>8. ASSUME n + 1 \notin DOMAIN calls
        PROVE  CallTimeAt(calls, n + 1) = CallTimeAt(calls, n)
    BY <1>2, <1>3, <1>4, <1>8
  <1> QED BY <1>5, <1>7, <1>8

\* A sleeper has been shown blocked up to the present, and the rest of its call
\* lies ahead; everyone else has been shown blocked for all of its calls.
BlockTimes ==
    /\ \A p \in Created \ InBlocked : TimeShown(p, "Blocked") = CallTime(p)
    /\ \A e \in blocked : TimeShown(e.pid, "Blocked") =
                              CallTime(e.pid) - (e.wakeup - 1 - current_tick)

LEMMA CallTimeIs == \A p : CallTime(p) = CallTimeAt(process_metadata[p].calls, used[p])
  BY DEF CallTime, CallTimeAt

LEMMA CallTimeType ==
    ASSUME Inv, NEW p \in Created
    PROVE  /\ CallTime(p) \in Int
           /\ CallTimeAt(process_metadata[p].calls, used[p] + 1) =
                  CallTime(p) + (IF used[p] + 1 \in DOMAIN process_metadata[p].calls
                                 THEN process_metadata[p].calls[used[p] + 1] ELSE 0)
  <1>1. p \in Pid /\ used[p] \in Nat
    BY CreatedPids DEF Inv, TypeOK
  <1>2. \A u \in DOMAIN process_metadata[p].calls :
            process_metadata[p].calls[u] \in Int
    BY <1>1, CallType DEF Inv
  <1> QED BY <1>1, <1>2, CallTimeNext, CallTimeIs

LEMMA SleepersAhead ==
    ASSUME CallsTakeTime, KernelInv, NEW e \in blocked
    PROVE  e.wakeup \in Int /\ e.wakeup > tick
  <1> DEFINE m == process_metadata[e.pid]
             u == used[e.pid]
  <1>1. e.pid \in Pid /\ e.wakeup \in Int /\ tick \in Int
    BY SleeperPlace DEF KernelInv, Inv, TypeOK
  <1>2. u \in DOMAIN m.calls /\ (e.wakeup <= tick => m.calls[u] <= 0)
    BY DEF KernelInv, NoOverdueSleeper
  <1>3. m \in Programs \cup {NoProgram}
    BY <1>1 DEF KernelInv, Inv, TypeOK
  <1>4. m # NoProgram
    BY <1>2 DEF NoProgram
  <1>5. m.calls[u] \in Int /\ m.calls[u] >= 1
    BY <1>2, <1>3, <1>4, ProgramsAssumption DEF CallsTakeTime
  <1> QED BY <1>1, <1>2, <1>5

\* A step that blocks, wakes and charges nobody.
LEMMA QuietBlockTimes ==
    ASSUME GanttKernelInv, GanttKernelInv', BlockTimes, Observe, pc # "done",
           UNCHANGED <<blocked, used>>,
           \A p \in Created : process_metadata'[p] = process_metadata[p]
    PROVE  BlockTimes'
  <1> USE DEF GanttKernelInv, KernelInv
  <1>1. UNCHANGED <<current_tick, InBlocked>>
    BY DEF Observe, InBlocked
  <1>2. ASSUME NEW p \in Created'
        PROVE  TimeShown(p, "Blocked")' = TimeBefore(p, "Blocked")
    <2>1. /\ TimeBefore(p, "Blocked") \in Int
          /\ TimeShown(p, "Blocked")' = TimeBefore(p, "Blocked") + 0
      BY ObserveTimes
    <2> QED BY <2>1
  <1>3. ASSUME NEW p \in Created PROVE CallTime(p)' = CallTime(p)
    BY DEF CallTime
  <1>4. ASSUME NEW p \in Created' \ InBlocked'
        PROVE  TimeShown(p, "Blocked")' = CallTime(p)'
    <2>1. CASE p \in Created
      BY <1>1, <1>2, <1>3, <1>4, <2>1 DEF BlockTimes, TimeBefore
    <2>2. CASE p \notin Created
      <3>1. p \in Pid /\ state[p] = "New"
        BY <2>2, NextCreatedPids DEF Inv, Placement, NewUntilCreated
      <3>2. used'[p] = 0
        BY <3>1 DEF AccountInv
      <3>3. CallTime(p)' = 0
        <4>1. CallTime(p)' = CallTimeAt(process_metadata'[p].calls, 0)
          BY <3>2 DEF CallTime, CallTimeAt
        <4> QED BY <4>1, CallTimeNone
      <3> QED BY <1>2, <2>2, <3>3 DEF TimeBefore
    <2> QED BY <2>1, <2>2
  <1>5. ASSUME NEW e \in blocked'
        PROVE  TimeShown(e.pid, "Blocked")' =
                   CallTime(e.pid)' - (e.wakeup - 1 - current_tick')
    <2>1. e \in blocked /\ e.pid \in Created
      BY SleeperPlace DEF Inv, Placement, NewUntilCreated
    <2>2. e.pid \in Created'
      BY <2>1, NextIsDriven, OnlyForward DEF Observe
    <2> QED BY <1>1, <1>2, <1>3, <2>1, <2>2 DEF BlockTimes, TimeBefore
  <1> QED BY <1>4, <1>5 DEF BlockTimes

\* The clock wakes exactly those whose time is up.
LEMMA ClockBlockTimes ==
    ASSUME TicksByOne, CallsTakeTime, GanttKernelInv, GanttKernelInv',
           BlockTimes, Observe, ClockStep
    PROVE  BlockTimes'
  <1> USE DEF GanttKernelInv, KernelInv
  <1>1. /\ pc = "api" /\ tick = current_tick /\ current_tick \in Nat
        /\ blocked' = blocked \ Due(tick + 1)
        /\ UNCHANGED <<used, process_metadata, next_pid>>
    BY DEF ClockStep, NotifyTick, TicksByOne, ClockInv, GanttInv, userVars
  <1>2. UNCHANGED <<current_tick, Created>>
    BY <1>1 DEF Observe, Created
  <1>3. ASSUME NEW p \in Created
        PROVE  /\ TimeShown(p, "Blocked")' = TimeShown(p, "Blocked")
               /\ TimeShown(p, "Blocked") \in Int /\ CallTime(p)' = CallTime(p)
    <2>1. /\ TimeBefore(p, "Blocked") \in Int
          /\ TimeShown(p, "Blocked")' = TimeBefore(p, "Blocked") + 0
      BY <1>1, <1>2, ObserveTimes
    <2> QED BY <1>1, <2>1 DEF TimeBefore, CallTime
  <1>4. \A e \in blocked : e.pid \in Created
    BY SleeperPlace DEF Inv, Placement, NewUntilCreated
  <1>5. ASSUME NEW p \in Created' \ InBlocked'
        PROVE  TimeShown(p, "Blocked")' = CallTime(p)'
    <2>1. CASE p \notin InBlocked
      BY <1>2, <1>3, <2>1 DEF BlockTimes
    <2>2. CASE p \in InBlocked
      <3>1. PICK e \in blocked : e.pid = p
        BY <2>2 DEF InBlocked
      <3>2. e \in Due(tick + 1)
        BY <1>1, <1>5, <3>1 DEF InBlocked
      <3>3. e.wakeup = current_tick + 1
        BY <1>1, <3>2, SleepersAhead DEF Due
      <3>4. TimeShown(p, "Blocked") = CallTime(p) - 0
        BY <1>1, <3>1, <3>3 DEF BlockTimes
      <3>5. CallTime(p) \in Int
        BY <1>5, <1>2, CallTimeType
      <3>6. TimeShown(p, "Blocked") = CallTime(p)
        BY <3>4, <3>5
      <3> QED BY <1>2, <1>3, <3>6
    <2> QED BY <2>1, <2>2
  <1>6. ASSUME NEW e \in blocked'
        PROVE  TimeShown(e.pid, "Blocked")' =
                   CallTime(e.pid)' - (e.wakeup - 1 - current_tick')
    <2>1. e \in blocked
      BY <1>1
    <2> QED BY <1>2, <1>3, <1>4, <2>1 DEF BlockTimes
  <1> QED BY <1>5, <1>6 DEF BlockTimes

\* While a tick is completed every sleeper is shown blocked for one more.
LEMMA CompletedBlockTimes ==
    ASSUME GanttKernelInv, GanttKernelInv', BlockTimes, Observe, pc = "done"
    PROVE  BlockTimes'
  <1> USE DEF GanttKernelInv, KernelInv
  <1>1. /\ UNCHANGED <<blocked, used, process_metadata, next_pid, state>>
        /\ current_tick' = current_tick + 1 /\ current_tick \in Nat
    <2>1. NotifyTickCompleted
      BY DEF Observe, Next, KernelStep, UserStep, ClockStep, SubmitProgram,
             RunProgram, SetPriority, NotifyTick, Wake, ExecuteIdle,
             HandleSyscallBlock, HandleProcessExit, HandleQuantumExpired,
             ContinueExecution, ChargeTick, DispatchNext, DispatchNone,
             NotifySimulationComplete
    <2> QED BY <2>1 DEF NotifyTickCompleted, Observe, ClockInv, GanttInv, userVars
  <1>2. UNCHANGED <<Created, InBlocked>>
    BY <1>1 DEF Created, InBlocked
  <1>3. ASSUME NEW p \in Created
        PROVE  /\ TimeShown(p, "Blocked") \in Int
               /\ CallTime(p) \in Int /\ CallTime(p)' = CallTime(p)
               /\ TimeShown(p, "Blocked")' = TimeShown(p, "Blocked") +
                      (IF state[p] = "Blocked" THEN 1 ELSE 0)
    <2>1. CallTime(p) \in Int /\ CallTime(p)' = CallTime(p)
      BY <1>1, CallTimeType DEF CallTime
    <2> QED BY <1>1, <1>2, <2>1, ObserveTimes DEF TimeBefore
  <1>4. \A e \in blocked : /\ e.pid \in Created /\ e.wakeup \in Int
                           /\ state[e.pid] = "Blocked"
    BY SleeperPlace DEF Inv, Placement, NewUntilCreated
  <1>5. ASSUME NEW p \in Created' \ InBlocked'
        PROVE  TimeShown(p, "Blocked")' = CallTime(p)'
    <2>1. p \in Created /\ p \notin InBlocked /\ waking = <<>>
      BY <1>2, <1>5 DEF Inv, ControlInv
    <2>2. state[p] # "Blocked"
      BY <2>1, CreatedPids DEF Inv, Placement, BlockedHeldOnce, ToSet
    <2>3. PICK a \in Int : a = CallTime(p) /\ a = TimeShown(p, "Blocked")
      BY <1>3, <2>1 DEF BlockTimes
    <2>4. TimeShown(p, "Blocked")' = a + 0 /\ CallTime(p)' = a
      BY <1>3, <2>1, <2>2, <2>3
    <2> QED BY <2>4
  <1>6. ASSUME NEW e \in blocked'
        PROVE  TimeShown(e.pid, "Blocked")' =
                   CallTime(e.pid)' - (e.wakeup - 1 - current_tick')
    <2>1. e \in blocked /\ e.pid \in Created /\ state[e.pid] = "Blocked"
      BY <1>1, <1>4
    <2>2. PICK a \in Int : a = CallTime(e.pid)
      BY <1>3, <2>1
    <2>3. PICK w \in Int : w = e.wakeup
      BY <1>4, <2>1
    <2>4. TimeShown(e.pid, "Blocked") = a - (w - 1 - current_tick)
      BY <2>1, <2>2, <2>3 DEF BlockTimes
    <2>5. TimeShown(e.pid, "Blocked")' = a - (w - 1 - current_tick) + 1
      BY <1>3, <2>1, <2>4
    <2> QED BY <1>1, <1>3, <2>1, <2>2, <2>3, <2>5
  <1> QED BY <1>5, <1>6 DEF BlockTimes

\* A charged tick that is a call puts the process to sleep for the call's time.
LEMMA ChargedBlockTimes ==
    ASSUME GanttKernelInv, GanttKernelInv', BlockTimes, Observe,
           \/ HandleSyscallBlock \/ HandleProcessExit
           \/ HandleQuantumExpired \/ ContinueExecution
    PROVE  BlockTimes'
  <1> USE DEF GanttKernelInv, KernelInv
  <1>0. PICK c, s : c = current /\ s = [pid |-> c, wakeup |-> tick + Calls[Ran]]
    OBVIOUS
  <1>1. /\ pc = "wake" /\ c \in Pid /\ c \in Created
        /\ c \notin InBlocked
        /\ used' = [used EXCEPT ![c] = used[c] + 1]
        /\ UNCHANGED <<process_metadata, next_pid, current_tick>>
    <2>1. /\ ChargeTick /\ UNCHANGED userVars
      BY DEF HandleSyscallBlock, HandleProcessExit, HandleQuantumExpired,
             ContinueExecution
    <2>2. c \in Pid /\ state[c] = "Running"
      BY <1>0, <2>1 DEF ChargeTick, Inv, TypeOK, Placement, CpuHoldsRunning
    <2>3. c \in Created /\ c \notin InBlocked
      BY <2>2 DEF Inv, Placement, NewUntilCreated, BlockedHeldOnce
    <2> QED BY <1>0, <2>1, <2>2, <2>3 DEF ChargeTick, Ran, userVars, Observe
  <1>2. blocked' = IF Ran \in DOMAIN Calls THEN blocked \cup {s} ELSE blocked
    BY <1>0 DEF HandleSyscallBlock, HandleProcessExit, HandleQuantumExpired,
           ContinueExecution, HasSyscall, MoveToBlocked
  <1>3. UNCHANGED Created /\ tick = current_tick + 1 /\ current_tick \in Nat
    BY <1>1 DEF Created, ClockInv, GanttInv
  <1>4. ASSUME NEW p \in Created
        PROVE  /\ TimeShown(p, "Blocked")' = TimeShown(p, "Blocked")
               /\ CallTime(p) \in Int
               /\ p # c => CallTime(p)' = CallTime(p)
    <2>1. /\ TimeBefore(p, "Blocked") \in Int
          /\ TimeShown(p, "Blocked")' = TimeBefore(p, "Blocked") + 0
      BY <1>1, <1>3, ObserveTimes
    <2>2. p # c => used'[p] = used[p]
      BY <1>1, CreatedPids DEF Inv, TypeOK
    <2> QED BY <1>1, <2>1, <2>2, CallTimeType DEF TimeBefore, CallTime
  <1>5. CallTime(c)' = CallTime(c) + (IF Ran \in DOMAIN Calls THEN Calls[Ran] ELSE 0)
    <2>1. used'[c] = used[c] + 1
      BY <1>1 DEF Inv, TypeOK
    <2>2. CallTime(c)' = CallTimeAt(process_metadata[c].calls, used[c] + 1)
      BY <1>1, <2>1 DEF CallTime, CallTimeAt
    <2> QED BY <1>0, <1>1, <2>2, CallTimeType DEF Ran, Calls
  <1>6. \A e \in blocked : e.pid \in Created /\ e.pid # c
    BY <1>0, SleeperPlace DEF Inv, Placement, NewUntilCreated
  <1>7. \A e \in blocked : TimeShown(e.pid, "Blocked")' =
                               CallTime(e.pid)' - (e.wakeup - 1 - current_tick')
    BY <1>1, <1>4, <1>6 DEF BlockTimes
  <1>8. InBlocked' = IF Ran \in DOMAIN Calls THEN InBlocked \cup {c} ELSE InBlocked
    BY <1>0, <1>2 DEF InBlocked
  <1>9. ASSUME NEW p \in Created' \ InBlocked', p # c
        PROVE  TimeShown(p, "Blocked")' = CallTime(p)'
    BY <1>3, <1>4, <1>8, <1>9 DEF BlockTimes
  <1>10. PICK a \in Int : a = CallTime(c) /\ a = TimeShown(c, "Blocked")
    BY <1>1, <1>4 DEF BlockTimes
  <1>11. CASE Ran \notin DOMAIN Calls
    <2>1. CallTime(c)' = a + 0 /\ TimeShown(c, "Blocked")' = a
      BY <1>1, <1>4, <1>5, <1>10, <1>11
    <2> QED BY <1>2, <1>7, <1>9, <1>11, <2>1 DEF BlockTimes
  <1>12. CASE Ran \in DOMAIN Calls
    <2>1. PICK d \in Int : d = Calls[Ran]
      BY <1>0, <1>1, <1>12, CallType DEF Inv, Calls
    <2>2. CallTime(c)' = a + d /\ TimeShown(c, "Blocked")' = a
      BY <1>1, <1>4, <1>5, <1>10, <1>12, <2>1
    <2>3. s.pid = c /\ s.wakeup = current_tick + 1 + d
      BY <1>0, <1>3, <2>1
    <2>4. TimeShown(s.pid, "Blocked")' =
              CallTime(s.pid)' - (s.wakeup - 1 - current_tick')
      <3>1. a = (a + d) - ((current_tick + 1 + d) - 1 - current_tick)
        BY <1>3
      <3> QED BY <1>1, <2>2, <2>3, <3>1
    <2>5. c \in InBlocked'
      BY <1>8, <1>12
    <2> QED BY <1>2, <1>7, <1>9, <1>12, <2>4, <2>5 DEF BlockTimes
  <1> QED BY <1>11, <1>12

LEMMA NextBlockTimes ==
    ASSUME TicksByOne, CallsTakeTime, GanttKernelInv, BlockTimes, [GNext]_gvars
    PROVE  BlockTimes'
  <1>1. GanttKernelInv'
    BY NextGanttKernelInv
  <1>2. CASE Observe
    <2>1. CASE pc = "done"
      BY <1>1, <1>2, <2>1, CompletedBlockTimes
    <2>2. CASE ClockStep
      BY <1>1, <1>2, <2>2, ClockBlockTimes
    <2>3. CASE \/ HandleSyscallBlock \/ HandleProcessExit
               \/ HandleQuantumExpired \/ ContinueExecution
      BY <1>1, <1>2, <2>3, ChargedBlockTimes
    <2>4. CASE UserStep
      <3>1. /\ pc = "api" /\ UNCHANGED <<blocked, used>>
            /\ \A p \in Pid \ {next_pid} :
                   process_metadata'[p] = process_metadata[p]
        BY <2>4 DEF UserStep, SubmitProgram, RunProgram, SetPriority,
              GanttKernelInv, KernelInv, Inv, TypeOK
      <3>2. \A p \in Created : p \in Pid /\ p # next_pid
        BY CreatedPids DEF GanttKernelInv, KernelInv, Created, Inv, TypeOK
      <3> QED BY <1>1, <1>2, <3>1, <3>2, QuietBlockTimes
    <2>5. CASE \/ Wake \/ ExecuteIdle \/ DispatchNext \/ DispatchNone
               \/ NotifySimulationComplete
      <3>1. pc # "done" /\ UNCHANGED <<blocked, used, process_metadata>>
        BY <2>5 DEF Wake, ExecuteIdle, DispatchNext, DispatchNone,
              NotifySimulationComplete, userVars
      <3> QED BY <1>1, <1>2, <3>1, QuietBlockTimes
    <2>6. CASE NotifyTickCompleted
      BY <2>1, <2>6 DEF NotifyTickCompleted
    <2> QED BY <1>2, <2>2, <2>3, <2>4, <2>5, <2>6 DEF Observe, Next, KernelStep
  <1>3. CASE Rebuild
    BY <1>3 DEF Rebuild, SetupKernel, Created, BlockTimes
  <1>4. CASE UNCHANGED gvars
    BY <1>4 DEF gvars, vars, BlockTimes, Created, InBlocked, TimeShown, Places,
          EndShown, CallTime
  <1> QED BY <1>2, <1>3, <1>4 DEF GNext

\* A process is shown blocked for as long as its calls take.
THEOREM BlockedTimeIsCallTimeHolds ==
    ASSUME TicksByOne, CallsTakeTime PROVE GSpec => []BlockedTimeIsCallTime
  <1>1. GInit => GanttKernelInv /\ BlockTimes
    BY InitGanttKernelInv DEF GInit, Init, BlockTimes, Created
  <1>2. GanttKernelInv /\ BlockTimes /\ [GNext]_gvars =>
            GanttKernelInv' /\ BlockTimes'
    BY NextGanttKernelInv, NextBlockTimes
  <1>3. BlockTimes => BlockedTimeIsCallTime
    BY DEF BlockTimes, BlockedTimeIsCallTime
  <1> QED BY <1>1, <1>2, <1>3, PTL DEF GSpec

-----------------------------------------------------------------------------
(* Context switches.                                                       *)

\* The spin box of the quantum begins at 1; FCFS does not look at it.
QuantumsPositive ==
    \A c \in Configs : c.policy # "FCFS" => c.quantum >= 1

LEMMA QuantumPositive ==
    ASSUME QuantumsPositive, Inv
    PROVE  DefaultQuantum \in Nat /\ DefaultQuantum >= 1
  <1>1. /\ config.policy \in Policies /\ config.quantum \in Int
        /\ config.policy # "FCFS" => config.quantum >= 1
    BY ConfigsAssumption DEF QuantumsPositive, Inv, TypeOK
  <1> QED BY <1>1, SMT DEF DefaultQuantum, IntMax

\* The last of the CPU ticks 1..n that is a call, if any.
LastCall(calls, n) == Max({0} \cup (calls \cap 1..n))

LEMMA LastCallNext ==
    ASSUME NEW calls, NEW n \in Nat
    PROVE  /\ LastCall(calls, 0) = 0
           /\ LastCall(calls, n) \in 0..n
           /\ LastCall(calls, n + 1) = IF n + 1 \in calls THEN n + 1
                                       ELSE LastCall(calls, n)
  <1> DEFINE S(k) == {0} \cup (calls \cap 1..k)
  <1>1. ASSUME NEW k \in Nat
        PROVE  /\ Max(S(k)) \in S(k) /\ S(k) \subseteq 0..k
               /\ \A x \in S(k) : x <= Max(S(k))
    <2>1. IsFiniteSet(0..k)
      BY FS_Interval
    <2>2. S(k) \subseteq 0..k /\ S(k) \subseteq Int /\ 0 \in S(k)
      OBVIOUS
    <2>3. IsFiniteSet(S(k))
      BY <2>1, <2>2, FS_Subset
    <2> HIDE DEF S
    <2> QED BY <2>2, <2>3, MaxBounds
  <1>2. \A k : LastCall(calls, k) = Max(S(k))
    BY DEF LastCall
  <1>3. n + 1 \notin calls => S(n + 1) = S(n)
    OBVIOUS
  <1>4. n + 1 \in calls => n + 1 \in S(n + 1)
    OBVIOUS
  <1> HIDE DEF S
  <1>5. Max(S(0)) \in 0..0
    BY <1>1
  <1>6. ASSUME n + 1 \in calls PROVE Max(S(n + 1)) = n + 1
    <2>1. n + 1 <= Max(S(n + 1)) /\ Max(S(n + 1)) \in 0..(n + 1)
      BY <1>1, <1>4, <1>6
    <2> QED BY <2>1
  <1>7. Max(S(n)) \in 0..n
    BY <1>1
  <1> QED BY <1>2, <1>3, <1>5, <1>6, <1>7

\* Whether the CPU tick u, charged, interrupts a process with these calls that
\* goes on after it.
Interrupts(calls, u) ==
    u \in calls \/ (u - LastCall(calls, u - 1)) % DefaultQuantum = 0

InterruptedBy(calls, n) == {u \in 1..n : Interrupts(calls, u)}

LEMMA InterruptionsAre ==
    ASSUME NEW p
    PROVE  Interruptions(p) =
               InterruptedBy(DOMAIN process_metadata[p].calls, used[p] - 1)
  BY DEF Interruptions, InterruptedBy, Interrupts, LastCall

LEMMA InterruptedNext ==
    ASSUME NEW calls, NEW n \in Nat
    PROVE  /\ Cardinality(InterruptedBy(calls, 0)) = 0
           /\ Cardinality(InterruptedBy(calls, n)) \in Nat
           /\ Cardinality(InterruptedBy(calls, n + 1)) =
                  Cardinality(InterruptedBy(calls, n)) +
                  (IF Interrupts(calls, n + 1) THEN 1 ELSE 0)
  <1> DEFINE I(k) == InterruptedBy(calls, k)
  <1>1. I(0) = {}
    BY DEF InterruptedBy
  <1>2. IsFiniteSet(I(n)) /\ n + 1 \notin I(n)
    <2>1. IsFiniteSet(1..n) /\ n + 1 \notin 1..n /\ I(n) \subseteq 1..n
      BY FS_Interval DEF InterruptedBy
    <2> QED BY <2>1, FS_Subset
  <1>3. I(n + 1) = IF Interrupts(calls, n + 1) THEN I(n) \cup {n + 1} ELSE I(n)
    <2>1. 1..(n + 1) = 1..n \cup {n + 1}
      OBVIOUS
    <2> QED BY <2>1 DEF InterruptedBy
  <1> HIDE DEF I
  <1>4. /\ Cardinality(I(0)) = 0 /\ Cardinality(I(n)) \in Nat
        /\ Cardinality(I(n) \cup {n + 1}) = Cardinality(I(n)) + 1
    BY <1>1, <1>2, FS_EmptySet, FS_CardinalityType, FS_AddElement
  <1>5. Cardinality(I(n + 1)) = Cardinality(I(n)) +
                                (IF Interrupts(calls, n + 1) THEN 1 ELSE 0)
    BY <1>3, <1>4
  <1> QED BY <1>4, <1>5 DEF I

\* A history gains a segment in which the process runs when it is dispatched,
\* and loses none.
LEMMA ObservePlaces ==
    ASSUME Inv, Inv', GanttInv, Observe, NEW p \in Pid
    PROVE  /\ Cardinality(Places(p, "Running")) \in Nat
           /\ p \notin Created => Cardinality(Places(p, "Running")) = 0
           /\ Cardinality(Places(p, "Running")') =
                  Cardinality(Places(p, "Running")) +
                  (IF state[p] # "Running" /\ state'[p] = "Running" THEN 1 ELSE 0)
  <1> DEFINE R == Places(p, "Running")
             g == segments'[p]
             Rg == {i \in DOMAIN g : g[i].state = "Running"}
  <1>1. Places(p, "Running")' = Rg
    BY DEF Places
  <1>2. /\ p \notin Created => segments[p] = <<>>
        /\ p \in Created => IsHistory(segments[p], state[p], current_tick)
        /\ current_tick \in Nat /\ state'[p] \in ProcessState
    BY DEF GanttInv, Inv, TypeOK
  <1>3. IsFiniteSet(R) /\ (p \notin Created => R = {})
    <2>1. CASE p \in Created
      <3>1. segments[p] \in Seq(Segments)
        BY <1>2, <2>1 DEF IsHistory
      <3>2. IsFiniteSet(DOMAIN segments[p]) /\ R \subseteq DOMAIN segments[p]
        BY <3>1, FS_Interval DEF Places
      <3> QED BY <2>1, <3>2, FS_Subset
    <2>2. CASE p \notin Created
      BY <1>2, <2>2, FS_EmptySet DEF Places
    <2> QED BY <2>1, <2>2
  <1>4. g = IF IsNotified(p) THEN Heard(p) ELSE segments[p]
    BY DEF Observe
  <1>5. CASE ~IsNotified(p)
    <2>1. Rg = R
      BY <1>4, <1>5 DEF Places
    <2>2. Cardinality(R) \in Nat /\ (p \notin Created => Cardinality(R) = 0)
      BY <1>3, FS_CardinalityType, FS_EmptySet
    <2>3. Cardinality(Rg) = Cardinality(R) /\ state'[p] = state[p]
      BY <1>5, <2>1 DEF IsNotified
    <2> HIDE DEF R, Rg
    <2>4. /\ Cardinality(Rg) = Cardinality(R) + 0
          /\ ~(state[p] # "Running" /\ state'[p] = "Running")
      BY <2>2, <2>3
    <2> QED BY <1>1, <2>2, <2>4 DEF R
  <1>6. CASE IsNotified(p)
    <2> DEFINE h == IF segments[p] = <<>> THEN OnProcessCreated(p)
                                          ELSE segments[p]
               n == Len(h)
    <2>1. g = OnStateTransitioned(h, state'[p])
      BY <1>4, <1>6 DEF Heard
    <2>2. \E s : IsHistory(h, s, current_tick)
      BY <1>2, CreatedHistory DEF IsHistory
    <2>3. {i \in DOMAIN h : h[i].state = "Running"} = R
      <3>1. CASE segments[p] = <<>>
        BY <3>1 DEF OnProcessCreated, Segment, Places
      <3>2. CASE segments[p] # <<>>
        BY <3>2 DEF Places
      <3> QED BY <3>1, <3>2
    <2> HIDE DEF h
    <2>4. h \in Seq(Segments) /\ h # <<>> /\ n \in Nat /\ DOMAIN h = 1..n
      BY <2>2 DEF IsHistory
    <2>5. /\ g[n + 1] = Segment(state'[p]) /\ DOMAIN g = 1..(n + 1)
          /\ \A k \in 1..n : g[k].state = h[k].state
      BY <1>2, <2>1, <2>4, TransitionedPlaces
    <2>6. g[n + 1].state = state'[p]
      BY <2>5 DEF Segment
    <2> HIDE DEF n, g, R
    <2>7. n + 1 \notin R /\ Rg = IF state'[p] = "Running" THEN R \cup {n + 1} ELSE R
      BY <2>3, <2>4, <2>5, <2>6
    <2>8. /\ Cardinality(R) \in Nat
          /\ Cardinality(R \cup {n + 1}) = Cardinality(R) + 1
          /\ p \notin Created => Cardinality(R) = 0
      BY <1>3, <2>7, FS_CardinalityType, FS_AddElement, FS_EmptySet
    <2> HIDE DEF Rg
    <2>9. state[p] # state'[p]
      BY <1>6 DEF IsNotified
    <2>10. Cardinality(Rg) = Cardinality(R) +
              (IF state[p] # "Running" /\ state'[p] = "Running" THEN 1 ELSE 0)
      BY <2>7, <2>8, <2>9
    <2> QED BY <1>1, <2>8, <2>10 DEF R
  <1> QED BY <1>5, <1>6

\* What is gone of the slice at the CPU tick n: the quantum is counted from the
\* last call on, and begins anew when it is used up.
Gone(calls, n) == (n - LastCall(calls, n)) % DefaultQuantum

LEMMA GoneNext ==
    ASSUME DefaultQuantum \in Nat, DefaultQuantum >= 1, NEW calls, NEW n \in Nat
    PROVE  /\ Gone(calls, 0) = 0
           /\ Gone(calls, n) \in 0..(DefaultQuantum - 1)
           /\ Gone(calls, n + 1) =
                  IF n + 1 \in calls \/ Gone(calls, n) = DefaultQuantum - 1
                  THEN 0 ELSE Gone(calls, n) + 1
           /\ Interrupts(calls, n + 1) <=> Gone(calls, n + 1) = 0
  <1> DEFINE q == DefaultQuantum
             d == n - LastCall(calls, n)
  <1>1. /\ LastCall(calls, 0) = 0 /\ LastCall(calls, n) \in 0..n
        /\ LastCall(calls, n + 1) = IF n + 1 \in calls THEN n + 1
                                    ELSE LastCall(calls, n)
    BY LastCallNext
  <1>2. d \in Nat /\ d + 1 = (n + 1) - LastCall(calls, n) /\ (n + 1) - 1 = n
    BY <1>1
  <1>3. /\ 0 % q = 0 /\ d % q \in 0..(q - 1)
        /\ (d + 1) % q = IF d % q = q - 1 THEN 0 ELSE (d % q) + 1
    <2> HIDE DEF d, q
    <2> QED BY <1>2, RemainderNext DEF q
  <1>4. Gone(calls, 0) = 0 % q /\ Gone(calls, n) = d % q
    BY <1>1 DEF Gone
  <1>5. Gone(calls, n + 1) = IF n + 1 \in calls THEN 0 % q ELSE (d + 1) % q
    <2>1. n + 1 \in calls => (n + 1) - LastCall(calls, n + 1) = 0
      BY <1>1
    <2>2. n + 1 \notin calls => (n + 1) - LastCall(calls, n + 1) = d + 1
      BY <1>1, <1>2
    <2> QED BY <2>1, <2>2 DEF Gone
  <1>6. Interrupts(calls, n + 1) <=> n + 1 \in calls \/ (d + 1) % q = 0
    BY <1>2 DEF Interrupts
  <1> HIDE DEF d, q
  <1>7. Interrupts(calls, n + 1) <=> Gone(calls, n + 1) = 0
    BY <1>3, <1>5, <1>6
  <1> QED BY <1>3, <1>4, <1>5, <1>7 DEF q

CallTicks(p) == DOMAIN process_metadata[p].calls

\* The CPU ticks of p that something may have followed: the one it ended with
\* is not among them.
Passed(p) == IF state[p] = "Terminated" THEN used[p] - 1 ELSE used[p]

\* The quantum of the running process is what is left of the slice, those that
\* wait begin a new one, and each interruption so far ended one of the segments
\* in which the process ran; the last of these nothing has interrupted.
Switched(p) ==
    /\ state[p] \in {"Ready", "Blocked"} => Gone(CallTicks(p), used[p]) = 0
    /\ state[p] = "Running" =>
           quantum = DefaultQuantum - Gone(CallTicks(p), used[p])
    /\ Cardinality(Places(p, "Running")) =
           Cardinality(InterruptedBy(CallTicks(p), Passed(p))) +
           (IF state[p] \in {"Running", "Terminated"} THEN 1 ELSE 0)

SwitchInv == \A p \in Created : Switched(p)

\* What a step of the kernel may do to one of the processes.
Rests(p) == /\ used'[p] = used[p] /\ state'[p] = state[p]
            /\ state[p] = "Running" => quantum' = quantum

Wakes(p) == used'[p] = used[p] /\ state[p] = "Blocked" /\ state'[p] = "Ready"

Starts(p) == /\ used'[p] = used[p] /\ state[p] = "Ready" /\ state'[p] = "Running"
             /\ quantum' = DefaultQuantum

IsCharged(p) ==
    /\ used'[p] = used[p] + 1 /\ state[p] = "Running"
    /\ \/ used[p] + 1 \in CallTicks(p) /\ state'[p] = "Blocked"
       \/ used[p] + 1 \notin CallTicks(p) /\ state'[p] = "Terminated"
       \/ /\ used[p] + 1 \notin CallTicks(p) /\ state'[p] = "Ready"
          /\ \E q \in CountedDown : q <= 0
       \/ /\ used[p] + 1 \notin CallTicks(p) /\ state'[p] = "Running"
          /\ quantum' \in CountedDown /\ ~(quantum' <= 0)

LEMMA ProcessMoves ==
    ASSUME Inv, Next, NEW p \in Created
    PROVE  /\ process_metadata'[p] = process_metadata[p] /\ UNCHANGED config
           /\ Rests(p) \/ Wakes(p) \/ Starts(p) \/ IsCharged(p)
  <1> USE DEF Inv
  <1>1. /\ p \in Pid /\ p # next_pid /\ state[p] \in ProcessState
        /\ used \in [Pid -> Nat] /\ state \in [Pid -> ProcessState]
        /\ process_metadata \in [Pid -> Programs \cup {NoProgram}]
        /\ state[p] = "Running" <=> p = current
    <2>1. p \in Pid
      BY CreatedPids
    <2>2. p # next_pid
      BY DEF Created, TypeOK
    <2> QED BY <2>1, <2>2 DEF TypeOK, Placement, CpuHoldsRunning
  <1>2. process_metadata'[p] = process_metadata[p] /\ UNCHANGED config
    <2>1. CASE UserStep
      BY <1>1, <2>1 DEF UserStep, SubmitProgram, RunProgram, SetPriority
    <2>2. CASE ~UserStep
      <3>1. UNCHANGED userVars
        BY <2>2 DEF Next, KernelStep, ClockStep, NotifyTick, Wake, ExecuteIdle,
              HandleSyscallBlock, HandleProcessExit, HandleQuantumExpired,
              ContinueExecution, DispatchNext, DispatchNone,
              NotifySimulationComplete, NotifyTickCompleted
      <3> QED BY <3>1 DEF userVars
    <2> QED BY <2>1, <2>2
  <1>3. CASE \/ ClockStep \/ ExecuteIdle \/ DispatchNone
             \/ NotifySimulationComplete \/ NotifyTickCompleted
    <2>1. UNCHANGED <<state, used, quantum>>
      BY <1>3 DEF ClockStep, NotifyTick, ExecuteIdle, DispatchNone,
            NotifySimulationComplete, NotifyTickCompleted, cpuVars
    <2> QED BY <1>2, <2>1 DEF Rests
  <1>4. CASE UserStep
    <2>1. UNCHANGED <<used, quantum>> /\ state'[p] = state[p]
      BY <1>1, <1>4 DEF UserStep, SubmitProgram, RunProgram, SetPriority,
            Transition, cpuVars
    <2> QED BY <1>2, <2>1 DEF Rests
  <1>5. CASE Wake
    <2>1. /\ UNCHANGED <<used, quantum>> /\ state[Head(waking)] = "Blocked"
          /\ state' = [state EXCEPT ![Head(waking)] = "Ready"]
      BY <1>5 DEF Wake, Transition, IsValidTransition, Source, TargetState,
            Target, cpuVars
    <2> QED BY <1>1, <1>2, <2>1 DEF Rests, Wakes
  <1>6. CASE DispatchNext
    <2>1. PICK r : /\ UNCHANGED used /\ state[r] = "Ready" /\ current = NoProc
                   /\ state' = [state EXCEPT ![r] = "Running"]
                   /\ quantum' = DefaultQuantum
      BY <1>6 DEF DispatchNext, Transition, IsValidTransition, Source,
            TargetState, Target, LoadProcess, ControlInv
    <2> QED BY <1>1, <1>2, <2>1 DEF Rests, Starts
  <1>7. ASSUME ChargeTick
        PROVE  /\ current \in Pid
               /\ p # current => used'[p] = used[p] /\ state[p] # "Running"
               /\ p = current => /\ used'[p] = used[p] + 1
                                 /\ Ran = used[p] + 1
                                 /\ DOMAIN Calls = CallTicks(p)
    BY <1>1, <1>7 DEF ChargeTick, Ran, Calls, CallTicks, TypeOK
  <1>8. CASE HandleSyscallBlock
    BY <1>1, <1>2, <1>7, <1>8 DEF HandleSyscallBlock, HasSyscall, Transition,
          IsValidTransition, Source, TargetState, Target, Rests, IsCharged
  <1>9. CASE HandleProcessExit
    BY <1>1, <1>2, <1>7, <1>9 DEF HandleProcessExit, HasSyscall, Transition,
          IsValidTransition, Source, TargetState, Target, Rests, IsCharged
  <1>10. CASE HandleQuantumExpired
    BY <1>1, <1>2, <1>7, <1>10 DEF HandleQuantumExpired, HasSyscall, Transition,
          IsValidTransition, Source, TargetState, Target, Rests, IsCharged,
          QuantumIsOver
  <1>11. CASE ContinueExecution
    BY <1>1, <1>2, <1>7, <1>11 DEF ContinueExecution, HasSyscall, Rests,
          IsCharged, QuantumIsOver
  <1> QED BY <1>3, <1>4, <1>5, <1>6, <1>8, <1>9, <1>10, <1>11 DEF Next, KernelStep

\* Each of these moves keeps the account.
LEMMA MoveSwitched ==
    ASSUME QuantumsPositive, Inv, Inv', GanttInv, Observe, NEW p \in Created,
           Switched(p)
    PROVE  Switched(p)'
  <1> DEFINE q == DefaultQuantum
             calls == CallTicks(p)
             n == used[p]
             r == Gone(calls, n)
             I(k) == Cardinality(InterruptedBy(calls, k))
             P == Cardinality(Places(p, "Running"))
             Pn == Cardinality(Places(p, "Running")')
             s == state[p]
             sn == state'[p]
             un == used'[p]
             m == IF sn = "Terminated" THEN un - 1 ELSE un
  <1>1. p \in Pid /\ n \in Nat /\ quantum \in Int /\ s \in ProcessState
    <2>1. p \in Pid
      BY CreatedPids
    <2> QED BY <2>1 DEF Inv, TypeOK
  <1>2. q \in Nat /\ q >= 1
    BY QuantumPositive
  <1>3. Rests(p) \/ Wakes(p) \/ Starts(p) \/ IsCharged(p)
    BY ProcessMoves DEF Observe
  <1>4. CallTicks(p)' = calls /\ DefaultQuantum' = q
    <2>1. process_metadata'[p] = process_metadata[p] /\ UNCHANGED config
      BY ProcessMoves DEF Observe
    <2> QED BY <2>1 DEF CallTicks, DefaultQuantum
  <1>5. /\ r \in 0..(q - 1)
        /\ Gone(calls, n + 1) = IF n + 1 \in calls \/ r = q - 1 THEN 0 ELSE r + 1
        /\ Interrupts(calls, n + 1) <=> Gone(calls, n + 1) = 0
    BY <1>1, <1>2, GoneNext
  <1>6. /\ I(n) \in Nat
        /\ I(n + 1) = I(n) + (IF Interrupts(calls, n + 1) THEN 1 ELSE 0)
    BY <1>1, InterruptedNext
  <1>7. P \in Nat /\ Pn = P + (IF s # "Running" /\ sn = "Running" THEN 1 ELSE 0)
    BY <1>1, ObservePlaces
  <1>8. /\ s \in {"Ready", "Blocked"} => r = 0
        /\ s = "Running" => quantum = q - r
        /\ P = I(IF s = "Terminated" THEN n - 1 ELSE n) +
                   (IF s \in {"Running", "Terminated"} THEN 1 ELSE 0)
    BY DEF Switched, Passed
  <1>9. SUFFICES /\ sn \in {"Ready", "Blocked"} => Gone(calls, un) = 0
                 /\ sn = "Running" => quantum' = q - Gone(calls, un)
                 /\ Pn = I(m) + (IF sn \in {"Running", "Terminated"} THEN 1 ELSE 0)
    <2>1. \A k : /\ Gone(CallTicks(p), k)' = Gone(calls, k)
                 /\ Cardinality(InterruptedBy(CallTicks(p), k))' = I(k)
      BY <1>4 DEF Gone, LastCall, InterruptedBy, Interrupts
    <2> QED BY <1>4, <2>1 DEF Switched, Passed
  <1> HIDE DEF calls, I, P, Pn
  <1>10. CASE Rests(p)
    BY <1>7, <1>8, <1>10 DEF Rests
  <1>11. CASE Wakes(p)
    BY <1>7, <1>8, <1>11 DEF Wakes
  <1>12. CASE Starts(p)
    BY <1>1, <1>2, <1>6, <1>7, <1>8, <1>12 DEF Starts
  <1>13. CASE IsCharged(p)
    <2>1. /\ quantum = q - r /\ CountedDown = {quantum - 1} /\ P = I(n) + 1
          /\ un = n + 1 /\ s = "Running"
      BY <1>1, <1>2, <1>5, <1>8, <1>13 DEF IsCharged, CountedDown, IntMin, IntMax
    <2>2. CASE n + 1 \in calls /\ sn = "Blocked"
      BY <1>5, <1>6, <1>7, <2>1, <2>2
    <2>3. CASE sn = "Terminated"
      <3>1. m = n
        BY <1>1, <2>1, <2>3
      <3> QED BY <1>6, <1>7, <2>1, <2>3, <3>1
    <2>4. CASE n + 1 \notin calls /\ sn = "Ready" /\ quantum - 1 <= 0
      <3>1. r = q - 1
        BY <1>1, <1>2, <1>5, <2>1, <2>4
      <3> QED BY <1>5, <1>6, <1>7, <2>1, <2>4, <3>1
    <2>5. CASE /\ n + 1 \notin calls /\ sn = "Running"
               /\ quantum' = quantum - 1 /\ ~(quantum - 1 <= 0)
      <3>1. r # q - 1 /\ Gone(calls, n + 1) = r + 1 /\ r + 1 # 0
        BY <1>1, <1>2, <1>5, <2>1, <2>5
      <3>2. quantum' = q - (r + 1)
        BY <1>1, <1>2, <1>5, <2>1, <2>5
      <3> QED BY <1>5, <1>6, <1>7, <2>1, <2>5, <3>1, <3>2
    <2> QED BY <1>13, <2>1, <2>2, <2>3, <2>4, <2>5 DEF IsCharged, calls
  <1> QED BY <1>3, <1>10, <1>11, <1>12, <1>13

\* A new process has not run, and nothing is gone of its slice.
LEMMA CreatedSwitched ==
    ASSUME QuantumsPositive, KernelInv, Inv', GanttInv, Observe,
           NEW p \in Created' \ Created
    PROVE  Switched(p)'
  <1>1. /\ p \in Pid /\ state[p] = "New" /\ used[p] = 0
    BY NextCreatedPids DEF KernelInv, Inv, Placement, NewUntilCreated, AccountInv
  <1>2. state'[p] = "Ready" /\ used'[p] = 0 /\ config' = config
    <2>1. CASE UserStep
      <3>1. UNCHANGED <<used, config>>
        BY <2>1 DEF UserStep, SubmitProgram, RunProgram, SetPriority
      <3>2. state' = [state EXCEPT ![next_pid] = "Ready"] \/ next_pid' = next_pid
        BY <2>1 DEF UserStep, SubmitProgram, RunProgram, SetPriority, Transition,
              TargetState, Target
      <3>3. state'[p] # "New"
        BY <1>1 DEF Inv, Placement, NewUntilCreated
      <3>4. state'[p] = state[p] \/ state'[p] = "Ready"
        BY <1>1, <3>2 DEF KernelInv, Inv, TypeOK, Created
      <3> QED BY <1>1, <3>1, <3>3, <3>4
    <2>2. CASE ~UserStep
      <3>1. UNCHANGED userVars
        BY <2>2 DEF Observe, Next, KernelStep, ClockStep, NotifyTick, Wake,
              ExecuteIdle, HandleSyscallBlock, HandleProcessExit,
              HandleQuantumExpired, ContinueExecution, DispatchNext,
              DispatchNone, NotifySimulationComplete, NotifyTickCompleted
      <3> QED BY <3>1 DEF userVars, Created
    <2> QED BY <2>1, <2>2
  <1>3. Cardinality(Places(p, "Running")') = 0
    <2>1. Cardinality(Places(p, "Running")) = 0
      BY <1>1, ObservePlaces DEF KernelInv
    <2>2. Cardinality(Places(p, "Running")') = 0 + 0
      BY <1>1, <1>2, <2>1, ObservePlaces DEF KernelInv
    <2> QED BY <2>2
  <1>4. DefaultQuantum' = DefaultQuantum
    BY <1>2 DEF DefaultQuantum
  <1>5. Gone(CallTicks(p), used[p])' = 0
    <2>1. DefaultQuantum \in Nat /\ DefaultQuantum >= 1
      BY QuantumPositive DEF KernelInv
    <2>2. Gone(CallTicks(p)', 0) = 0
      BY <2>1, GoneNext
    <2> QED BY <1>2, <1>4, <2>2 DEF Gone, LastCall
  <1>6. Cardinality(InterruptedBy(CallTicks(p), Passed(p)))' = 0
    <2>1. InterruptedBy(CallTicks(p), Passed(p))' = {}
      BY <1>2 DEF InterruptedBy, Passed
    <2> QED BY <2>1, FS_EmptySet
  <1> QED BY <1>2, <1>3, <1>5, <1>6 DEF Switched

LEMMA NextSwitchInv ==
    ASSUME QuantumsPositive, KernelInv, GanttInv, SwitchInv, [GNext]_gvars
    PROVE  SwitchInv'
  <1>1. CASE Observe
    <2> SUFFICES ASSUME NEW p \in Created' PROVE Switched(p)'
      BY DEF SwitchInv
    <2>1. Inv /\ Inv'
      BY NextChartInv DEF KernelInv
    <2>2. CASE p \in Created
      BY <1>1, <2>1, <2>2, MoveSwitched DEF SwitchInv
    <2>3. CASE p \notin Created
      BY <1>1, <2>1, <2>3, CreatedSwitched
    <2> QED BY <2>2, <2>3
  <1>2. CASE Rebuild
    <2>1. Created' = {}
      BY <1>2 DEF Rebuild, SetupKernel, Created
    <2> QED BY <2>1 DEF SwitchInv
  <1>3. CASE UNCHANGED gvars
    <2>1. /\ UNCHANGED <<process_metadata, state, used, quantum, segments>>
          /\ Created' = Created /\ DefaultQuantum' = DefaultQuantum
      BY <1>3 DEF gvars, vars, Created, DefaultQuantum
    <2>2. ASSUME NEW p \in Created
          PROVE  /\ Gone(CallTicks(p), used[p])' = Gone(CallTicks(p), used[p])
                 /\ InterruptedBy(CallTicks(p), Passed(p))' =
                        InterruptedBy(CallTicks(p), Passed(p))
                 /\ Places(p, "Running")' = Places(p, "Running")
      BY <2>1 DEF Gone, LastCall, InterruptedBy, Interrupts, CallTicks, Passed,
            Places
    <2> QED BY <2>1, <2>2 DEF SwitchInv, Switched
  <1> QED BY <1>1, <1>2, <1>3 DEF GNext

LEMMA SwitchInvHolds ==
    ASSUME QuantumsPositive PROVE GSpec => [](KernelInv /\ GanttInv /\ SwitchInv)
  <1>1. GInit => KernelInv /\ GanttInv /\ SwitchInv
    <2>1. GInit => GanttInv /\ Created = {}
      BY DEF GInit, Init, GanttInv, Created
    <2> QED BY <2>1, InitKernelInv DEF GInit, SwitchInv
  <1> QED BY <1>1, NextChartInv, NextSwitchInv, PTL DEF GSpec

\* The report's two sums, as sums over the same processes.
LEMMA CountIs ==
    ASSUME IsFiniteSet(Created),
           \A p \in Created : Cardinality(Places(p, "Running")) \in Int
    PROVE  Count("Running") =
               SumFunctionOnSet([p \in Created |->
                                    Cardinality(Places(p, "Running"))], Created)
  <1> DEFINE f == [p \in Created |-> Cardinality(Places(p, "Running"))]
             iter[s \in SUBSET Created] ==
                 IF s = {} THEN 0
                 ELSE LET x == CHOOSE x \in s : TRUE
                      IN  Cardinality(Places(x, "Running")) + iter[s \ {x}]
  <1>1. Count("Running") = iter[Created]
    BY DEF Count, MapThenSumSet, MapThenFoldSet
  <1>2. \A p \in Created : f[p] \in Int
    OBVIOUS
  <1>3. PICK g : IsSum(g, f, Created)
    <2> HIDE DEF f
    <2> QED BY <1>2, SumExists
  <1>4. \A s \in SUBSET Created : s # {} => (CHOOSE x \in s : TRUE) \in Created
    OBVIOUS
  <1>5. g = [s \in SUBSET Created |->
                IF s = {} THEN 0
                ELSE LET x == CHOOSE x \in s : TRUE
                     IN  Cardinality(Places(x, "Running")) + g[s \ {x}]]
    BY <1>3, <1>4 DEF IsSum
  <1>6. iter = [s \in SUBSET Created |->
                   IF s = {} THEN 0
                   ELSE LET x == CHOOSE x \in s : TRUE
                        IN  Cardinality(Places(x, "Running")) + iter[s \ {x}]]
    BY <1>5
  <1> HIDE DEF iter
  <1>7. IsSum(iter, f, Created)
    BY <1>4, <1>6 DEF IsSum
  <1> HIDE DEF f
  <1>8. PICK h : IsSum(h, f, Created) /\ SumFunctionOnSet(f, Created) = h[Created]
    BY <1>2, SumFunctionFold
  <1>9. iter[Created] = h[Created]
    BY <1>7, <1>8, SumUnique
  <1> QED BY <1>1, <1>8, <1>9 DEF f

LEMMA InterruptionsSum ==
    ASSUME IsFiniteSet(Created),
           \A p \in Created : Cardinality(Interruptions(p)) \in Int
    PROVE  MapThenSumSet(LAMBDA p : Cardinality(Interruptions(p)), Created) =
               SumFunctionOnSet([p \in Created |->
                                    Cardinality(Interruptions(p))], Created)
  <1> DEFINE f == [p \in Created |-> Cardinality(Interruptions(p))]
             iter[s \in SUBSET Created] ==
                 IF s = {} THEN 0
                 ELSE LET x == CHOOSE x \in s : TRUE
                      IN  Cardinality(Interruptions(x)) + iter[s \ {x}]
  <1>1. MapThenSumSet(LAMBDA p : Cardinality(Interruptions(p)), Created) =
            iter[Created]
    BY DEF MapThenSumSet, MapThenFoldSet
  <1>2. \A p \in Created : f[p] \in Int
    OBVIOUS
  <1>3. PICK g : IsSum(g, f, Created)
    <2> HIDE DEF f
    <2> QED BY <1>2, SumExists
  <1>4. \A s \in SUBSET Created : s # {} => (CHOOSE x \in s : TRUE) \in Created
    OBVIOUS
  <1>5. g = [s \in SUBSET Created |->
                IF s = {} THEN 0
                ELSE LET x == CHOOSE x \in s : TRUE
                     IN  Cardinality(Interruptions(x)) + g[s \ {x}]]
    BY <1>3, <1>4 DEF IsSum
  <1>6. iter = [s \in SUBSET Created |->
                   IF s = {} THEN 0
                   ELSE LET x == CHOOSE x \in s : TRUE
                        IN  Cardinality(Interruptions(x)) + iter[s \ {x}]]
    BY <1>5
  <1> HIDE DEF iter
  <1>7. IsSum(iter, f, Created)
    BY <1>4, <1>6 DEF IsSum
  <1> HIDE DEF f
  <1>8. PICK h : IsSum(h, f, Created) /\ SumFunctionOnSet(f, Created) = h[Created]
    BY <1>2, SumFunctionFold
  <1>9. iter[Created] = h[Created]
    BY <1>7, <1>8, SumUnique
  <1> QED BY <1>1, <1>8, <1>9 DEF f

\* When everything has ended the report counts one context switch for each
\* call and each quantum used up, as the programs alone determine them.
THEOREM SwitchesAreInterruptionsHolds ==
    ASSUME QuantumsPositive PROVE GSpec => []SwitchesAreInterruptions
  <1>1. ASSUME KernelInv, GanttInv, SwitchInv, ~HasActiveProcesses
        PROVE  ContextSwitches =
                   MapThenSumSet(LAMBDA p : Cardinality(Interruptions(p)), Created)
    <2> DEFINE f == [p \in Created |-> Cardinality(Interruptions(p))]
               g == [p \in Created |-> Cardinality(Places(p, "Running"))]
    <2>1. IsFiniteSet(Created) /\ Cardinality(Created) \in Nat
      <3>1. next_pid - 1 \in Int
        BY <1>1 DEF KernelInv, Inv, TypeOK
      <3>2. IsFiniteSet(Created)
        BY <3>1, FS_Interval DEF Created
      <3> QED BY <3>2, FS_CardinalityType
    <2>2. ASSUME NEW p \in Created
          PROVE  /\ Cardinality(Interruptions(p)) \in Nat
                 /\ Cardinality(Places(p, "Running")) =
                        Cardinality(Interruptions(p)) + 1
      <3>1. state[p] = "Terminated" /\ used[p] \in Nat
        <4>1. p \in Pid
          BY <1>1, CreatedPids DEF KernelInv
        <4> QED BY <1>1, <4>1 DEF HasActiveProcesses, KernelInv, Inv, TypeOK
      <3>2. Cardinality(InterruptedBy(CallTicks(p), used[p] - 1)) \in Nat
        <4>1. IsFiniteSet(1..(used[p] - 1))
          BY <3>1, FS_Interval
        <4>2. IsFiniteSet(InterruptedBy(CallTicks(p), used[p] - 1))
          BY <4>1, FS_Subset DEF InterruptedBy
        <4> QED BY <4>2, FS_CardinalityType
      <3> QED BY <1>1, <3>1, <3>2, InterruptionsAre
          DEF SwitchInv, Switched, Passed, CallTicks
    <2>3. \A p \in Created : f[p] \in Int /\ g[p] = f[p] + 1
      BY <2>2
    <2>4. /\ Count("Running") = SumFunctionOnSet(g, Created)
          /\ MapThenSumSet(LAMBDA p : Cardinality(Interruptions(p)), Created) =
                 SumFunctionOnSet(f, Created)
      BY <2>1, <2>2, CountIs, InterruptionsSum
    <2> HIDE DEF f, g
    <2>5. PICK a \in Nat : a = SumFunctionOnSet(f, Created)
      <3>1. \A p \in Created : f[p] \in Nat
        BY <2>2 DEF f
      <3> QED BY <2>1, <3>1, SumNatural
    <2>6. Count("Running") - Cardinality(Created) = a
      BY <2>1, <2>3, <2>4, <2>5, SumPlusOne
    <2>7. Max({0, a}) = a
      BY DEF Max
    <2> QED BY <2>4, <2>5, <2>6, <2>7 DEF ContextSwitches
  <1>2. KernelInv /\ GanttInv /\ SwitchInv => SwitchesAreInterruptions
    BY <1>1 DEF SwitchesAreInterruptions
  <1> QED BY <1>2, SwitchInvHolds, PTL

=============================================================================
