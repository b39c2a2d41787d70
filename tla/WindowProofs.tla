---------------------------- MODULE WindowProofs ----------------------------
(***************************************************************************)
(* Proofs about MainWindow, for every set of programs, every configuration *)
(* and any number of connections.  The window drives its kernel as others  *)
(* do, except that it replaces it: what it keeps beside the kernel (the    *)
(* list of programs, the rows, the views, the timer and the controls) has  *)
(* to survive both.                                                        *)
(***************************************************************************)
EXTENDS MainWindow, KernelProofs

-----------------------------------------------------------------------------
(* The steps of the window, by what they do to the kernel.                 *)

\* The kernel goes on, or nothing happens to it.
KernelGoesOn == [KernelStep \/ NotifyTick(tick + TickInterval)]_vars

Goes == /\ KernelGoesOn
        /\ UNCHANGED <<submitted, rows, has_programs>>
        /\ chosen' = chosen \/ chosen' \in Configs

LEMMA WindowSteps ==
    [WNext]_wvars =>
        \/ Goes
        \/ \E meta \in Programs : OnAddProgramClicked(meta)
        \/ OnResetClicked
        \/ OnRestartClicked /\ submitted # <<>>
  <1> SUFFICES ASSUME [WNext]_wvars
               PROVE  \/ Goes
                      \/ \E meta \in Programs : OnAddProgramClicked(meta)
                      \/ OnResetClicked
                      \/ OnRestartClicked /\ submitted # <<>>
    OBVIOUS
  <1> USE DEF Goes, KernelGoesOn, windowVars, controlVars
  <1>1. CASE KernelRuns
    BY <1>1 DEF KernelRuns
  <1>2. CASE OnSimulationComplete
    BY <1>2 DEF OnSimulationComplete, KernelStep
  <1>3. CASE OnStepClicked \/ OnAutoRunTick
    BY <1>3 DEF OnStepClicked, OnAutoRunTick, EngineStep
  <1>4. CASE OnPlayClicked \/ OnPauseClicked \/ OnAddProgramCancelled
    BY <1>4 DEF OnPlayClicked, OnPauseClicked, OnAddProgramCancelled
  <1>5. CASE OnRestartClicked
    BY <1>5 DEF OnRestartClicked
  <1>6. CASE \E signal \in Signals : Emit(signal)
    BY <1>6 DEF Emit, Deliver
  <1>7. CASE \E c \in Configs : ChooseConfig(c)
    BY <1>7 DEF ChooseConfig
  <1>8. CASE OnSpeedChanged \/ CloseDetails \/ TimerElapses \/ EmitTimeout
    BY <1>8 DEF OnSpeedChanged, CloseDetails, TimerElapses, EmitTimeout, Deliver
  <1>9. CASE \E i \in DOMAIN rows : OnProcessInfoRequested(i)
    BY <1>9 DEF OnProcessInfoRequested
  <1>10. CASE UNCHANGED wvars
    BY <1>10 DEF wvars
  <1> QED BY <1>1, <1>2, <1>3, <1>4, <1>5, <1>6, <1>7, <1>8, <1>9, <1>10
          DEF WNext, Slot, User

-----------------------------------------------------------------------------
(* The rows of the table.                                                  *)

Row == [pid : Nat, program : Programs]

\* A row for each program, in order: the rows that there should be.
Table(programs, n) == [i \in 1..n |-> [pid |-> i, program |-> programs[i]]]

RowsOf(programs) == Table(programs, Len(programs))

\* A program whose pid is next in order gets a row of its own, the last one.
LEMMA NamedNext ==
    ASSUME NEW n \in Nat, NEW f, NEW g, \A i \in 1..n : g[i] = f[i]
    PROVE  /\ Len(Table(f, n)) = n
           /\ Named(Table(f, n), n + 1, g[n + 1]) = Table(g, n + 1)
  <1> DEFINE table == Table(f, n)
             row == [pid |-> n + 1, program |-> g[n + 1]]
  <1>1. DOMAIN table = 1..n /\ \A i \in 1..n : table[i].pid = i
    BY DEF Table
  <1>2. ~ \E i \in DOMAIN table : table[i].pid = n + 1
    <2> SUFFICES ASSUME NEW i \in 1..n, table[i].pid = n + 1 PROVE FALSE
      BY <1>1
    <2>1. i = n + 1
      BY <1>1
    <2> QED BY <2>1
  <1>3. Named(table, n + 1, g[n + 1]) = Append(table, row)
    BY <1>2 DEF Named
  <1>4. Len(table) = n /\ table = [i \in 1..n |-> table[i]]
    BY DEF Table
  <1>5. Append(table, row) =
            [i \in 1..(n + 1) |-> IF i = n + 1 THEN row ELSE table[i]]
    <2> DEFINE S == {table[i] : i \in 1..n} \cup {row}
    <2>1. table \in Seq(S)
      BY <1>4
    <2> HIDE DEF table, row, S
    <2> QED BY <1>4, <2>1
  <1>6. \A i \in 1..n : table[i] = [pid |-> i, program |-> g[i]]
    BY DEF Table
  <1>7. ASSUME NEW i \in 1..(n + 1)
        PROVE  (IF i = n + 1 THEN row ELSE table[i]) = [pid |-> i, program |-> g[i]]
    BY <1>6
  <1>8. Append(table, row) = Table(g, n + 1)
    <2> HIDE DEF table, row
    <2> QED BY <1>5, <1>7 DEF Table
  <1> QED BY <1>3, <1>4, <1>8

\* Naming a program keeps the table a table.
LEMMA NamedType ==
    ASSUME NEW table \in Seq(Row), NEW p \in Nat, NEW program \in Programs
    PROVE  Named(table, p, program) \in Seq(Row)
  <1>1. CASE \E i \in DOMAIN table : table[i].pid = p
    <2> DEFINE t == [i \in DOMAIN table |->
                        IF table[i].pid = p
                        THEN [pid |-> p, program |-> program] ELSE table[i]]
    <2>1. [pid |-> p, program |-> program] \in Row
      BY DEF Row
    <2>2. \A i \in 1..Len(table) : table[i] \in Row
      OBVIOUS
    <2>3. t \in [1..Len(table) -> Row]
      BY <2>1, <2>2
    <2>4. t \in Seq(Row)
      BY <2>3
    <2> QED BY <1>1, <2>4 DEF Named
  <1>2. CASE ~ \E i \in DOMAIN table : table[i].pid = p
    BY <1>2 DEF Named, Row
  <1> QED BY <1>1, <1>2

\* What Restart builds by naming one program after the other.
LEMMA RowsForPrograms ==
    ASSUME NEW s \in Seq(Programs)
    PROVE  RowsFor(s) = RowsOf(s)
  <1> PICK n \in Nat : n = Len(s)
    OBVIOUS
  <1> DEFINE F == [x \in (1..n) \X Seq(Row) |-> Named(x[2], x[1], s[x[1]])]
             D == DOMAIN [i \in DOMAIN s |-> i]
             iter[t \in SUBSET D] ==
                 IF t = {} THEN <<>>
                 ELSE LET x == Max(t)
                      IN Named(iter[t \ {x}], [i \in DOMAIN s |-> i][x],
                               s[[i \in DOMAIN s |-> i][x]])
  <1>1. DOMAIN s = 1..n /\ D = 1..n
    OBVIOUS
  <1>2. RowsFor(s) = iter[D]
    BY DEF RowsFor, FoldLeftDomain, FoldLeft, MapThenFoldSet
  <1>3. F \in [(1..n) \X Seq(Row) -> Seq(Row)]
    <2>1. ASSUME NEW x \in (1..n) \X Seq(Row)
          PROVE  Named(x[2], x[1], s[x[1]]) \in Seq(Row)
      <3>1. x[2] \in Seq(Row) /\ x[1] \in Nat /\ s[x[1]] \in Programs
        OBVIOUS
      <3> QED BY <3>1, NamedType
    <2> QED BY <2>1
  <1>4. PICK g : IsFold(g, 1..n, Seq(Row), <<>>, F, Greatest(n))
    <2>1. <<>> \in Seq(Row)
      OBVIOUS
    <2>2. \A t \in SUBSET (1..n) : t # {} => Greatest(n)[t] \in t
      BY GreatestElement DEF Greatest
    <2>3. IsFiniteSet(1..n)
      BY FS_Interval
    <2> HIDE DEF F, D, iter
    <2> QED BY <1>3, <2>1, <2>2, <2>3, FoldExists
  <1>5. g = [t \in SUBSET D |->
                IF t = {} THEN <<>>
                ELSE LET x == Max(t)
                     IN Named(g[t \ {x}], [i \in DOMAIN s |-> i][x],
                              s[[i \in DOMAIN s |-> i][x]])]
    <2>1. ASSUME NEW t \in SUBSET (1..n), t # {}
          PROVE  LET x == Max(t)
                 IN  g[t] = Named(g[t \ {x}], [i \in DOMAIN s |-> i][x],
                                  s[[i \in DOMAIN s |-> i][x]])
      <3>1. Max(t) \in 1..n /\ t \ {Max(t)} \in SUBSET (1..n)
        BY <2>1, GreatestElement
      <3>2. [i \in DOMAIN s |-> i][Max(t)] = Max(t)
        BY <1>1, <3>1
      <3>3. g[t] = F[<<Max(t), g[t \ {Max(t)}]>>]
        BY <1>4, <2>1 DEF IsFold, Greatest
      <3>4. g[t \ {Max(t)}] \in Seq(Row)
        BY <1>4, <3>1 DEF IsFold
      <3> QED BY <3>1, <3>2, <3>3, <3>4
    <2>2. g[{}] = <<>> /\ g \in [SUBSET D -> Seq(Row)]
      BY <1>1, <1>4 DEF IsFold
    <2> QED BY <1>1, <2>1, <2>2
  <1>6. iter = [t \in SUBSET D |->
                   IF t = {} THEN <<>>
                   ELSE LET x == Max(t)
                        IN Named(iter[t \ {x}], [i \in DOMAIN s |-> i][x],
                                 s[[i \in DOMAIN s |-> i][x]])]
    BY <1>5
  <1>7. /\ iter[{}] = <<>>
        /\ \A t \in SUBSET (1..n) :
               t # {} => LET x == Max(t)
                         IN iter[t] = Named(iter[t \ {x}], [i \in DOMAIN s |-> i][x],
                                            s[[i \in DOMAIN s |-> i][x]])
    <2> HIDE DEF iter
    <2> QED BY <1>1, <1>6
  <1> DEFINE Good == {k \in Nat : k <= n => iter[1..k] = Table(s, k)}
  <1> HIDE DEF iter, D
  <1>8. 0 \in Good
    <2>1. 1..0 = {} /\ Table(s, 0) = <<>>
      BY DEF Table
    <2> QED BY <1>7, <2>1
  <1>9. ASSUME NEW k \in Nat, k \in Good PROVE k + 1 \in Good
    <2> SUFFICES ASSUME k + 1 <= n
                 PROVE  iter[1..(k + 1)] = Table(s, k + 1)
      OBVIOUS
    <2>1. iter[1..k] = Table(s, k)
      BY <1>9
    <2>2. /\ k + 1 \in 1..n /\ 1..(k + 1) # {} /\ 1..(k + 1) \in SUBSET (1..n)
          /\ (1..(k + 1)) \ {k + 1} = 1..k
      <3>1. k + 1 \in 1..n /\ k + 1 \in 1..(k + 1)
        OBVIOUS
      <3>2. \A i \in 1..(k + 1) : i \in 1..n
        OBVIOUS
      <3>3. (1..(k + 1)) \ {k + 1} = 1..k
        OBVIOUS
      <3> QED BY <3>1, <3>2, <3>3, Zenon
    <2>3. Max(1..(k + 1)) = k + 1
      BY <2>2, GreatestElement
    <2>4. [i \in DOMAIN s |-> i][k + 1] = k + 1
      BY <1>1, <2>2
    <2>5. iter[1..(k + 1)] = Named(iter[1..k], k + 1, s[k + 1])
      BY <1>7, <2>2, <2>3, <2>4
    <2> QED BY <2>1, <2>5, NamedNext
  <1>10. n \in Good
    <2> HIDE DEF Good
    <2> QED BY <1>8, <1>9, Induction
  <1> QED BY <1>1, <1>2, <1>10 DEF RowsOf

-----------------------------------------------------------------------------
(* The window's programs, the kernel's processes and the rows.             *)

\* The i-th program of the window runs as pid i and has the i-th row.
MatchInv == /\ chosen \in Configs
            /\ submitted \in Seq(Programs)
            /\ Len(submitted) = next_pid - 1
            /\ \A p \in Created : process_metadata[p] = submitted[p]
            /\ rows = RowsOf(submitted)

LEMMA KernelKeepsPrograms == KernelGoesOn => UNCHANGED userVars
  BY DEF KernelGoesOn, KernelStep, NotifyTick, Wake, ExecuteIdle,
        HandleSyscallBlock, HandleProcessExit, HandleQuantumExpired,
        ContinueExecution, DispatchNext, DispatchNone,
        NotifySimulationComplete, NotifyTickCompleted, userVars, vars

\* A program that is added is admitted by the kernel.
LEMMA AddAdmits ==
    ASSUME Inv, NEW meta \in Programs, OnAddProgramClicked(meta)
    PROVE  Admits(meta) /\ Inv'
  <1>1. Admits(meta)
    BY DEF OnAddProgramClicked, Admits, cpuVars
  <1>2. program_store' \in Seq(Programs)
    BY DEF OnAddProgramClicked, Store, Inv, TypeOK
  <1> QED BY <1>1, <1>2, AdmitTypeOK, AdmitPlacement DEF Inv

LEMMA AddMatches ==
    ASSUME Inv, MatchInv, NEW meta \in Programs, OnAddProgramClicked(meta)
    PROVE  MatchInv'
  <1>1. PICK n \in Nat : n + 1 = next_pid /\ n = Len(submitted) /\ n + 1 \in Pid
    <2>1. next_pid \in 1..(MaxProcs + 1) /\ next_pid <= MaxProcs
      BY DEF OnAddProgramClicked, Inv, TypeOK
    <2>2. PICK n \in Nat : n = Len(submitted)
      BY DEF MatchInv
    <2>3. n = next_pid - 1
      BY <2>2 DEF MatchInv
    <2>4. MaxProcs \in Nat
      BY BoundsAssumption
    <2>5. n + 1 = next_pid
      BY <2>1, <2>3, <2>4
    <2>6. n + 1 \in Pid
      BY <2>1, <2>4, <2>5 DEF Pid
    <2> QED BY <2>2, <2>5, <2>6
  <1>2. /\ submitted' = Append(submitted, meta) /\ next_pid' = n + 2
        /\ process_metadata' = [process_metadata EXCEPT ![n + 1] = meta]
        /\ rows' = Named(rows, n + 1, meta) /\ chosen' = chosen
    <2>1. next_pid' = next_pid + 1
      BY DEF OnAddProgramClicked
    <2>2. next_pid' = n + 2
      BY <1>1, <2>1
    <2> QED BY <1>1, <2>2 DEF OnAddProgramClicked
  <1>3. /\ submitted' \in Seq(Programs)
        /\ Len(submitted') = n + 1
        /\ submitted' = [i \in 1..(n + 1) |-> IF i = n + 1 THEN meta ELSE submitted[i]]
    BY <1>1, <1>2, AppendPlaces DEF MatchInv
  <1>4. rows' = RowsOf(submitted')
    <2>1. submitted'[n + 1] = meta /\ \A i \in 1..n : submitted'[i] = submitted[i]
      BY <1>3
    <2>2. rows = Table(submitted, n)
      BY <1>1 DEF MatchInv, RowsOf
    <2>3. Named(rows, n + 1, meta) = Table(submitted', n + 1)
      BY <2>1, <2>2, NamedNext
    <2> QED BY <1>2, <1>3, <2>3 DEF RowsOf
  <1>5. ASSUME NEW p \in Created'
        PROVE  process_metadata'[p] = submitted'[p]
    <2>1. p \in 1..(n + 1)
      BY <1>2 DEF Created
    <2>2. process_metadata'[p] = IF p = n + 1 THEN meta ELSE process_metadata[p]
      BY <1>1, <1>2, <2>1 DEF Inv, TypeOK
    <2>3. p # n + 1 => p \in Created
      BY <1>1, <2>1 DEF Created
    <2> QED BY <1>3, <2>1, <2>2, <2>3 DEF MatchInv
  <1>6. Len(submitted') = next_pid' - 1
    BY <1>2, <1>3
  <1> QED BY <1>2, <1>3, <1>4, <1>5, <1>6 DEF MatchInv

\* A kernel that is built anew runs the programs that are passed to it.
LEMMA SetupMatches ==
    ASSUME NEW s \in Seq(Programs), Len(s) <= MaxProcs, chosen \in Configs,
           SetupKernel(chosen, s), submitted' = s, chosen' = chosen,
           rows' = RowsOf(s)
    PROVE  Inv' /\ MatchInv'
  <1>1. Inv'
    BY SetupInv
  <1> PICK n \in Nat : n = Len(s)
    OBVIOUS
  <1>2. next_pid' = n + 1
    BY DEF SetupKernel
  <1>3. ASSUME NEW p \in Created'
        PROVE  process_metadata'[p] = s[p]
    <2>1. p \in 1..n
      BY <1>2 DEF Created
    <2>2. n <= MaxProcs /\ MaxProcs \in Nat
      BY BoundsAssumption
    <2>3. p \in Pid
      BY <2>1, <2>2 DEF Pid
    <2> QED BY <2>1, <2>3 DEF SetupKernel
  <1> QED BY <1>1, <1>2, <1>3 DEF MatchInv

LEMMA NextMatchInv == Inv /\ MatchInv /\ [WNext]_wvars => Inv' /\ MatchInv'
  <1> SUFFICES ASSUME Inv, MatchInv, [WNext]_wvars PROVE Inv' /\ MatchInv'
    OBVIOUS
  <1>1. CASE Goes
    <2>1. Inv'
      BY <1>1, DrivenInv DEF Goes, KernelGoesOn, Driven
    <2>2. UNCHANGED <<next_pid, process_metadata, submitted, rows>>
      BY <1>1, KernelKeepsPrograms DEF Goes, userVars
    <2>3. chosen' \in Configs
      BY <1>1 DEF Goes, MatchInv
    <2> QED BY <2>1, <2>2, <2>3 DEF MatchInv, Created
  <1>2. CASE \E meta \in Programs : OnAddProgramClicked(meta)
    BY <1>2, AddAdmits, AddMatches
  <1>3. CASE OnResetClicked
    <2>1. /\ SetupKernel(chosen, <<>>) /\ submitted' = <<>> /\ rows' = <<>>
          /\ chosen' = chosen
      BY <1>3 DEF OnResetClicked, ClearPrograms
    <2>2. <<>> \in Seq(Programs) /\ Len(<<>>) <= MaxProcs
      BY BoundsAssumption
    <2>3. RowsOf(<<>>) = <<>>
      BY DEF RowsOf, Table
    <2> QED BY <2>1, <2>2, <2>3, SetupMatches DEF MatchInv
  <1>4. CASE OnRestartClicked /\ submitted # <<>>
    <2>1. /\ SetupKernel(chosen, submitted) /\ submitted' = submitted
          /\ rows' = RowsFor(submitted) /\ chosen' = chosen
      BY <1>4 DEF OnRestartClicked
    <2>2. Len(submitted) <= MaxProcs
      BY BoundsAssumption DEF MatchInv, Inv, TypeOK
    <2> QED BY <2>1, <2>2, RowsForPrograms, SetupMatches DEF MatchInv
  <1> QED BY <1>1, <1>2, <1>3, <1>4, WindowSteps

LEMMA MatchInvHolds == WSpec => [](Inv /\ MatchInv)
  <1>1. WInit => Inv /\ MatchInv
    <2> SUFFICES ASSUME WInit PROVE Inv /\ MatchInv
      OBVIOUS
    <2>1. Inv
      BY InitInv DEF WInit
    <2>2. RowsOf(<<>>) = <<>> /\ <<>> \in Seq(Programs) /\ Len(<<>>) = 0
      BY DEF RowsOf, Table
    <2>3. next_pid = 1 /\ Created = {} /\ chosen \in Configs
      BY DEF WInit, Init, Created
    <2>4. submitted = <<>> /\ rows = <<>>
      BY DEF WInit
    <2> QED BY <2>1, <2>2, <2>3, <2>4 DEF MatchInv
  <1> QED BY <1>1, NextMatchInv, PTL DEF WSpec

\* Through additions, Reset and Restart the i-th program of the window's list
\* runs as pid i of the kernel, and its row shows its name.
THEOREM WindowMatchesHolds == WSpec => []WindowMatchesKernel
  <1>1. Inv /\ MatchInv => WindowMatchesKernel
    <2> SUFFICES ASSUME Inv, MatchInv PROVE WindowMatchesKernel
      OBVIOUS
    <2>1. PICK n \in Nat : n = Len(submitted)
      BY DEF MatchInv
    <2>2. n = next_pid - 1 /\ Created = 1..n
      BY <2>1 DEF MatchInv, Created
    <2>3. rows = [i \in 1..n |-> [pid |-> i, program |-> submitted[i]]]
      BY <2>1 DEF MatchInv, RowsOf, Table
    <2>4. Len(rows) = n
      BY <2>3
    <2> QED BY <2>1, <2>2, <2>3, <2>4 DEF WindowMatchesKernel, MatchInv
  <1> QED BY <1>1, MatchInvHolds, PTL

\* What a kernel promises also holds for each of those that the window drives,
\* builds and replaces.
THEOREM WindowKeepsKernel == WSpec => []Promises
  <1>1. ASSUME KernelInv, MatchInv, [WNext]_wvars
        PROVE  KernelInv'
    <2>1. CASE Goes
      BY <1>1, <2>1, DrivenKernelInv DEF Goes, KernelGoesOn, Driven
    <2>2. CASE \E meta \in Programs : OnAddProgramClicked(meta)
      <3>1. PICK meta \in Programs : OnAddProgramClicked(meta)
        BY <2>2
      <3>2. pc = "api" /\ program_store' \in Seq(Programs)
        BY <1>1, <3>1
           DEF OnAddProgramClicked, Receive, Store, KernelInv, Inv, TypeOK
      <3>3. Admits(meta)
        BY <1>1, <3>1, AddAdmits DEF KernelInv
      <3> QED BY <1>1, <3>2, <3>3, AdmitKernelInv
    <2>3. CASE OnResetClicked
      <3>1. <<>> \in Seq(Programs) /\ Len(<<>>) <= MaxProcs
        BY BoundsAssumption
      <3> QED BY <1>1, <2>3, <3>1, SetupKernelInv DEF OnResetClicked, MatchInv
    <2>4. CASE OnRestartClicked /\ submitted # <<>>
      <3>1. submitted \in Seq(Programs) /\ Len(submitted) <= MaxProcs
        BY <1>1, BoundsAssumption DEF MatchInv, KernelInv, Inv, TypeOK
      <3> QED BY <1>1, <2>4, <3>1, SetupKernelInv DEF OnRestartClicked, MatchInv
    <2> QED BY <1>1, <2>1, <2>2, <2>3, <2>4, WindowSteps
  <1>2. WInit => KernelInv
    BY InitKernelInv DEF WInit
  <1>3. WSpec => []KernelInv
    BY <1>1, <1>2, MatchInvHolds, PTL DEF WSpec
  <1> QED BY <1>3, KernelInvPromises, PTL

\* Only Reset and Restart change the configuration of the kernel, to the one
\* that was chosen, and the kernel with it.
THEOREM ChoiceWaitsHolds == WSpec => ChoiceWaitsForRebuild
  <1>1. ASSUME [WNext]_wvars, config' # config
        PROVE  config' = chosen /\ tick' = 0 /\ \A p \in Pid : used'[p] = 0
    <2>1. CASE Goes
      BY <1>1, <2>1, KernelKeepsPrograms DEF Goes, userVars
    <2>2. CASE \E meta \in Programs : OnAddProgramClicked(meta)
      BY <1>1, <2>2 DEF OnAddProgramClicked
    <2>3. CASE OnResetClicked
      BY <2>3 DEF OnResetClicked, SetupKernel
    <2>4. CASE OnRestartClicked /\ submitted # <<>>
      BY <2>4 DEF OnRestartClicked, SetupKernel
    <2> QED BY <1>1, <2>1, <2>2, <2>3, <2>4, WindowSteps
  <1>2. [WNext]_wvars =>
            [config' # config => /\ config' = chosen
                                 /\ tick' = 0
                                 /\ \A p \in Pid : used'[p] = 0]_wvars
    BY <1>1
  <1> QED BY <1>2, PTL DEF WSpec, ChoiceWaitsForRebuild

-----------------------------------------------------------------------------
(* The views.                                                              *)

\* Between the calls of the kernel the views show it as it is.
FreshInv == pc = "api" => shown = View

\* The views are refreshed by the step that ends a tick, and by no other.
LEMMA KernelEnds ==
    KernelStep => pc # "api" /\ (pc' = "api" <=> pc = "done")
  BY DEF KernelStep, Wake, ExecuteIdle, HandleSyscallBlock, HandleProcessExit,
        HandleQuantumExpired, ContinueExecution, DispatchNext, DispatchNone,
        NotifySimulationComplete, NotifyTickCompleted, ChargeTick, Raise,
        AfterDispatch

LEMMA NextFreshInv == FreshInv /\ [WNext]_wvars => FreshInv'
  <1> SUFFICES ASSUME FreshInv, [WNext]_wvars PROVE FreshInv'
    OBVIOUS
  <1>1. CASE UNCHANGED <<vars, shown>>
    BY <1>1 DEF FreshInv, View, ReadyShown, BlockedShown, TableShown, Created,
          vars
  <1>2. CASE KernelRuns
    BY <1>2, KernelEnds DEF KernelRuns, RefreshViews, FreshInv
  <1>3. CASE OnSimulationComplete
    BY <1>3 DEF OnSimulationComplete, NotifySimulationComplete, FreshInv
  <1>4. CASE OnStepClicked \/ OnAutoRunTick
    <2>1. CASE EngineStep
      BY <2>1 DEF EngineStep, NotifyTick, FreshInv
    <2>2. CASE ~EngineStep
      BY <1>1, <1>4, <2>2 DEF OnStepClicked, OnAutoRunTick
    <2> QED BY <2>1, <2>2
  <1>5. CASE OnPlayClicked \/ OnPauseClicked \/ OnAddProgramCancelled
    BY <1>1, <1>5 DEF OnPlayClicked, OnPauseClicked, OnAddProgramCancelled
  <1>6. CASE OnResetClicked
    <2>1. /\ ready' = [i \in 1..Len(<<>>) |-> i] /\ blocked' = {} /\ tick' = 0
          /\ next_pid' = Len(<<>>) + 1
      BY <1>6 DEF OnResetClicked, SetupKernel
    <2>2. Len(<<>>) = 0 /\ 1..0 = {}
      OBVIOUS
    <2>3. ready' = <<>> /\ next_pid' = 1
      BY <2>1, <2>2
    <2>4. Created' = {}
      BY <2>3 DEF Created
    <2>5. ReadyShown' = <<>>
      BY <2>3 DEF ReadyShown
    <2>6. TableShown' = <<>>
      BY <2>4 DEF TableShown
    <2> QED BY <1>6, <2>1, <2>5, <2>6
            DEF OnResetClicked, ClearViews, FreshInv, View, BlockedShown
  <1>7. CASE OnRestartClicked
    BY <1>1, <1>7 DEF OnRestartClicked, RefreshViews, FreshInv
  <1>8. CASE \E meta \in Programs : OnAddProgramClicked(meta)
    BY <1>8 DEF OnAddProgramClicked, RefreshViews, FreshInv
  <1>9. CASE User \/ TimerElapses \/ EmitTimeout \/ UNCHANGED wvars
    BY <1>1, <1>9 DEF User, Emit, Deliver, ChooseConfig, OnSpeedChanged,
          OnProcessInfoRequested, CloseDetails, TimerElapses, EmitTimeout,
          windowVars, wvars
  <1> QED BY <1>2, <1>3, <1>4, <1>5, <1>6, <1>7, <1>8, <1>9 DEF WNext, Slot

\* Whenever the window waits for the user, its views show the kernel as it is.
THEOREM ViewsAreFreshHolds == WSpec => []ViewsAreFresh
  <1>1. WInit => FreshInv
    BY DEF WInit, FreshInv
  <1>2. FreshInv => ViewsAreFresh
    BY DEF FreshInv, ViewsAreFresh, Quiet
  <1> QED BY <1>1, <1>2, NextFreshInv, PTL DEF WSpec

-----------------------------------------------------------------------------
(* The signals that are being delivered.                                   *)

DeliveryInv == /\ connections \in Nat
               /\ delivery \in [signal : Signals \cup {"timeout"}, left : Int]

LEMMA NextDeliveryInv == DeliveryInv /\ [WNext]_wvars => DeliveryInv'
  <1> SUFFICES ASSUME DeliveryInv, [WNext]_wvars PROVE DeliveryInv'
    OBVIOUS
  <1> USE DEF DeliveryInv
  <1>1. CASE UNCHANGED <<connections, delivery>>
    BY <1>1
  <1>2. CASE KernelRuns \/ OnSimulationComplete
    BY <1>1, <1>2 DEF KernelRuns, OnSimulationComplete, windowVars
  <1>3. CASE Slot
    <2>1. \E signal \in Signals \cup {"timeout"} : Receive(signal)
      BY <1>3 DEF Slot, OnStepClicked, OnPlayClicked, OnPauseClicked,
            OnAutoRunTick, OnResetClicked, OnRestartClicked,
            OnAddProgramCancelled, OnAddProgramClicked, Signals
    <2>2. delivery' \in [signal : Signals \cup {"timeout"}, left : Int]
      BY <2>1 DEF Receive
    <2>3. connections' = connections \/ connections' = connections + 1
      BY <1>3 DEF Slot, OnStepClicked, OnPlayClicked, OnPauseClicked,
            OnAutoRunTick, OnResetClicked, OnRestartClicked,
            OnAddProgramCancelled, OnAddProgramClicked, windowVars
    <2> QED BY <2>2, <2>3
  <1>4. CASE \E signal \in Signals : Emit(signal)
    BY <1>4 DEF Emit, Deliver, windowVars
  <1>5. CASE EmitTimeout
    BY <1>5 DEF EmitTimeout, Deliver, windowVars
  <1>6. CASE \/ \E c \in Configs : ChooseConfig(c)
             \/ OnSpeedChanged \/ CloseDetails \/ TimerElapses
             \/ \E i \in DOMAIN rows : OnProcessInfoRequested(i)
             \/ UNCHANGED wvars
    BY <1>1, <1>6 DEF ChooseConfig, OnSpeedChanged, CloseDetails, TimerElapses,
          OnProcessInfoRequested, windowVars, wvars
  <1> QED BY <1>2, <1>3, <1>4, <1>5, <1>6 DEF WNext, User

LEMMA DeliveryInvHolds == WSpec => []DeliveryInv
  <1>1. WInit => DeliveryInv
    BY DEF WInit, DeliveryInv, Signals
  <1> QED BY <1>1, NextDeliveryInv, PTL DEF WSpec

\* The slot of a signal runs while that signal is being delivered.
LEMMA ReceiveEffect ==
    ASSUME DeliveryInv, NEW signal, Receive(signal)
    PROVE  /\ delivery.signal = signal /\ delivery.left > 0
           /\ delivery'.signal = signal
           /\ details' = details
  BY DEF DeliveryInv, Receive

-----------------------------------------------------------------------------
(* The timer and the controls.                                             *)

\* Restart is offered by what its button remembers of the list of programs.
\* The dialog that adds one is only ever open while nothing runs.
ControlsInv ==
    /\ timer \in BOOLEAN /\ running \in BOOLEAN
    /\ restart_enabled \in BOOLEAN /\ has_programs \in BOOLEAN
    /\ timer <=> running
    /\ has_programs <=> submitted # <<>>
    /\ restart_enabled <=> ~running /\ has_programs

Adding == delivery.signal = "addProgram" /\ delivery.left > 0

AddingInv == Adding => ~running

LEMMA NextAddingInv ==
    DeliveryInv /\ DeliveryInv' /\ AddingInv /\ [WNext]_wvars => AddingInv'
  <1> SUFFICES ASSUME DeliveryInv, DeliveryInv', AddingInv, [WNext]_wvars
               PROVE  AddingInv'
    OBVIOUS
  <1>1. CASE UNCHANGED <<delivery, running>>
    BY <1>1 DEF AddingInv, Adding
  <1>2. CASE KernelRuns \/ UNCHANGED wvars
    BY <1>1, <1>2 DEF KernelRuns, controlVars, wvars
  <1>3. CASE OnSimulationComplete
    BY <1>3 DEF OnSimulationComplete, SetSimulationRunning, AddingInv
  <1>4. CASE \/ OnStepClicked \/ OnPlayClicked \/ OnPauseClicked
             \/ OnAutoRunTick \/ OnResetClicked \/ OnRestartClicked
    <2>1. PICK signal \in {"step", "play", "pause", "timeout", "reset", "restart"} :
              Receive(signal)
      BY <1>4 DEF OnStepClicked, OnPlayClicked, OnPauseClicked, OnAutoRunTick,
            OnResetClicked, OnRestartClicked
    <2>2. delivery'.signal = signal /\ signal # "addProgram"
      BY <2>1, ReceiveEffect
    <2> QED BY <2>2 DEF AddingInv, Adding
  <1>5. CASE OnAddProgramCancelled \/ \E meta \in Programs : OnAddProgramClicked(meta)
    <2>1. Adding /\ running' = running
      BY <1>5, ReceiveEffect
         DEF OnAddProgramCancelled, OnAddProgramClicked, controlVars, Adding
    <2> QED BY <2>1 DEF AddingInv
  <1>6. CASE \E signal \in Signals : Emit(signal)
    <2>1. PICK signal \in Signals : Emit(signal)
      BY <1>6
    <2>2. CASE signal = "addProgram"
      <3>1. ~running /\ running' = running
        BY <2>1, <2>2 DEF Emit, IsEnabled, controlVars
      <3> QED BY <3>1 DEF AddingInv
    <2>3. CASE signal # "addProgram"
      <3>1. delivery' = [signal |-> signal, left |-> connections]
        BY <2>1 DEF Emit, Deliver
      <3>2. delivery'.signal # "addProgram"
        BY <2>3, <3>1
      <3> QED BY <3>2 DEF AddingInv, Adding
    <2> QED BY <2>2, <2>3
  <1>7. CASE EmitTimeout
    <2>1. delivery' = [signal |-> "timeout", left |-> connections]
      BY <1>7 DEF EmitTimeout, Deliver
    <2> QED BY <2>1 DEF AddingInv, Adding
  <1>8. CASE \/ \E c \in Configs : ChooseConfig(c)
             \/ OnSpeedChanged \/ CloseDetails \/ TimerElapses
             \/ \E i \in DOMAIN rows : OnProcessInfoRequested(i)
    BY <1>1, <1>8 DEF ChooseConfig, OnSpeedChanged, CloseDetails, TimerElapses,
          OnProcessInfoRequested, controlVars
  <1> QED BY <1>2, <1>3, <1>4, <1>5, <1>6, <1>7, <1>8 DEF WNext, User, Slot

LEMMA NextControlsInv ==
    Inv /\ MatchInv /\ DeliveryInv /\ AddingInv /\ ControlsInv /\ [WNext]_wvars
        => ControlsInv'
  <1> SUFFICES ASSUME Inv, MatchInv, DeliveryInv, AddingInv, ControlsInv,
                      [WNext]_wvars
               PROVE  ControlsInv'
    OBVIOUS
  <1>1. CASE UNCHANGED <<timer, running, restart_enabled, has_programs, submitted>>
    BY <1>1, Zenon DEF ControlsInv
  <1>2. ASSUME timer' = FALSE /\ running' = FALSE,
               UNCHANGED <<has_programs, submitted>>,
               restart_enabled' = (~FALSE /\ has_programs)
        PROVE  ControlsInv'
    BY <1>2, Zenon DEF ControlsInv
  <1>3. CASE KernelRuns \/ OnStepClicked \/ OnAddProgramCancelled \/ UNCHANGED wvars
    BY <1>1, <1>3 DEF KernelRuns, OnStepClicked, OnAddProgramCancelled,
          controlVars, windowVars, wvars
  <1>4. CASE OnSimulationComplete \/ OnPauseClicked
    BY <1>2, <1>4 DEF OnSimulationComplete, OnPauseClicked, StopTimer,
          SetSimulationRunning, windowVars
  <1>5. CASE OnAutoRunTick
    BY <1>1, <1>2, <1>5 DEF OnAutoRunTick, StopTimer, SetSimulationRunning,
          windowVars, controlVars
  <1>6. CASE OnPlayClicked
    <2>1. CASE HasActiveProcesses
      <3>1. /\ timer' = TRUE /\ running' = TRUE
            /\ restart_enabled' = (~TRUE /\ has_programs)
            /\ UNCHANGED <<has_programs, submitted>>
        BY <1>6, <2>1, Zenon DEF OnPlayClicked, StartTimer, SetSimulationRunning,
              windowVars
      <3> QED BY <3>1, Zenon DEF ControlsInv
    <2>2. CASE ~HasActiveProcesses
      BY <1>1, <1>6, <2>2 DEF OnPlayClicked, windowVars, controlVars
    <2> QED BY <2>1, <2>2
  <1>7. CASE OnResetClicked
    <2>1. /\ timer' = FALSE /\ running' = FALSE
          /\ has_programs' = FALSE /\ restart_enabled' = FALSE
          /\ submitted' = <<>>
      BY <1>7 DEF OnResetClicked, StopTimer, SetHasPrograms, ClearPrograms
    <2> QED BY <2>1, Zenon DEF ControlsInv
  <1>8. CASE OnRestartClicked
    <2>1. CASE submitted = <<>>
      BY <1>1, <1>8, <2>1 DEF OnRestartClicked, windowVars, controlVars
    <2>2. CASE submitted # <<>>
      <3>1. /\ timer' = FALSE /\ running' = FALSE
            /\ has_programs' = TRUE /\ restart_enabled' = TRUE
            /\ submitted' = submitted
        BY <1>8, <2>2 DEF OnRestartClicked, StopTimer, SetHasPrograms
      <3> QED BY <2>2, <3>1, Zenon DEF ControlsInv
    <2> QED BY <2>1, <2>2
  <1>9. CASE \E meta \in Programs : OnAddProgramClicked(meta)
    <2>1. PICK meta \in Programs : OnAddProgramClicked(meta)
      BY <1>9
    <2>2. ~running
      BY <2>1, ReceiveEffect DEF OnAddProgramClicked, AddingInv, Adding
    <2>3. submitted' # <<>>
      <3>1. Len(submitted') = Len(submitted) + 1 /\ Len(submitted) \in Nat
        BY <2>1, AppendPlaces DEF OnAddProgramClicked, MatchInv
      <3>2. Len(submitted') # Len(<<>>)
        BY <3>1
      <3> QED BY <3>2
    <2>4. /\ UNCHANGED <<timer, running>>
          /\ has_programs' = TRUE /\ restart_enabled' = TRUE
      BY <2>1 DEF OnAddProgramClicked, SetHasPrograms
    <2> QED BY <2>2, <2>3, <2>4, Zenon DEF ControlsInv
  <1>10. CASE \/ \E signal \in Signals : Emit(signal)
              \/ \E c \in Configs : ChooseConfig(c)
              \/ OnSpeedChanged \/ CloseDetails \/ TimerElapses \/ EmitTimeout
              \/ \E i \in DOMAIN rows : OnProcessInfoRequested(i)
    BY <1>1, <1>10 DEF Emit, Deliver, ChooseConfig, OnSpeedChanged,
          CloseDetails, TimerElapses, EmitTimeout, OnProcessInfoRequested,
          controlVars, windowVars
  <1> QED BY <1>3, <1>4, <1>5, <1>6, <1>7, <1>8, <1>9, <1>10
          DEF WNext, User, Slot

\* The timer runs exactly while the controls offer Pause, and Restart is
\* offered exactly when nothing runs and there is something to restart.
THEOREM ControlsMatchHolds == WSpec => []ControlsMatchTimer
  <1>1. WInit => AddingInv /\ ControlsInv
    BY Zenon DEF WInit, AddingInv, ControlsInv
  <1>2. WSpec => []AddingInv
    BY <1>1, DeliveryInvHolds, NextAddingInv, PTL DEF WSpec
  <1>3. WSpec => []ControlsInv
    BY <1>1, <1>2, DeliveryInvHolds, MatchInvHolds, NextControlsInv, PTL
       DEF WSpec
  <1>4. ControlsInv => ControlsMatchTimer
    BY Zenon DEF ControlsInv, ControlsMatchTimer
  <1> QED BY <1>3, <1>4, PTL

-----------------------------------------------------------------------------
(* The detail dialog.                                                      *)

\* The dialog blocks the window: under it, nothing but timeouts is delivered.
DialogInv == details # NoDetails /\ delivery.left > 0 => delivery.signal = "timeout"

LEMMA NextDialogInv == DeliveryInv /\ DialogInv /\ [WNext]_wvars => DialogInv'
  <1> SUFFICES ASSUME DeliveryInv, DialogInv, [WNext]_wvars PROVE DialogInv'
    OBVIOUS
  <1> USE DEF DialogInv, NoDetails
  <1>1. CASE UNCHANGED <<delivery, details>>
    BY <1>1
  <1>2. CASE KernelRuns \/ OnSimulationComplete \/ UNCHANGED wvars
    BY <1>1, <1>2 DEF KernelRuns, OnSimulationComplete, wvars
  <1>3. CASE Slot
    <2>1. PICK signal \in Signals \cup {"timeout"} : Receive(signal)
      BY <1>3 DEF Slot, OnStepClicked, OnPlayClicked, OnPauseClicked,
            OnAutoRunTick, OnResetClicked, OnRestartClicked,
            OnAddProgramCancelled, OnAddProgramClicked, Signals
    <2> QED BY <2>1, ReceiveEffect
  <1>4. CASE \/ \E signal \in Signals : Emit(signal)
             \/ \E c \in Configs : ChooseConfig(c)
             \/ OnSpeedChanged
    BY <1>4 DEF Emit, Deliver, ChooseConfig, OnSpeedChanged, HasInput
  <1>5. CASE EmitTimeout
    <2>1. delivery' = [signal |-> "timeout", left |-> connections]
      BY <1>5 DEF EmitTimeout, Deliver
    <2> QED BY <2>1
  <1>6. CASE TimerElapses
    BY <1>1, <1>6 DEF TimerElapses
  <1>7. CASE CloseDetails \/ \E i \in DOMAIN rows : OnProcessInfoRequested(i)
    <2>1. delivery' = delivery /\ delivery.left = 0
      BY <1>7 DEF CloseDetails, OnProcessInfoRequested, HasInput, Quiet
    <2> QED BY <2>1
  <1> QED BY <1>2, <1>3, <1>4, <1>5, <1>6, <1>7 DEF WNext, User

\* A process is never charged less than before, and never leaves Terminated.
LEMMA ProcessOnlyForward ==
    ASSUME Inv, KernelGoesOn, NEW p \in Pid
    PROVE  /\ used'[p] >= used[p]
           /\ state[p] = "Terminated" => state'[p] = "Terminated"
  <1> USE DEF Inv, TypeOK
  <1>1. used'[p] = used[p] \/ used'[p] = used[p] + 1
    BY DEF KernelGoesOn, KernelStep, NotifyTick, Wake, ExecuteIdle,
          HandleSyscallBlock, HandleProcessExit, HandleQuantumExpired,
          ContinueExecution, DispatchNext, DispatchNone,
          NotifySimulationComplete, NotifyTickCompleted, ChargeTick, Ran, vars
  <1>2. used'[p] >= used[p]
    BY <1>1
  <1>3. \/ UNCHANGED state
        \/ \E q \in Pid, t \in StateTransition : Transition(q, t)
    BY DEF KernelGoesOn, KernelStep, NotifyTick, Wake, ExecuteIdle,
          HandleSyscallBlock, HandleProcessExit, HandleQuantumExpired,
          ContinueExecution, DispatchNext, DispatchNone,
          NotifySimulationComplete, NotifyTickCompleted, ChargeTick,
          StateTransition, vars
  <1>4. ASSUME NEW q \in Pid, NEW t \in StateTransition, Transition(q, t),
               state[p] = "Terminated"
        PROVE  state'[p] = "Terminated"
    <2>1. state[q] = Source[t] /\ \A r \in Pid \ {q} : state'[r] = state[r]
      BY <1>4, TransitionEffect
    <2>2. Source[t] # "Terminated"
      BY DEF StateTransition, Source
    <2> QED BY <1>4, <2>1, <2>2
  <1> QED BY <1>2, <1>3, <1>4

\* The name in the table is that of the program which the process runs.
LEMMA NameIsProgram ==
    ASSUME MatchInv, NEW p \in Created
    PROVE  NameForPid(p) = process_metadata[p]
  <1>1. PICK n \in Nat : n = Len(submitted)
    BY DEF MatchInv
  <1>2. p \in 1..n
    BY <1>1 DEF MatchInv, Created
  <1>3. DOMAIN rows = 1..n
    BY <1>1 DEF MatchInv, RowsOf, Table
  <1>4. \A i \in 1..n : rows[i].program = submitted[i]
    BY <1>1 DEF MatchInv, RowsOf, Table
  <1>5. \A i \in 1..n : rows[i].pid = i
    BY <1>1 DEF MatchInv, RowsOf, Table
  <1>6. ASSUME NEW i \in DOMAIN rows
        PROVE  rows[i].pid = p /\ (\A j \in 1..(i-1) : rows[j].pid # p) <=> i = p
    <2>1. i \in 1..n /\ \A j \in 1..(i-1) : j \in 1..n /\ j # i
      BY <1>3
    <2> QED BY <1>5, <2>1
  <1>7. NameForPid(p) = rows[p].program
    <2>1. p \in DOMAIN rows
      BY <1>2, <1>3
    <2>2. (CHOOSE i \in DOMAIN rows : /\ rows[i].pid = p
                                      /\ \A j \in 1..(i-1) : rows[j].pid # p) = p
      BY <1>6, <2>1
    <2> QED BY <2>2 DEF NameForPid
  <1>8. rows[p].program = submitted[p]
    BY <1>2, <1>4
  <1> QED BY <1>7, <1>8 DEF MatchInv

DetailsInv == /\ DetailsAreOfThisRun
              /\ details # NoDetails => details.used \in Nat

\* So the dialog is right about a process when it is opened for it.
LEMMA DetailsRead ==
    ASSUME Inv, MatchInv, NEW p \in Created, NEW n, details' = Details(p, n),
           UNCHANGED vars
    PROVE  DetailsInv'
  <1>1. /\ details'.pid = p /\ details'.program = process_metadata[p]
        /\ details'.used = used[p] /\ details'.state = state[p]
    BY NameIsProgram DEF Details
  <1>2. used'[p] = used[p] /\ state'[p] = state[p] /\ p \in Created'
        /\ process_metadata'[p] = process_metadata[p]
    BY DEF vars, Created
  <1>3. used[p] \in Nat
    BY CreatedPids DEF Inv, TypeOK
  <1> QED BY <1>1, <1>2, <1>3 DEF DetailsInv, DetailsAreOfThisRun

LEMMA NextDetails ==
    Inv /\ MatchInv /\ DeliveryInv /\ DialogInv /\ DetailsInv /\ [WNext]_wvars
        => DetailsInv'
  <1> SUFFICES ASSUME Inv, MatchInv, DeliveryInv, DialogInv, DetailsInv,
                      [WNext]_wvars
               PROVE  DetailsInv'
    OBVIOUS
  <1>1. CASE UNCHANGED <<vars, details>>
    BY <1>1 DEF DetailsInv, DetailsAreOfThisRun, Created, vars, NoDetails
  <1>2. CASE KernelGoesOn /\ details' = details
    <2> SUFFICES ASSUME details # NoDetails PROVE DetailsInv'
      BY <1>2 DEF DetailsInv, DetailsAreOfThisRun, NoDetails
    <2>1. PICK p \in Created : p = details.pid
      BY DEF DetailsInv, DetailsAreOfThisRun
    <2>2. p \in Pid
      BY CreatedPids
    <2>3. Created' = Created /\ process_metadata' = process_metadata
      BY <1>2, KernelKeepsPrograms DEF userVars, Created
    <2>4. used'[p] >= used[p] /\ used[p] \in Nat /\ used'[p] \in Nat
      <3>1. Inv'
        BY <1>2, DrivenInv DEF KernelGoesOn, Driven
      <3> QED BY <1>2, <2>2, <3>1, ProcessOnlyForward DEF Inv, TypeOK
    <2>5. details.used <= used'[p]
      <3>1. details.used \in Nat /\ details.used <= used[p]
        BY <2>1 DEF DetailsInv, DetailsAreOfThisRun
      <3>2. ASSUME NEW l \in Nat, NEW m \in Nat, NEW n \in Nat, l <= m, n >= m
            PROVE  l <= n
        BY <3>2
      <3> QED BY <2>4, <3>1, <3>2
    <2>6. state[p] = "Terminated" => state'[p] = "Terminated"
      BY <1>2, <2>2, ProcessOnlyForward
    <2> QED BY <1>2, <2>1, <2>3, <2>5, <2>6 DEF DetailsInv, DetailsAreOfThisRun
  <1>3. ASSUME NEW signal \in {"reset", "restart", "addProgram"}, Receive(signal)
        PROVE  DetailsInv'
    <2>1. details = NoDetails
      BY <1>3, ReceiveEffect DEF DialogInv
    <2>2. details' = NoDetails
      BY <1>3, <2>1, ReceiveEffect
    <2> QED BY <2>2 DEF DetailsInv, DetailsAreOfThisRun, NoDetails
  <1>4. CASE KernelRuns \/ OnSimulationComplete \/ UNCHANGED wvars
    BY <1>1, <1>2, <1>4 DEF KernelRuns, OnSimulationComplete, KernelGoesOn,
          KernelStep, wvars
  <1>5. CASE OnStepClicked \/ OnAutoRunTick \/ OnPlayClicked \/ OnPauseClicked
    <2>1. KernelGoesOn
      BY <1>5 DEF OnStepClicked, OnAutoRunTick, OnPlayClicked, OnPauseClicked,
            EngineStep, KernelGoesOn
    <2>2. details' = details
      BY <1>5 DEF OnStepClicked, OnAutoRunTick, OnPlayClicked, OnPauseClicked,
            Receive
    <2> QED BY <1>2, <2>1, <2>2
  <1>6. CASE \/ OnResetClicked \/ OnRestartClicked \/ OnAddProgramCancelled
             \/ \E meta \in Programs : OnAddProgramClicked(meta)
    BY <1>3, <1>6 DEF OnResetClicked, OnRestartClicked, OnAddProgramCancelled,
          OnAddProgramClicked
  <1>7. CASE \/ \E signal \in Signals : Emit(signal)
             \/ \E c \in Configs : ChooseConfig(c)
             \/ OnSpeedChanged \/ TimerElapses \/ EmitTimeout
    BY <1>1, <1>7 DEF Emit, Deliver, ChooseConfig, OnSpeedChanged,
          TimerElapses, EmitTimeout
  <1>8. CASE CloseDetails
    <2>1. UNCHANGED vars /\ details # NoDetails
      BY <1>8 DEF CloseDetails
    <2>2. details.pid \in Created
      BY <2>1 DEF DetailsInv, DetailsAreOfThisRun
    <2>3. CASE details' = NoDetails
      BY <2>3 DEF DetailsInv, DetailsAreOfThisRun, NoDetails
    <2>4. CASE details' = Details(details.pid, details.left - 1)
      BY <2>1, <2>2, <2>4, DetailsRead
    <2> QED BY <1>8, <2>3, <2>4 DEF CloseDetails
  <1>9. CASE \E i \in DOMAIN rows : OnProcessInfoRequested(i)
    <2>1. PICK i \in DOMAIN rows : OnProcessInfoRequested(i)
      BY <1>9
    <2>2. rows[i].pid \in Created
      <3>1. PICK n \in Nat : n = Len(submitted)
        BY DEF MatchInv
      <3>2. DOMAIN rows = 1..n /\ rows[i] = [pid |-> i, program |-> submitted[i]]
        BY <3>1 DEF MatchInv, RowsOf, Table
      <3>3. Created = 1..n
        BY <3>1 DEF MatchInv, Created
      <3> QED BY <3>2, <3>3
    <2> QED BY <2>1, <2>2, DetailsRead DEF OnProcessInfoRequested, ClickedPid
  <1> QED BY <1>4, <1>5, <1>6, <1>7, <1>8, <1>9 DEF WNext, User, Slot

\* An open detail dialog is about a process of the kernel that runs now, and
\* never ahead of it, though ticks go on under it.
THEOREM DetailsHold == WSpec => []DetailsAreOfThisRun
  <1>1. WInit => DialogInv /\ DetailsInv
    BY DEF WInit, DialogInv, DetailsInv, DetailsAreOfThisRun, NoDetails
  <1>2. WSpec => []DialogInv
    BY <1>1, DeliveryInvHolds, NextDialogInv, PTL DEF WSpec
  <1>3. WSpec => []DetailsInv
    BY <1>1, <1>2, DeliveryInvHolds, MatchInvHolds, NextDetails, PTL DEF WSpec
  <1>4. DetailsInv => DetailsAreOfThisRun
    BY DEF DetailsInv
  <1> QED BY <1>3, <1>4, PTL

=============================================================================
