---------------------------- MODULE DialogProofs ----------------------------
(***************************************************************************)
(* Proofs about ProgramSubmissionDialog, for tables of any length and      *)
(* whatever the user types: the calls that getMetadata makes of the rows,  *)
(* the presets against the programs of the command line, and the dialog's  *)
(* programs against what the kernel assumes of those it is given.          *)
(***************************************************************************)
EXTENDS ProgramSubmissionDialog, DataLemmas

\* The rows the widgets can show.
TableRow == [tick : 1..100, type : Types, duration : 1..50]

\* The calls of a program, by the CPU tick of each.
CallMaps == UNION {[T -> [type : Types, duration : 1..50]] : T \in SUBSET (1..100)}

CallOf(row) == Syscall(row.type, row.duration)

-----------------------------------------------------------------------------
(* The calls of a table.                                                   *)

LEMMA AddSyscallMaps ==
    ASSUME NEW calls \in CallMaps, NEW row \in TableRow
    PROVE  AddSyscall(calls, row.tick, CallOf(row)) \in CallMaps
  <1>1. PICK T \in SUBSET (1..100) : calls \in [T -> [type : Types, duration : 1..50]]
    BY DEF CallMaps
  <1>2. row.tick \in 1..100 /\ CallOf(row) \in [type : Types, duration : 1..50]
    BY DEF TableRow, CallOf, Syscall
  <1> DEFINE c == AddSyscall(calls, row.tick, CallOf(row))
             U == T \cup {row.tick}
  <1>3. c \in [U -> [type : Types, duration : 1..50]] /\ U \in SUBSET (1..100)
    BY <1>1, <1>2 DEF AddSyscall
  <1> QED BY <1>3 DEF CallMaps

\* The calls after the rows up to the k-th: the ticks of these, and at each of
\* them the call of its last row.
AreCalls(calls, table, k) ==
    /\ DOMAIN calls = {table[i].tick : i \in 1..k}
    /\ \A i \in 1..k : (\A j \in 1..k : j > i => table[j].tick # table[i].tick)
                           => calls[table[i].tick] = CallOf(table[i])

\* One more row keeps the calls of the rows before it, but for its own tick.
LEMMA AddSyscallRows ==
    ASSUME NEW table, NEW k \in Nat, NEW calls, AreCalls(calls, table, k)
    PROVE  AreCalls(AddSyscall(calls, table[k + 1].tick, CallOf(table[k + 1])),
                    table, k + 1)
  <1> DEFINE t == table[k + 1].tick
             c == AddSyscall(calls, t, CallOf(table[k + 1]))
  <1>1. c = [u \in DOMAIN calls \cup {t} |-> IF u = t THEN CallOf(table[k + 1])
                                             ELSE calls[u]]
    BY DEF AddSyscall
  <1>2. 1..(k + 1) = (1..k) \cup {k + 1} /\ \A i \in 1..k : ~(i > k + 1) /\ k + 1 > i
    OBVIOUS
  <1>3. DOMAIN c = {table[i].tick : i \in 1..(k + 1)}
    <2>1. DOMAIN c = {table[i].tick : i \in 1..k} \cup {table[k + 1].tick}
      BY <1>1 DEF AreCalls
    <2> HIDE DEF c
    <2> QED BY <1>2, <2>1
  <1>4. ASSUME NEW i \in 1..(k + 1),
               \A j \in 1..(k + 1) : j > i => table[j].tick # table[i].tick
        PROVE  c[table[i].tick] = CallOf(table[i])
    <2>1. CASE i = k + 1
      BY <1>1, <2>1
    <2>2. CASE i \in 1..k
      <3>1. table[i].tick # t /\ table[i].tick \in DOMAIN calls
        BY <1>2, <1>4, <2>2 DEF AreCalls
      <3>2. calls[table[i].tick] = CallOf(table[i])
        BY <1>2, <1>4, <2>2 DEF AreCalls
      <3> QED BY <1>1, <3>1, <3>2
    <2> QED BY <1>2, <2>1, <2>2
  <1> HIDE DEF c
  <1> QED BY <1>3, <1>4 DEF AreCalls, c

\* What getMetadata makes of a table.
LEMMA CallsOfTable ==
    ASSUME NEW table \in Seq(TableRow)
    PROVE  CallsOf(table) \in CallMaps /\ AreCalls(CallsOf(table), table, Len(table))
  <1> PICK n \in Nat : n = Len(table)
    OBVIOUS
  <1> DEFINE Add(calls, row) == AddSyscall(calls, row.tick, CallOf(row))
             F == [x \in (1..n) \X CallMaps |-> Add(x[2], table[x[1]])]
             D == DOMAIN table
             iter[s \in SUBSET D] ==
                 IF s = {} THEN NoSyscalls
                 ELSE LET x == Max(s) IN Add(iter[s \ {x}], table[x])
  <1>1. D = 1..n /\ \A i \in 1..n : table[i] \in TableRow
    OBVIOUS
  <1>2. CallsOf(table) = iter[D]
    BY DEF CallsOf, FoldLeft, MapThenFoldSet, CallOf
  <1>3. F \in [(1..n) \X CallMaps -> CallMaps]
    <2>1. ASSUME NEW x \in (1..n) \X CallMaps
          PROVE  Add(x[2], table[x[1]]) \in CallMaps
      BY <1>1, AddSyscallMaps
    <2> HIDE DEF Add
    <2> QED BY <2>1
  <1>4. NoSyscalls \in CallMaps
    <2>1. {} \in SUBSET (1..100) /\ NoSyscalls \in [{} -> [type : Types, duration : 1..50]]
      BY DEF NoSyscalls
    <2> QED BY <2>1 DEF CallMaps
  <1>5. PICK g : IsFold(g, 1..n, CallMaps, NoSyscalls, F, Greatest(n))
    <2>1. \A s \in SUBSET (1..n) : s # {} => Greatest(n)[s] \in s
      BY GreatestElement DEF Greatest
    <2>2. IsFiniteSet(1..n)
      BY FS_Interval
    <2> HIDE DEF F, D, iter
    <2> QED BY <1>3, <1>4, <2>1, <2>2, FoldExists
  <1> HIDE DEF Add
  <1>6. g = [s \in SUBSET D |-> IF s = {} THEN NoSyscalls
                                ELSE LET x == Max(s) IN Add(g[s \ {x}], table[x])]
    <2>1. ASSUME NEW s \in SUBSET (1..n), s # {}
          PROVE  g[s] = Add(g[s \ {Max(s)}], table[Max(s)])
      <3>1. Max(s) \in 1..n /\ s \ {Max(s)} \in SUBSET (1..n)
        BY <2>1, GreatestElement
      <3>2. g[s] = F[<<Max(s), g[s \ {Max(s)}]>>]
        BY <1>5, <2>1 DEF IsFold, Greatest
      <3>3. g[s \ {Max(s)}] \in CallMaps
        BY <1>5, <3>1 DEF IsFold
      <3> QED BY <3>1, <3>2, <3>3
    <2>2. g[{}] = NoSyscalls /\ g \in [SUBSET D -> CallMaps]
      BY <1>1, <1>5 DEF IsFold
    <2> QED BY <1>1, <2>1, <2>2
  <1>7. iter = [s \in SUBSET D |->
                   IF s = {} THEN NoSyscalls
                   ELSE LET x == Max(s) IN Add(iter[s \ {x}], table[x])]
    BY <1>6
  <1> DEFINE Good == {k \in Nat : k <= n => /\ iter[1..k] \in CallMaps
                                            /\ AreCalls(iter[1..k], table, k)}
  <1>8. /\ iter[{}] = NoSyscalls
        /\ \A s \in SUBSET (1..n) :
               s # {} => iter[s] = Add(iter[s \ {Max(s)}], table[Max(s)])
    <2> HIDE DEF iter
    <2> QED BY <1>1, <1>7
  <1> HIDE DEF iter, D
  <1>9. 0 \in Good
    <2>1. 1..0 = {} /\ DOMAIN NoSyscalls = {}
      BY DEF NoSyscalls
    <2>2. AreCalls(NoSyscalls, table, 0)
      BY <2>1 DEF AreCalls
    <2> QED BY <1>4, <1>8, <2>1, <2>2
  <1>10. ASSUME NEW k \in Nat, k \in Good PROVE k + 1 \in Good
    <2> SUFFICES ASSUME k + 1 <= n
                 PROVE  /\ iter[1..(k + 1)] \in CallMaps
                        /\ AreCalls(iter[1..(k + 1)], table, k + 1)
      OBVIOUS
    <2>1. iter[1..k] \in CallMaps /\ AreCalls(iter[1..k], table, k)
      BY <1>10
    <2>2. /\ k + 1 \in 1..n /\ 1..(k + 1) # {} /\ 1..(k + 1) \in SUBSET (1..n)
          /\ (1..(k + 1)) \ {k + 1} = 1..k
      <3>1. k + 1 \in 1..n /\ k + 1 \in 1..(k + 1)
        OBVIOUS
      <3>2. \A i \in 1..(k + 1) : i \in 1..n
        OBVIOUS
      <3>3. (1..(k + 1)) \ {k + 1} = 1..k
        OBVIOUS
      <3> QED BY <3>1, <3>2, <3>3, Zenon
    <2>3. Max(1..(k + 1)) = k + 1
      BY <2>2, GreatestElement
    <2>4. iter[1..(k + 1)] = Add(iter[1..k], table[k + 1])
      BY <1>8, <2>2, <2>3
    <2>5. Add(iter[1..k], table[k + 1]) \in CallMaps
      BY <1>1, <2>1, <2>2, AddSyscallMaps DEF Add
    <2>6. AreCalls(Add(iter[1..k], table[k + 1]), table, k + 1)
      BY <2>1, AddSyscallRows DEF Add
    <2> QED BY <2>4, <2>5, <2>6
  <1>11. n \in Good
    <2> HIDE DEF Good
    <2> QED BY <1>9, <1>10, Induction
  <1> QED BY <1>1, <1>2, <1>11

-----------------------------------------------------------------------------
(* The form and the rows.                                                  *)

\* The rows that the preset of an index fills in.
PresetRows(index) == CASE index = 2 -> <<Row(3, "IoRead", 4)>>
                       [] index = 3 -> <<Row(4, "IoRead", 3), Row(9, "IoWrite", 2)>>
                       [] OTHER     -> <<>>

PresetForm(index) ==
    CASE index = 1 -> [name |-> "Calculator", cpu |-> 5, memory |-> 64, devices |-> 0]
      [] index = 2 -> [name |-> "FileReader", cpu |-> 8, memory |-> 128, devices |-> 1]
      [] index = 3 -> [name |-> "WebServer", cpu |-> 12, memory |-> 256, devices |-> 2]
      [] OTHER     -> NewForm

FormName == Names \cup {"", "Calculator", "FileReader", "WebServer"}

Form == [name    : FormName,
         cpu     : 1..100,
         memory  : 1..1024,
         devices : 0..10]

\* The widgets keep their ranges, and what they show is the preset's until
\* the user edits it.
DialogInv == /\ rows \in Seq(TableRow)
             /\ form \in Form
             /\ preset \in 0..3
             /\ ~edited => form = PresetForm(preset) /\ rows = PresetRows(preset)

LEMMA PresetRow ==
    ASSUME NEW tick \in 1..100, NEW type \in Types, NEW duration \in 1..50
    PROVE  /\ Row(tick, type, duration) =
                  [tick |-> tick, type |-> type, duration |-> duration]
           /\ Row(tick, type, duration) \in TableRow
  <1>1. Within(tick, 1, 100) = tick /\ Within(duration, 1, 50) = duration
    BY DEF Within
  <1>2. Row(tick, type, duration) =
            [tick |-> tick, type |-> type, duration |-> duration]
    BY <1>1, Zenon DEF Row
  <1>3. duration \in Int
    OBVIOUS
  <1> QED BY <1>2, <1>3 DEF TableRow

LEMMA PresetRowsType ==
    ASSUME NEW index \in 0..3
    PROVE  PresetRows(index) \in Seq(TableRow)
  <1>1. "IoRead" \in Types /\ "IoWrite" \in Types
    BY DEF Types
  <1>2. 3 \in 1..100 /\ 4 \in 1..100 /\ 9 \in 1..100
    OBVIOUS
  <1>3. 2 \in 1..50 /\ 3 \in 1..50 /\ 4 \in 1..50
    OBVIOUS
  <1>4. Row(3, "IoRead", 4) \in TableRow
    BY <1>1, <1>2, <1>3, PresetRow, Zenon
  <1>5. Row(4, "IoRead", 3) \in TableRow
    BY <1>1, <1>2, <1>3, PresetRow, Zenon
  <1>6. Row(9, "IoWrite", 2) \in TableRow
    BY <1>1, <1>2, <1>3, PresetRow, Zenon
  <1> QED BY <1>4, <1>5, <1>6 DEF PresetRows

LEMMA PresetFormType ==
    ASSUME NEW index \in 0..3
    PROVE  PresetForm(index) \in Form
  BY DEF PresetForm, Form, FormName, NewForm

LEMMA FormChanged ==
    ASSUME NEW f \in Form
    PROVE  /\ \A name \in Names : [f EXCEPT !["name"] = name] \in Form
           /\ \A cpu \in CpuTimes : [f EXCEPT !["cpu"] = cpu] \in Form
  <1>1. Names \subseteq FormName
    BY DEF FormName
  <1>2. CpuTimes \subseteq 1..100
    BY DialogAssumption
  <1>3. \A name \in Names : [f EXCEPT !["name"] = name] \in Form
    BY <1>1 DEF Form
  <1>4. \A cpu \in CpuTimes : [f EXCEPT !["cpu"] = cpu] \in Form
    BY <1>2 DEF Form
  <1> QED BY <1>3, <1>4

\* The rows after setRowCount(0) and one or two times addSyscallRow.
LEMMA RowsAdded ==
    ASSUME NEW q, NEW r
    PROVE  /\ AddRowAt(<<>>, 0, q) = <<q>>
           /\ AddRowAt(<<q>>, 1, r) = <<q, r>>
  <1> DEFINE T == {q, r, NewRow}
             s == Append(<<q>>, NewRow)
  <1>1. AddRowAt(<<>>, 0, q) = <<q>>
    BY DEF AddRowAt
  <1>2. <<q>> \in Seq(T) /\ NewRow \in T /\ Len(<<q>>) = 1 /\ <<q>>[1] = q
    OBVIOUS
  <1>3. s \in Seq(T) /\ Len(s) = 2 /\ s[1] = q
    <2> HIDE DEF T
    <2> QED BY <1>2, AppendProperties
  <1> HIDE DEF s, T
  <1>4. s = [i \in 1..2 |-> s[i]] /\ \A i \in 1..2 : i = 1 \/ i = 2
    BY <1>3
  <1>5. [s EXCEPT ![1 + 1] = r] = [i \in 1..2 |-> IF i = 2 THEN r ELSE q]
    <2>1. [s EXCEPT ![1 + 1] = r] = [i \in 1..2 |-> IF i = 1 + 1 THEN r ELSE s[i]]
      BY <1>4
    <2> QED BY <1>3, <1>4, <2>1
  <1>6. <<q, r>> = [i \in 1..2 |-> IF i = 2 THEN r ELSE q]
    BY <1>4
  <1> QED BY <1>1, <1>5, <1>6 DEF AddRowAt, s

\* What sets form and rows to a preset's sets up the invariant.
LEMMA PresetSet ==
    ASSUME NEW index \in 0..3,
           preset' = index, form' = PresetForm(index), rows' = PresetRows(index)
    PROVE  DialogInv'
  BY PresetFormType, PresetRowsType DEF DialogInv

\* No preset: the dialog as it opens.
LEMMA NoPreset == PresetForm(0) = NewForm /\ PresetRows(0) = <<>>
  <1>1. PresetForm(0) = NewForm
    BY DEF PresetForm
  <1>2. PresetRows(0) = <<>>
    BY DEF PresetRows
  <1> QED BY <1>1, <1>2

LEMMA BlankInv == Blank => DialogInv'
  <1>1. 0 \in 0..3
    OBVIOUS
  <1> QED BY <1>1, NoPreset, PresetSet DEF Blank

LEMMA UntouchedForm ==
    ASSUME NEW name, SetForm(name, 5, 64, 0)
    PROVE  form' = [name |-> name, cpu |-> 5, memory |-> 64, devices |-> 0]
  BY DEF SetForm, Within

LEMMA PresetKeepsInv ==
    ASSUME NEW index \in 0..3, OnPresetSelected(index) PROVE DialogInv'
  <1>1. preset' = index
    BY DEF OnPresetSelected
  <1>2. CASE index = 0
    <2>1. index # 1 /\ index # 2 /\ index # 3
      BY <1>2
    <2>2. SetForm("", 5, 64, 0) /\ rows' = <<>>
      BY <2>1, Zenon DEF OnPresetSelected, Cleared
    <2>3. form' = [name |-> "", cpu |-> 5, memory |-> 64, devices |-> 0]
      BY <2>2, UntouchedForm
    <2>4. form' = PresetForm(index) /\ rows' = PresetRows(index)
      BY <1>2, <2>2, <2>3, NoPreset DEF NewForm
    <2> QED BY <1>1, <2>4, PresetSet
  <1>3. CASE index = 1
    <2>1. SetForm("Calculator", 5, 64, 0) /\ rows' = <<>>
      BY <1>3 DEF OnPresetSelected, Cleared
    <2>2. /\ PresetForm(1) = [name |-> "Calculator", cpu |-> 5, memory |-> 64,
                              devices |-> 0]
          /\ PresetRows(1) = <<>>
      BY DEF PresetForm, PresetRows
    <2> QED BY <1>3, <2>1, <2>2, <1>1, PresetSet DEF SetForm, Within
  <1>4. CASE index = 2
    <2>1. /\ SetForm("FileReader", 8, 128, 1)
          /\ rows' = AddRowAt(<<>>, 0, Row(3, "IoRead", 4))
      BY <1>4 DEF OnPresetSelected, Cleared
    <2>2. /\ PresetForm(2) = [name |-> "FileReader", cpu |-> 8, memory |-> 128,
                              devices |-> 1]
          /\ PresetRows(2) = <<Row(3, "IoRead", 4)>>
      BY DEF PresetForm, PresetRows
    <2> QED BY <1>4, <2>1, <2>2, RowsAdded, <1>1, PresetSet DEF SetForm, Within
  <1>5. CASE index = 3
    <2>1. /\ SetForm("WebServer", 12, 256, 2)
          /\ rows' = AddRowAt(AddRowAt(<<>>, 0, Row(4, "IoRead", 3)), 1,
                              Row(9, "IoWrite", 2))
      BY <1>5 DEF OnPresetSelected, Cleared
    <2>2. /\ PresetForm(3) = [name |-> "WebServer", cpu |-> 12, memory |-> 256,
                              devices |-> 2]
          /\ PresetRows(3) = <<Row(4, "IoRead", 3), Row(9, "IoWrite", 2)>>
      BY DEF PresetForm, PresetRows
    <2>3. form' = PresetForm(3)
      BY <2>1, <2>2 DEF SetForm, Within
    <2>4. rows' = PresetRows(3)
      BY <2>1, <2>2, RowsAdded, Zenon
    <2> QED BY <1>1, <1>5, <2>3, <2>4, PresetSet
  <1> QED BY <1>2, <1>3, <1>4, <1>5

LEMMA EditKeepsInv ==
    ASSUME DialogInv,
           \/ \E name \in Names : EnterField("name", name)
           \/ \E cpu \in CpuTimes : EnterField("cpu", cpu)
           \/ \E i \in DOMAIN rows : \/ \E t \in Ticks : EnterCell(i, "tick", t)
                                     \/ \E t \in Types : EnterCell(i, "type", t)
                                     \/ \E d \in Durations : EnterCell(i, "duration", d)
           \/ AddSyscallRow
           \/ RemoveSyscallRow
    PROVE  DialogInv'
  <1>1. edited' = TRUE /\ UNCHANGED preset
    BY DEF EnterField, EnterCell, AddSyscallRow, RemoveSyscallRow, Edit
  <1>2. rows' \in Seq(TableRow)
    <2>1. ASSUME NEW i \in DOMAIN rows, NEW column, NEW v, EnterCell(i, column, v),
                 [rows[i] EXCEPT ![column] = v] \in TableRow
          PROVE  rows' \in Seq(TableRow)
      BY <2>1 DEF EnterCell, DialogInv
    <2>2. ASSUME NEW i \in DOMAIN rows
          PROVE  /\ \A t \in Ticks : [rows[i] EXCEPT !["tick"] = t] \in TableRow
                 /\ \A t \in Types : [rows[i] EXCEPT !["type"] = t] \in TableRow
                 /\ \A d \in Durations : [rows[i] EXCEPT !["duration"] = d] \in TableRow
      <3>1. rows[i] \in TableRow
        BY DEF DialogInv
      <3> QED BY <3>1, DialogAssumption DEF TableRow
    <2>3. CASE AddSyscallRow
      <3>1. NewRow \in TableRow
        BY DEF NewRow, TableRow, Types
      <3> QED BY <2>3, <3>1 DEF AddSyscallRow, DialogInv
    <2>4. CASE RemoveSyscallRow
      <3>1. PICK i \in DOMAIN rows : rows' = RemoveAt(rows, i)
        BY <2>4 DEF RemoveSyscallRow
      <3>2. rows \in Seq(TableRow) /\ i \in 1..Len(rows)
        BY DEF DialogInv
      <3> QED BY <3>1, <3>2, RemoveAtPlaces
    <2> QED BY <2>1, <2>2, <2>3, <2>4 DEF EnterField, DialogInv
  <1>3. form' \in Form
    <2>1. \A name \in Names : [form EXCEPT !["name"] = name] \in Form
      BY FormChanged DEF DialogInv
    <2>2. \A cpu \in CpuTimes : [form EXCEPT !["cpu"] = cpu] \in Form
      BY FormChanged DEF DialogInv
    <2> QED BY <2>1, <2>2
            DEF EnterField, EnterCell, AddSyscallRow, RemoveSyscallRow, DialogInv
  <1> QED BY <1>1, <1>2, <1>3 DEF DialogInv

LEMMA NextDialogInv == DialogInv /\ [User \/ Reopen]_dvars => DialogInv'
  <1> SUFFICES ASSUME DialogInv, [User \/ Reopen]_dvars PROVE DialogInv'
    OBVIOUS
  <1>1. CASE (\E how \in {"accepted", "rejected"} : Close(how)) \/ UNCHANGED dvars
    <2>1. UNCHANGED <<preset, form, rows, edited>>
      BY <1>1 DEF Close, dvars
    <2> QED BY <2>1 DEF DialogInv
  <1>2. CASE Reopen
    BY <1>2, BlankInv DEF Reopen
  <1> QED BY <1>1, <1>2, PresetKeepsInv, EditKeepsInv DEF User

LEMMA DialogInvHolds == DSpec => []DialogInv
  <1>1. DInit => DialogInv
    <2> SUFFICES ASSUME DInit PROVE DialogInv
      OBVIOUS
    <2>1. preset = 0 /\ rows = <<>> /\ form = NewForm
      BY DEF DInit
    <2>2. PresetForm(0) = NewForm /\ PresetRows(0) = <<>> /\ 0 \in 0..3
      BY DEF PresetForm, PresetRows
    <2>3. rows \in Seq(TableRow) /\ form \in Form
      BY <2>1, <2>2, PresetFormType, PresetRowsType
    <2> QED BY <2>1, <2>2, <2>3 DEF DialogInv
  <1> QED BY <1>1, NextDialogInv, PTL DEF DSpec

-----------------------------------------------------------------------------
(* What an accepted dialog describes.                                      *)

\* The profile of an accepted dialog holds a call for each tick of its table,
\* that of the last row of the tick, however long the table is.
THEOREM LastRowIsCalledHolds == DSpec => []LastRowIsCalled
  <1>1. DialogInv => LastRowIsCalled
    <2> SUFFICES ASSUME DialogInv PROVE LastRowIsCalled
      OBVIOUS
    <2>1. rows \in Seq(TableRow) /\ DOMAIN rows = 1..Len(rows)
      BY DEF DialogInv
    <2>2. AreCalls(CallsOf(rows), rows, Len(rows))
      BY <2>1, CallsOfTable
    <2>3. GetMetadata.calls = CallsOf(rows)
      BY DEF GetMetadata
    <2> QED BY <2>1, <2>2, <2>3 DEF AreCalls, LastRowIsCalled, CallOf
  <1> QED BY <1>1, DialogInvHolds, PTL

LEMMA CallMapIsFunction ==
    ASSUME NEW calls \in CallMaps
    PROVE  calls = [t \in DOMAIN calls |-> calls[t]]
  BY DEF CallMaps

\* The programs of main.cpp, their calls spelled out.
LEMMA DemoCalls ==
    /\ DemoPrograms[1].calls = [t \in {} |-> Syscall("IoRead", 4)]
    /\ DemoPrograms[2].calls = [t \in {3} |-> Syscall("IoRead", 4)]
    /\ DemoPrograms[3].calls =
           [t \in {4, 9} |-> IF t = 9 THEN Syscall("IoWrite", 2)
                                      ELSE Syscall("IoRead", 3)]
  <1> DEFINE a == Syscall("IoRead", 4)
             b == Syscall("IoRead", 3)
             c == Syscall("IoWrite", 2)
  <1>1. /\ DemoPrograms[1].calls = NoSyscalls
        /\ DemoPrograms[2].calls = AddSyscall(NoSyscalls, 3, a)
        /\ DemoPrograms[3].calls = AddSyscall(AddSyscall(NoSyscalls, 4, b), 9, c)
    BY DEF DemoPrograms
  <1> HIDE DEF a, b, c
  <1>2. NoSyscalls = [t \in {} |-> a] /\ DOMAIN NoSyscalls = {}
    BY DEF NoSyscalls
  <1>3. \A e : \A t : AddSyscall(NoSyscalls, t, e) = [u \in {t} |-> e]
    BY <1>2 DEF AddSyscall
  <1>4. AddSyscall([u \in {4} |-> b], 9, c) = [t \in {4, 9} |-> IF t = 9 THEN c ELSE b]
    <2>1. DOMAIN [u \in {4} |-> b] \cup {9} = {4, 9}
      OBVIOUS
    <2> QED BY <2>1 DEF AddSyscall
  <1>5. /\ DemoPrograms[1].calls = [t \in {} |-> a]
        /\ DemoPrograms[2].calls = [t \in {3} |-> a]
        /\ DemoPrograms[3].calls = [t \in {4, 9} |-> IF t = 9 THEN c ELSE b]
    <2>1. DemoPrograms[2].calls = [t \in {3} |-> a]
      BY <1>1, <1>3
    <2>2. AddSyscall(NoSyscalls, 4, b) = [u \in {4} |-> b]
      BY <1>3
    <2> QED BY <1>1, <1>2, <1>4, <2>1, <2>2
  <1> QED BY <1>5 DEF a, b, c

\* The rows of a preset make the calls of the program of its name.
LEMMA PresetCalls ==
    ASSUME NEW index \in 1..3
    PROVE  CallsOf(PresetRows(index)) = DemoPrograms[index].calls
  <1> DEFINE table == PresetRows(index)
             calls == CallsOf(table)
             q == [tick |-> 3, type |-> "IoRead", duration |-> 4]
             r == [tick |-> 4, type |-> "IoRead", duration |-> 3]
             s == [tick |-> 9, type |-> "IoWrite", duration |-> 2]
  <1>1. AreCalls(calls, table, Len(table)) /\ calls = [t \in DOMAIN calls |-> calls[t]]
    <2>1. table \in Seq(TableRow)
      BY PresetRowsType
    <2> QED BY <2>1, CallsOfTable, CallMapIsFunction
  <1>2. Row(3, "IoRead", 4) = q /\ Row(4, "IoRead", 3) = r /\ Row(9, "IoWrite", 2) = s
    BY DEF Row, Within
  <1>3. /\ index = 1 => table = <<>>
        /\ index = 2 => table = <<q>>
        /\ index = 3 => table = <<r, s>>
    BY <1>2 DEF PresetRows
  <1> HIDE DEF table, calls
  <1>4. CASE index = 1
    <2>1. Len(table) = 0
      BY <1>3, <1>4
    <2>2. DOMAIN calls = {}
      BY <1>1, <2>1 DEF AreCalls
    <2>3. calls = [t \in {} |-> Syscall("IoRead", 4)]
      BY <1>1, <2>2
    <2> QED BY <1>4, <2>3, DemoCalls DEF calls, table
  <1>5. CASE index = 2
    <2>1. Len(table) = 1 /\ table[1] = q
      BY <1>3, <1>5
    <2>2. DOMAIN calls = {3} /\ calls[3] = Syscall("IoRead", 4)
      BY <1>1, <2>1 DEF AreCalls, CallOf
    <2>3. calls = [t \in {3} |-> Syscall("IoRead", 4)]
      BY <1>1, <2>2
    <2> QED BY <1>5, <2>3, DemoCalls DEF calls, table
  <1>6. CASE index = 3
    <2>1. Len(table) = 2 /\ table[1] = r /\ table[2] = s
      BY <1>3, <1>6
    <2>2. /\ DOMAIN calls = {4, 9}
          /\ calls[4] = Syscall("IoRead", 3) /\ calls[9] = Syscall("IoWrite", 2)
      BY <1>1, <2>1 DEF AreCalls, CallOf
    <2>3. calls = [t \in {4, 9} |-> IF t = 9 THEN Syscall("IoWrite", 2)
                                             ELSE Syscall("IoRead", 3)]
      BY <1>1, <2>2
    <2> QED BY <1>6, <2>3, DemoCalls DEF calls, table
  <1> QED BY <1>4, <1>5, <1>6

\* Whatever the user did before, a preset that nobody edited describes the
\* program that main.cpp submits under its name, and Custom an empty form.
THEOREM PresetIsDemoProgramHolds == DSpec => []PresetIsDemoProgram
  <1>1. DialogInv => PresetIsDemoProgram
    <2> SUFFICES ASSUME DialogInv, ~edited
                 PROVE  IF preset = 0 THEN form = NewForm /\ rows = <<>>
                        ELSE GetMetadata = DemoPrograms[preset]
      BY DEF PresetIsDemoProgram
    <2>1. form = PresetForm(preset) /\ rows = PresetRows(preset) /\ preset \in 0..3
      BY DEF DialogInv
    <2>2. CASE preset = 0
      <3>1. PresetForm(0) = NewForm /\ PresetRows(0) = <<>>
        BY DEF PresetForm, PresetRows
      <3> QED BY <2>1, <2>2, <3>1
    <2>3. CASE preset \in 1..3
      <3>1. CallsOf(rows) = DemoPrograms[preset].calls
        BY <2>1, <2>3, PresetCalls
      <3>2. DemoPrograms[preset] = [name    |-> form.name,   cpu     |-> form.cpu,
                                    memory  |-> form.memory, devices |-> form.devices,
                                    calls   |-> DemoPrograms[preset].calls]
        BY <2>1, <2>3 DEF PresetForm, DemoPrograms
      <3> QED BY <2>3, <3>1, <3>2 DEF GetMetadata
    <2> QED BY <2>1, <2>2, <2>3
  <1> QED BY <1>1, DialogInvHolds, PTL

\* The programs the ranges of the widgets allow.
DialogCalls == UNION {[T -> 1..50] : T \in SUBSET (1..100)}
DialogPrograms == [cpu : 1..100, calls : DialogCalls]

\* What the dialog hands to submitProgram needs at least one tick of CPU time,
\* and its calls come after the first of them and take time: it is a program
\* as the proofs about the kernel take for granted, and never a degenerate one.
THEOREM DialogMakesPrograms == DSpec => [](Runnable(GetMetadata) \in DialogPrograms)
  <1>1. DialogInv => Runnable(GetMetadata) \in DialogPrograms
    <2> SUFFICES ASSUME DialogInv PROVE Runnable(GetMetadata) \in DialogPrograms
      OBVIOUS
    <2>1. form.cpu \in 1..100 /\ rows \in Seq(TableRow)
      BY DEF DialogInv, Form
    <2> DEFINE calls == CallsOf(rows)
               durations == [t \in DOMAIN calls |-> calls[t].duration]
    <2>2. PICK T \in SUBSET (1..100) :
                   calls \in [T -> [type : Types, duration : 1..50]]
      BY <2>1, CallsOfTable DEF CallMaps
    <2>3. durations \in [T -> 1..50]
      <3> HIDE DEF calls
      <3> QED BY <2>2
    <2>4. Runnable(GetMetadata) = [cpu |-> form.cpu, calls |-> durations]
      BY DEF Runnable, GetMetadata
    <2> HIDE DEF durations
    <2>5. durations \in DialogCalls
      BY <2>3 DEF DialogCalls
    <2> QED BY <2>1, <2>4, <2>5 DEF DialogPrograms
  <1> QED BY <1>1, DialogInvHolds, PTL

=============================================================================
