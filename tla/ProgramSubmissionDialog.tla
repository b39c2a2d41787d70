----------------------- MODULE ProgramSubmissionDialog -----------------------
(***************************************************************************)
(* app/gui/widgets/program_submission_dialog.cpp: the form in which the    *)
(* user describes a program, by hand or from a preset, with a table of one *)
(* row per system call.  Its presets repeat the programs of the command    *)
(* line, statement by statement, in code of their own.                     *)
(***************************************************************************)
EXTENDS SamplePrograms, SequencesExt

CONSTANTS
    Names,      \* the names the user may type
    CpuTimes,   \* the CPU times the user may enter
    Ticks,      \* the ticks the user may enter in a row
    Durations,  \* the durations the user may enter in a row
    MaxRows     \* bound: the rows the user adds

\* A spin box takes only the values of its range.
ASSUME DialogAssumption == /\ CpuTimes \subseteq 1..100
                           /\ Ticks \subseteq 1..100
                           /\ Durations \subseteq 1..50
                           /\ MaxRows \in Nat

VARIABLES
    dialog,  \* "open", "accepted" or "rejected"
    preset,  \* the current index of presetCombo_; 0 is Custom
    form,    \* the line edit and the spin boxes
    rows,    \* the rows of syscallTable_
    edited   \* history: the user changed something since the last preset

dvars == <<dialog, preset, form, rows, edited>>

Types == {"IoRead", "IoWrite"}

\* The constructor's values.
NewForm == [name |-> "", cpu |-> 5, memory |-> 64, devices |-> 0]

Blank == /\ dialog' = "open"
         /\ preset' = 0
         /\ form' = NewForm
         /\ rows' = <<>>
         /\ edited' = FALSE

DInit == /\ dialog = "open"
         /\ preset = 0
         /\ form = NewForm
         /\ rows = <<>>
         /\ edited = FALSE

-----------------------------------------------------------------------------
(* Presets.                                                                *)

\* QSpinBox::setValue moves a value outside the range to its nearest end.
Within(v, low, high) == IF v < low THEN low ELSE IF v > high THEN high ELSE v

SetForm(name, cpu, memory, devices) ==
    form' = [name    |-> name,
             cpu     |-> Within(cpu, 1, 100),
             memory  |-> Within(memory, 1, 1024),
             devices |-> Within(devices, 0, 10)]

NewRow == [tick |-> 1, type |-> "IoRead", duration |-> 3]

Row(tick, type, duration) == [tick     |-> Within(tick, 1, 100),
                              type     |-> type,
                              duration |-> Within(duration, 1, 50)]

\* addSyscallRow, then the widgets of the row at index i are set.
AddRowAt(table, i, row) == [Append(table, NewRow) EXCEPT ![i + 1] = row]

\* Forgets the setRowCount(0).
Cleared_KeepsRows == rows

Cleared == <<>>

OnPresetSelected(index) ==
    /\ dialog = "open"
    /\ index # preset
    /\ preset' = index
    /\ \/ /\ index = 1
          /\ SetForm("Calculator", 5, 64, 0)
          /\ rows' = Cleared
       \/ /\ index = 2
          /\ SetForm("FileReader", 8, 128, 1)
          /\ rows' = AddRowAt(Cleared, 0, Row(3, "IoRead", 4))
       \/ /\ index = 3
          /\ SetForm("WebServer", 12, 256, 2)
          /\ rows' = AddRowAt(AddRowAt(Cleared, 0, Row(4, "IoRead", 3)),
                              1, Row(9, "IoWrite", 2))
       \/ /\ index = 0
          /\ SetForm("", 5, 64, 0)
          /\ rows' = Cleared
    /\ edited' = FALSE
    /\ UNCHANGED dialog

-----------------------------------------------------------------------------
(* Edits by hand; the preset stays what it was.                            *)

Edit == dialog = "open" /\ edited' = TRUE /\ UNCHANGED <<dialog, preset>>

EnterField(field, v) == /\ Edit
                        /\ form' = [form EXCEPT ![field] = v]
                        /\ UNCHANGED rows

EnterCell(i, column, v) == /\ Edit
                           /\ rows' = [rows EXCEPT ![i][column] = v]
                           /\ UNCHANGED form

AddSyscallRow == /\ Edit
                 /\ Len(rows) < MaxRows
                 /\ rows' = Append(rows, NewRow)
                 /\ UNCHANGED form

\* The current row, which may be any, or the last if there is none.
RemoveSyscallRow == /\ Edit
                    /\ \E i \in DOMAIN rows : rows' = RemoveAt(rows, i)
                    /\ UNCHANGED form

-----------------------------------------------------------------------------
(* The end of the dialog.  MainWindow reads the metadata of an accepted    *)
(* one; each Add Program opens a dialog of its own.                        *)

\* One row after the other is added to the profile.
CallsOf(table) ==
    FoldLeft(LAMBDA calls, row : AddSyscall(calls, row.tick,
                                            Syscall(row.type, row.duration)),
             NoSyscalls, table)

GetMetadata == [name |-> form.name, cpu |-> form.cpu, memory |-> form.memory,
                devices |-> form.devices, calls |-> CallsOf(rows)]

Close(how) == /\ dialog = "open"
              /\ dialog' = how
              /\ UNCHANGED <<preset, form, rows, edited>>

Reopen == dialog # "open" /\ Blank

User == \/ \E index \in 0..3 : OnPresetSelected(index)
        \/ \E name \in Names : EnterField("name", name)
        \/ \E cpu \in CpuTimes : EnterField("cpu", cpu)
        \/ \E i \in DOMAIN rows : \/ \E t \in Ticks : EnterCell(i, "tick", t)
                                  \/ \E t \in Types : EnterCell(i, "type", t)
                                  \/ \E d \in Durations : EnterCell(i, "duration", d)
        \/ AddSyscallRow
        \/ RemoveSyscallRow
        \/ \E how \in {"accepted", "rejected"} : Close(how)

DSpec == DInit /\ [][User \/ Reopen]_dvars

-----------------------------------------------------------------------------

\* A preset means the same program in the dialog as on the command line,
\* whatever preset was chosen and whatever was typed before it; and Custom, as
\* a choice, gives the form a new dialog starts with.
PresetIsDemoProgram ==
    ~edited => IF preset = 0
               THEN form = NewForm /\ rows = <<>>
               ELSE GetMetadata = DemoPrograms[preset]

\* A program calls at exactly the ticks its rows show, and where rows share a
\* tick it makes the call of the last one: no other row of that tick shows in it.
LastRowIsCalled ==
    LET calls == GetMetadata.calls IN
    /\ DOMAIN calls = {rows[i].tick : i \in DOMAIN rows}
    /\ \A i \in DOMAIN rows :
           (\A j \in DOMAIN rows : j > i => rows[j].tick # rows[i].tick)
               => calls[rows[i].tick] = Syscall(rows[i].type, rows[i].duration)

=============================================================================
