------------------------------ MODULE RobotLog ------------------------------
(***************************************************************************)
(* The log of a run: HDF5Logger, which collects it in lists and writes the *)
(* lists to a file, and print_timing_diagnostics.py, which reads the file. *)
(*                                                                         *)
(* log_state, in the generator, appends to one list after another; save,   *)
(* in the main thread, writes one list after another, in another order.    *)
(* Main stops the command stream first, but when the robot has broken off  *)
(* the call the generator is left behind (see SpotDemo) and may append     *)
(* while main saves: the row it is at, or one more.                        *)
(*                                                                         *)
(* A list is represented by its length, since its i-th entry is always     *)
(* that of the i-th row.  The i-th row has key i, its state was acquired   *)
(* i periods after the start and acknowledges the command before.  What    *)
(* was never written to a column of bytes is read as an empty message,     *)
(* whose time and keys are 0.                                              *)
(***************************************************************************)
EXTENDS Integers, Sequences

CONSTANTS
    Columns,    \* the lists: all those of SaveOrder, or some that stand for the others
    MaxRows,    \* bound: rows that are logged
    Period,     \* time between the states of two rows
    Margins     \* values of margin_seconds, 1.0 in the script

ASSUME MaxRowsAssumption == MaxRows \in Nat
ASSUME PeriodAssumption == Period \in Nat \ {0}
ASSUME MarginsAssumption == Margins \subseteq Nat \ {0}

\* The order of the dictionary, in which save writes.
SaveOrder == SelectSeq(<<
    "raw_base_linear_velocity", "raw_base_angular_velocity",
    "raw_projected_gravity", "raw_joint_positions", "raw_joint_velocities",
    "raw_joint_loads", "commanded_action",
    "spot_current_positions", "spot_current_velocities",
    "preprocessed_base_linear_velocity", "preprocessed_base_angular_velocity",
    "preprocessed_projected_gravity", "preprocessed_velocity_cmd",
    "preprocessed_joint_positions", "preprocessed_joint_velocities",
    "preprocessed_last_action", "response_timestamp",
    "dt_divider_wait", "dt_divider_to_onnx", "dt_onnx_compute",
    "dt_post_process", "dt_total_step", "dt_state_arrival_to_compute",
    "raw_state_proto_bytes", "proto_bytes">>, LAMBDA c : c \in Columns)

\* The order in which log_state appends.
AppendOrder == SelectSeq(<<
    "raw_base_linear_velocity", "raw_base_angular_velocity",
    "raw_projected_gravity", "raw_joint_positions", "raw_joint_velocities",
    "raw_joint_loads", "spot_current_positions", "spot_current_velocities",
    "preprocessed_base_linear_velocity", "preprocessed_base_angular_velocity",
    "preprocessed_projected_gravity", "preprocessed_velocity_cmd",
    "preprocessed_joint_positions", "preprocessed_joint_velocities",
    "preprocessed_last_action", "commanded_action",
    "dt_divider_wait", "dt_divider_to_onnx", "dt_onnx_compute",
    "dt_post_process", "dt_total_step", "dt_state_arrival_to_compute",
    "response_timestamp", "raw_state_proto_bytes", "proto_bytes">>,
    LAMBDA c : c \in Columns)

States == "raw_state_proto_bytes"

Commands == "proto_bytes"

\* Both orders are of all the columns, each once, and the commands are the last
\* that is appended.
ASSUME ColumnsAssumption ==
    /\ {States, Commands} \subseteq Columns
    /\ \A order \in {SaveOrder, AppendOrder} :
        /\ order \in Seq(Columns)
        /\ \A c \in Columns : \E i \in DOMAIN order : order[i] = c
        /\ \A i, j \in DOMAIN order : order[i] = order[j] => i = j
    /\ AppendOrder[Len(AppendOrder)] = Commands

STANDARD_DT_KEYS == {"dt_total_step", "dt_divider_wait", "dt_divider_to_onnx",
                     "dt_state_arrival_to_compute", "dt_onnx_compute",
                     "dt_post_process"}

VARIABLES
    gen,        \* the generator: "idle", "appending" or "over"
    col,        \* the column it appends to next
    data,       \* HDF5Logger.data: the length of each list
    mainPc,     \* the main thread, and after it the script
    next,       \* the column save writes next
    arrays,     \* byte_arrays: how many it has converted
    file,       \* the datasets of the file: their lengths
    blanks,     \* of a dataset of bytes, the entries at the end not written
    leftBehind, \* the call was broken off
    report      \* what the diagnostics have found

genVars == <<gen, col, data>>
mainVars == <<mainPc, next, arrays, file, blanks, leftBehind, report>>
vars == <<genVars, mainVars>>

NoReport == [outcome |-> "none", all |-> FALSE, increasing |-> TRUE, acks |-> TRUE]

Init ==
    /\ gen = "idle"
    /\ col = 1
    /\ data = [c \in Columns |-> 0]
    /\ mainPc = "running"
    /\ next = 1
    /\ arrays = 0
    /\ file = [c \in {} |-> 0]
    /\ blanks = [c \in {States, Commands} |-> 0]
    /\ leftBehind = FALSE
    /\ report = NoReport

-----------------------------------------------------------------------------
(* log_state.                                                              *)

\* Bytes of the last row: log_state is called with all of a row's values.
BeginRow ==
    /\ gen = "idle"
    /\ data[Commands] < MaxRows
    /\ gen' = "appending"
    /\ UNCHANGED <<col, data, mainVars>>

\* What comes after a row: the generator that was left behind is dropped.
AfterRow == IF leftBehind THEN "over" ELSE "idle"

AppendColumn ==
    /\ gen = "appending"
    /\ data' = [data EXCEPT ![AppendOrder[col]] = @ + 1]
    /\ IF col < Len(AppendOrder)
       THEN col' = col + 1 /\ UNCHANGED gen
       ELSE col' = 1 /\ gen' = AfterRow
    /\ UNCHANGED mainVars

\* The generator that was left behind gives up waiting for states, or raises.
GiveUp ==
    /\ leftBehind
    /\ gen = "idle"
    /\ gen' = "over"
    /\ UNCHANGED <<col, data, mainVars>>

-----------------------------------------------------------------------------
(* The main thread, and save.                                              *)

\* A bug to look for: the command stream is not stopped before the log is saved.
StopEarly ==
    /\ mainPc = "running"
    /\ mainPc' = "saving"
    /\ UNCHANGED <<genVars, next, arrays, file, blanks, leftBehind, report>>

\* The stream is stopped: the generator has come to its end between two rows.
StopStream ==
    /\ mainPc = "running"
    /\ gen = "idle"
    /\ gen' = "over"
    /\ mainPc' = "saving"
    /\ UNCHANGED <<col, data, next, arrays, file, blanks, leftBehind, report>>

\* The call was broken off, wherever the generator is.
StreamBreaks ==
    /\ mainPc = "running"
    /\ mainPc' = "saving"
    /\ leftBehind' = TRUE
    /\ UNCHANGED <<genVars, next, arrays, file, blanks, report>>

Write(c, n) == file' = [x \in DOMAIN file \cup {c} |-> IF x = c THEN n ELSE file[x]]

Saving == mainPc = "saving" /\ next <= Len(SaveOrder)

\* if len(val) > 0
SkipColumn ==
    /\ Saving
    /\ data[SaveOrder[next]] = 0
    /\ next' = next + 1
    /\ UNCHANGED <<genVars, mainPc, arrays, file, blanks, leftBehind, report>>

SaveColumn ==
    /\ Saving
    /\ SaveOrder[next] \notin {States, Commands}
    /\ data[SaveOrder[next]] > 0
    /\ Write(SaveOrder[next], data[SaveOrder[next]])
    /\ next' = next + 1
    /\ UNCHANGED <<genVars, mainPc, arrays, blanks, leftBehind, report>>

\* The bytes are converted first ...
ConvertBytes ==
    /\ Saving
    /\ SaveOrder[next] \in {States, Commands}
    /\ data[SaveOrder[next]] > 0
    /\ arrays' = data[SaveOrder[next]]
    /\ mainPc' = "bytes"
    /\ UNCHANGED <<genVars, next, file, blanks, leftBehind, report>>

\* ... then a dataset is made for the list as it is now, and the converted
\* entries are written to it.
SaveBytes ==
    LET c == SaveOrder[next]
    IN  /\ mainPc = "bytes"
        /\ Write(c, data[c])
        /\ blanks' = [blanks EXCEPT ![c] = data[c] - arrays]
        /\ next' = next + 1
        /\ mainPc' = "saving"
        /\ UNCHANGED <<genVars, arrays, leftBehind, report>>

Saved ==
    /\ mainPc = "saving"
    /\ next > Len(SaveOrder)
    /\ mainPc' = "saved"
    /\ UNCHANGED <<genVars, next, arrays, file, blanks, leftBehind, report>>

\* Writing fails: the file has what was written so far.
SaveFails ==
    /\ \/ Saving /\ UNCHANGED <<file, blanks>>
       \/ LET c == SaveOrder[next]
          IN  /\ mainPc = "bytes"
              /\ Write(c, data[c])
              /\ \E n \in 0..arrays : blanks' = [blanks EXCEPT ![c] = data[c] - n]
    /\ mainPc' = "saved"
    /\ UNCHANGED <<genVars, next, arrays, leftBehind, report>>

-----------------------------------------------------------------------------
(* print_timing_diagnostics, of a file.                                    *)

\* Whether the i-th entry of a dataset of bytes was written.
Written(c, i) == i <= file[c] - blanks[c]

\* _parse_state_protos
AcquisitionTime(i) == IF Written(States, i) THEN i * Period ELSE 0

StateKey(i) == IF Written(States, i) THEN i - 1 ELSE 0

\* _parse_command_protos
CommandKey(i) == IF Written(Commands, i) THEN i ELSE 0

\* _compute_valid_indices: all of them, if the log is too short to skip any.
TooShort(m) == AcquisitionTime(1) + m >= AcquisitionTime(file[States]) - m

ValidIndices(m) ==
    IF TooShort(m) THEN 1..file[States]
    ELSE {i \in 1..file[States] : AcquisitionTime(i) \in
             AcquisitionTime(1) + m .. AcquisitionTime(file[States]) - m}

\* Indexing a dataset beyond its end raises.
Indexable(c, I) == \A i \in I : i <= file[c]

\* Row j comes after row i among the valid rows I.
Follows(I, i, j) == i < j /\ ~ \E k \in I : i < k /\ k < j

\* _check_monotonicity
Increasing(I) ==
    \A i, j \in I : Follows(I, i, j) => CommandKey(j) - CommandKey(i) = 1

\* A bug to look for: a state is expected to acknowledge its own row's command.
AcknowledgedOwn(I) ==
    \A i, j \in I : Follows(I, i, j) => StateKey(j) = CommandKey(j)

\* _check_state_command_cross_reference
Acknowledged(I) ==
    \A i, j \in I : Follows(I, i, j) => StateKey(j) = CommandKey(i)

Report(m) ==
    LET I == ValidIndices(m)
    IN  [outcome |->
            IF States \notin DOMAIN file THEN "no states"
            ELSE IF I = {} THEN "nothing valid"
            ELSE IF \E c \in STANDARD_DT_KEYS \cap DOMAIN file : ~Indexable(c, I)
            THEN "raised"
            ELSE IF Commands \notin DOMAIN file THEN "no commands"
            ELSE IF ~Indexable(Commands, I) THEN "raised"
            ELSE "checked",
         all |-> States \in DOMAIN file /\ TooShort(m),
         increasing |-> {States, Commands} \subseteq DOMAIN file => Increasing(I),
         acks |-> {States, Commands} \subseteq DOMAIN file => Acknowledged(I)]

\* The script is run on the file.
Diagnose ==
    /\ mainPc = "saved"
    /\ mainPc' = "diagnosed"
    /\ \E m \in Margins : report' = Report(m)
    /\ UNCHANGED <<genVars, next, arrays, file, blanks, leftBehind>>

Generator == BeginRow \/ AppendColumn \/ GiveUp

SaveStep == SkipColumn \/ SaveColumn \/ ConvertBytes \/ SaveBytes \/ Saved

Next == Generator \/ StopStream \/ StreamBreaks \/ SaveStep \/ SaveFails \/ Diagnose

Spec == Init /\ [][Next]_vars

-----------------------------------------------------------------------------

\* The lists and the datasets have lengths, and nobody is beyond the last column.
TypeOK ==
    /\ gen \in {"idle", "appending", "over"}
    /\ col \in 1..Len(AppendOrder)
    /\ data \in [Columns -> 0..MaxRows]
    /\ mainPc \in {"running", "saving", "bytes", "saved", "diagnosed"}
    /\ next \in 1..Len(SaveOrder) + 1
    /\ arrays \in 0..MaxRows
    /\ DOMAIN file \subseteq Columns
    /\ \A c \in DOMAIN file : file[c] \in 1..MaxRows
    /\ blanks \in [{States, Commands} -> 0..MaxRows]
    /\ leftBehind \in BOOLEAN
    /\ report.outcome \in {"none", "no states", "nothing valid", "raised",
                           "no commands", "checked"}

\* A log that was saved after its stream was stopped is whole: every column has
\* every row that was logged, with no entry left out.
WholeLog ==
    mainPc \in {"saved", "diagnosed"} /\ ~leftBehind /\ next > Len(SaveOrder) =>
        /\ \A c \in DOMAIN file : file[c] = data[c] /\ file[c] = data[Commands]
        /\ data[Commands] > 0 => DOMAIN file = Columns
        /\ \A c \in DOMAIN blanks : blanks[c] = 0

\* A log that was saved while a generator that was left behind appended to it
\* lacks at most the last row in some of its columns; the rows before that are
\* whole, and of the bytes at most the last entry is empty.
LastRowTorn ==
    mainPc \in {"saved", "diagnosed"} /\ next > Len(SaveOrder) =>
        /\ \A b, c \in DOMAIN file : file[b] - file[c] \in -1..1
        /\ DOMAIN file # Columns => \A c \in DOMAIN file : file[c] = 1
        /\ \A c \in DOMAIN blanks : blanks[c] \in 0..1

\* The diagnostics get through a file whatever it lacks, a save that failed
\* included, but for one case: a log too short to skip its last row, the row
\* that was torn.  Those that skip a second at the end never come to it.
ReadsThrough ==
    report.outcome = "raised" => leftBehind /\ report.all

\* The diagnostics raise no false alarm over a healthy log, one whose every row
\* acknowledges the row before: they find fault with its keys only if entries of
\* the bytes were never written.
NoFalseAlarm ==
    report.outcome = "checked" /\ ~(report.increasing /\ report.acks) =>
        blanks[States] > 0 \/ blanks[Commands] > 0

=============================================================================
