-------------------------- MODULE ConfigAndLog_proof ------------------------
(***************************************************************************)
(* What a run is configured with and what it leaves behind, for every      *)
(* configuration, every order of the joints, and every length of the log:  *)
(* the last matching group gives a joint its gains, no command goes out    *)
(* while the configuration has a hole, each position is for the joint at   *)
(* its place; a saved log is whole or torn in its last row, whenever the   *)
(* generator that was left behind appends, and the diagnostics get through *)
(* it and raise no false alarm.                                            *)
(***************************************************************************)
EXTENDS ConfigAndLog, TLAPS

\* Each part behaves as its module says: the steps of the other leave it alone.
THEOREM FilesApart == FilesSpec => Spec /\ Joint!Spec
<1>1. FilesInit => Init /\ Joint!Init
  BY DEF FilesInit
<1>2. [FilesNext]_filesVars => [Next]_vars /\ [Joint!Next]_(Joint!vars)
  BY DEF FilesNext, LogStep, CommandStep, filesVars, commandVars, Joint!vars, Joint!config
<1>3. QED
  BY <1>1, <1>2, PTL DEF FilesSpec, Spec, Joint!Spec

-----------------------------------------------------------------------------
(* The log: its invariant.                                                 *)

\* The rows that are complete: the commands are appended last.
Rows == data[Commands]

\* The lists have the same length up to the column that is appended to next, and
\* from there on lack the row that is being appended.
GenInv ==
    /\ gen # "appending" => col = 1
    /\ gen = "appending" => Rows < MaxRows
    /\ \A i \in DOMAIN AppendOrder :
          data[AppendOrder[i]] = IF i < col THEN Rows + 1 ELSE Rows

(***************************************************************************)
(* n is a length of the list c that the main thread can have seen since it *)
(* began to save.  It is the key of the proof: a generator that was left   *)
(* behind while idle has changed nothing yet; while it appends, what was   *)
(* seen lacks at most its row; and once it is over it has completed at     *)
(* most one row since.                                                     *)
(***************************************************************************)
Seen(n, c) ==
    /\ gen = "idle" => n = Rows
    /\ gen = "appending" => n \in {Rows, data[c]}
    /\ gen = "over" => n \in {Rows - 1, Rows} /\ (leftBehind \/ n = Rows)

\* While main saves, the generator has stopped or was left behind; converted
\* bytes are a length that was seen.
MainInv ==
    /\ mainPc = "running" => next = 1 /\ DOMAIN file = {} /\ ~leftBehind
    /\ mainPc # "running" => leftBehind \/ gen = "over"
    /\ mainPc = "bytes" =>
          /\ next <= Len(SaveOrder)
          /\ SaveOrder[next] \in {States, Commands}
          /\ arrays > 0 /\ Seen(arrays, SaveOrder[next])

\* Each dataset has a length that was seen, a list that was skipped was seen
\* empty, and a save that didn't fail leaves at most one entry blank.
FileInv ==
    /\ \A c \in DOMAIN file : Seen(file[c], c)
    /\ \A i \in DOMAIN SaveOrder :
          i < next => SaveOrder[i] \in DOMAIN file \/ Seen(0, SaveOrder[i])
    /\ mainPc \notin {"saved", "diagnosed"} \/ next > Len(SaveOrder) =>
          \A c \in DOMAIN blanks : blanks[c] = 0 \/ (leftBehind /\ blanks[c] = 1)

\* Nothing is reported before the diagnostics are run.
ReportInv ==
    /\ mainPc # "diagnosed" => report = NoReport
    /\ ReadsThrough /\ NoFalseAlarm

\* The inductive invariant of the log.
LogInv == TypeOK /\ GenInv /\ MainInv /\ FileInv /\ ReportInv

-----------------------------------------------------------------------------
(* The log: constants, and the generator.                                  *)

\* Both orders are of all columns, each once, and end with the commands.
LEMMA Orders ==
    /\ Len(AppendOrder) \in Nat /\ Len(AppendOrder) >= 1
    /\ DOMAIN AppendOrder = 1..Len(AppendOrder)
    /\ \A i \in 1..Len(AppendOrder) : AppendOrder[i] \in Columns
    /\ \A c \in Columns : \E i \in 1..Len(AppendOrder) : AppendOrder[i] = c
    /\ \A i, j \in 1..Len(AppendOrder) : AppendOrder[i] = AppendOrder[j] => i = j
    /\ AppendOrder[Len(AppendOrder)] = Commands
    /\ Len(SaveOrder) \in Nat /\ Len(SaveOrder) >= 1
    /\ DOMAIN SaveOrder = 1..Len(SaveOrder)
    /\ \A i \in 1..Len(SaveOrder) : SaveOrder[i] \in Columns
    /\ \A c \in Columns : \E i \in 1..Len(SaveOrder) : SaveOrder[i] = c
    /\ \A i, j \in 1..Len(SaveOrder) : SaveOrder[i] = SaveOrder[j] => i = j
    /\ {States, Commands} \subseteq Columns
<1> DEFINE A == AppendOrder
<1> DEFINE S == SaveOrder
<1>1. A \in Seq(Columns) /\ S \in Seq(Columns)
  BY ColumnsAssumption
<1>2. /\ \A c \in Columns : \E i \in DOMAIN A : A[i] = c
      /\ \A i, j \in DOMAIN A : A[i] = A[j] => i = j
      /\ \A c \in Columns : \E i \in DOMAIN S : S[i] = c
      /\ \A i, j \in DOMAIN S : S[i] = S[j] => i = j
  BY ColumnsAssumption
<1>3. A[Len(A)] = Commands /\ {States, Commands} \subseteq Columns
  BY ColumnsAssumption
<1> HIDE DEF A, S
<1>4. /\ Len(A) \in Nat /\ DOMAIN A = 1..Len(A) /\ \A i \in 1..Len(A) : A[i] \in Columns
      /\ Len(S) \in Nat /\ DOMAIN S = 1..Len(S) /\ \A i \in 1..Len(S) : S[i] \in Columns
  BY <1>1
<1>5. Len(A) >= 1 /\ Len(S) >= 1
  BY <1>2, <1>3, <1>4
<1>6. QED
  BY <1>2, <1>3, <1>4, <1>5 DEF A, S

\* TypeOK, value by value.
LEMMA Typed ==
    ASSUME TypeOK
    PROVE  /\ gen \in {"idle", "appending", "over"}
           /\ col \in 1..Len(AppendOrder)
           /\ DOMAIN data = Columns /\ data = [c \in Columns |-> data[c]]
           /\ \A c \in Columns : data[c] \in Nat /\ data[c] <= MaxRows
           /\ next \in 1..Len(SaveOrder) + 1
           /\ arrays \in Nat /\ arrays <= MaxRows
           /\ DOMAIN file \subseteq Columns
           /\ \A c \in DOMAIN file : file[c] \in 1..MaxRows
           /\ DOMAIN blanks = {States, Commands}
           /\ blanks = [c \in {States, Commands} |-> blanks[c]]
           /\ \A c \in {States, Commands} : blanks[c] \in Nat /\ blanks[c] <= MaxRows
<1>1. data \in [Columns -> 0..MaxRows] /\ blanks \in [{States, Commands} -> 0..MaxRows]
  BY DEF TypeOK
<1>2. \A c \in Columns : data[c] \in Nat /\ data[c] <= MaxRows
  BY <1>1, MaxRowsAssumption
<1>3. \A c \in {States, Commands} : blanks[c] \in Nat /\ blanks[c] <= MaxRows
  BY <1>1, MaxRowsAssumption
<1>4. DOMAIN data = Columns /\ data = [c \in Columns |-> data[c]]
  BY <1>1
<1>5. DOMAIN blanks = {States, Commands} /\ blanks = [c \in {States, Commands} |-> blanks[c]]
  BY <1>1
<1>6. arrays \in Nat /\ arrays <= MaxRows
  <2>1. arrays \in 0..MaxRows
    BY DEF TypeOK
  <2>2. QED
    BY <2>1, MaxRowsAssumption
<1>7. QED
  BY <1>2, <1>3, <1>4, <1>5, <1>6 DEF TypeOK

\* Nothing has been logged or saved.
LEMMA LogInit == Init => LogInv
<1> SUFFICES ASSUME Init PROVE LogInv
  OBVIOUS
<1> USE DEF Init
<1>1. TypeOK
  <2>1. data \in [Columns -> 0..MaxRows] /\ blanks \in [{States, Commands} -> 0..MaxRows]
    BY MaxRowsAssumption
  <2>2. 1 \in 1..Len(AppendOrder) /\ 1 \in 1..Len(SaveOrder) + 1 /\ 0 \in 0..MaxRows
    BY Orders, MaxRowsAssumption
  <2>3. QED
    BY <2>1, <2>2 DEF TypeOK, NoReport
<1>2. GenInv
  BY Orders DEF GenInv, Rows
<1>3. MainInv
  BY DEF MainInv
<1>4. FileInv
  <2>1. DOMAIN file = {} /\ next = 1 /\ \A c \in DOMAIN blanks : blanks[c] = 0
    OBVIOUS
  <2>2. \A i \in DOMAIN SaveOrder : ~(i < next)
    BY <2>1, Orders
  <2>3. QED
    BY <2>1, <2>2 DEF FileInv
<1>5. ReportInv
  BY DEF ReportInv, ReadsThrough, NoFalseAlarm, NoReport
<1>6. QED
  BY <1>1, <1>2, <1>3, <1>4, <1>5 DEF LogInv

\* A row begins: all that was seen is the length of complete rows.
LEMMA BeginRowKeeps == LogInv /\ BeginRow => LogInv'
<1> SUFFICES ASSUME LogInv, BeginRow PROVE LogInv'
  OBVIOUS
<1> USE DEF LogInv, BeginRow, mainVars
<1>1. TypeOK'
  BY DEF TypeOK
<1>2. GenInv'
  BY DEF GenInv, Rows
<1>3. MainInv'
  BY DEF MainInv, Seen, Rows
<1>4. FileInv'
  BY DEF FileInv, Seen, Rows, MainInv
<1>5. ReportInv'
  BY DEF ReportInv, ReadsThrough, NoFalseAlarm
<1>6. QED
  BY <1>1, <1>2, <1>3, <1>4, <1>5

\* What AppendColumn makes of the lists.
LEMMA Appended ==
    ASSUME TypeOK, GenInv, AppendColumn
    PROVE  /\ DOMAIN data' = Columns /\ data' = [c \in Columns |-> data'[c]]
           /\ \A i \in 1..Len(AppendOrder) :
                 data'[AppendOrder[i]] = IF i <= col THEN Rows + 1 ELSE Rows
           /\ Rows \in Nat /\ Rows < MaxRows
           /\ Rows' = IF Len(AppendOrder) <= col THEN Rows + 1 ELSE Rows
<1>1. /\ DOMAIN data' = Columns /\ data' = [c \in Columns |-> data'[c]]
      /\ \A b \in Columns :
            data'[b] = IF b = AppendOrder[col] THEN data[b] + 1 ELSE data[b]
  BY Typed DEF AppendColumn
<1>2. \A i \in 1..Len(AppendOrder) : data[AppendOrder[i]] = IF i < col THEN Rows + 1 ELSE Rows
  BY Orders DEF GenInv
<1>3. Rows \in Nat /\ Rows < MaxRows
  BY Typed, Orders DEF Rows, GenInv, AppendColumn
<1>4. col \in 1..Len(AppendOrder)
  BY Typed
<1>5. \A i \in 1..Len(AppendOrder) :
          data'[AppendOrder[i]] = IF i <= col THEN Rows + 1 ELSE Rows
  <2> TAKE i \in 1..Len(AppendOrder)
  <2>1. AppendOrder[i] \in Columns /\ (AppendOrder[i] = AppendOrder[col] <=> i = col)
    BY <1>4, Orders
  <2>2. QED
    BY <2>1, <1>1, <1>2, <1>3, <1>4, Orders
<1>6. Rows' = data'[AppendOrder[Len(AppendOrder)]]
  BY Orders DEF Rows
<1>7. Rows' = IF Len(AppendOrder) <= col THEN Rows + 1 ELSE Rows
  BY <1>4, <1>5, <1>6, Orders
<1>8. QED
  BY <1>1, <1>3, <1>5, <1>7

\* Appending, what the main thread has seen stays what it can have seen.
LEMMA AppendKeepsSeen ==
    ASSUME TypeOK, GenInv, MainInv, AppendColumn, mainPc # "running",
           NEW c \in Columns, NEW n \in Int, Seen(n, c)
    PROVE  Seen(n, c)'
<1>1. PICK i \in 1..Len(AppendOrder) : AppendOrder[i] = c
  BY Orders
<1>2. /\ data[c] = IF i < col THEN Rows + 1 ELSE Rows
      /\ data'[c] = IF i <= col THEN Rows + 1 ELSE Rows
  BY <1>1, Appended, Orders DEF GenInv
<1>3. n \in {Rows, data[c]} /\ leftBehind /\ leftBehind' = leftBehind
  BY DEF Seen, AppendColumn, MainInv, mainVars
<1>4. Rows \in Nat /\ col \in 1..Len(AppendOrder) /\ Len(AppendOrder) \in Nat
  BY Appended, Typed, Orders
<1>5. CASE col < Len(AppendOrder)
  <2>1. gen' = "appending" /\ Rows' = Rows
    BY <1>4, <1>5, Appended DEF AppendColumn
  <2>2. n \in {Rows, data'[c]}
    BY <1>2, <1>3, <1>4
  <2>3. QED
    BY <2>1, <2>2 DEF Seen
<1>6. CASE ~(col < Len(AppendOrder))
  <2>1. gen' = "over" /\ Rows' = Rows + 1
    BY <1>3, <1>4, <1>6, Appended DEF AppendColumn, AfterRow
  <2>2. n \in {Rows, Rows + 1}
    BY <1>2, <1>3
  <2>3. QED
    BY <2>1, <2>2, <1>3, <1>4 DEF Seen
<1>7. QED
  BY <1>5, <1>6

\* A list grows by one entry.
LEMMA AppendColumnKeeps == LogInv /\ AppendColumn => LogInv'
<1> SUFFICES ASSUME TypeOK, GenInv, MainInv, FileInv, ReportInv, AppendColumn
             PROVE  LogInv'
  BY DEF LogInv
<1>1. /\ mainVars' = mainVars /\ mainPc' = mainPc /\ next' = next /\ arrays' = arrays
      /\ file' = file /\ blanks' = blanks /\ leftBehind' = leftBehind /\ report' = report
  BY DEF AppendColumn, mainVars
<1>2. col \in 1..Len(AppendOrder) /\ Len(AppendOrder) \in Nat
  BY Typed, Orders
<1>3. /\ gen' \in {"idle", "appending", "over"} /\ col' \in 1..Len(AppendOrder)
      /\ gen' # "appending" => col' = 1
      /\ gen' = "appending" <=> col < Len(AppendOrder)
      /\ col' = IF col < Len(AppendOrder) THEN col + 1 ELSE 1
  BY <1>2 DEF AppendColumn, AfterRow
<1>4. TypeOK'
  <2>1. \A b \in Columns : data'[b] \in 0..MaxRows
    BY Appended, Orders, MaxRowsAssumption
  <2>2. data' \in [Columns -> 0..MaxRows]
    BY <2>1, Appended
  <2>3. QED
    BY <1>1, <1>3, <2>2 DEF TypeOK
<1>5. GenInv'
  <2>1. \A i \in 1..Len(AppendOrder) :
            data'[AppendOrder[i]] = IF i < col' THEN Rows' + 1 ELSE Rows'
    BY <1>2, <1>3, Appended
  <2>2. gen' = "appending" => Rows' < MaxRows
    BY <1>2, <1>3, Appended
  <2>3. QED
    BY <2>1, <2>2, <1>3, Orders DEF GenInv
<1>6. MainInv'
  <2>1. mainPc = "bytes" => Seen(arrays, SaveOrder[next])'
    <3> SUFFICES ASSUME mainPc = "bytes" PROVE Seen(arrays, SaveOrder[next])'
      OBVIOUS
    <3> DEFINE c == SaveOrder[next]
    <3>1. c \in Columns /\ arrays \in Int /\ Seen(arrays, c)
      BY Orders, Typed DEF MainInv
    <3>2. \A b \in Columns, n \in Int : Seen(n, b) => Seen(n, b)'
      BY AppendKeepsSeen
    <3>3. Seen(arrays, c)'
      BY <3>1, <3>2, <1>1 DEF Seen
    <3>4. QED
      BY <3>3, <1>1
  <2>2. mainPc # "running" => leftBehind' \/ gen' = "over"
    BY <1>1 DEF MainInv, AppendColumn
  <2>3. QED
    BY <2>1, <2>2, <1>1 DEF MainInv
<1>7. FileInv'
  <2>1. \A b \in Columns, n \in Int : mainPc # "running" /\ Seen(n, b) => Seen(n, b)'
    BY AppendKeepsSeen
  <2>2. mainPc # "running" => \A c \in DOMAIN file : Seen(file[c], c)'
    BY <2>1, <1>1, Typed DEF FileInv, Seen
  <2>3. \A i \in 1..Len(SaveOrder) :
            mainPc # "running" /\ Seen(0, SaveOrder[i]) => Seen(0, SaveOrder[i])'
    BY <2>1, Orders
  <2>4. QED
    BY <2>2, <2>3, <1>1, Orders DEF FileInv, MainInv
<1>8. ReportInv'
  BY <1>1 DEF ReportInv, ReadsThrough, NoFalseAlarm
<1>9. QED
  BY <1>4, <1>5, <1>6, <1>7, <1>8 DEF LogInv

-----------------------------------------------------------------------------
(* The log: the main thread.                                               *)

\* The generator ends between two rows.
LEMMA GiveUpKeeps == LogInv /\ GiveUp => LogInv'
<1> SUFFICES ASSUME LogInv, GiveUp PROVE LogInv'
  OBVIOUS
<1> USE DEF LogInv, GiveUp, mainVars
<1>1. TypeOK'
  BY DEF TypeOK
<1>2. GenInv'
  BY DEF GenInv, Rows
<1>3. MainInv'
  BY DEF MainInv, Seen, Rows
<1>4. FileInv'
  BY DEF FileInv, Seen, Rows
<1>5. ReportInv'
  BY DEF ReportInv, ReadsThrough, NoFalseAlarm
<1>6. QED
  BY <1>1, <1>2, <1>3, <1>4, <1>5

\* The generator is stopped between two rows; nothing has been seen yet.
LEMMA StopStreamKeeps == LogInv /\ StopStream => LogInv'
<1> SUFFICES ASSUME LogInv, StopStream PROVE LogInv'
  OBVIOUS
<1> USE DEF LogInv, StopStream
<1>1. TypeOK'
  BY DEF TypeOK
<1>2. GenInv'
  BY DEF GenInv, Rows
<1>3. MainInv'
  BY DEF MainInv
<1>4. FileInv'
  <2>1. DOMAIN file = {} /\ \A i \in DOMAIN SaveOrder : ~(i < next)
    BY Orders DEF MainInv
  <2>2. QED
    BY <2>1 DEF FileInv
<1>5. ReportInv'
  BY DEF ReportInv, ReadsThrough, NoFalseAlarm
<1>6. QED
  BY <1>1, <1>2, <1>3, <1>4, <1>5

\* The generator is left behind wherever it is; nothing has been seen yet.
LEMMA StreamBreaksKeeps == LogInv /\ StreamBreaks => LogInv'
<1> SUFFICES ASSUME LogInv, StreamBreaks PROVE LogInv'
  OBVIOUS
<1> USE DEF LogInv, StreamBreaks, genVars
<1>1. TypeOK'
  BY DEF TypeOK
<1>2. GenInv'
  BY DEF GenInv, Rows
<1>3. MainInv'
  BY DEF MainInv
<1>4. FileInv'
  <2>1. DOMAIN file = {} /\ \A i \in DOMAIN SaveOrder : ~(i < next)
    BY Orders DEF MainInv
  <2>2. QED
    BY <2>1 DEF FileInv
<1>5. ReportInv'
  BY DEF ReportInv, ReadsThrough, NoFalseAlarm, NoReport
<1>6. QED
  BY <1>1, <1>2, <1>3, <1>4, <1>5

\* What the length of a list can be.
LEMMA Lengths ==
    ASSUME TypeOK, GenInv, NEW c \in Columns
    PROVE  /\ data[c] \in Nat /\ data[c] <= MaxRows /\ Rows \in Nat
           /\ data[c] \in {Rows, Rows + 1}
           /\ gen # "appending" => data[c] = Rows
<1>1. PICK i \in 1..Len(AppendOrder) : AppendOrder[i] = c
  BY Orders
<1>2. data[c] = IF i < col THEN Rows + 1 ELSE Rows
  BY <1>1, Orders DEF GenInv
<1>3. data[c] \in Nat /\ data[c] <= MaxRows /\ Rows \in Nat
  BY Typed, Orders DEF Rows
<1>4. gen # "appending" => ~(i < col)
  BY Orders DEF GenInv
<1>5. QED
  BY <1>2, <1>3, <1>4

\* What the main thread sees when it reads a list while it saves.
LEMMA SeesNow ==
    ASSUME TypeOK, GenInv, NEW c \in Columns
    PROVE  Seen(data[c], c)
BY Lengths DEF Seen, TypeOK

\* A list it saw before is at most one row longer now.
LEMMA OneMore ==
    ASSUME TypeOK, GenInv, MainInv, mainPc # "running", NEW c \in Columns,
           NEW n \in Nat, Seen(n, c)
    PROVE  data[c] - n \in 0..1 /\ (~leftBehind => data[c] = n)
<1>1. gen \in {"idle", "appending", "over"} /\ (leftBehind \/ gen = "over")
  BY DEF TypeOK, MainInv
<1>2. /\ data[c] \in Nat /\ Rows \in Nat /\ data[c] \in {Rows, Rows + 1}
      /\ gen # "appending" => data[c] = Rows
  BY Lengths
<1>3. CASE gen = "idle"
  BY <1>1, <1>2, <1>3 DEF Seen
<1>4. CASE gen = "appending"
  BY <1>1, <1>2, <1>4 DEF Seen
<1>5. CASE gen = "over"
  BY <1>2, <1>5 DEF Seen
<1>6. QED
  BY <1>1, <1>3, <1>4, <1>5

\* What the main thread has seen depends on the generator alone.
LEMMA SeenStays ==
    ASSUME UNCHANGED genVars, leftBehind' = leftBehind
    PROVE  /\ GenInv => GenInv'
           /\ \A c, n : Seen(n, c) => Seen(n, c)'
BY DEF genVars, GenInv, Seen, Rows

\* A list was seen empty.
LEMMA SkipColumnKeeps == LogInv /\ SkipColumn => LogInv'
<1> SUFFICES ASSUME TypeOK, GenInv, MainInv, FileInv, ReportInv, SkipColumn PROVE LogInv'
  BY DEF LogInv
<1>1. /\ UNCHANGED <<genVars, mainPc, arrays, file, blanks, leftBehind, report>>
      /\ next' = next + 1 /\ next <= Len(SaveOrder) /\ mainPc = "saving"
      /\ next \in 1..Len(SaveOrder) /\ SaveOrder[next] \in Columns
  BY Typed, Orders DEF SkipColumn, Saving
<1>2. GenInv' /\ \A c, n : Seen(n, c) => Seen(n, c)'
  BY <1>1, SeenStays
<1>3. TypeOK'
  <2>1. next' \in 1..Len(SaveOrder) + 1
    BY <1>1, Orders
  <2>2. QED
    BY <1>1, <2>1 DEF TypeOK, genVars
<1>4. MainInv'
  BY <1>1 DEF MainInv, genVars
<1>5. FileInv'
  <2>1. Seen(0, SaveOrder[next])
    BY <1>1, SeesNow DEF SkipColumn
  <2>2. \A i \in 1..Len(SaveOrder) : i < next' =>
            SaveOrder[i] \in DOMAIN file \/ Seen(0, SaveOrder[i])
    BY <1>1, <2>1, Orders DEF FileInv
  <2>3. QED
    BY <1>1, <1>2, <2>2, Orders DEF FileInv
<1>6. ReportInv'
  BY <1>1 DEF ReportInv, ReadsThrough, NoFalseAlarm
<1>7. QED
  BY <1>2, <1>3, <1>4, <1>5, <1>6 DEF LogInv

\* A file to which one more list is written.
LEMMA WriteAdds ==
    ASSUME NEW c, NEW n, Write(c, n)
    PROVE  /\ DOMAIN file' = DOMAIN file \cup {c} /\ file'[c] = n
           /\ \A b \in DOMAIN file : b # c => file'[b] = file[b]
BY DEF Write

\* A list is written as long as it is now.
LEMMA FileGrows ==
    ASSUME TypeOK, GenInv, MainInv, FileInv, UNCHANGED genVars, leftBehind' = leftBehind,
           NEW c \in Columns, data[c] > 0, Write(c, data[c])
    PROVE  /\ DOMAIN file' \subseteq Columns
           /\ \A b \in DOMAIN file' : file'[b] \in 1..MaxRows
           /\ \A b \in DOMAIN file' : Seen(file[b], b)'
           /\ \A i \in DOMAIN SaveOrder : i < next \/ SaveOrder[i] = c =>
                 SaveOrder[i] \in DOMAIN file' \/ Seen(0, SaveOrder[i])'
<1>1. /\ DOMAIN file' = DOMAIN file \cup {c} /\ file'[c] = data[c]
      /\ \A b \in DOMAIN file : b # c => file'[b] = file[b]
  BY WriteAdds
<1>2. \A b, n : Seen(n, b) => Seen(n, b)'
  BY SeenStays
<1>3. DOMAIN file \subseteq Columns /\ \A b \in DOMAIN file : file[b] \in 1..MaxRows
  BY Typed
<1>4. data[c] \in 1..MaxRows
  BY Lengths, MaxRowsAssumption
<1>5. \A b \in DOMAIN file' : file'[b] \in 1..MaxRows
  BY <1>1, <1>3, <1>4
<1>6. \A b \in DOMAIN file' : Seen(file[b], b)'
  <2> SUFFICES ASSUME NEW b \in DOMAIN file' PROVE Seen(file[b], b)'
    OBVIOUS
  <2>1. CASE b = c
    <3>1. Seen(data[c], c)
      BY SeesNow
    <3>2. data'[c] = data[c] /\ gen' = gen /\ Rows' = Rows
      BY DEF genVars, Rows
    <3>3. QED
      BY <1>1, <2>1, <3>1, <3>2 DEF Seen
  <2>2. CASE b # c
    <3>1. b \in DOMAIN file /\ Seen(file[b], b) /\ file'[b] = file[b]
      BY <1>1, <2>2 DEF FileInv
    <3>2. data' = data /\ gen' = gen /\ Rows' = Rows
      BY DEF genVars, Rows
    <3>3. QED
      BY <3>1, <3>2 DEF Seen
  <2>3. QED
    BY <2>1, <2>2
<1>7. \A i \in DOMAIN SaveOrder : i < next \/ SaveOrder[i] = c =>
          SaveOrder[i] \in DOMAIN file' \/ Seen(0, SaveOrder[i])'
  BY <1>1, <1>2 DEF FileInv
<1>8. QED
  BY <1>1, <1>3, <1>5, <1>6, <1>7

\* A list of numbers is written.
LEMMA SaveColumnKeeps == LogInv /\ SaveColumn => LogInv'
<1> SUFFICES ASSUME TypeOK, GenInv, MainInv, FileInv, ReportInv, SaveColumn PROVE LogInv'
  BY DEF LogInv
<1> DEFINE c == SaveOrder[next]
<1>1. /\ UNCHANGED <<genVars, mainPc, arrays, blanks, leftBehind, report>>
      /\ next' = next + 1 /\ next <= Len(SaveOrder) /\ mainPc = "saving"
      /\ next \in 1..Len(SaveOrder) /\ c \in Columns /\ data[c] > 0 /\ Write(c, data[c])
  BY Typed, Orders DEF SaveColumn, Saving
<1>2. GenInv'
  BY <1>1, SeenStays
<1> HIDE DEF c
<1>3. /\ DOMAIN file' \subseteq Columns
      /\ \A b \in DOMAIN file' : file'[b] \in 1..MaxRows
      /\ \A b \in DOMAIN file' : Seen(file[b], b)'
      /\ \A i \in DOMAIN SaveOrder : i < next \/ SaveOrder[i] = c =>
            SaveOrder[i] \in DOMAIN file' \/ Seen(0, SaveOrder[i])'
  BY <1>1, FileGrows
<1>4. TypeOK'
  <2>1. next' \in 1..Len(SaveOrder) + 1
    BY <1>1, Orders
  <2>2. QED
    BY <1>1, <1>3, <2>1 DEF TypeOK, genVars
<1>5. MainInv'
  BY <1>1 DEF MainInv, genVars
<1>6. FileInv'
  <2>1. \A i \in DOMAIN SaveOrder : i < next' => i < next \/ SaveOrder[i] = c
    BY <1>1, Orders DEF c
  <2>2. QED
    BY <1>1, <1>3, <2>1 DEF FileInv
<1>7. ReportInv'
  BY <1>1 DEF ReportInv, ReadsThrough, NoFalseAlarm
<1>8. QED
  BY <1>2, <1>4, <1>5, <1>6, <1>7 DEF LogInv

\* The bytes are converted, as many as there are now.
LEMMA ConvertBytesKeeps == LogInv /\ ConvertBytes => LogInv'
<1> SUFFICES ASSUME TypeOK, GenInv, MainInv, FileInv, ReportInv, ConvertBytes
             PROVE  LogInv'
  BY DEF LogInv
<1> DEFINE c == SaveOrder[next]
<1>1. /\ UNCHANGED <<genVars, next, file, blanks, leftBehind, report>>
      /\ mainPc = "saving" /\ mainPc' = "bytes" /\ c \in {States, Commands}
      /\ next <= Len(SaveOrder) /\ c \in Columns /\ data[c] > 0 /\ arrays' = data[c]
  BY Typed, Orders DEF ConvertBytes, Saving
<1>2. GenInv' /\ \A b, n : Seen(n, b) => Seen(n, b)'
  BY <1>1, SeenStays
<1>3. TypeOK'
  <2>1. arrays' \in 0..MaxRows
    BY <1>1, Lengths, MaxRowsAssumption
  <2>2. QED
    BY <1>1, <2>1 DEF TypeOK, genVars
<1>4. MainInv'
  <2>1. Seen(data[c], c)
    BY <1>1, SeesNow
  <2>2. Seen(arrays, SaveOrder[next])'
    BY <1>1, <2>1 DEF Seen, Rows, genVars
  <2>3. QED
    BY <1>1, <2>2 DEF MainInv, genVars
<1>5. FileInv'
  BY <1>1, <1>2 DEF FileInv
<1>6. ReportInv'
  BY <1>1 DEF ReportInv, ReadsThrough, NoFalseAlarm
<1>7. QED
  BY <1>2, <1>3, <1>4, <1>5, <1>6 DEF LogInv

\* What SaveBytes and a SaveFails in its place have before them.
LEMMA AtBytes ==
    ASSUME TypeOK, GenInv, MainInv, mainPc = "bytes", NEW c, c = SaveOrder[next]
    PROVE  /\ next \in 1..Len(SaveOrder) /\ c \in Columns /\ c \in {States, Commands}
           /\ data[c] \in Nat /\ data[c] <= MaxRows
           /\ arrays \in Nat /\ arrays > 0 /\ data[c] - arrays \in 0..1
           /\ ~leftBehind => data[c] = arrays
<1>1. /\ next \in 1..Len(SaveOrder) /\ c \in Columns /\ c \in {States, Commands}
      /\ arrays \in Nat /\ arrays > 0 /\ Seen(arrays, c) /\ mainPc # "running"
  BY Typed, Orders DEF MainInv
<1>2. data[c] - arrays \in 0..1 /\ (~leftBehind => data[c] = arrays)
  BY <1>1, OneMore
<1>3. data[c] \in Nat /\ data[c] <= MaxRows
  BY <1>1, Lengths
<1>4. QED
  BY <1>1, <1>2, <1>3

\* The dataset is as long as the list is now, the entries as many as converted.
LEMMA SaveBytesKeeps == LogInv /\ SaveBytes => LogInv'
<1> SUFFICES ASSUME TypeOK, GenInv, MainInv, FileInv, ReportInv, SaveBytes PROVE LogInv'
  BY DEF LogInv
<1> DEFINE c == SaveOrder[next]
<1>1. /\ UNCHANGED <<genVars, arrays, leftBehind, report>>
      /\ mainPc = "bytes" /\ mainPc' = "saving" /\ next' = next + 1
      /\ blanks' = [blanks EXCEPT ![c] = data[c] - arrays] /\ Write(c, data[c])
  BY DEF SaveBytes
<1>2. GenInv'
  BY <1>1, SeenStays
<1>3. c = SaveOrder[next]
  OBVIOUS
<1> HIDE DEF c
<1>4. /\ next \in 1..Len(SaveOrder) /\ c \in Columns /\ c \in {States, Commands}
      /\ data[c] \in Nat /\ data[c] <= MaxRows /\ arrays \in Nat /\ arrays > 0
      /\ data[c] - arrays \in 0..1 /\ (~leftBehind => data[c] = arrays)
  BY <1>1, <1>3, AtBytes
<1>5. /\ DOMAIN file' \subseteq Columns
      /\ \A b \in DOMAIN file' : file'[b] \in 1..MaxRows
      /\ \A b \in DOMAIN file' : Seen(file[b], b)'
      /\ \A i \in DOMAIN SaveOrder : i < next \/ SaveOrder[i] = c =>
            SaveOrder[i] \in DOMAIN file' \/ Seen(0, SaveOrder[i])'
  <2>1. data[c] > 0
    BY <1>4
  <2>2. QED
    BY <1>1, <1>4, <2>1, FileGrows
<1>6. /\ DOMAIN blanks' = {States, Commands}
      /\ blanks' = [b \in {States, Commands} |-> blanks'[b]]
      /\ \A b \in {States, Commands} :
            blanks'[b] = IF b = c THEN data[c] - arrays ELSE blanks[b]
  BY <1>1, Typed
<1>7. TypeOK'
  <2>1. next' \in 1..Len(SaveOrder) + 1
    BY <1>1, <1>4, Orders
  <2>2. \A b \in {States, Commands} : blanks'[b] \in 0..MaxRows
    BY <1>4, <1>6, Typed, MaxRowsAssumption
  <2>3. blanks' \in [{States, Commands} -> 0..MaxRows]
    BY <1>6, <2>2
  <2>4. QED
    BY <1>1, <1>5, <2>1, <2>3 DEF TypeOK, genVars
<1>8. MainInv'
  BY <1>1 DEF MainInv, genVars
<1>9. FileInv'
  <2>1. \A i \in DOMAIN SaveOrder : i < next' => i < next \/ SaveOrder[i] = c
    BY <1>1, <1>3, <1>4, Orders
  <2>2. data[c] - arrays = 0 \/ (leftBehind /\ data[c] - arrays = 1)
    BY <1>4
  <2>3. \A b \in DOMAIN blanks' : blanks'[b] = 0 \/ (leftBehind /\ blanks'[b] = 1)
    BY <1>1, <1>6, <2>2, Typed DEF FileInv
  <2>4. QED
    BY <1>1, <1>5, <2>1, <2>3 DEF FileInv
<1>10. ReportInv'
  BY <1>1 DEF ReportInv, ReadsThrough, NoFalseAlarm, NoReport
<1>11. QED
  BY <1>2, <1>7, <1>8, <1>9, <1>10 DEF LogInv

\* The file is closed.
LEMMA SavedKeeps == LogInv /\ Saved => LogInv'
<1> SUFFICES ASSUME TypeOK, GenInv, MainInv, FileInv, ReportInv, Saved PROVE LogInv'
  BY DEF LogInv
<1>1. /\ UNCHANGED <<genVars, next, arrays, file, blanks, leftBehind, report>>
      /\ mainPc = "saving" /\ mainPc' = "saved"
  BY DEF Saved
<1>2. GenInv' /\ \A b, n : Seen(n, b) => Seen(n, b)'
  BY <1>1, SeenStays
<1>3. TypeOK'
  BY <1>1 DEF TypeOK, genVars
<1>4. MainInv'
  BY <1>1 DEF MainInv, genVars
<1>5. FileInv'
  BY <1>1, <1>2 DEF FileInv
<1>6. ReportInv'
  BY <1>1 DEF ReportInv, ReadsThrough, NoFalseAlarm
<1>7. QED
  BY <1>2, <1>3, <1>4, <1>5, <1>6 DEF LogInv

\* Of a failed save only the datasets written so far count; next never passes the
\* last column.
LEMMA SaveFailsKeeps == LogInv /\ SaveFails => LogInv'
<1> SUFFICES ASSUME TypeOK, GenInv, MainInv, FileInv, ReportInv, SaveFails PROVE LogInv'
  BY DEF LogInv
<1>1. UNCHANGED <<genVars, next, arrays, leftBehind, report>> /\ mainPc' = "saved"
  BY DEF SaveFails
<1>2. GenInv' /\ \A b, n : Seen(n, b) => Seen(n, b)'
  BY <1>1, SeenStays
<1>3. mainPc \notin {"running", "diagnosed"} /\ next' \in 1..Len(SaveOrder)
  BY <1>1, Typed, Orders DEF SaveFails, Saving, MainInv
<1>4. MainInv'
  BY <1>1, <1>3 DEF MainInv, genVars
<1>5. /\ DOMAIN file' \subseteq Columns
      /\ \A b \in DOMAIN file' : file'[b] \in 1..MaxRows /\ Seen(file[b], b)'
      /\ \A i \in DOMAIN SaveOrder : i < next =>
            SaveOrder[i] \in DOMAIN file' \/ Seen(0, SaveOrder[i])'
      /\ blanks' \in [{States, Commands} -> 0..MaxRows]
  <2>1. CASE Saving /\ UNCHANGED <<file, blanks>>
    BY <1>2, <2>1, Typed DEF FileInv, TypeOK
  <2>2. ASSUME mainPc = "bytes", NEW c, c = SaveOrder[next], Write(c, data[c]),
               NEW n \in 0..arrays, blanks' = [blanks EXCEPT ![c] = data[c] - n]
        PROVE  <1>5!:
    <3>1. /\ c \in Columns /\ c \in {States, Commands}
          /\ data[c] \in Nat /\ data[c] <= MaxRows /\ arrays \in Nat /\ arrays > 0
          /\ data[c] - arrays \in 0..1
      BY <2>2, AtBytes
    <3>2. data[c] > 0 /\ data[c] - n \in 0..MaxRows
      BY <3>1, MaxRowsAssumption
    <3>3. blanks' \in [{States, Commands} -> 0..MaxRows]
      <4>1. blanks \in [{States, Commands} -> 0..MaxRows]
        BY DEF TypeOK
      <4>2. QED
        BY <4>1, <2>2, <3>1, <3>2
    <3>4. QED
      BY <1>1, <2>2, <3>1, <3>2, <3>3, FileGrows
  <2>3. QED
    BY <2>1, <2>2 DEF SaveFails
<1>6. TypeOK'
  BY <1>1, <1>5 DEF TypeOK, genVars
<1>7. FileInv'
  <2>1. ~(next' > Len(SaveOrder))
    BY <1>3, Orders
  <2>2. QED
    BY <1>1, <1>5, <2>1 DEF FileInv
<1>8. ReportInv'
  BY <1>1, <1>3 DEF ReportInv, ReadsThrough, NoFalseAlarm, NoReport
<1>9. QED
  BY <1>2, <1>4, <1>6, <1>7, <1>8 DEF LogInv

-----------------------------------------------------------------------------
(* The log: the diagnostics, and what follows.                             *)

\* How long the datasets can be.
LEMMA DatasetLengths ==
    ASSUME TypeOK, GenInv, MainInv, FileInv, mainPc # "running",
           NEW b \in DOMAIN file, NEW c \in DOMAIN file
    PROVE  /\ file[b] \in Nat /\ file[c] \in Nat /\ file[b] - file[c] \in -1..1
           /\ ~leftBehind => file[b] = file[c]
<1>1. \A d \in DOMAIN file : d \in Columns /\ file[d] \in Nat /\ Seen(file[d], d)
  BY Typed DEF FileInv
<1>2. \A d \in DOMAIN file : data[d] - file[d] \in 0..1 /\ (~leftBehind => data[d] = file[d])
  BY <1>1, OneMore
<1>3. \A d \in DOMAIN file : /\ data[d] \in Nat /\ Rows \in Nat
                             /\ data[d] \in {Rows, Rows + 1}
                             /\ gen # "appending" => data[d] = Rows
  BY <1>1, Lengths
<1>4. CASE gen = "appending"
  BY <1>1, <1>3, <1>4 DEF Seen, MainInv
<1>5. CASE gen # "appending"
  BY <1>1, <1>2, <1>3, <1>5
<1>6. QED
  BY <1>4, <1>5

\* States are acquired one period after another.
LEMMA LaterIsLater ==
    ASSUME NEW i \in Nat, NEW j \in Nat, i < j
    PROVE  i * Period \in Nat /\ i * Period < j * Period
<1>1. Period \in Nat /\ Period >= 1
  BY PeriodAssumption
<1>2. i * Period \in Nat /\ j * Period \in Nat /\ (j - i) * Period >= 1
  BY <1>1
<1>3. j * Period = i * Period + (j - i) * Period
  BY <1>1
<1> DEFINE a == i * Period
<1> DEFINE b == j * Period
<1> DEFINE d == (j - i) * Period
<1>4. a \in Nat /\ b \in Nat /\ d \in Int /\ d >= 1 /\ b = a + d
  BY <1>1, <1>2, <1>3
<1> HIDE DEF a, b, d
<1>5. a \in Nat /\ a < b
  BY <1>4
<1>6. QED
  BY <1>5 DEF a, b

\* The diagnostics index a column beyond its end only at the torn last row, which
\* they look at only if the log is too short to skip it.
LEMMA ReportReadsThrough ==
    ASSUME TypeOK, GenInv, MainInv, FileInv, mainPc # "running",
           NEW m \in Margins, Report(m).outcome = "raised"
    PROVE  leftBehind /\ Report(m).all
<1> DEFINE I == ValidIndices(m)
<1>1. States \in DOMAIN file /\ \E c \in DOMAIN file : ~Indexable(c, I)
  BY DEF Report
<1>2. Report(m).all <=> TooShort(m)
  BY <1>1 DEF Report
<1>3. PICK c \in DOMAIN file : ~Indexable(c, I)
  BY <1>1
<1>4. PICK i \in I : ~(i <= file[c])
  BY <1>3 DEF Indexable
<1> DEFINE n == file[States]
<1>5. /\ n \in Nat /\ file[c] \in Nat /\ n - file[c] \in -1..1
      /\ ~leftBehind => n = file[c]
  BY <1>1, DatasetLengths
<1>6. i \in 1..n
  BY <1>4 DEF ValidIndices
<1>7. i = n /\ leftBehind
  BY <1>4, <1>5, <1>6
<1>8. TooShort(m)
  <2> SUFFICES ASSUME ~TooShort(m) PROVE FALSE
    OBVIOUS
  <2>1. AcquisitionTime(n) \in AcquisitionTime(1) + m .. AcquisitionTime(n) - m
    BY <1>4, <1>7 DEF ValidIndices
  <2>2. m \in Nat /\ m > 0
    BY MarginsAssumption
  <2>3. AcquisitionTime(n) \in Nat
    <3>1. n * Period \in Nat
      BY <1>5, PeriodAssumption
    <3>2. QED
      BY <3>1 DEF AcquisitionTime
  <2> HIDE DEF n
  <2>4. QED
    BY <2>1, <2>2, <2>3
<1>9. QED
  BY <1>2, <1>7, <1>8

\* With no entry blank, consecutive valid rows have consecutive keys: the valid
\* rows are an interval, so one follows another by 1.
LEMMA ReportTrue ==
    ASSUME TypeOK, GenInv, MainInv, FileInv, mainPc # "running",
           NEW m \in Margins, Report(m).outcome = "checked",
           blanks[States] = 0, blanks[Commands] = 0
    PROVE  Report(m).increasing /\ Report(m).acks
<1> DEFINE I == ValidIndices(m)
<1> DEFINE n == file[States]
<1>1. /\ States \in DOMAIN file /\ Commands \in DOMAIN file /\ Indexable(Commands, I)
  BY DEF Report
<1>2. n \in Nat /\ file[Commands] \in Nat
  BY <1>1, Typed
<1>3. \A i \in I : i \in 1..n /\ i <= file[Commands]
  BY <1>1 DEF Indexable, ValidIndices
<1>4. \A i \in 1..n : AcquisitionTime(i) = i * Period /\ StateKey(i) = i - 1
  BY <1>2 DEF AcquisitionTime, StateKey, Written
<1>5. \A i \in I : CommandKey(i) = i
  BY <1>2, <1>3 DEF CommandKey, Written
<1>6. ASSUME NEW i \in I, NEW j \in I, Follows(I, i, j)
      PROVE  j = i + 1
  <2>1. i \in 1..n /\ j \in 1..n /\ i < j
    BY <1>3, <1>6 DEF Follows
  <2> SUFFICES ASSUME j # i + 1 PROVE i + 1 \in I
    BY <1>6, <2>1 DEF Follows
  <2>2. i + 1 \in 1..n /\ i < i + 1 /\ i + 1 < j
    BY <1>2, <2>1
  <2>3. CASE TooShort(m)
    BY <2>2, <2>3 DEF ValidIndices
  <2>4. CASE ~TooShort(m)
    <3> DEFINE lo == AcquisitionTime(1) + m
               hi == AcquisitionTime(n) - m
    <3>1. lo \in Int /\ hi \in Int
      <4>1. 1 \in 1..n /\ n \in 1..n
        BY <1>2, <2>1
      <4>2. AcquisitionTime(1) = 1 * Period /\ AcquisitionTime(n) = n * Period
        BY <1>4, <4>1
      <4>3. 1 * Period \in Int /\ n * Period \in Int /\ m \in Int
        BY <1>2, PeriodAssumption, MarginsAssumption
      <4>4. QED
        BY <4>2, <4>3
    <3>2. AcquisitionTime(i) \in lo..hi /\ AcquisitionTime(j) \in lo..hi
      BY <2>4 DEF ValidIndices
    <3>3. /\ AcquisitionTime(i) = i * Period /\ AcquisitionTime(j) = j * Period
          /\ AcquisitionTime(i + 1) = (i + 1) * Period
      BY <1>4, <2>1, <2>2
    <3>4. /\ i * Period \in Nat /\ i * Period < (i + 1) * Period
          /\ (i + 1) * Period \in Nat /\ (i + 1) * Period < j * Period
          /\ j * Period \in Nat
      BY <2>1, <2>2, LaterIsLater, PeriodAssumption
    <3> HIDE DEF lo, hi
    <3>5. AcquisitionTime(i + 1) \in lo..hi
      BY <3>1, <3>2, <3>3, <3>4
    <3>6. QED
      BY <2>2, <2>4, <3>5 DEF ValidIndices, lo, hi
  <2>5. QED
    BY <2>3, <2>4
<1>7. Increasing(I) /\ Acknowledged(I)
  <2> SUFFICES ASSUME NEW i \in I, NEW j \in I, Follows(I, i, j)
               PROVE  /\ CommandKey(j) - CommandKey(i) = 1
                      /\ StateKey(j) = CommandKey(i)
    BY DEF Increasing, Acknowledged
  <2>1. j = i + 1 /\ i \in 1..n /\ j \in 1..n
    BY <1>3, <1>6
  <2>2. CommandKey(i) = i /\ CommandKey(j) = j /\ StateKey(j) = j - 1
    BY <1>4, <1>5, <2>1
  <2>3. QED
    BY <1>2, <2>1, <2>2
<1>8. QED
  BY <1>7 DEF Report

\* The file is read.
LEMMA DiagnoseKeeps == LogInv /\ Diagnose => LogInv'
<1> SUFFICES ASSUME TypeOK, GenInv, MainInv, FileInv, ReportInv, Diagnose PROVE LogInv'
  BY DEF LogInv
<1>1. /\ UNCHANGED <<genVars, next, arrays, file, blanks, leftBehind>>
      /\ mainPc = "saved" /\ mainPc' = "diagnosed"
  BY DEF Diagnose
<1>2. PICK m \in Margins : report' = Report(m)
  BY DEF Diagnose
<1>3. GenInv' /\ \A b, n : Seen(n, b) => Seen(n, b)'
  BY <1>1, SeenStays
<1>4. TypeOK'
  <2>1. report'.outcome \in {"none", "no states", "nothing valid", "raised",
                             "no commands", "checked"}
    BY <1>2 DEF Report
  <2>2. QED
    BY <1>1, <2>1 DEF TypeOK, genVars
<1>5. MainInv'
  BY <1>1 DEF MainInv, genVars
<1>6. FileInv'
  BY <1>1, <1>3 DEF FileInv
<1>7. ReadsThrough'
  BY <1>1, <1>2, ReportReadsThrough DEF ReadsThrough
<1>8. NoFalseAlarm'
  <2>1. blanks[States] \in Nat /\ blanks[Commands] \in Nat
    BY Typed
  <2>2. QED
    BY <1>1, <1>2, <2>1, ReportTrue DEF NoFalseAlarm
<1>9. QED
  BY <1>1, <1>3, <1>4, <1>5, <1>6, <1>7, <1>8 DEF LogInv, ReportInv

\* A step of the other part.
LEMMA LogStays == LogInv /\ UNCHANGED vars => LogInv'
<1> SUFFICES ASSUME TypeOK, GenInv, MainInv, FileInv, ReportInv, UNCHANGED vars
             PROVE  LogInv'
  BY DEF LogInv
<1>1. /\ UNCHANGED <<genVars, mainPc, next, arrays, file, blanks, leftBehind, report>>
  BY DEF vars, mainVars
<1>2. GenInv' /\ \A b, n : Seen(n, b) => Seen(n, b)'
  BY <1>1, SeenStays
<1>3. TypeOK'
  BY <1>1 DEF TypeOK, genVars
<1>7. MainInv'
  <2>1. \A c, n : Seen(n, c) => Seen(n, c)'
    BY <1>2
  <2>2. Seen(arrays, SaveOrder[next]) => Seen(arrays, SaveOrder[next])'
    BY <1>1, <2>1
  <2>3. QED
    BY <1>1, <2>2 DEF MainInv, genVars
<1>4. FileInv'
  BY <1>1, <1>2 DEF FileInv
<1>5. ReportInv'
  BY <1>1 DEF ReportInv, ReadsThrough, NoFalseAlarm
<1>6. QED
  BY <1>2, <1>3, <1>4, <1>5, <1>7 DEF LogInv

\* The log keeps its invariant, however generator and main thread interleave.
THEOREM LogInvariant == Spec => []LogInv
<1>1. LogInv /\ [Next]_vars => LogInv'
  <2> SUFFICES ASSUME LogInv, [Next]_vars PROVE LogInv'
    OBVIOUS
  <2>1. CASE Generator
    BY <2>1, BeginRowKeeps, AppendColumnKeeps, GiveUpKeeps DEF Generator
  <2>2. CASE StopStream \/ StreamBreaks
    BY <2>2, StopStreamKeeps, StreamBreaksKeeps
  <2>3. CASE SaveStep
    BY <2>3, SkipColumnKeeps, SaveColumnKeeps, ConvertBytesKeeps, SaveBytesKeeps,
       SavedKeeps DEF SaveStep
  <2>4. CASE SaveFails \/ Diagnose
    BY <2>4, SaveFailsKeeps, DiagnoseKeeps
  <2>5. CASE UNCHANGED vars
    BY <2>5, LogStays
  <2>6. QED
    BY <2>1, <2>2, <2>3, <2>4, <2>5 DEF Next
<1>2. QED
  BY LogInit, <1>1, PTL DEF Spec

\* A log whose saving came to its end is whole or torn in its last row.
LEMMA WholeOrTornFollows == LogInv => WholeOrTorn
<1> SUFFICES ASSUME TypeOK, GenInv, MainInv, FileInv PROVE WholeLog /\ LastRowTorn
  BY DEF LogInv, WholeOrTorn
<1>1. \A c \in DOMAIN file : c \in Columns /\ file[c] \in 1..MaxRows /\ file[c] \in Nat
  <2>1. \A n \in 1..MaxRows : n \in Nat
    BY MaxRowsAssumption
  <2>2. QED
    BY <2>1, Typed
<1>2. WholeLog
  <2> SUFFICES ASSUME mainPc \in {"saved", "diagnosed"}, ~leftBehind,
                      next > Len(SaveOrder)
               PROVE  /\ \A c \in DOMAIN file : file[c] = data[c] /\ file[c] = data[Commands]
                      /\ data[Commands] > 0 => DOMAIN file = Columns
                      /\ \A c \in DOMAIN blanks : blanks[c] = 0
    BY DEF WholeLog
  <2>1. gen = "over"
    BY DEF MainInv
  <2>2. \A c \in Columns : data[c] = Rows /\ Rows \in Nat
    BY <2>1, Lengths
  <2>3. \A c \in DOMAIN file : file[c] = Rows
    BY <2>1 DEF FileInv, Seen
  <2>4. Rows > 0 => DOMAIN file = Columns
    <3> SUFFICES ASSUME Rows > 0, NEW c \in Columns PROVE c \in DOMAIN file
      BY <1>1
    <3>1. PICK i \in 1..Len(SaveOrder) : SaveOrder[i] = c
      BY Orders
    <3>2. i < next
      BY Typed, Orders
    <3>3. ~Seen(0, c)
      BY <2>1, <2>2 DEF Seen
    <3>4. QED
      BY <3>1, <3>2, <3>3, Orders DEF FileInv
  <2>5. QED
    BY <1>1, <2>2, <2>3, <2>4 DEF FileInv, Rows
<1>3. LastRowTorn
  <2> SUFFICES ASSUME mainPc \in {"saved", "diagnosed"}, next > Len(SaveOrder)
               PROVE  /\ \A b, c \in DOMAIN file : file[b] - file[c] \in -1..1
                      /\ DOMAIN file # Columns => \A c \in DOMAIN file : file[c] = 1
                      /\ \A c \in DOMAIN blanks : blanks[c] \in 0..1
    BY DEF LastRowTorn
  <2>1. \A b, c \in DOMAIN file : file[b] - file[c] \in -1..1
    BY DatasetLengths
  <2>2. ASSUME DOMAIN file # Columns, NEW c \in DOMAIN file PROVE file[c] = 1
    <3>1. PICK b \in Columns : b \notin DOMAIN file
      BY <1>1, <2>2
    <3>2. PICK i \in 1..Len(SaveOrder) : SaveOrder[i] = b
      BY Orders
    <3>3. i < next
      BY Typed, Orders
    <3>4. Seen(0, b) /\ Seen(file[c], c)
      BY <3>1, <3>2, <3>3, Orders DEF FileInv
    <3>5. /\ data[b] \in Nat /\ Rows \in Nat /\ data[b] \in {Rows, Rows + 1}
          /\ data[c] \in {Rows, Rows + 1} /\ gen \in {"idle", "appending", "over"}
      BY <1>1, Lengths DEF TypeOK
    <3>6. QED
      BY <1>1, <3>4, <3>5 DEF Seen
  <2>3. \A c \in DOMAIN blanks : blanks[c] \in 0..1
    BY DEF FileInv
  <2>4. QED
    BY <2>1, <2>2, <2>3
<1>4. QED
  BY <1>2, <1>3

\* However the generator that was left behind appends while main saves, the log is
\* whole, or torn in its last row alone.
THEOREM LogIsWholeOrTorn == Spec => []WholeOrTorn
BY LogInvariant, WholeOrTornFollows, PTL

\* The diagnostics get through every log that the program can leave, but for a short
\* one that was torn, and find fault with the keys of a healthy log only where bytes
\* are missing.
THEOREM LogIsDiagnosable == Spec => []Diagnosable
<1>1. LogInv => Diagnosable
  BY DEF LogInv, ReportInv, Diagnosable
<1>2. QED
  BY LogInvariant, <1>1, PTL

-----------------------------------------------------------------------------
(* The commands: the invariant.                                            *)

\* Of the groups before the n-th, the last that matches has given j its gains.
Stiffest(j, n) ==
    \/ joint_kp[j] = NULL /\ \A g \in Joint!Matching(j) : g >= n
    \/ \E g \in Joint!Matching(j) :
          /\ g < n /\ joint_kp[j] = env.actuators[g].stiffness
          /\ \A h \in Joint!Matching(j) : h < n => h <= g

\* The gains while the groups are applied one after another, and from then on.
GainsInv ==
    /\ pc = "actuators" =>
          /\ next_expr <= Len(env.actuators) + 1
          /\ \A j \in Joint!Joints : Stiffest(j, next_expr)
    /\ pc # "actuators" =>
          \A j \in Joint!Joints :
             IF j \in Joint!Arm /\ pc \in {"ready", "dead"} THEN joint_kp[j] = DefaultKp[j]
             ELSE Stiffest(j, Len(env.actuators) + 1)

\* Commands are counted from the first, which found the configuration complete.
CommandInv ==
    /\ command # NULL => _count > 1 /\ EachToItsJoint
    /\ _count > 1 =>
          /\ pc \in {"ready", "dead"}
          /\ \A j \in Joint!Joints : joint_kp[j] # NULL /\ joint_offsets[j] # NULL

\* The inductive invariant of the configuration and the commands.
JointInv == Joint!TypeOK /\ next_expr >= 1 /\ GainsInv /\ CommandInv

-----------------------------------------------------------------------------
(* The commands: the steps.                                                *)

\* The constants of the commands.
LEMMA Joints ==
    /\ ISAAC = SPOT /\ Len(SPOT) \in Nat /\ DOMAIN SPOT = 1..Len(SPOT)
    /\ \A i \in 1..Len(SPOT) : SPOT[i] \in Joint!Joints
    /\ NLegs \in 1..Len(SPOT)
    /\ GainSteps \in Nat /\ GainSteps >= 1 /\ MaxCount \in Nat
    /\ Joint!Arm \subseteq Joint!Joints
<1>1. ISAAC = SPOT /\ SPOT \in Seq(Joint!Joints) /\ NLegs \in 1..Len(SPOT)
  BY CommandsAssumption DEF Joint!Assumptions
<1>2. GainSteps \in Nat \ {0} /\ MaxCount \in Nat
  BY CommandsAssumption DEF Joint!Assumptions
<1>3. /\ Len(SPOT) \in Nat /\ DOMAIN SPOT = 1..Len(SPOT)
      /\ \A i \in 1..Len(SPOT) : SPOT[i] \in Joint!Joints
  BY <1>1
<1>4. NLegs \in Nat
  BY <1>1, <1>3
<1>5. Joint!Arm \subseteq Joint!Joints
  BY <1>1, <1>3, <1>4 DEF Joint!Arm
<1>6. QED
  BY <1>1, <1>2, <1>3, <1>5

\* The groups of a configuration.
LEMMA Groups ==
    ASSUME NEW e \in Envs
    PROVE  /\ Len(e.actuators) \in Nat /\ DOMAIN e.actuators = 1..Len(e.actuators)
           /\ Len(e.joint_pos) \in Nat
<1> DEFINE G == [joint_names_expr : Seq(SUBSET Joint!Joints), stiffness : Int]
           D == [expr : SUBSET Joint!Joints, value : Int]
<1>1. e.actuators \in Seq(G) /\ e.joint_pos \in Seq(D)
  BY CommandsAssumption DEF Joint!Assumptions
<1> HIDE DEF G, D
<1>2. QED
  BY <1>1

\* No group has been applied.
LEMMA JointInit == Joint!Init => JointInv
<1> SUFFICES ASSUME Joint!Init PROVE JointInv
  OBVIOUS
<1>1. Joint!TypeOK
  BY Joints DEF Joint!Init, Joint!TypeOK
<1>2. next_expr >= 1
  BY DEF Joint!Init
<1>3. GainsInv
  <2>1. Len(env.actuators) \in Nat /\ DOMAIN env.actuators = 1..Len(env.actuators)
    BY Groups DEF Joint!Init
  <2>2. \A j \in Joint!Joints : Stiffest(j, 1)
    BY <2>1 DEF Joint!Init, Stiffest, Joint!Matching
  <2>3. QED
    BY <2>1, <2>2 DEF Joint!Init, GainsInv
<1>4. CommandInv
  BY DEF Joint!Init, CommandInv
<1>5. QED
  BY <1>1, <1>2, <1>3, <1>4 DEF JointInv

\* One more group has given its joints their gains.
LEMMA LoadActuatorsKeeps == JointInv /\ Joint!LoadActuators => JointInv'
<1> SUFFICES ASSUME Joint!TypeOK, next_expr >= 1, GainsInv, CommandInv,
                    Joint!LoadActuators
             PROVE  JointInv'
  BY DEF JointInv
<1>1. /\ UNCHANGED <<env, mock, joint_offsets, position, _count, command>>
      /\ pc = "actuators" /\ env \in Envs /\ next_expr \in Nat
      /\ DOMAIN joint_kp = Joint!Joints
  BY DEF Joint!LoadActuators, Joint!TypeOK
<1>2. Len(env.actuators) \in Nat /\ DOMAIN env.actuators = 1..Len(env.actuators)
  BY <1>1, Groups
<1>3. CommandInv'
  <2>1. EachToItsJoint => EachToItsJoint'
    BY <1>1 DEF EachToItsJoint, Joint!EachToItsJoint
  <2>2. QED
    BY <1>1, <2>1 DEF CommandInv
<1>4. CASE next_expr <= Len(env.actuators)
  <2> DEFINE group == env.actuators[next_expr]
             E == group.joint_names_expr[1]
  <2>1. /\ next_expr' = next_expr + 1 /\ pc' = pc
        /\ joint_kp' = [j \in DOMAIN joint_kp |->
                           IF j \in E THEN group.stiffness ELSE joint_kp[j]]
    BY <1>4 DEF Joint!LoadActuators, Joint!SetMatching
  <2>2. \A j \in Joint!Joints : j \in E <=> next_expr \in Joint!Matching(j)
    BY <1>1, <1>2, <1>4 DEF Joint!Matching
  <2>3. \A j \in Joint!Joints :
            /\ Joint!Matching(j)' = Joint!Matching(j)
            /\ Joint!Matching(j) \subseteq 1..Len(env.actuators)
    BY <1>1, <1>2 DEF Joint!Matching
  <2>4. ASSUME NEW j \in Joint!Joints
        PROVE  Stiffest(j, next_expr)'
    <3>1. Stiffest(j, next_expr)
      BY <1>1 DEF GainsInv
    <3>2. CASE j \in E
      <4>1. joint_kp'[j] = group.stiffness /\ next_expr \in Joint!Matching(j)
        BY <1>1, <2>1, <2>2, <3>2
      <4>2. \A h \in Joint!Matching(j) : h < next_expr + 1 => h <= next_expr
        BY <1>1, <1>2, <2>3
      <4>3. QED
        BY <4>1, <4>2, <1>1, <2>1, <2>3 DEF Stiffest
    <3>3. CASE j \notin E
      <4>1. joint_kp'[j] = joint_kp[j] /\ next_expr \notin Joint!Matching(j)
        BY <1>1, <2>1, <2>2, <3>3
      <4>2. \A h \in Joint!Matching(j) : /\ h < next_expr + 1 <=> h < next_expr
                                         /\ h >= next_expr + 1 <=> h >= next_expr
        BY <4>1, <1>1, <1>2, <2>3
      <4>3. QED
        BY <4>1, <4>2, <3>1, <1>1, <2>1, <2>3 DEF Stiffest
    <3>4. QED
      BY <3>2, <3>3
  <2>5. GainsInv'
    BY <1>1, <1>2, <1>4, <2>1, <2>4 DEF GainsInv
  <2>6. Joint!TypeOK' /\ next_expr' >= 1
    BY <1>1, <2>1 DEF Joint!TypeOK
  <2>7. QED
    BY <1>3, <2>5, <2>6 DEF JointInv
<1>5. CASE ~(next_expr <= Len(env.actuators))
  <2>1. joint_kp' = joint_kp /\ next_expr' = 1 /\ pc' = "defaults"
    BY <1>5 DEF Joint!LoadActuators
  <2>2. next_expr = Len(env.actuators) + 1
    BY <1>1, <1>2, <1>5 DEF GainsInv
  <2>3. GainsInv'
    BY <1>1, <2>1, <2>2 DEF GainsInv, Stiffest, Joint!Matching
  <2>4. Joint!TypeOK' /\ next_expr' >= 1
    BY <1>1, <2>1 DEF Joint!TypeOK
  <2>5. QED
    BY <1>3, <2>3, <2>4 DEF JointInv
<1>6. QED
  BY <1>4, <1>5

\* The defaults don't touch the gains.
LEMMA LoadDefaultsKeeps == JointInv /\ Joint!LoadDefaults => JointInv'
<1> SUFFICES ASSUME Joint!TypeOK, next_expr >= 1, GainsInv, CommandInv,
                    Joint!LoadDefaults
             PROVE  JointInv'
  BY DEF JointInv
<1>1. /\ UNCHANGED <<env, mock, joint_kp, position, _count, command>>
      /\ pc = "defaults" /\ pc' \in {"defaults", "arm"}
      /\ next_expr' \in {1, next_expr + 1} /\ DOMAIN joint_offsets' = DOMAIN joint_offsets
  BY DEF Joint!LoadDefaults, Joint!SetMatching
<1>2. Joint!TypeOK' /\ next_expr' >= 1
  BY <1>1 DEF Joint!TypeOK
<1>3. GainsInv'
  BY <1>1 DEF GainsInv, Stiffest, Joint!Matching
<1>4. CommandInv'
  <2>1. ~(_count > 1)
    BY <1>1 DEF CommandInv
  <2>2. QED
    BY <1>1, <2>1 DEF CommandInv
<1>5. QED
  BY <1>2, <1>3, <1>4 DEF JointInv

\* The arm's gains are the robot's own from here on.
LEMMA OverrideArmKeeps == JointInv /\ Joint!OverrideArm => JointInv'
<1> SUFFICES ASSUME Joint!TypeOK, next_expr >= 1, GainsInv, CommandInv,
                    Joint!OverrideArm
             PROVE  JointInv'
  BY DEF JointInv
<1>1. /\ UNCHANGED <<env, mock, next_expr, joint_offsets, position, _count, command>>
      /\ pc = "arm" /\ pc' = "ready"
      /\ joint_kp' = [j \in Joint!Joints |->
                         IF j \in Joint!Arm THEN DefaultKp[j] ELSE joint_kp[j]]
  BY DEF Joint!OverrideArm
<1>2. Joint!TypeOK' /\ next_expr' >= 1
  BY <1>1 DEF Joint!TypeOK
<1>3. GainsInv'
  BY <1>1 DEF GainsInv, Stiffest, Joint!Matching
<1>4. CommandInv'
  <2>1. ~(_count > 1)
    BY <1>1 DEF CommandInv
  <2>2. QED
    BY <1>1, <2>1 DEF CommandInv
<1>5. QED
  BY <1>2, <1>3, <1>4 DEF JointInv

\* A state changes neither configuration nor command.
LEMMA StateArrivesKeeps == JointInv /\ Joint!StateArrives => JointInv'
<1> SUFFICES ASSUME Joint!TypeOK, next_expr >= 1, GainsInv, CommandInv,
                    Joint!StateArrives
             PROVE  JointInv'
  BY DEF JointInv
<1>1. /\ UNCHANGED <<env, mock, joint_kp, joint_offsets, pc, next_expr, _count, command>>
      /\ DOMAIN position' = Joint!Joints
  BY DEF Joint!StateArrives, Joint!config
<1>2. Joint!TypeOK' /\ next_expr' >= 1
  BY <1>1 DEF Joint!TypeOK
<1>3. GainsInv'
  BY <1>1 DEF GainsInv, Stiffest, Joint!Matching
<1>4. CommandInv'
  BY <1>1 DEF CommandInv, EachToItsJoint, Joint!EachToItsJoint
<1>5. QED
  BY <1>2, <1>3, <1>4 DEF JointInv

\* A command has a position for the joint at each place, or, from the mock, for
\* the legs alone.
LEMMA InOrder ==
    ASSUME NEW a
    PROVE  /\ \A i \in DOMAIN Joint!FullAction(a) : Joint!FullAction(a)[i][1] = SPOT[i]
           /\ \A i \in DOMAIN Joint!Output(a) : Joint!Output(a)[i][1] = SPOT[i]
<1> DEFINE out == Joint!Output(a)
           offs == Joint!ArmOffsets
           n == Len(SPOT) - NLegs
           V == {out[k] : k \in 1..NLegs} \cup {offs[k] : k \in 1..n}
<1>1. NLegs \in Nat /\ n \in Nat /\ Len(SPOT) \in Nat
  BY Joints
<1>2. DOMAIN out = 1..NLegs /\ \A k \in 1..NLegs : out[k][1] = SPOT[k]
  BY Joints DEF Joint!Output
<1>3. DOMAIN offs = 1..n /\ \A k \in 1..n : offs[k][1] = SPOT[NLegs + k]
  BY DEF Joint!ArmOffsets
<1>4. out \in [1..NLegs -> V] /\ offs \in [1..n -> V]
  BY <1>2, <1>3 DEF Joint!Output, Joint!ArmOffsets
<1>5. Joint!FullAction(a) = out \o offs
  BY DEF Joint!FullAction
<1> HIDE DEF out, offs, n, V
<1>6. out \in Seq(V) /\ offs \in Seq(V) /\ Len(out) = NLegs /\ Len(offs) = n
  BY <1>1, <1>4
<1>7. /\ DOMAIN (out \o offs) = 1..NLegs + n
      /\ \A i \in 1..NLegs + n :
            (out \o offs)[i] = IF i <= NLegs THEN out[i] ELSE offs[i - NLegs]
  BY <1>1, <1>6
<1>8. \A i \in 1..NLegs + n : (out \o offs)[i][1] = SPOT[i]
  <2> TAKE i \in 1..NLegs + n
  <2>1. CASE i <= NLegs
    BY <1>1, <1>2, <1>7, <2>1
  <2>2. CASE ~(i <= NLegs)
    <3>1. i - NLegs \in 1..n /\ NLegs + (i - NLegs) = i
      BY <1>1, <2>2
    <3>2. QED
      BY <1>3, <1>7, <2>2, <3>1
  <2>3. QED
    BY <2>1, <2>2
<1>9. QED
  BY <1>2, <1>5, <1>7, <1>8 DEF out

\* A command is made: the first one needs the gains and the defaults complete.
LEMMA CallKeeps == JointInv /\ Joint!Call => JointInv'
<1> SUFFICES ASSUME Joint!TypeOK, next_expr >= 1, GainsInv, CommandInv, Joint!Call
             PROVE  JointInv'
  BY DEF JointInv
<1>1. /\ UNCHANGED <<env, mock, joint_kp, joint_offsets, pc, next_expr, position>>
      /\ pc = "ready" /\ _count <= MaxCount /\ _count' = _count + 1 /\ Joint!Complete
  BY DEF Joint!Call, Joint!config
<1>2. PICK a \in Actions :
          command' = IF mock THEN Joint!CreateProto(Joint!Output(a), _count')
                     ELSE Joint!CreateProto(Joint!FullAction(a), _count)
  BY DEF Joint!Call
<1>3. _count \in Nat /\ _count >= 1 /\ _count' \in 1..MaxCount + 1 /\ _count' > 1
  BY <1>1, Joints DEF Joint!TypeOK
<1>4. ASSUME NEW pos, NEW c
      PROVE  /\ Len(Joint!CreateProto(pos, c).gains) \in {0, Len(SPOT)}
             /\ Joint!CreateProto(pos, c).position = pos
  <2>1. Len(Joint!InSpotOrder(joint_kp)) = Len(SPOT)
    BY Joints DEF Joint!InSpotOrder
  <2>2. QED
    BY <2>1 DEF Joint!CreateProto
<1>5. Joint!TypeOK' /\ next_expr' >= 1
  <2>1. Len(command'.gains) \in {0, Len(SPOT)}
    BY <1>2, <1>4
  <2>2. QED
    BY <1>1, <1>3, <2>1 DEF Joint!TypeOK
<1>6. GainsInv'
  BY <1>1 DEF GainsInv, Stiffest, Joint!Matching
<1>7. EachToItsJoint'
  <2>1. command'.position \in {Joint!Output(a), Joint!FullAction(a)}
    BY <1>2, <1>4
  <2>2. \A i \in DOMAIN command'.position : command'.position[i][1] = SPOT[i]
    BY <2>1, InOrder
  <2>3. QED
    BY <2>2 DEF EachToItsJoint, Joint!EachToItsJoint
<1>8. \A j \in Joint!Joints : joint_kp[j] # NULL /\ joint_offsets[j] # NULL
  <2>1. CASE _count > 1
    BY <2>1 DEF CommandInv
  <2>2. CASE _count = 1
    BY <1>1, <2>2, Joints DEF Joint!Complete
  <2>3. QED
    BY <1>3, <2>1, <2>2
<1>9. CommandInv'
  BY <1>1, <1>3, <1>7, <1>8 DEF CommandInv
<1>10. QED
  BY <1>5, <1>6, <1>9 DEF JointInv

\* The stream of commands ends.
LEMMA CallRaisesKeeps == JointInv /\ Joint!CallRaises => JointInv'
<1> SUFFICES ASSUME Joint!TypeOK, next_expr >= 1, GainsInv, CommandInv, Joint!CallRaises
             PROVE  JointInv'
  BY DEF JointInv
<1>1. /\ UNCHANGED <<env, mock, joint_kp, joint_offsets, next_expr, position, _count,
                     command>>
      /\ pc = "ready" /\ pc' = "dead"
  BY DEF Joint!CallRaises, Joint!config
<1>2. Joint!TypeOK' /\ next_expr' >= 1
  BY <1>1 DEF Joint!TypeOK
<1>3. GainsInv'
  BY <1>1 DEF GainsInv, Stiffest, Joint!Matching
<1>4. CommandInv'
  BY <1>1 DEF CommandInv, EachToItsJoint, Joint!EachToItsJoint
<1>5. QED
  BY <1>2, <1>3, <1>4 DEF JointInv

\* A step of the other part.
LEMMA JointStays == JointInv /\ UNCHANGED Joint!vars => JointInv'
<1> SUFFICES ASSUME Joint!TypeOK, next_expr >= 1, GainsInv, CommandInv,
                    UNCHANGED Joint!vars
             PROVE  JointInv'
  BY DEF JointInv
<1>1. UNCHANGED <<env, mock, joint_kp, joint_offsets, pc, next_expr, position, _count,
                  command>>
  BY DEF Joint!vars, Joint!config
<1>2. Joint!TypeOK' /\ next_expr' >= 1
  BY <1>1 DEF Joint!TypeOK
<1>3. GainsInv'
  BY <1>1 DEF GainsInv, Stiffest, Joint!Matching
<1>4. CommandInv'
  BY <1>1 DEF CommandInv, EachToItsJoint, Joint!EachToItsJoint
<1>5. QED
  BY <1>2, <1>3, <1>4 DEF JointInv

\* Loading and commanding keep their invariant.
THEOREM CommandsInvariant == Joint!Spec => []JointInv
<1>1. JointInv /\ [Joint!Next]_(Joint!vars) => JointInv'
  BY LoadActuatorsKeeps, LoadDefaultsKeeps, OverrideArmKeeps, StateArrivesKeeps, CallKeeps,
     CallRaisesKeeps, JointStays DEF Joint!Next
<1>2. QED
  BY JointInit, <1>1, PTL DEF Joint!Spec

\* When all groups were applied, the last that matches is the largest.
LEMMA GainsFollow == JointInv => LastMatchWins
<1> SUFFICES ASSUME JointInv, pc \in {"ready", "dead"}, NEW j \in Joint!Joints,
                    j \notin Joint!Arm
             PROVE  joint_kp[j] =
                       IF Joint!Matching(j) = {} THEN NULL
                       ELSE env.actuators[CHOOSE g \in Joint!Matching(j) :
                               \A h \in Joint!Matching(j) : h <= g].stiffness
  BY DEF JointInv, GainsInv, LastMatchWins, Joint!LastMatchWins
<1> DEFINE M == Joint!Matching(j)
           n == Len(env.actuators)
<1>1. n \in Nat /\ M \subseteq 1..n
  BY Groups DEF JointInv, Joint!TypeOK, Joint!Matching
<1>2. Stiffest(j, n + 1)
  BY DEF JointInv, GainsInv
<1>3. CASE M = {}
  BY <1>2, <1>3 DEF Stiffest
<1>4. CASE M # {}
  <2>1. PICK g \in M : /\ joint_kp[j] = env.actuators[g].stiffness
                       /\ \A h \in M : h < n + 1 => h <= g
    BY <1>1, <1>2, <1>4 DEF Stiffest
  <2> DEFINE last == CHOOSE k \in M : \A h \in M : h <= k
  <2>2. \A h \in M : h <= g
    BY <1>1, <2>1
  <2>3. last \in M /\ \A h \in M : h <= last
    BY <2>2
  <2> HIDE DEF last
  <2>4. last = g
    BY <1>1, <2>1, <2>2, <2>3
  <2>5. QED
    BY <1>4, <2>1, <2>4 DEF last
<1>5. QED
  BY <1>3, <1>4

\* Whatever the groups and their expressions, a leg has the stiffness of the last
\* group that matches it, and an arm joint the robot's own.
THEOREM GainsOfLastMatch == Joint!Spec => []LastMatchWins
BY CommandsInvariant, GainsFollow, PTL

\* A configuration with a hole never commands the robot, with gains or without.
THEOREM HolesStopCommands == Joint!Spec => []NoCommandWithoutGains
<1>1. JointInv => NoCommandWithoutGains
  BY DEF JointInv, CommandInv, NoCommandWithoutGains, Joint!NoCommandWithoutGains
<1>2. QED
  BY CommandsInvariant, <1>1, PTL

\* A position in a command is that of the joint at its place, of the mock's
\* commands too, which have no arm.
THEOREM PositionsAreOfTheirJoints == Joint!Spec => []EachToItsJoint
<1>1. JointInv => EachToItsJoint
  BY DEF JointInv, CommandInv, EachToItsJoint, Joint!EachToItsJoint
<1>2. QED
  BY CommandsInvariant, <1>1, PTL
=============================================================================
