--------------------------- MODULE MockSpot_proof --------------------------
(***************************************************************************)
(* For every period of the timer, every divider and every delay of the     *)
(* threads: the timer keeps to its slots, the command policy finds a state *)
(* when the threads are fast enough for it, and the cleanup is in order.   *)
(***************************************************************************)
EXTENDS MockSpot, TLAPS

\* What is assumed of the constants.
USE DtAssumption, FactorAssumption, LatesAssumption, TimeoutAssumption, MaxTimeAssumption

\* In which order the threads come and go.
InOrder ==
    /\ timerPc \in Unstarted => cmdPc = "none"
    /\ mainPc = "new_timer" => timerPc = "none"
    /\ mainPc = "run_timer" => timerPc = "created"
    /\ mainPc \in {"new_timer", "run_timer", "new_command_thread"} => cmdPc = "none"
    /\ mainPc = "run_command_thread" => cmdPc = "created"
    /\ mainPc \in {"new_command_thread", "run_command_thread", "listen"} =>
          timerPc \notin Unstarted
    /\ timerPc = "done" => stopping
    /\ stopping => mainPc \in {"join_state", "save", "saved", "aborted"} /\ CommandsOver
    /\ mainPc \in {"stop_state", "join_state", "save", "saved"} => CommandsOver
    /\ mainPc \in {"save", "saved"} => timerPc = "done"
    /\ mainPc = "aborted" /\ ~interrupted => timerPc \in Unstarted \/ cmdPc = "created"

\* Where there must be a state, and room for another event.
Stored ==
    /\ event => hasState
    /\ timerPc = "set" => hasState
    /\ cmdPc \in {"clear", "pause"} => hasState
    /\ cmdPc \in {"wait", "clear"} => count < Factor

\* The timer's next step is due soon.
TimerDue ==
    /\ timerPc \in {"started", "check", "set"} => timerDue <= clock + late
    /\ timerPc = "sleep" => timerDue <= clock + Dt - 1 + late

(***************************************************************************)
(* The deadline of the timer's next step, as far as it can have come       *)
(* without setting the event since the command thread began to wait.  This *)
(* is what both thresholds on `late' come from.                            *)
(***************************************************************************)
WaitBegan == waitEnd - Timeout

Deadline ==
    cmdPc = "wait" =>
        /\ WaitBegan \in 0..clock
        /\ ~event =>
             /\ timerPc = "started" => timerDue <= WaitBegan + late
             /\ timerPc = "check" => timerDue <= WaitBegan + 2 * late
             /\ timerPc = "sleep" => timerDue <= WaitBegan + 3 * late + Dt - 1
             /\ timerPc = "set" => timerDue <= WaitBegan + 4 * late + Dt - 1

\* The times of the timer: run_time is on the grid of its slots.
OnGrid ==
    /\ \E n \in Nat : run_time = startedAt + n * Dt
    /\ startedAt <= calledAt /\ calledAt <= clock
    /\ timerPc \in {"check", "set"} => run_time <= calledAt
    /\ timerPc = "sleep" => calledAt < run_time
    /\ timerPc \in Unstarted \cup {"started"} => run_time = 0

IInv ==
    /\ TypeOK
    /\ InOrder
    /\ Stored
    /\ TimerDue
    /\ Deadline
    /\ OnGrid
    /\ PolicyHasState

-----------------------------------------------------------------------------

\* The ceiling: the next slot is not over, and is the first that is not.
LEMMA CeilingOfSlots ==
    ASSUME NEW e \in Nat
    PROVE  /\ Slots(e) \in Nat
           /\ e <= Slots(e) * Dt
           /\ Slots(e) * Dt <= e + Dt - 1
<1> DEFINE y == e + Dt - 1
           q == y \div Dt
<1>1. y \in Nat /\ Dt \in Nat \ {0}
  OBVIOUS
<1>2. q \in Nat
  BY <1>1
<1>3. q * Dt <= y /\ y < q * Dt + Dt
  BY <1>1
<1>4. q * Dt \in Nat
  BY <1>1, <1>2
<1>5. Slots(e) = q
  BY DEF Slots
<1> HIDE DEF q
<1> QED
  BY <1>1, <1>2, <1>3, <1>4, <1>5

\* A moment before slot n is in an earlier one, and one from n on is not.
LEMMA SlotOfMoment ==
    ASSUME NEW d \in Nat, NEW n \in Nat
    PROVE  /\ d < n * Dt => d \div Dt < n
           /\ d >= n * Dt => d \div Dt >= n
OBVIOUS

LEMMA Initially ==
    ASSUME Init
    PROVE  IInv
<1> USE DEF Init
<1>1. TypeOK
  <2>1. late \in Lates /\ clock \in 0..MaxTime
    OBVIOUS
  <2>2. timerDue \in Nat /\ clock <= timerDue
    OBVIOUS
  <2>3. cmdDue \in Nat /\ clock <= cmdDue
    OBVIOUS
  <2>4. run_time \in 0..MaxTime + Dt /\ waitEnd \in 0..MaxTime + Timeout
    OBVIOUS
  <2>5. count \in 0..Factor /\ startedAt \in 0..MaxTime /\ calledAt \in 0..MaxTime
    OBVIOUS
  <2> QED
    BY <2>1, <2>2, <2>3, <2>4, <2>5 DEF TypeOK, Unstarted, MainPcs, TryPcs
<1>2. InOrder /\ Stored /\ TimerDue /\ Deadline /\ PolicyHasState
  BY DEF InOrder, Stored, TimerDue, Deadline, PolicyHasState,
     Unstarted, CommandsOver
<1>3. OnGrid
  <2>1. 0 \in Nat /\ run_time = startedAt + 0 * Dt
    OBVIOUS
  <2> QED
    BY <2>1 DEF OnGrid
<1> QED
  BY <1>1, <1>2, <1>3 DEF IInv

-----------------------------------------------------------------------------

\* Time goes on only until the next step is due.
LEMMA TickStep ==
    ASSUME IInv, Tick
    PROVE  IInv'
<1>1. CASE Tick
  <2> USE <1>1 DEF IInv, Tick, mainVars, timerVars, cmdVars, contextVars
  <2>1. TypeOK'
    BY DEF TypeOK
  <2>2. InOrder'
    BY DEF InOrder, Unstarted, CommandsOver
  <2>3. Stored'
    BY DEF Stored, TypeOK
  <2>4. TimerDue'
    BY DEF TimerDue, TypeOK
  <2>5. Deadline'
    BY DEF Deadline, TimerDue, Stored, InOrder, TypeOK, WaitBegan
  <2>6. OnGrid'
    BY DEF OnGrid, Unstarted, TypeOK
  <2>7. PolicyHasState'
    BY DEF PolicyHasState, Stored, Deadline, InOrder, TypeOK, WaitBegan
  <2> QED
    BY <2>1, <2>2, <2>3, <2>4, <2>5, <2>6, <2>7
<1> QED
  BY <1>1 DEF Tick

-----------------------------------------------------------------------------

\* The timer's thread: each of its steps sets the deadline of the next.
LEMMA TimerStep ==
    ASSUME IInv, Timer
    PROVE  IInv'
<1>1. CASE TimerStarts
  <2> USE <1>1 DEF IInv, TimerStarts, TimerGoes, Soon, mainVars, contextVars
  <2>1. TypeOK'
    BY DEF TypeOK
  <2>2. InOrder'
    BY DEF InOrder, Unstarted, CommandsOver
  <2>3. Stored'
    BY DEF Stored, TypeOK
  <2>4. TimerDue'
    BY DEF TimerDue, TypeOK
  <2>5. Deadline'
    BY DEF Deadline, TimerDue, Stored, InOrder, TypeOK, WaitBegan
  <2>6. OnGrid'
    BY DEF OnGrid, Unstarted, TypeOK
  <2>7. PolicyHasState'
    BY DEF PolicyHasState, Stored, Deadline, InOrder, TypeOK, WaitBegan
  <2> QED
    BY <2>1, <2>2, <2>3, <2>4, <2>5, <2>6, <2>7
<1>2. CASE TimerEnds
  <2> USE <1>2 DEF IInv, TimerEnds, TimerGoes, Soon, mainVars, contextVars
  <2>1. TypeOK'
    BY DEF TypeOK
  <2>2. InOrder'
    BY DEF InOrder, Unstarted, CommandsOver
  <2>3. Stored'
    BY DEF Stored, TypeOK
  <2>4. TimerDue'
    BY DEF TimerDue, TypeOK
  <2>5. Deadline'
    BY DEF Deadline, TimerDue, Stored, InOrder, TypeOK, WaitBegan
  <2>6. OnGrid'
    BY DEF OnGrid, Unstarted, TypeOK
  <2>7. PolicyHasState'
    BY DEF PolicyHasState, Stored, Deadline, InOrder, TypeOK, WaitBegan
  <2> QED
    BY <2>1, <2>2, <2>3, <2>4, <2>5, <2>6, <2>7
<1>3. CASE NextSlot
  <2> DEFINE e == clock - run_time
             slot == run_time + Slots(e) * Dt
  <2>a. /\ run_time \in Nat /\ clock \in 0..MaxTime /\ e \in Nat
        /\ run_time <= calledAt /\ calledAt \in Nat /\ clock > calledAt
        /\ late \in Nat /\ startedAt \in Nat
    BY <1>3 DEF IInv, OnGrid, TypeOK, NextSlot, TimerGoes
  <2>b. PICK m \in Nat : run_time = startedAt + m * Dt
    BY DEF IInv, OnGrid
  <2>c. Slots(e) \in Nat /\ Slots(e) * Dt \in Nat
    BY <2>a, CeilingOfSlots
  <2>d. /\ slot \in clock .. clock + Dt - 1
        /\ slot = startedAt + (m + Slots(e)) * Dt
    BY <2>a, <2>b, <2>c, CeilingOfSlots
  <2>e. /\ ~stopping /\ timerPc = "check" /\ timerPc' = "sleep"
        /\ run_time' = slot /\ timerDue' = slot + late
        /\ UNCHANGED <<late, clock, mainVars, cmdVars, stopping,
                       startedAt, calledAt, contextVars>>
    BY <1>3, <2>a, <2>c, <2>d DEF NextSlot, TimerGoes, cmdVars, contextVars, mainVars
  <2> HIDE DEF slot, e
  <2> USE <2>a, <2>d, <2>e DEF IInv, mainVars, cmdVars, contextVars
  <2>1. TypeOK'
    BY DEF TypeOK
  <2>2. InOrder'
    BY DEF InOrder, Unstarted, CommandsOver
  <2>3. Stored'
    BY DEF Stored, TypeOK
  <2>4. TimerDue'
    BY DEF TimerDue, TypeOK
  <2>5. Deadline'
    BY DEF Deadline, TimerDue, Stored, InOrder, TypeOK, WaitBegan
  <2>6. OnGrid'
    <3>1. m + Slots(e) \in Nat
      BY <2>c
    <3> QED
      BY <3>1 DEF OnGrid, Unstarted
  <2>7. PolicyHasState'
    BY DEF PolicyHasState, Stored, Deadline, InOrder, TypeOK, WaitBegan
  <2> QED
    BY <2>1, <2>2, <2>3, <2>4, <2>5, <2>6, <2>7
<1>4. CASE CallTarget
  <2> USE <1>4 DEF IInv, CallTarget, TimerGoes, Soon, mainVars, contextVars
  <2>1. TypeOK'
    BY DEF TypeOK
  <2>2. InOrder'
    BY DEF InOrder, Unstarted, CommandsOver
  <2>3. Stored'
    BY DEF Stored, TypeOK
  <2>4. TimerDue'
    BY DEF TimerDue, TypeOK
  <2>5. Deadline'
    BY DEF Deadline, TimerDue, Stored, InOrder, TypeOK, WaitBegan
  <2>6. OnGrid'
    BY DEF OnGrid, Unstarted, TypeOK
  <2>7. PolicyHasState'
    BY DEF PolicyHasState, Stored, Deadline, InOrder, TypeOK, WaitBegan
  <2> QED
    BY <2>1, <2>2, <2>3, <2>4, <2>5, <2>6, <2>7
<1>5. CASE SetEvent
  <2> USE <1>5 DEF IInv, SetEvent, TimerGoes, Soon, mainVars, contextVars, Wakes
  <2>1. TypeOK'
    BY DEF TypeOK
  <2>2. InOrder'
    BY DEF InOrder, Unstarted, CommandsOver
  <2>3. Stored'
    BY DEF Stored, TypeOK
  <2>4. TimerDue'
    BY DEF TimerDue, TypeOK
  <2>5. Deadline'
    BY DEF Deadline, TimerDue, Stored, InOrder, TypeOK, WaitBegan
  <2>6. OnGrid'
    BY DEF OnGrid, Unstarted, TypeOK
  <2>7. PolicyHasState'
    BY DEF PolicyHasState, Stored, Deadline, InOrder, TypeOK, WaitBegan
  <2> QED
    BY <2>1, <2>2, <2>3, <2>4, <2>5, <2>6, <2>7
<1> QED
  BY <1>1, <1>2, <1>3, <1>4, <1>5 DEF Timer

-----------------------------------------------------------------------------

\* The command thread: the wait it begins restarts the count of the deadlines.
LEMMA CommandStep ==
    ASSUME IInv, Command
    PROVE  IInv'
<1>1. CASE CheckCommandStopping
  <2> USE <1>1 DEF IInv, CheckCommandStopping, CmdGoes, Soon,
         mainVars, timerVars, contextVars, Wait
  <2>1. TypeOK'
    BY DEF TypeOK
  <2>2. InOrder'
    BY DEF InOrder, Unstarted, CommandsOver
  <2>3. Stored'
    BY DEF Stored, TypeOK
  <2>4. TimerDue'
    BY DEF TimerDue, TypeOK
  <2>5. Deadline'
    BY DEF Deadline, TimerDue, Stored, InOrder, TypeOK, WaitBegan
  <2>6. OnGrid'
    BY DEF OnGrid, Unstarted, TypeOK
  <2>7. PolicyHasState'
    BY DEF PolicyHasState, Stored, Deadline, InOrder, TypeOK, WaitBegan
  <2> QED
    BY <2>1, <2>2, <2>3, <2>4, <2>5, <2>6, <2>7
<1>2. CASE WaitReturns
  <2> USE <1>2 DEF IInv, WaitReturns, CmdGoes, Soon, mainVars, timerVars, contextVars
  <2>1. TypeOK'
    BY DEF TypeOK
  <2>2. InOrder'
    BY DEF InOrder, Unstarted, CommandsOver
  <2>3. Stored'
    BY DEF Stored, TypeOK
  <2>4. TimerDue'
    BY DEF TimerDue, TypeOK
  <2>5. Deadline'
    BY DEF Deadline, TimerDue, Stored, InOrder, TypeOK, WaitBegan
  <2>6. OnGrid'
    BY DEF OnGrid, Unstarted, TypeOK
  <2>7. PolicyHasState'
    BY DEF PolicyHasState, Stored, Deadline, InOrder, TypeOK, WaitBegan
  <2> QED
    BY <2>1, <2>2, <2>3, <2>4, <2>5, <2>6, <2>7
<1>3. CASE WaitTimesOut
  <2> USE <1>3 DEF IInv, WaitTimesOut, CmdGoes, Soon, mainVars, timerVars, contextVars
  <2>1. TypeOK'
    BY DEF TypeOK
  <2>2. InOrder'
    BY DEF InOrder, Unstarted, CommandsOver
  <2>3. Stored'
    BY DEF Stored, TypeOK
  <2>4. TimerDue'
    BY DEF TimerDue, TypeOK
  <2>5. Deadline'
    BY DEF Deadline, TimerDue, Stored, InOrder, TypeOK, WaitBegan
  <2>6. OnGrid'
    BY DEF OnGrid, Unstarted, TypeOK
  <2>7. PolicyHasState'
    BY DEF PolicyHasState, Stored, Deadline, InOrder, TypeOK, WaitBegan, CommandsOver
  <2> QED
    BY <2>1, <2>2, <2>3, <2>4, <2>5, <2>6, <2>7
<1>4. CASE ClearEvent
  <2> USE <1>4 DEF IInv, ClearEvent, CmdGoes, Soon, mainVars, timerVars, contextVars
  <2>1. TypeOK'
    <3>1. count' \in 0..Factor
      BY DEF Stored, TypeOK
    <3>2. cmdDue' \in Nat /\ clock' <= cmdDue'
      BY DEF TypeOK
    <3>3. cmdPc' = "pause" /\ event' = FALSE
      OBVIOUS
    <3> QED
      BY <3>1, <3>2, <3>3 DEF TypeOK
  <2>2. InOrder'
    BY DEF InOrder, Unstarted, CommandsOver
  <2>3. Stored'
    BY DEF Stored, TypeOK
  <2>4. TimerDue'
    BY DEF TimerDue, TypeOK
  <2>5. Deadline'
    BY DEF Deadline, TimerDue, Stored, InOrder, TypeOK, WaitBegan
  <2>6. OnGrid'
    BY DEF OnGrid, Unstarted, TypeOK
  <2>7. PolicyHasState'
    BY DEF PolicyHasState, Stored, Deadline, InOrder, TypeOK, WaitBegan
  <2> QED
    BY <2>1, <2>2, <2>3, <2>4, <2>5, <2>6, <2>7
<1>5. CASE PauseEnds
  <2> USE <1>5 DEF IInv, PauseEnds, CmdGoes, Soon,
         mainVars, timerVars, contextVars, Wait
  <2>1. TypeOK'
    BY DEF TypeOK
  <2>2. InOrder'
    BY DEF InOrder, Unstarted, CommandsOver
  <2>3. Stored'
    BY DEF Stored, TypeOK
  <2>4. TimerDue'
    BY DEF TimerDue, TypeOK
  <2>5. Deadline'
    BY DEF Deadline, TimerDue, Stored, InOrder, TypeOK, WaitBegan
  <2>6. OnGrid'
    BY DEF OnGrid, Unstarted, TypeOK
  <2>7. PolicyHasState'
    BY DEF PolicyHasState, Stored, Deadline, InOrder, TypeOK, WaitBegan
  <2> QED
    BY <2>1, <2>2, <2>3, <2>4, <2>5, <2>6, <2>7
<1>6. CASE CommandPolicy
  <2> USE <1>6 DEF IInv, CommandPolicy, CmdGoes, Soon, mainVars, timerVars, contextVars
  <2>1. TypeOK'
    BY DEF TypeOK
  <2>2. InOrder'
    BY DEF InOrder, Unstarted, CommandsOver
  <2>3. Stored'
    BY DEF Stored, TypeOK
  <2>4. TimerDue'
    BY DEF TimerDue, TypeOK
  <2>5. Deadline'
    BY DEF Deadline, TimerDue, Stored, InOrder, TypeOK, WaitBegan
  <2>6. OnGrid'
    BY DEF OnGrid, Unstarted, TypeOK
  <2>7. PolicyHasState'
    BY DEF PolicyHasState, Stored, Deadline, InOrder, TypeOK, WaitBegan
  <2> QED
    BY <2>1, <2>2, <2>3, <2>4, <2>5, <2>6, <2>7
<1>7. CASE CommandPolicyRaises
  <2> USE <1>7 DEF IInv, CommandPolicyRaises, CmdGoes, Soon, mainVars, timerVars, contextVars
  <2>1. TypeOK'
    BY DEF TypeOK
  <2>2. InOrder'
    BY DEF InOrder, Unstarted, CommandsOver
  <2>3. Stored'
    BY DEF Stored, TypeOK
  <2>4. TimerDue'
    BY DEF TimerDue, TypeOK
  <2>5. Deadline'
    BY DEF Deadline, TimerDue, Stored, InOrder, TypeOK, WaitBegan
  <2>6. OnGrid'
    BY DEF OnGrid, Unstarted, TypeOK
  <2>7. PolicyHasState'
    BY DEF PolicyHasState, Stored, Deadline, InOrder, TypeOK, WaitBegan
  <2> QED
    BY <2>1, <2>2, <2>3, <2>4, <2>5, <2>6, <2>7
<1> QED
  BY <1>1, <1>2, <1>3, <1>4, <1>5, <1>6, <1>7 DEF Command

-----------------------------------------------------------------------------

\* A step of main that leaves the threads where they are, though it may tell them
\* to stop.
LEMMA QuietStep ==
    ASSUME IInv,
           UNCHANGED <<late, clock, timerPc, timerDue, run_time, startedAt, calledAt,
                       cmdPc, cmdDue, waitEnd, count, event, hasState>>
    PROVE  Stored' /\ TimerDue' /\ Deadline' /\ OnGrid' /\ PolicyHasState'
BY DEF IInv, Stored, TimerDue, Deadline, WaitBegan, OnGrid, PolicyHasState

\* The main thread: it starts the threads one after the other, and only a timer
\* that runs can be followed by a command thread.
LEMMA MainStep ==
    ASSUME IInv, Main
    PROVE  IInv'
<1>1. CASE NewTimer
  <2> USE <1>1 DEF IInv, NewTimer, MainGoes, Soon, Unstarted, CommandsOver,
         MainPcs, TryPcs, FinallyPcs, timerVars, cmdVars, contextVars
  <2>1. TypeOK'
    BY DEF TypeOK
  <2>2. InOrder'
    BY DEF InOrder
  <2>3. Stored'
    BY DEF Stored, TypeOK
  <2>4. TimerDue'
    BY DEF TimerDue, TypeOK
  <2>5. Deadline'
    BY DEF Deadline, TimerDue, Stored, InOrder, TypeOK, WaitBegan
  <2>6. OnGrid'
    BY DEF OnGrid, InOrder, TypeOK
  <2>7. PolicyHasState'
    BY DEF PolicyHasState, Stored, Deadline, InOrder, TypeOK, WaitBegan
  <2> QED
    BY <2>1, <2>2, <2>3, <2>4, <2>5, <2>6, <2>7
<1>2. CASE RunTimer
  <2> USE <1>2 DEF IInv, RunTimer, MainGoes, Soon, Unstarted, CommandsOver,
         MainPcs, TryPcs, FinallyPcs, timerVars, cmdVars, contextVars
  <2>1. TypeOK'
    BY DEF TypeOK
  <2>2. InOrder'
    BY DEF InOrder
  <2>3. Stored'
    BY DEF Stored, TypeOK
  <2>4. TimerDue'
    BY DEF TimerDue, TypeOK
  <2>5. Deadline'
    BY DEF Deadline, TimerDue, Stored, InOrder, TypeOK, WaitBegan
  <2>6. OnGrid'
    BY DEF OnGrid, InOrder, TypeOK
  <2>7. PolicyHasState'
    BY DEF PolicyHasState, Stored, Deadline, InOrder, TypeOK, WaitBegan
  <2> QED
    BY <2>1, <2>2, <2>3, <2>4, <2>5, <2>6, <2>7
<1>3. CASE NewCommandThread
  <2> USE <1>3 DEF IInv, NewCommandThread, MainGoes, Soon, Unstarted, CommandsOver,
         MainPcs, TryPcs, FinallyPcs, timerVars, cmdVars, contextVars
  <2>1. TypeOK'
    BY DEF TypeOK
  <2>2. InOrder'
    BY DEF InOrder
  <2>3. Stored'
    BY DEF Stored, TypeOK
  <2>4. TimerDue'
    BY DEF TimerDue, TypeOK
  <2>5. Deadline'
    BY DEF Deadline, TimerDue, Stored, InOrder, TypeOK, WaitBegan
  <2>6. OnGrid'
    BY DEF OnGrid, InOrder, TypeOK
  <2>7. PolicyHasState'
    BY DEF PolicyHasState, Stored, Deadline, InOrder, TypeOK, WaitBegan
  <2> QED
    BY <2>1, <2>2, <2>3, <2>4, <2>5, <2>6, <2>7
<1>4. CASE RunCommandThread
  <2> USE <1>4 DEF IInv, RunCommandThread, MainGoes, Soon, Unstarted, CommandsOver,
         MainPcs, TryPcs, FinallyPcs, timerVars, cmdVars, contextVars
  <2>1. TypeOK'
    BY DEF TypeOK
  <2>2. InOrder'
    BY DEF InOrder
  <2>3. Stored'
    BY DEF Stored, TypeOK
  <2>4. TimerDue'
    BY DEF TimerDue, TypeOK
  <2>5. Deadline'
    BY DEF Deadline, TimerDue, Stored, InOrder, TypeOK, WaitBegan
  <2>6. OnGrid'
    BY DEF OnGrid, InOrder, TypeOK
  <2>7. PolicyHasState'
    BY DEF PolicyHasState, Stored, Deadline, InOrder, TypeOK, WaitBegan
  <2> QED
    BY <2>1, <2>2, <2>3, <2>4, <2>5, <2>6, <2>7
<1>5. CASE LeaveTry
  <2> USE <1>5 DEF IInv, LeaveTry, MainGoes, Unstarted, CommandsOver,
         MainPcs, TryPcs, FinallyPcs, timerVars, cmdVars, contextVars
  <2>1. TypeOK'
    BY DEF TypeOK
  <2>2. InOrder'
    BY DEF InOrder
  <2> QED
    BY <2>1, <2>2, QuietStep
<1>6. CASE StopCommandStream
  <2> USE <1>6 DEF IInv, StopCommandStream, MainGoes, Unstarted, CommandsOver,
         MainPcs, TryPcs, FinallyPcs, timerVars, cmdVars, contextVars
  <2>1. TypeOK'
    BY DEF TypeOK
  <2>2. InOrder'
    BY DEF InOrder
  <2> QED
    BY <2>1, <2>2, QuietStep
<1>7. CASE JoinCommandThread
  <2> USE <1>7 DEF IInv, JoinCommandThread, MainGoes, Unstarted, CommandsOver,
         MainPcs, TryPcs, FinallyPcs, timerVars, cmdVars, contextVars
  <2>1. TypeOK'
    BY DEF TypeOK
  <2>2. InOrder'
    BY DEF InOrder
  <2> QED
    BY <2>1, <2>2, QuietStep
<1>8. CASE StopStateStream
  <2> USE <1>8 DEF IInv, StopStateStream, MainGoes, Unstarted, CommandsOver,
         MainPcs, TryPcs, FinallyPcs, timerVars, cmdVars, contextVars
  <2>1. TypeOK'
    BY DEF TypeOK
  <2>2. InOrder'
    BY DEF InOrder
  <2> QED
    BY <2>1, <2>2, QuietStep
<1>9. CASE NoStateStream
  <2> USE <1>9 DEF IInv, NoStateStream, MainGoes, Unstarted, CommandsOver,
         MainPcs, TryPcs, FinallyPcs, timerVars, cmdVars, contextVars
  <2>1. TypeOK'
    BY DEF TypeOK
  <2>2. InOrder'
    BY DEF InOrder
  <2> QED
    BY <2>1, <2>2, QuietStep
<1>10. CASE JoinStateThread
  <2> USE <1>10 DEF IInv, JoinStateThread, MainGoes, Unstarted, CommandsOver,
         MainPcs, TryPcs, FinallyPcs, timerVars, cmdVars, contextVars
  <2>1. TypeOK'
    BY DEF TypeOK
  <2>2. InOrder'
    BY DEF InOrder
  <2> QED
    BY <2>1, <2>2, QuietStep
<1>11. CASE JoinRaises
  <2> USE <1>11 DEF IInv, JoinRaises, MainGoes, Unstarted, CommandsOver,
         MainPcs, TryPcs, FinallyPcs, timerVars, cmdVars, contextVars
  <2>1. TypeOK'
    BY DEF TypeOK
  <2>2. InOrder'
    BY DEF InOrder
  <2> QED
    BY <2>1, <2>2, QuietStep
<1>12. CASE SaveLog
  <2> USE <1>12 DEF IInv, SaveLog, MainGoes, Unstarted, CommandsOver,
         MainPcs, TryPcs, FinallyPcs, timerVars, cmdVars, contextVars
  <2>1. TypeOK'
    BY DEF TypeOK
  <2>2. InOrder'
    BY DEF InOrder
  <2> QED
    BY <2>1, <2>2, QuietStep
<1>13. CASE CleanupInterrupted
  <2> USE <1>13 DEF IInv, CleanupInterrupted, MainGoes, Unstarted, CommandsOver,
         MainPcs, TryPcs, FinallyPcs, timerVars, cmdVars, contextVars
  <2>1. TypeOK'
    BY DEF TypeOK
  <2>2. InOrder'
    BY DEF InOrder
  <2> QED
    BY <2>1, <2>2, QuietStep
<1> QED
  BY <1>1, <1>2, <1>3, <1>4, <1>5, <1>6, <1>7, <1>8, <1>9, <1>10, <1>11, <1>12, <1>13
     DEF Main, Startup, Cleanup

-----------------------------------------------------------------------------

\* A step that changes nothing.
LEMMA StutteringStep ==
    ASSUME IInv, UNCHANGED vars
    PROVE  IInv'
BY DEF IInv, TypeOK, InOrder, Stored, TimerDue, Deadline, WaitBegan, OnGrid, PolicyHasState,
       Unstarted, CommandsOver, vars, mainVars, timerVars, cmdVars, contextVars

\* Whatever the periods and delays, the strengthened invariant holds in every
\* state of the demo with the mock.
THEOREM MockInvariant == Spec => []IInv
<1>1. Init => IInv
  BY Initially
<1>2. IInv /\ [Next]_vars => IInv'
  BY TickStep, TimerStep, CommandStep, MainStep, StutteringStep DEF Next
<1> QED
  BY <1>1, <1>2, PTL DEF Spec

\* RepeatedTimer has called the state handler before the divider's first wait
\* can be over, if the threads are at most (Timeout - Dt) / 3 late: then the
\* command policy, which MockSpot calls after a timeout too, has a state.
THEOREM StateBeforePolicy == Spec => []PolicyHasState
<1>1. IInv => PolicyHasState
  BY DEF IInv
<1> QED
  BY <1>1, MockInvariant, PTL

\* stop_command_stream() joins a thread that is about to get its event, and not
\* one that sits out its timeout.  Wherever Ctrl-C breaks off the try block or the
\* cleanup, the timer is stopped after the command thread, the log is saved with
\* both down, and one interrupt loses it only while a thread is being started.
THEOREM PromptCleanup == Spec => []CleanupInOrder
<1>1. ASSUME IInv
      PROVE  CleanupInOrder
  <2>1. ASSUME Dt + 4 * late <= Timeout, mainPc = "join_command", cmdPc = "wait", ~event
        PROVE  clock < waitEnd
    <3>1. ~stopping
      BY <1>1, <2>1 DEF IInv, InOrder
    <3>2. timerPc \in {"started", "check", "sleep", "set"}
      BY <1>1, <2>1, <3>1 DEF IInv, InOrder, TypeOK, Unstarted
    <3> QED
      BY <1>1, <2>1, <3>2 DEF IInv, TypeOK, Deadline, WaitBegan
  <2>2. stopping => CommandsOver
    BY <1>1 DEF IInv, InOrder
  <2>3. mainPc = "saved" => timerPc = "done" /\ CommandsOver
    BY <1>1 DEF IInv, InOrder
  <2>4. mainPc = "aborted" /\ ~interrupted => timerPc \in Unstarted \/ cmdPc = "created"
    BY <1>1 DEF IInv, InOrder
  <2> QED
    BY <2>1, <2>2, <2>3, <2>4 DEF CleanupInOrder
<1> QED
  BY <1>1, MockInvariant, PTL

\* RepeatedTimer.run never sleeps for a negative time nor past a slot, and never
\* calls its target twice in one slot, however late it is.
THEOREM TimerKeepsToSlots == Spec => KeepsToSlots
<1> DEFINE Kept ==
      /\ timerPc = "check" /\ timerPc' = "sleep" => run_time' - clock \in 0..Dt - 1
      /\ calledAt' # calledAt /\ timerPc' = "set" => Slot(clock) > Slot(calledAt)
<1>1. ASSUME IInv, Next, timerPc = "check", timerPc' = "sleep"
      PROVE  run_time' - clock \in 0..Dt - 1
  <2>1. NextSlot
    BY <1>1 DEF Next, Tick, Timer, TimerStarts, TimerEnds, CallTarget, SetEvent, TimerGoes,
         Command, CheckCommandStopping, Wait, WaitReturns, WaitTimesOut, ClearEvent,
         PauseEnds, CommandPolicy, CommandPolicyRaises, CmdGoes,
         Main, Startup, NewTimer, RunTimer, NewCommandThread, RunCommandThread, LeaveTry,
         Cleanup, StopCommandStream, JoinCommandThread, StopStateStream, NoStateStream,
         JoinStateThread, JoinRaises, SaveLog, CleanupInterrupted, timerVars
  <2> DEFINE e == clock - run_time
  <2>2. run_time \in Nat /\ clock \in Nat /\ e \in Nat
    BY <1>1 DEF IInv, OnGrid, TypeOK
  <2>3. run_time' = run_time + Slots(e) * Dt
    BY <2>1 DEF NextSlot
  <2>4. Slots(e) * Dt \in Nat
    BY <2>2, CeilingOfSlots
  <2> HIDE DEF e
  <2>5. Slots(e) * Dt \in e .. e + Dt - 1
    BY <2>2, <2>4, CeilingOfSlots
  <2> QED
    BY <2>2, <2>3, <2>5 DEF e
<1>2. ASSUME IInv, Next, calledAt' # calledAt, timerPc' = "set"
      PROVE  Slot(clock) > Slot(calledAt)
  <2>1. CallTarget
    BY <1>2 DEF Next, Tick, Timer, TimerStarts, TimerEnds, NextSlot, SetEvent, TimerGoes,
         Command, CheckCommandStopping, Wait, WaitReturns, WaitTimesOut, ClearEvent,
         PauseEnds, CommandPolicy, CommandPolicyRaises, CmdGoes,
         Main, Startup, NewTimer, RunTimer, NewCommandThread, RunCommandThread, LeaveTry,
         Cleanup, StopCommandStream, JoinCommandThread, StopStateStream, NoStateStream,
         JoinStateThread, JoinRaises, SaveLog, CleanupInterrupted, timerVars
  <2>2. PICK n \in Nat : run_time = startedAt + n * Dt
    BY <1>2 DEF IInv, OnGrid
  <2>3. n * Dt \in Nat
    BY <2>2
  <2>4. /\ calledAt - startedAt \in Nat /\ calledAt - startedAt < n * Dt
        /\ clock - startedAt \in Nat /\ clock - startedAt >= n * Dt
    BY <1>2, <2>1, <2>2, <2>3 DEF IInv, OnGrid, TypeOK, CallTarget, TimerGoes
  <2>5. /\ (calledAt - startedAt) \div Dt \in Nat
        /\ (clock - startedAt) \div Dt \in Nat
    BY <2>4
  <2>6. (calledAt - startedAt) \div Dt < n
    BY <2>4, SlotOfMoment
  <2>7. (clock - startedAt) \div Dt >= n
    BY <2>4, SlotOfMoment
  <2> QED
    BY <2>5, <2>6, <2>7 DEF Slot
<1>3. IInv /\ [Next]_vars => [Kept]_vars
  BY <1>1, <1>2
<1> QED
  BY <1>3, MockInvariant, PTL DEF Spec, KeepsToSlots
=============================================================================
