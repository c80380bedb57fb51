------------------------------ MODULE MockSpot ------------------------------
(***************************************************************************)
(* spot_rl_demo.py --mock: mock_spot.py in the place of the robot.  A      *)
(* RepeatedTimer hands the same state to the state handler every Dt; the   *)
(* command thread calls the timing policy and then the command policy,     *)
(* whatever the timing policy has answered.  That the command policy never *)
(* runs without a state is then a matter of time, and the model has a      *)
(* clock.  Ctrl-C can come between any two statements of main, in the      *)
(* cleanup too.                                                            *)
(*                                                                         *)
(* A thread takes its next step at most `late' after it could have, which  *)
(* includes the divider's sleep of a millisecond; how late the threads of  *)
(* a run may be depends on the machine.  What happens between two readings *)
(* of the timer's clock takes some time.                                   *)
(***************************************************************************)
EXTENDS Integers

CONSTANTS
    Dt,         \* dt_seconds of the timer
    Factor,     \* events per command
    Timeout,    \* of the divider's wait, one second
    Lates,      \* how late the threads of a run may be
    MaxTime     \* bound: time that is looked at

ASSUME DtAssumption == Dt \in Nat \ {0}
ASSUME FactorAssumption == Factor \in Nat \ {0}
ASSUME LatesAssumption == Lates \subseteq (Nat \ {0})
ASSUME TimeoutAssumption == Timeout \in Nat \ {0}
ASSUME MaxTimeAssumption == MaxTime \in Nat

VARIABLES
    late,                       \* how late a thread may be
    clock,                      \* time.monotonic()
    mainPc,                     \* where the main thread is
    interrupted,                \* history: the finally clause was broken off
    timerPc, timerDue,          \* the timer's thread, and when it goes on at the latest
    run_time, stopping,         \* of RepeatedTimer
    cmdPc, cmdDue,              \* the command thread
    waitEnd,                    \* when the divider's wait ends
    count,                      \* of EventDivider.__call__
    command_stream_stopping,
    event, hasState,            \* of the controller's context
    startedAt, calledAt         \* history: when the timer started, and last called

mainVars == <<mainPc, interrupted>>
timerVars == <<timerPc, timerDue, run_time, stopping, startedAt, calledAt>>
cmdVars == <<cmdPc, cmdDue, waitEnd, count, command_stream_stopping>>
contextVars == <<event, hasState>>
vars == <<late, clock, mainVars, timerVars, cmdVars, contextVars>>

Soon == clock + late

\* The statements of the try block, and those of the finally clause.
TryPcs == {"new_timer", "run_timer", "new_command_thread", "run_command_thread", "listen"}

FinallyPcs == {"stop_command", "join_command", "stop_state", "join_state", "save"}

\* "aborted": an exception has left the finally clause.
MainPcs == TryPcs \cup FinallyPcs \cup {"saved", "aborted"}

\* "created": the thread is assigned to its attribute, but not started yet.
Unstarted == {"none", "created"}

Init ==
    /\ late \in Lates
    /\ clock = 0
    /\ mainPc = "new_timer" /\ interrupted = FALSE
    /\ timerPc = "none" /\ timerDue = MaxTime
    /\ run_time = 0 /\ stopping = FALSE
    /\ cmdPc = "none" /\ cmdDue = MaxTime
    /\ waitEnd = 0 /\ count = 0
    /\ command_stream_stopping = FALSE
    /\ event = FALSE /\ hasState = FALSE
    /\ startedAt = 0 /\ calledAt = 0

\* Time begins when the timer is started: nothing is due before.
Tick ==
    /\ clock < MaxTime
    /\ timerPc \notin Unstarted
    /\ clock < timerDue /\ clock < cmdDue
    /\ clock' = clock + 1
    /\ UNCHANGED <<late, mainVars, timerVars, cmdVars, contextVars>>

-----------------------------------------------------------------------------
(* RepeatedTimer.run, and StateHandler, which it calls.                    *)

TimerGoes(from, to, due) ==
    /\ timerPc = from /\ timerPc' = to /\ timerDue' = due
    /\ UNCHANGED <<late, clock, mainVars, cmdPc, waitEnd, count, command_stream_stopping>>

\* The command thread is woken if it waits for the event.
Wakes == cmdDue' = IF cmdPc = "wait" /\ cmdDue > Soon THEN Soon ELSE cmdDue

\* run_time = time.monotonic()
TimerStarts ==
    /\ TimerGoes("started", "check", Soon)
    /\ run_time' = clock
    /\ startedAt' = clock /\ calledAt' = clock
    /\ UNCHANGED <<stopping, cmdDue, contextVars>>

\* A bug to look for: the next slot, even if it is long over.
SlotsOne(elapsed) == 1

\* num_dt, math.ceil((now - run_time) / dt_seconds).
Slots(elapsed) == (elapsed + Dt - 1) \div Dt

\* Told to stop, it ends.
TimerEnds ==
    /\ stopping
    /\ TimerGoes("check", "done", MaxTime)
    /\ UNCHANGED <<run_time, stopping, startedAt, calledAt, cmdDue, contextVars>>

\* run_time is advanced to the next slot, and the sleep until then begins.
NextSlot ==
    LET slot == run_time + Slots(clock - run_time) * Dt
    IN  /\ ~stopping
        /\ clock > calledAt
        /\ TimerGoes("check", "sleep",
                     (IF slot > clock THEN slot ELSE clock) + late)
        /\ run_time' = slot
        /\ UNCHANGED <<stopping, startedAt, calledAt, cmdDue, contextVars>>

\* The sleep is over and the target is called: it stores the state ...
CallTarget ==
    /\ clock >= run_time
    /\ TimerGoes("sleep", "set", Soon)
    /\ hasState' = TRUE
    /\ calledAt' = clock
    /\ UNCHANGED <<run_time, stopping, startedAt, cmdDue, event>>

\* ... and sets the event.
SetEvent ==
    /\ TimerGoes("set", "check", Soon)
    /\ event' = TRUE /\ Wakes
    /\ hasState' = TRUE
    /\ UNCHANGED <<run_time, stopping, startedAt, calledAt>>

-----------------------------------------------------------------------------
(* MockSpot._commandUpdate, with the divider and the command policy.       *)

CmdGoes(from, to, due) ==
    /\ cmdPc = from /\ cmdPc' = to /\ cmdDue' = due
    /\ UNCHANGED <<late, clock, mainVars, timerVars, command_stream_stopping>>

Wait(from) ==
    /\ CmdGoes(from, "wait", IF event THEN Soon ELSE clock + Timeout + late)
    /\ waitEnd' = clock + Timeout

CheckCommandStopping ==
    /\ \/ /\ command_stream_stopping
          /\ CmdGoes("check", "done", MaxTime)
          /\ UNCHANGED waitEnd
       \/ ~command_stream_stopping /\ Wait("check")
    /\ count' = 0
    /\ UNCHANGED contextVars

WaitReturns ==
    /\ event
    /\ CmdGoes("wait", "clear", Soon)
    /\ waitEnd' = 0
    /\ UNCHANGED <<count, contextVars>>

\* A bug to look for: the event is polled, not waited for.
WaitPolls ==
    /\ CmdGoes("wait", "policy", Soon)
    /\ waitEnd' = 0
    /\ UNCHANGED <<count, contextVars>>

\* The answer False is not looked at: the policy runs.
WaitTimesOut ==
    /\ clock >= waitEnd
    /\ CmdGoes("wait", "policy", Soon)
    /\ waitEnd' = 0
    /\ UNCHANGED <<count, contextVars>>

ClearEvent ==
    /\ CmdGoes("clear", "pause", Soon)
    /\ count' = count + 1
    /\ event' = FALSE
    /\ UNCHANGED <<waitEnd, hasState>>

PauseEnds ==
    /\ \/ count < Factor /\ Wait("pause")
       \/ count = Factor /\ CmdGoes("pause", "policy", Soon) /\ UNCHANGED waitEnd
    /\ UNCHANGED <<count, contextVars>>

\* The command goes nowhere.
CommandPolicy ==
    /\ hasState
    /\ CmdGoes("policy", "check", Soon)
    /\ UNCHANGED <<waitEnd, count, contextVars>>

\* latest_state is None, which has no joint_states: the thread dies.
CommandPolicyRaises ==
    /\ ~hasState
    /\ CmdGoes("policy", "raised", MaxTime)
    /\ UNCHANGED <<waitEnd, count, contextVars>>

-----------------------------------------------------------------------------
(* The main thread: the try block.                                         *)

MainGoes(from, to) ==
    /\ mainPc = from /\ mainPc' = to
    /\ UNCHANGED <<late, clock, interrupted, contextVars>>

NewTimer ==
    /\ MainGoes("new_timer", "run_timer")
    /\ timerPc' = "created"
    /\ UNCHANGED <<timerDue, run_time, stopping, startedAt, calledAt, cmdVars>>

RunTimer ==
    /\ MainGoes("run_timer", "new_command_thread")
    /\ timerPc' = "started" /\ timerDue' = Soon
    /\ UNCHANGED <<run_time, stopping, startedAt, calledAt, cmdVars>>

NewCommandThread ==
    /\ MainGoes("new_command_thread", "run_command_thread")
    /\ cmdPc' = "created"
    /\ UNCHANGED <<timerVars, cmdDue, waitEnd, count, command_stream_stopping>>

RunCommandThread ==
    /\ MainGoes("run_command_thread", "listen")
    /\ cmdPc' = "check" /\ cmdDue' = Soon
    /\ UNCHANGED <<timerVars, waitEnd, count, command_stream_stopping>>

\* Ctrl-C or an exception at any statement, or the end of listen().
LeaveTry ==
    /\ mainPc \in TryPcs
    /\ MainGoes(mainPc, "stop_command")
    /\ UNCHANGED <<timerVars, cmdVars>>

-----------------------------------------------------------------------------
(* The main thread: the finally clause.                                    *)

\* A bug to look for: the timer is stopped first.
StopCommandStreamTimerToo ==
    /\ MainGoes("stop_command", IF cmdPc = "none" THEN "stop_state" ELSE "join_command")
    /\ command_stream_stopping' = (cmdPc # "none")
    /\ stopping' = TRUE
    /\ UNCHANGED <<timerPc, timerDue, run_time, startedAt, calledAt,
                   cmdPc, cmdDue, waitEnd, count>>

StopCommandStream ==
    /\ MainGoes("stop_command", IF cmdPc = "none" THEN "stop_state" ELSE "join_command")
    /\ command_stream_stopping' = (cmdPc # "none")
    /\ UNCHANGED <<timerVars, cmdPc, cmdDue, waitEnd, count>>

JoinCommandThread ==
    /\ cmdPc \in {"done", "raised"}
    /\ MainGoes("join_command", "stop_state")
    /\ UNCHANGED <<timerVars, cmdVars>>

StopStateStream ==
    /\ timerPc # "none"
    /\ MainGoes("stop_state", "join_state")
    /\ stopping' = TRUE
    /\ UNCHANGED <<timerPc, timerDue, run_time, startedAt, calledAt, cmdVars>>

\* _stateUpdates is an attribute only once a timer has been created.
NoStateStream ==
    /\ timerPc = "none"
    /\ MainGoes("stop_state", "aborted")
    /\ UNCHANGED <<timerVars, cmdVars>>

JoinStateThread ==
    /\ timerPc = "done"
    /\ MainGoes("join_state", "save")
    /\ UNCHANGED <<timerVars, cmdVars>>

\* join() raises for a thread that LeaveTry kept from being started.
JoinRaises ==
    /\ \/ cmdPc = "created" /\ MainGoes("join_command", "aborted")
       \/ timerPc = "created" /\ MainGoes("join_state", "aborted")
    /\ UNCHANGED <<timerVars, cmdVars>>

SaveLog ==
    /\ MainGoes("save", "saved")
    /\ UNCHANGED <<timerVars, cmdVars>>

\* Another Ctrl-C while main cleans up, or save() raises: the rest is skipped,
\* and the threads live on.
CleanupInterrupted ==
    /\ mainPc \in FinallyPcs
    /\ mainPc' = "aborted" /\ interrupted' = TRUE
    /\ UNCHANGED <<late, clock, timerVars, cmdVars, contextVars>>

Timer == TimerStarts \/ TimerEnds \/ NextSlot \/ CallTarget \/ SetEvent

Command ==
    \/ CheckCommandStopping
    \/ WaitReturns
    \/ WaitTimesOut
    \/ ClearEvent
    \/ PauseEnds
    \/ CommandPolicy
    \/ CommandPolicyRaises

Startup ==
    \/ NewTimer
    \/ RunTimer
    \/ NewCommandThread
    \/ RunCommandThread

Cleanup ==
    \/ StopCommandStream
    \/ JoinCommandThread
    \/ StopStateStream
    \/ NoStateStream
    \/ JoinStateThread
    \/ JoinRaises
    \/ SaveLog

Main == Startup \/ LeaveTry \/ Cleanup \/ CleanupInterrupted

Next == Tick \/ Timer \/ Command \/ Main

Spec == Init /\ [][Next]_vars

-----------------------------------------------------------------------------

\* The threads are where they can be, and nothing is later than allowed.
TypeOK ==
    /\ late \in Lates
    /\ clock \in 0..MaxTime
    /\ mainPc \in MainPcs
    /\ interrupted \in BOOLEAN
    /\ timerPc \in Unstarted \cup {"started", "check", "sleep", "set", "done"}
    /\ cmdPc \in Unstarted \cup {"check", "wait", "clear", "pause", "policy", "done", "raised"}
    /\ timerDue \in Nat /\ clock <= timerDue
    /\ cmdDue \in Nat /\ clock <= cmdDue
    /\ run_time \in 0..MaxTime + Dt
    /\ waitEnd \in 0..MaxTime + Timeout
    /\ count \in 0..Factor
    /\ stopping \in BOOLEAN /\ command_stream_stopping \in BOOLEAN
    /\ event \in BOOLEAN /\ hasState \in BOOLEAN
    /\ startedAt \in 0..MaxTime
    /\ calledAt \in 0..MaxTime

Slot(t) == (t - startedAt) \div Dt

\* The timer keeps to its slots.  It never asks for a negative sleep, which
\* raises, nor for one that skips a slot it could still have met; and however
\* late it is called, it never makes up for the slots it has missed by calling
\* twice in one.
KeepsToSlots ==
    [][/\ timerPc = "check" /\ timerPc' = "sleep" => run_time' - clock \in 0..Dt - 1
       /\ calledAt' # calledAt /\ timerPc' = "set" => Slot(clock) > Slot(calledAt)]_vars

\* On a machine that is not too slow the command policy, which the mock calls
\* even after a timeout, always finds a state: the timer has called before the
\* divider's first wait is over.
PolicyHasState ==
    Dt + 3 * late <= Timeout /\ cmdPc = "policy" => hasState

\* The command thread is down, or there never was one.
CommandsOver == cmdPc \in {"none", "done", "raised"}

\* The cleanup is prompt and in order, wherever Ctrl-C comes, once or again.
\* The join of the command thread doesn't wait for a timeout: the timer runs on,
\* so the divider gets its events.  The timer is not told to stop before the
\* command thread is down, not even by a cleanup that is broken off.  The log is
\* saved with both threads down, even if the command thread has died.  And the
\* log is lost, without a second interrupt, only to a first one before the timer
\* was started, or between the creation of the command thread and its start.
CleanupInOrder ==
    /\ Dt + 4 * late <= Timeout /\ mainPc = "join_command" /\ cmdPc = "wait" =>
          event \/ clock < waitEnd
    /\ stopping => CommandsOver
    /\ mainPc = "saved" => timerPc = "done" /\ CommandsOver
    /\ mainPc = "aborted" /\ ~interrupted => timerPc \in Unstarted \/ cmdPc = "created"
=============================================================================
