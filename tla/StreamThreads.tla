--------------------------- MODULE StreamThreads ---------------------------
(***************************************************************************)
(* The two streams of spot.py as the threads that serve them, without the  *)
(* data that flows through them.                                           *)
(*                                                                         *)
(* The state thread runs Spot._handle_state_stream: it waits for a state,  *)
(* calls StateHandler, which stores the state and sets an event, and looks *)
(* at its stop flag.  The generator Spot._command_stream_loop runs while   *)
(* the streaming call is open, whenever gRPC wants a request: it looks at  *)
(* its own flag, waits in EventDivider for Factor events, calls the        *)
(* command policy and yields; after the first yield it activates joint     *)
(* control.  The threads share the event and the two flags, unlocked.      *)
(*                                                                         *)
(* ControlLoop adds the data to these steps, SpotDemo the main thread.     *)
(***************************************************************************)
EXTENDS Integers

CONSTANT Factor     \* events per command: EventDivider(context, 6) in the demo

ASSUME FactorAssumption == Factor \in Nat \ {0}

VARIABLES
    event,          \* context.event: TRUE when set
    stPc,           \* where the state thread is
    genPc,          \* where the generator is
    count,          \* EventDivider.__call__'s count
    activated,      \* _command_stream_loop's activated
    command_stream_stopping,
    state_stream_stopping

stopVars == <<command_stream_stopping, state_stream_stopping>>

vars == <<event, stPc, genPc, count, activated, stopVars>>

StatePcs == {"off", "recv", "stored", "check", "done"}

DividerPcs == {"wait", "clear", "sleep"}

\* The command policy reads the context at these.
ReadPcs == {"policy", "inputs", "proto", "log"}

PolicyPcs == ReadPcs \cup {"commit"}

\* The generator will produce nothing more.
OverPcs == {"ended", "raised", "dropped"}

GenPcs == {"off", "loop", "send", "activate"}
              \cup DividerPcs \cup PolicyPcs \cup OverPcs

Init ==
    /\ event = FALSE
    /\ stPc = "off"
    /\ genPc = "off"
    /\ count = 0
    /\ activated = FALSE
    /\ command_stream_stopping = FALSE
    /\ state_stream_stopping = FALSE

-----------------------------------------------------------------------------
(* The state thread: Spot._handle_state_stream and StateHandler.__call__.  *)

StateStep(from, to) ==
    /\ stPc = from
    /\ stPc' = to
    /\ UNCHANGED <<genPc, count, activated, stopVars>>

StartStateThread == StateStep("off", "recv") /\ UNCHANGED event

\* The next message arrives; the callback stores it first ...
StoreState == StateStep("recv", "stored") /\ UNCHANGED event

\* ... and then wakes the divider.
SetEvent == StateStep("stored", "check") /\ event' = TRUE

\* A bug to look for: the state thread never looks at its stop flag.
KeepStreaming == StateStep("check", "recv") /\ UNCHANGED event

CheckStateStopping ==
    /\ StateStep("check", IF state_stream_stopping THEN "done" ELSE "recv")
    /\ UNCHANGED event

\* The stream ends or breaks: the for loop is left, or the thread dies.
StateStreamEnds == StateStep("recv", "done") /\ UNCHANGED event

-----------------------------------------------------------------------------
(* The generator: Spot._command_stream_loop ...                            *)

GenStep(from, to) ==
    /\ genPc = from
    /\ genPc' = to
    /\ UNCHANGED <<stPc, stopVars>>

StartGenerator ==
    /\ GenStep("off", "loop")
    /\ UNCHANGED <<event, count, activated>>

\* A bug to look for: the loop never looks at the stop flag.
LoopForever ==
    /\ GenStep("loop", "wait")
    /\ count' = 0
    /\ UNCHANGED <<event, activated>>

\* while not self._command_stream_stopping: and the call of timing_policy.
CheckCommandStopping ==
    /\ GenStep("loop", IF command_stream_stopping THEN "ended" ELSE "wait")
    /\ count' = 0
    /\ UNCHANGED <<event, activated>>

(* ... its timing policy, EventDivider.__call__ ...                        *)

WaitReturns ==
    /\ event
    /\ GenStep("wait", "clear")
    /\ UNCHANGED <<event, count, activated>>

\* A bug to look for: the False of the timing policy is not looked at.
TimeoutIgnored ==
    /\ ~event
    /\ GenStep("wait", "policy")
    /\ UNCHANGED <<event, count, activated>>

\* A bug to look for: a timeout starts the wait over, for ever.
TimeoutRetried ==
    /\ ~event
    /\ GenStep("wait", "loop")
    /\ UNCHANGED <<event, count, activated>>

\* event.wait(1) gives up, the timing policy returns False, the loop returns.
WaitTimesOut ==
    /\ ~event
    /\ GenStep("wait", "ended")
    /\ UNCHANGED <<event, count, activated>>

\* A bug to look for: the event stays set, and one state counts many times.
CountOnly ==
    /\ GenStep("clear", "sleep")
    /\ count' = count + 1
    /\ UNCHANGED <<event, activated>>

\* Whatever set the event since wait returned is forgotten too.
ClearEvent ==
    /\ GenStep("clear", "sleep")
    /\ count' = count + 1
    /\ event' = FALSE
    /\ UNCHANGED activated

\* A bug to look for: the divider waits for an event too few.
SleepReturnsEarly ==
    /\ GenStep("sleep", IF count + 1 < Factor THEN "wait" ELSE "policy")
    /\ UNCHANGED <<event, count, activated>>

SleepReturns ==
    /\ GenStep("sleep", IF count < Factor THEN "wait" ELSE "policy")
    /\ UNCHANGED <<event, count, activated>>

(* ... its command policy, OnnxCommandGenerator.__call__, with a step for  *)
(* each read of context.latest_state ...                                   *)

PolicyStep(from, to) == GenStep(from, to) /\ UNCHANGED <<event, count, activated>>

CacheInitPos == PolicyStep("policy", "inputs")
CollectInputs == PolicyStep("inputs", "proto")
CreateProto == PolicyStep("proto", "log")
LogState == PolicyStep("log", "commit")
CommitAction == PolicyStep("commit", "send")

\* The policy raises, anywhere; the exception ends the generator.
PolicyRaises == \E pc \in ReadPcs : PolicyStep(pc, "raised")

(* ... and the loop again, once gRPC asks for another request.             *)

\* gRPC sends the command and resumes the generator after its yield.
SendCommand ==
    /\ GenStep("send", IF activated THEN "loop" ELSE "activate")
    /\ UNCHANGED <<event, count, activated>>

\* The call is over: gRPC drops the command and never resumes the generator.
DropCommand == PolicyStep("send", "dropped")

\* A bug to look for: joint control is activated after every command.
ActivateAgain == PolicyStep("activate", "loop")

ActivateJointControl ==
    /\ GenStep("activate", "loop")
    /\ activated' = TRUE
    /\ UNCHANGED <<event, count>>

\* robot_command raises; the exception ends the generator.
ActivationFails == PolicyStep("activate", "raised")

-----------------------------------------------------------------------------
(* The stop flags, set from the main thread and never reset.               *)

StopCommandStream ==
    /\ command_stream_stopping' = TRUE
    /\ UNCHANGED <<event, stPc, genPc, count, activated, state_stream_stopping>>

StopStateStream ==
    /\ state_stream_stopping' = TRUE
    /\ UNCHANGED <<event, stPc, genPc, count, activated, command_stream_stopping>>

-----------------------------------------------------------------------------

\* What the state thread does by itself; StoreState waits for the robot.
StateCallback == SetEvent \/ CheckStateStopping

TimingPolicy == WaitReturns \/ WaitTimesOut \/ ClearEvent \/ SleepReturns

CommandPolicy ==
    \/ CacheInitPos
    \/ CollectInputs
    \/ CreateProto
    \/ LogState
    \/ CommitAction
    \/ PolicyRaises

Resumed == SendCommand \/ DropCommand \/ ActivateJointControl \/ ActivationFails

Generator == CheckCommandStopping \/ TimingPolicy \/ CommandPolicy \/ Resumed

StateThread == StateCallback \/ StoreState \/ StateStreamEnds

Control ==
    \/ StartStateThread
    \/ StartGenerator
    \/ StopCommandStream
    \/ StopStateStream

Next == StateThread \/ Generator \/ Control

Spec == Init /\ [][Next]_vars

(***************************************************************************)
(* A thread that can take a step takes it: the interpreter schedules every *)
(* thread, event.wait has a timeout, and gRPC either sends a request or    *)
(* gives the call up.  Nothing is assumed of the robot, nor that anybody   *)
(* starts or stops a stream.                                               *)
(***************************************************************************)
Fairness == WF_vars(StateCallback) /\ WF_vars(Generator)

FairSpec == Spec /\ Fairness

-----------------------------------------------------------------------------

\* The event, the flags and the divider's count keep their types, and both
\* threads are at one of their program points.
TypeOK ==
    /\ event \in BOOLEAN
    /\ stPc \in StatePcs
    /\ genPc \in GenPcs
    /\ count \in 0..Factor
    /\ activated \in BOOLEAN
    /\ command_stream_stopping \in BOOLEAN
    /\ state_stream_stopping \in BOOLEAN

\* The divider never counts beyond Factor, lets a command through at exactly
\* Factor, and clears an event that is set.
CountInv ==
    /\ genPc \in {"wait", "clear"} => count < Factor
    /\ genPc = "clear" => event
    /\ genPc = "sleep" => count > 0
    /\ genPc \in PolicyPcs => count = Factor

\* A stop is honoured: once stop_command_stream has set its flag, a generator
\* that runs comes to its end, whether the state stream goes on for ever, falls
\* silent or ends.
StopEndsGenerator ==
    command_stream_stopping /\ genPc # "off" ~> genPc \in OverPcs

\* No command without a state: as long as the state thread was not started, no
\* event is set and the divider lets nothing through; it can only time out.
CommandsNeedStates ==
    stPc = "off" => ~event /\ genPc \in {"off", "loop", "wait", "ended"}
=============================================================================
