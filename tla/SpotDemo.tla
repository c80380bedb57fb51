------------------------------ MODULE SpotDemo -----------------------------
(***************************************************************************)
(* The life of one run of spot_rl_demo.py on a robot: the main thread      *)
(* takes the lease, powers the robot on, starts both streams and listens   *)
(* to the keyboard; whatever ends that, its finally clause stops the       *)
(* command stream, then the state stream, then saves the log, and the with *)
(* statement returns the lease.                                            *)
(*                                                                         *)
(* The command thread, Spot._run_command_stream, sits in the streaming     *)
(* call while gRPC runs the generator, and powers the robot off once the   *)
(* call has returned.  The steps of the state thread and of the generator  *)
(* are those of StreamThreads.                                             *)
(***************************************************************************)
EXTENDS Integers

CONSTANT Factor     \* events per command

ASSUME FactorAssumption == Factor \in Nat \ {0}

VARIABLES
    event, stPc, genPc, count, activated,               \* see StreamThreads
    command_stream_stopping, state_stream_stopping,
    mainPc,         \* where the main thread is
    stateThread,    \* _state_thread: "none", "created" or "started"
    runPc,          \* _command_thread: "none", "created" or where it is
    lease,          \* TRUE while LeaseKeepAlive holds the lease
    powered,        \* TRUE while the robot's motors have power
    cutShort,       \* history: the call was over before the generator was
    saved           \* logger.save() has written the log

threadVars == <<event, stPc, genPc, count, activated,
                command_stream_stopping, state_stream_stopping>>
robotVars == <<lease, powered>>

vars == <<threadVars, mainPc, stateThread, runPc, robotVars, cutShort, saved>>

Threads == INSTANCE StreamThreads

\* The try block, statement by statement, and the finally clause.
TryPcs == {"power_on", "stand", "new_state_thread", "run_state_thread",
           "new_command_thread", "run_command_thread", "listen"}

FinallyPcs == {"stop_command", "join_command", "stop_state", "join_state",
               "save", "leave"}

\* "aborted": an exception left the finally clause and the with statement.
MainPcs == TryPcs \cup FinallyPcs \cup {"exited", "aborted"}

\* "rpc": in send_joint_control_commands; "power_off": after it.
RunPcs == {"none", "created", "rpc", "power_off", "done", "failed"}

Init ==
    /\ Threads!Init
    /\ mainPc = "power_on"
    /\ stateThread = "none"
    /\ runPc = "none"
    /\ lease = TRUE
    /\ powered = FALSE
    /\ cutShort = FALSE
    /\ saved = FALSE

-----------------------------------------------------------------------------
(* The main thread: the try block.                                         *)

MainStep(from, to) == mainPc = from /\ mainPc' = to

PowerOn ==
    /\ MainStep("power_on", "stand")
    /\ powered' = TRUE
    /\ UNCHANGED <<threadVars, stateThread, runPc, lease, cutShort, saved>>

Stand ==
    /\ MainStep("stand", "new_state_thread")
    /\ UNCHANGED <<threadVars, stateThread, runPc, robotVars, cutShort, saved>>

NewStateThread ==
    /\ MainStep("new_state_thread", "run_state_thread")
    /\ stateThread' = "created"
    /\ UNCHANGED <<threadVars, runPc, robotVars, cutShort, saved>>

RunStateThread ==
    /\ MainStep("run_state_thread", "new_command_thread")
    /\ stateThread' = "started"
    /\ Threads!StartStateThread
    /\ UNCHANGED <<runPc, robotVars, cutShort, saved>>

NewCommandThread ==
    /\ MainStep("new_command_thread", "run_command_thread")
    /\ runPc' = "created"
    /\ UNCHANGED <<threadVars, stateThread, robotVars, cutShort, saved>>

RunCommandThread ==
    /\ MainStep("run_command_thread", "listen")
    /\ runPc' = "rpc"
    /\ UNCHANGED <<threadVars, stateThread, robotVars, cutShort, saved>>

\* Ctrl-C or an exception at any statement, or the return of listen().  A
\* power_on that is broken off may have powered the robot already.
LeaveTry ==
    /\ mainPc \in TryPcs
    /\ mainPc' = "stop_command"
    /\ powered' \in (IF mainPc = "power_on" THEN BOOLEAN ELSE {powered})
    /\ UNCHANGED <<threadVars, stateThread, runPc, lease, cutShort, saved>>

-----------------------------------------------------------------------------
(* The main thread: the finally clause.                                    *)

\* A bug to look for: the state stream is stopped before the command stream.
StopCommandStreamLate ==
    \/ /\ runPc = "none"
       /\ MainStep("stop_command", "stop_state")
       /\ UNCHANGED threadVars
    \/ /\ runPc # "none"
       /\ MainStep("stop_command", "join_command")
       /\ Threads!StopStateStream

\* stop_command_stream() sets its flag, if there is a thread to stop ...
StopCommandStream ==
    \/ /\ runPc = "none"
       /\ MainStep("stop_command", "stop_state")
       /\ UNCHANGED threadVars
    \/ /\ runPc # "none"
       /\ MainStep("stop_command", "join_command")
       /\ Threads!StopCommandStream

CommandCleanup ==
    /\ StopCommandStream
    /\ UNCHANGED <<stateThread, runPc, robotVars, cutShort, saved>>

\* A bug to look for: the thread is not waited for.
JoinNobody ==
    /\ MainStep("join_command", "stop_state")
    /\ UNCHANGED <<threadVars, stateThread, runPc, robotVars, cutShort, saved>>

\* ... and joins it.
JoinCommandThread ==
    /\ runPc \in {"done", "failed"}
    /\ MainStep("join_command", "stop_state")
    /\ UNCHANGED <<threadVars, stateThread, runPc, robotVars, cutShort, saved>>

\* stop_state_stream() does the same.
StateCleanup ==
    /\ \/ /\ stateThread = "none"
          /\ MainStep("stop_state", "save")
          /\ UNCHANGED threadVars
       \/ /\ stateThread # "none"
          /\ MainStep("stop_state", "join_state")
          /\ Threads!StopStateStream
    /\ UNCHANGED <<stateThread, runPc, robotVars, cutShort, saved>>

\* A bug to look for: the state thread is not waited for.
StateNotJoined ==
    /\ MainStep("join_state", "save")
    /\ UNCHANGED <<threadVars, stateThread, runPc, robotVars, cutShort, saved>>

JoinStateThread ==
    /\ stPc = "done"
    /\ MainStep("join_state", "save")
    /\ UNCHANGED <<threadVars, stateThread, runPc, robotVars, cutShort, saved>>

SaveLog ==
    /\ MainStep("save", "leave")
    /\ saved' = TRUE
    /\ UNCHANGED <<threadVars, stateThread, runPc, robotVars, cutShort>>

ReturnLease ==
    /\ MainStep("leave", "exited")
    /\ lease' = FALSE
    /\ UNCHANGED <<threadVars, stateThread, runPc, powered, cutShort, saved>>

\* The rest of the finally clause is skipped; the with still returns the lease.
Abort ==
    /\ mainPc' = "aborted"
    /\ lease' = FALSE
    /\ UNCHANGED <<threadVars, stateThread, runPc, powered, cutShort, saved>>

\* join() raises for a thread that LeaveTry kept from being started.
JoinRaises ==
    /\ \/ mainPc = "join_command" /\ runPc = "created"
       \/ mainPc = "join_state" /\ stateThread = "created"
    /\ Abort

\* Another Ctrl-C while main cleans up, or save() raises.
CleanupInterrupted == mainPc \in FinallyPcs /\ Abort

-----------------------------------------------------------------------------
(* The command thread.                                                     *)

\* gRPC starts on the requests.
OpenStream ==
    /\ runPc = "rpc"
    /\ Threads!StartGenerator
    /\ UNCHANGED <<mainPc, stateThread, runPc, robotVars, cutShort, saved>>

\* A bug to look for: the thread ends with the call, and powers nothing off.
ReturnWithoutPowerOff ==
    /\ runPc = "rpc"
    /\ genPc # "raised"
    /\ runPc' = "done"
    /\ cutShort' = (genPc \notin Threads!OverPcs)
    /\ UNCHANGED <<threadVars, mainPc, stateThread, robotVars, saved>>

\* The call returns: the requests ended, or the robot needs no more of them.
StreamReturns ==
    /\ runPc = "rpc"
    /\ genPc # "raised"
    /\ runPc' = "power_off"
    /\ cutShort' = (genPc \notin Threads!OverPcs)
    /\ UNCHANGED <<threadVars, mainPc, stateThread, robotVars, saved>>

\* The call raises, and the thread dies before it could power the robot off.
StreamFails ==
    /\ runPc = "rpc"
    /\ runPc' = "failed"
    /\ cutShort' = (genPc \notin Threads!OverPcs)
    /\ UNCHANGED <<threadVars, mainPc, stateThread, robotVars, saved>>

PowerOff ==
    /\ runPc = "power_off"
    /\ lease
    /\ powered' = FALSE
    /\ runPc' = "done"
    /\ UNCHANGED <<threadVars, mainPc, stateThread, lease, cutShort, saved>>

\* No lease, a timeout, or the assertion after it.
PowerOffFails ==
    /\ runPc = "power_off"
    /\ runPc' = "failed"
    /\ UNCHANGED <<threadVars, mainPc, stateThread, robotVars, cutShort, saved>>

-----------------------------------------------------------------------------

StateCallback ==
    /\ Threads!StateCallback
    /\ UNCHANGED <<mainPc, stateThread, runPc, robotVars, cutShort, saved>>

\* What the state thread waits for.
RobotState ==
    /\ Threads!StoreState \/ Threads!StateStreamEnds
    /\ UNCHANGED <<mainPc, stateThread, runPc, robotVars, cutShort, saved>>

\* gRPC sends while the call is open, and drops what comes later.
Generator ==
    /\ \/ Threads!CheckCommandStopping
       \/ Threads!TimingPolicy
       \/ Threads!CommandPolicy
       \/ runPc = "rpc" /\ Threads!SendCommand
       \/ runPc # "rpc" /\ Threads!DropCommand
       \/ Threads!ActivateJointControl
       \/ Threads!ActivationFails
    /\ UNCHANGED <<mainPc, stateThread, runPc, robotVars, cutShort, saved>>

Startup ==
    \/ PowerOn
    \/ Stand
    \/ NewStateThread
    \/ RunStateThread
    \/ NewCommandThread
    \/ RunCommandThread

Cleanup ==
    \/ CommandCleanup
    \/ JoinCommandThread
    \/ StateCleanup
    \/ JoinStateThread
    \/ SaveLog
    \/ ReturnLease
    \/ JoinRaises

Stream == StreamReturns \/ StreamFails

CommandThread == OpenStream \/ Stream \/ PowerOff \/ PowerOffFails

Next ==
    \/ Startup
    \/ LeaveTry
    \/ Cleanup
    \/ CleanupInterrupted
    \/ CommandThread
    \/ StateCallback
    \/ RobotState
    \/ Generator

Spec == Init /\ [][Next]_vars

(***************************************************************************)
(* Threads that can take a step take it, a call whose requests are over is *)
(* answered or fails, and so is power_off, which has a timeout.  Nobody    *)
(* need ever press Ctrl-C, and the robot need not stream states.           *)
(***************************************************************************)
Fairness ==
    /\ WF_vars(Cleanup)
    /\ WF_vars(StateCallback)
    /\ WF_vars(Generator)
    /\ WF_vars(OpenStream)
    /\ WF_vars(genPc \in Threads!OverPcs /\ Stream)
    /\ WF_vars(PowerOff \/ PowerOffFails)

FairSpec == Spec /\ Fairness

\* The robot goes on streaming, until its stream ends.
Streaming == WF_vars(RobotState)

-----------------------------------------------------------------------------

\* Each thread is where it can be, and the flags are Boolean.
TypeOK ==
    /\ Threads!TypeOK
    /\ mainPc \in MainPcs
    /\ stateThread \in {"none", "created", "started"}
    /\ runPc \in RunPcs
    /\ lease \in BOOLEAN
    /\ powered \in BOOLEAN
    /\ cutShort \in BOOLEAN
    /\ saved \in BOOLEAN

\* lease_keep_alive outlives the command thread: while a command may be sent or
\* the robot powered off, the lease is held, unless the cleanup is broken off.
LeaseCoversStream ==
    mainPc # "aborted" /\ runPc \in {"rpc", "power_off"} => lease

\* The command stream is stopped first: the states it is paced by are not told
\* to stop while the command thread is in its call or powers the robot off.
CommandsStopFirst ==
    state_stream_stopping => runPc \notin {"rpc", "power_off"}

\* When the log is saved nobody appends to it any more, nor stores a state:
\* both streams are down.  Only a call cut short by the robot can leave a
\* generator behind, since joining the command thread does not wait for it.
SavedLogComplete ==
    saved => /\ cutShort \/ genPc \in Threads!OverPcs \cup {"off"}
             /\ stPc \in {"off", "done"}

\* A run that came to its end and had started the command thread leaves the
\* robot without power, unless the call or the power-off failed.
ExitLeavesRobotOff ==
    mainPc = "exited" /\ runPc # "none" => ~powered \/ runPc = "failed"

\* Cleanup comes to an end, and so the log is saved, as long as it is not
\* broken off and the robot goes on streaming or ends its stream.
CleanupEnds ==
    Streaming => (mainPc = "stop_command" ~> mainPc \in {"exited", "aborted"})

\* A dead state stream gets the robot powered off: when the state thread has
\* ended, nobody pressing a key, the timeout of the divider ends the commands
\* and the command thread powers off, unless the call or the power-off fails.
StateLossPowersOff ==
    stPc = "done" /\ genPc # "off" ~> ~powered \/ runPc = "failed"

-----------------------------------------------------------------------------
(* What docstrings of spot.py say, and the code doesn't do.                *)

\* stop_command_stream: "Stop sending joint commands robot will revert to
\* bosdyns standing controller".
RevertsToStanding ==
    mainPc \in {"stop_state", "join_state"} /\ runPc = "done" => powered

\* stop_state_stream: "stop listening to state stream updates".
StopStateStreamReturns == mainPc = "join_state" ~> mainPc # "join_state"
=============================================================================
