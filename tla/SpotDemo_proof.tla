--------------------------- MODULE SpotDemo_proof ---------------------------
(***************************************************************************)
(* Proofs about SpotDemo, for every Factor: the order of the shutdown, the *)
(* lease, the log and the robot's power, whenever Ctrl-C comes.            *)
(***************************************************************************)
EXTENDS SpotDemo, TLAPS

-----------------------------------------------------------------------------
(* The invariant: where a thread can be while main is somewhere.           *)

\* The command thread sends nothing, or not any more.
CommandsDown == runPc \in {"none", "done", "failed"}

\* While it starts up, main is where its threads are made and started.
StartupInv ==
    /\ mainPc \in {"power_on", "stand", "new_state_thread"} =>
          stateThread = "none" /\ runPc = "none"
    /\ mainPc = "run_state_thread" => stateThread = "created" /\ runPc = "none"
    /\ mainPc = "new_command_thread" => runPc = "none"
    /\ stateThread # "started" => stPc = "off"

\* The states stop after the commands, which are joined first.
OrderInv ==
    /\ mainPc \in {"stop_state", "join_state", "save", "leave", "exited"} => CommandsDown
    /\ state_stream_stopping =>
          CommandsDown /\ mainPc \in {"join_state", "save", "leave", "exited", "aborted"}

\* The lease is returned at the very end.
LeaseInv == lease <=> mainPc \notin {"exited", "aborted"}

\* The generator runs for the command thread's call, and outlives it only if
\* the call was cut short.
GeneratorInv ==
    /\ runPc \in {"none", "created"} => genPc = "off"
    /\ runPc \in {"power_off", "done", "failed"} => cutShort \/ genPc \in Threads!OverPcs

\* The log is saved once both streams are down.
LogInv ==
    /\ mainPc \in {"save", "leave", "exited"} \/ saved => stPc \in {"off", "done"}
    /\ saved => CommandsDown /\ mainPc \in {"leave", "exited", "aborted"}

\* A command thread that has come to its end has powered the robot off.
PowerInv == runPc = "done" => ~powered

ShutdownInv ==
    /\ StartupInv
    /\ OrderInv
    /\ LeaseInv
    /\ GeneratorInv
    /\ LogInv
    /\ PowerInv

-----------------------------------------------------------------------------
(* Steps.                                                                  *)

\* What the state thread and the generator do by themselves: neither starts
\* without being started, and what has ended stays so.
LEMMA StreamSteps ==
    StateCallback \/ RobotState \/ Generator =>
        /\ UNCHANGED <<mainPc, stateThread, runPc, lease, powered>>
        /\ UNCHANGED <<cutShort, saved, state_stream_stopping>>
        /\ genPc = "off" => genPc' = "off"
        /\ genPc \in Threads!OverPcs => genPc' \in Threads!OverPcs
        /\ stPc \in {"off", "done"} => stPc' = stPc
<1> DEFINE Frame == /\ UNCHANGED <<mainPc, stateThread, runPc, lease, powered>>
                    /\ UNCHANGED <<cutShort, saved>>
           Stays == /\ UNCHANGED state_stream_stopping
                    /\ genPc = "off" => genPc' = "off"
                    /\ genPc \in Threads!OverPcs => genPc' \in Threads!OverPcs
                    /\ stPc \in {"off", "done"} => stPc' = stPc
<1> USE DEF Threads!StateStep, Threads!GenStep, Threads!PolicyStep,
        Threads!stopVars, Threads!OverPcs
<1>1. StateCallback \/ RobotState \/ Generator => Frame
  BY DEF StateCallback, RobotState, Generator, robotVars
<1>2. Threads!StateCallback => Stays
  BY DEF Threads!StateCallback, Threads!SetEvent, Threads!CheckStateStopping
<1>3. Threads!StoreState \/ Threads!StateStreamEnds => Stays
  BY DEF Threads!StoreState, Threads!StateStreamEnds
<1>4. Threads!CheckCommandStopping => Stays
  BY DEF Threads!CheckCommandStopping
<1>5. Threads!TimingPolicy => Stays
  BY DEF Threads!TimingPolicy, Threads!WaitReturns, Threads!WaitTimesOut,
         Threads!ClearEvent, Threads!SleepReturns
<1>6. Threads!CommandPolicy => Stays
  BY DEF Threads!CommandPolicy, Threads!CacheInitPos, Threads!CollectInputs,
         Threads!CreateProto, Threads!LogState, Threads!CommitAction,
         Threads!PolicyRaises, Threads!ReadPcs
<1>7. Threads!SendCommand \/ Threads!DropCommand => Stays
  BY DEF Threads!SendCommand, Threads!DropCommand
<1>8. Threads!ActivateJointControl \/ Threads!ActivationFails => Stays
  BY DEF Threads!ActivateJointControl, Threads!ActivationFails
<1>9. StateCallback \/ RobotState \/ Generator => Stays
  <2> HIDE DEF Stays
  <2> QED
    BY <1>2, <1>3, <1>4, <1>5, <1>6, <1>7, <1>8
       DEF StateCallback, RobotState, Generator
<1> QED
  BY <1>1, <1>9

\* The invariant holds when main starts.
LEMMA ShutdownInit == Init => ShutdownInv
  BY DEF Init, Threads!Init, ShutdownInv, StartupInv, OrderInv, LeaseInv,
         GeneratorInv, LogInv, PowerInv, CommandsDown

\* The state thread and the generator disturb no part of it.
LEMMA StreamsKeep ==
    ShutdownInv /\ (StateCallback \/ RobotState \/ Generator) => ShutdownInv'
  BY StreamSteps DEF ShutdownInv, StartupInv, OrderInv, LeaseInv, GeneratorInv,
         LogInv, PowerInv, CommandsDown

\* While main starts up nothing is stopped, and one thread is made and started
\* after the other.
LEMMA StartupKeeps == ShutdownInv /\ Startup => ShutdownInv'
<1> SUFFICES ASSUME ShutdownInv, Startup PROVE ShutdownInv'
    OBVIOUS
<1> USE DEF ShutdownInv, StartupInv, OrderInv, LeaseInv, GeneratorInv, LogInv,
        PowerInv, CommandsDown, MainStep, threadVars, robotVars
<1>1. CASE PowerOn \/ Stand
  BY <1>1 DEF PowerOn, Stand
<1>2. CASE NewStateThread
  BY <1>2 DEF NewStateThread
<1>3. CASE RunStateThread
  BY <1>3 DEF RunStateThread, Threads!StartStateThread, Threads!StateStep,
              Threads!stopVars
<1>4. CASE NewCommandThread
  BY <1>4 DEF NewCommandThread
<1>5. CASE RunCommandThread
  BY <1>5 DEF RunCommandThread
<1> QED
  BY <1>1, <1>2, <1>3, <1>4, <1>5 DEF Startup

\* Wherever Ctrl-C breaks off the try block, cleanup starts with everything up
\* that was up.
LEMMA LeavingKeeps == ShutdownInv /\ LeaveTry => ShutdownInv'
<1> SUFFICES ASSUME ShutdownInv, LeaveTry PROVE ShutdownInv'
    OBVIOUS
<1>1. /\ mainPc \in TryPcs /\ mainPc' = "stop_command"
      /\ UNCHANGED <<stPc, genPc, state_stream_stopping, stateThread, runPc>>
      /\ UNCHANGED <<lease, cutShort, saved>>
  BY DEF LeaveTry, threadVars
<1>2. powered' = powered \/ runPc = "none"
  <2>1. CASE mainPc = "power_on"
    BY <2>1 DEF ShutdownInv, StartupInv
  <2>2. CASE mainPc # "power_on"
    BY <2>2 DEF LeaveTry
  <2> QED
    BY <2>1, <2>2
<1> QED
  BY <1>1, <1>2 DEF TryPcs, ShutdownInv, StartupInv, OrderInv, LeaseInv, GeneratorInv,
     LogInv, PowerInv, CommandsDown

\* The finally clause, in its order; broken off, it leaves all as it is but for
\* the lease.
LEMMA CleanupKeeps == ShutdownInv /\ (Cleanup \/ CleanupInterrupted) => ShutdownInv'
<1> SUFFICES ASSUME ShutdownInv, Cleanup \/ CleanupInterrupted PROVE ShutdownInv'
    OBVIOUS
<1> USE DEF ShutdownInv, StartupInv, OrderInv, LeaseInv, GeneratorInv, LogInv,
        PowerInv, CommandsDown, MainStep, threadVars, robotVars
<1>1. CASE CommandCleanup
  BY <1>1 DEF CommandCleanup, StopCommandStream, Threads!StopCommandStream
<1>2. CASE JoinCommandThread
  BY <1>2 DEF JoinCommandThread
<1>3. CASE StateCleanup
  BY <1>3 DEF StateCleanup, Threads!StopStateStream
<1>4. CASE JoinStateThread
  BY <1>4 DEF JoinStateThread
<1>5. CASE SaveLog
  BY <1>5 DEF SaveLog
<1>6. CASE ReturnLease
  BY <1>6 DEF ReturnLease
<1>7. CASE JoinRaises \/ CleanupInterrupted
  BY <1>7 DEF JoinRaises, CleanupInterrupted, Abort, FinallyPcs
<1> QED
  BY <1>1, <1>2, <1>3, <1>4, <1>5, <1>6, <1>7 DEF Cleanup

\* The command thread powers off when its call is over, and before that no
\* state stream is told to stop.
LEMMA CommandThreadKeeps == ShutdownInv /\ CommandThread => ShutdownInv'
<1> SUFFICES ASSUME ShutdownInv, CommandThread PROVE ShutdownInv'
    OBVIOUS
<1> USE DEF ShutdownInv, StartupInv, OrderInv, LeaseInv, GeneratorInv, LogInv,
        PowerInv, CommandsDown, threadVars, robotVars
<1>1. CASE OpenStream
  BY <1>1 DEF OpenStream, Threads!StartGenerator, Threads!GenStep, Threads!stopVars
<1>2. CASE StreamReturns \/ StreamFails
  <2>1. cutShort' \/ genPc \in Threads!OverPcs
    BY <1>2, Zenon DEF StreamReturns, StreamFails
  <2>2. /\ runPc = "rpc" /\ runPc' \in {"power_off", "failed"}
        /\ UNCHANGED <<stPc, genPc, state_stream_stopping, mainPc, stateThread>>
        /\ UNCHANGED <<lease, powered, saved>>
    BY <1>2 DEF StreamReturns, StreamFails
  <2> QED
    BY <2>1, <2>2
<1>3. CASE PowerOff
  BY <1>3 DEF PowerOff
<1>4. CASE PowerOffFails
  BY <1>4 DEF PowerOffFails
<1> QED
  BY <1>1, <1>2, <1>3, <1>4 DEF CommandThread, Stream

-----------------------------------------------------------------------------
(* The theorems.                                                           *)

\* The invariant is inductive.
THEOREM ShutdownInvariant == Spec => []ShutdownInv
<1>1. ShutdownInv /\ UNCHANGED vars => ShutdownInv'
  BY DEF vars, threadVars, robotVars, ShutdownInv, StartupInv, OrderInv, LeaseInv,
         GeneratorInv, LogInv, PowerInv, CommandsDown
<1>2. ShutdownInv /\ [Next]_vars => ShutdownInv'
  BY <1>1, StreamsKeep, StartupKeeps, LeavingKeeps, CleanupKeeps, CommandThreadKeeps
     DEF Next
<1> QED
  BY <1>2, ShutdownInit, PTL DEF Spec

\* The lease outlives the command thread, if the cleanup is not broken off.
THEOREM LeaseHeld == Spec => []LeaseCoversStream
<1>1. ShutdownInv => LeaseCoversStream
  BY DEF ShutdownInv, OrderInv, LeaseInv, CommandsDown, LeaseCoversStream
<1> QED
  BY <1>1, ShutdownInvariant, PTL

\* The command stream is stopped, and its thread over, before the state stream
\* is told to stop.
THEOREM CommandsStop == Spec => []CommandsStopFirst
<1>1. ShutdownInv => CommandsStopFirst
  BY DEF ShutdownInv, OrderInv, CommandsDown, CommandsStopFirst
<1> QED
  BY <1>1, ShutdownInvariant, PTL

\* The log is saved when nobody writes to it, but for a generator that a broken
\* call left behind.
THEOREM LogSavedComplete == Spec => []SavedLogComplete
<1>1. ShutdownInv => SavedLogComplete
  BY DEF ShutdownInv, GeneratorInv, LogInv, CommandsDown, SavedLogComplete
<1> QED
  BY <1>1, ShutdownInvariant, PTL

\* A run that comes to its end leaves the robot without power, unless the call
\* or the power-off failed.
THEOREM RobotLeftOff == Spec => []ExitLeavesRobotOff
<1>1. ShutdownInv => ExitLeavesRobotOff
  BY DEF ShutdownInv, OrderInv, PowerInv, CommandsDown, ExitLeavesRobotOff
<1> QED
  BY <1>1, ShutdownInvariant, PTL

\* A run's threads are those of StreamThreads: whatever main and the command
\* thread do, the state thread and the generator take no other steps.
THEOREM ImplementsThreads == Spec => Threads!Spec
<1>1. Init => Threads!Init
  BY DEF Init
<1>2. [Next]_vars => [Threads!Next]_threadVars
  <2> SUFFICES ASSUME [Next]_vars PROVE Threads!Next \/ UNCHANGED threadVars
    OBVIOUS
  <2>1. CASE Startup
    BY <2>1 DEF Startup, PowerOn, Stand, NewStateThread, RunStateThread,
                NewCommandThread, RunCommandThread, Threads!Next, Threads!Control
  <2>2. CASE LeaveTry \/ CleanupInterrupted
    BY <2>2 DEF LeaveTry, CleanupInterrupted, Abort
  <2>3. CASE Cleanup
    BY <2>3 DEF Cleanup, CommandCleanup, StopCommandStream, JoinCommandThread,
                StateCleanup, JoinStateThread, SaveLog, ReturnLease, JoinRaises, Abort,
                Threads!Next, Threads!Control
  <2>4. CASE CommandThread
    BY <2>4 DEF CommandThread, Stream, OpenStream, StreamReturns, StreamFails, PowerOff,
                PowerOffFails, Threads!Next, Threads!Control
  <2>5. CASE StateCallback \/ RobotState
    BY <2>5 DEF StateCallback, RobotState, Threads!Next, Threads!StateThread
  <2>6. CASE Generator
    BY <2>6 DEF Generator, Threads!Next, Threads!Generator, Threads!Resumed
  <2>7. CASE UNCHANGED vars
    BY <2>7 DEF vars
  <2> QED
    BY <2>1, <2>2, <2>3, <2>4, <2>5, <2>6, <2>7 DEF Next
<1>3. [Next]_vars => [Threads!Next]_(Threads!vars)
  BY <1>2 DEF threadVars, Threads!vars, Threads!stopVars
<1> QED
  BY <1>1, <1>3, PTL DEF Spec, Threads!Spec
=============================================================================
