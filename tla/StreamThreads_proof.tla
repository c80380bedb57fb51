------------------------ MODULE StreamThreads_proof ------------------------
(***************************************************************************)
(* Proofs about StreamThreads, for every Factor.                           *)
(***************************************************************************)
EXTENDS StreamThreads, TLAPS

\* The threads start with their types, and the divider with nothing counted.
LEMMA InitInv == Init => TypeOK /\ CountInv
<1> SUFFICES ASSUME Init PROVE TypeOK /\ CountInv
    OBVIOUS
<1>1. count \in 0..Factor
  BY FactorAssumption DEF Init
<1>2. stPc \in StatePcs /\ genPc \in GenPcs
  BY DEF Init, StatePcs, GenPcs
<1>3. /\ event \in BOOLEAN
      /\ activated \in BOOLEAN
      /\ command_stream_stopping \in BOOLEAN
      /\ state_stream_stopping \in BOOLEAN
  BY DEF Init
<1>4. CountInv
  BY DEF Init, CountInv, PolicyPcs, ReadPcs
<1> QED
  BY <1>1, <1>2, <1>3, <1>4 DEF TypeOK

\* Every step of a thread keeps the types and what holds of the divider's count:
\* ClearEvent is the only step that counts, and it starts below Factor.
LEMMA NextInv == TypeOK /\ CountInv /\ [Next]_vars => TypeOK' /\ CountInv'
<1> SUFFICES ASSUME TypeOK, CountInv, [Next]_vars
             PROVE  TypeOK' /\ CountInv'
    OBVIOUS
<1> USE FactorAssumption DEF TypeOK, CountInv, PolicyPcs, ReadPcs, DividerPcs, OverPcs,
        GenPcs, StatePcs, GenStep, StateStep, PolicyStep, stopVars
<1>1. CASE StateThread
  BY <1>1 DEF StateThread, StateCallback, StoreState, SetEvent, CheckStateStopping, StateStreamEnds
<1>2. CASE CheckCommandStopping
  BY <1>2 DEF CheckCommandStopping
<1>3. CASE TimingPolicy
  <2>1. CASE WaitReturns
    BY <2>1 DEF WaitReturns
  <2>2. CASE WaitTimesOut
    BY <2>2 DEF WaitTimesOut
  <2>3. CASE ClearEvent
    <3>1. /\ event' = FALSE
          /\ genPc' = "sleep"
          /\ UNCHANGED <<stPc, stopVars, activated>>
      BY <2>3 DEF ClearEvent
    <3>2. count' \in 0..Factor /\ count' > 0
      BY <2>3 DEF ClearEvent
    <3> QED
      BY <3>1, <3>2
  <2>4. CASE SleepReturns
    BY <2>4 DEF SleepReturns
  <2> QED
    BY <1>3, <2>1, <2>2, <2>3, <2>4 DEF TimingPolicy
<1>4. CASE CommandPolicy
  <2>1. CASE PolicyRaises
    BY <2>1 DEF PolicyRaises
  <2>2. CASE CacheInitPos \/ CollectInputs \/ CreateProto \/ LogState \/ CommitAction
    BY <2>2 DEF CacheInitPos, CollectInputs, CreateProto, LogState, CommitAction
  <2> QED
    BY <1>4, <2>1, <2>2 DEF CommandPolicy
<1>5. CASE Resumed
  BY <1>5 DEF Resumed, SendCommand, DropCommand, ActivateJointControl, ActivationFails
<1>6. CASE Control
  <2>1. CASE StartStateThread \/ StartGenerator
    BY <2>1 DEF StartStateThread, StartGenerator
  <2>2. CASE StopCommandStream
    BY <2>2 DEF StopCommandStream
  <2>3. CASE StopStateStream
    BY <2>3 DEF StopStateStream
  <2> QED
    BY <1>6, <2>1, <2>2, <2>3 DEF Control
<1>7. CASE UNCHANGED vars
  BY <1>7 DEF vars
<1> QED
  BY <1>1, <1>2, <1>3, <1>4, <1>5, <1>6, <1>7 DEF Next, Generator

\* The divider never counts beyond Factor, and lets a command through exactly
\* at Factor.
THEOREM ThreadsInvariant == Spec => [](TypeOK /\ CountInv)
  BY InitInv, NextInv, PTL DEF Spec

-----------------------------------------------------------------------------

\* Only SetEvent sets the event, and it is a step of a started state thread;
\* without an event the generator gets no further than the divider's wait.
LEMMA NeedsStatesStep ==
    CommandsNeedStates /\ [Next]_vars => CommandsNeedStates'
<1> SUFFICES ASSUME CommandsNeedStates, [Next]_vars, stPc' = "off"
             PROVE  ~event' /\ genPc' \in {"off", "loop", "wait", "ended"}
    BY DEF CommandsNeedStates
<1> USE DEF CommandsNeedStates, GenStep, StateStep, PolicyStep, stopVars
<1>1. CASE StateThread
  BY <1>1 DEF StateThread, StateCallback, StoreState, SetEvent, CheckStateStopping, StateStreamEnds
<1>2. CASE CheckCommandStopping
  BY <1>2 DEF CheckCommandStopping
<1>3. CASE TimingPolicy
  BY <1>3 DEF TimingPolicy, WaitReturns, WaitTimesOut, ClearEvent, SleepReturns
<1>4. CASE CommandPolicy
  BY <1>4 DEF CommandPolicy, CacheInitPos, CollectInputs, CreateProto, LogState,
              CommitAction, PolicyRaises, ReadPcs
<1>5. CASE Resumed
  BY <1>5 DEF Resumed, SendCommand, DropCommand, ActivateJointControl, ActivationFails
<1>6. CASE Control
  BY <1>6 DEF Control, StartStateThread, StartGenerator, StopCommandStream, StopStateStream
<1>7. CASE UNCHANGED vars
  BY <1>7 DEF vars
<1> QED
  BY <1>1, <1>2, <1>3, <1>4, <1>5, <1>6, <1>7 DEF Next, Generator

\* The command policy is not called before the state thread has announced a
\* state, whoever starts the threads in whatever order.
THEOREM NeedsStates == Spec => []CommandsNeedStates
<1>1. Init => CommandsNeedStates
  BY DEF Init, CommandsNeedStates
<1> QED
  BY <1>1, NeedsStatesStep, PTL DEF Spec
=============================================================================
