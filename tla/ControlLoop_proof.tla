------------------------- MODULE ControlLoop_proof -------------------------
(***************************************************************************)
(* Proofs about ControlLoop, for every Factor, GainSteps and MaxStates.    *)
(***************************************************************************)
EXTENDS ControlLoop, SequenceTheorems, TLAPS

\* StreamThreads again, with the lemmas about it.
ThreadProofs == INSTANCE StreamThreads_proof

-----------------------------------------------------------------------------
(* ControlLoop takes the steps of StreamThreads.                           *)

\* A step of the control loop stores the next state, or leaves the last one in
\* place while its threads take a step, other than storing one, or none.
LEMMA StepKinds ==
    [Next]_vars =>
        \/ StoreState
        \/ /\ UNCHANGED latest_state
           /\ \/ Threads!StateCallback \/ Threads!StateStreamEnds
              \/ Threads!Generator
              \/ Threads!Control
              \/ UNCHANGED threadVars
<1> SUFFICES ASSUME [Next]_vars, ~StoreState
             PROVE  /\ UNCHANGED latest_state
                    /\ \/ Threads!StateCallback \/ Threads!StateStreamEnds
                       \/ Threads!Generator
                       \/ Threads!Control
                       \/ UNCHANGED threadVars
    OBVIOUS
<1>1. CASE Robot
  BY <1>1 DEF Robot, RobotSamples, RobotReceives
<1>2. CASE CommandPolicy
  BY <1>2 DEF CommandPolicy, CacheInitPos, CollectInputs, CreateProto, LogState,
              CommitAction, Threads!Generator, Threads!CommandPolicy
<1>3. CASE SendCommand \/ ActivateJointControl
  BY <1>3 DEF SendCommand, ActivateJointControl, Threads!Generator, Threads!Resumed
<1>4. CASE ControlStep
  BY <1>4 DEF ControlStep, Threads!Generator, Threads!CommandPolicy, Threads!Resumed,
              dataVars
<1>5. CASE UNCHANGED vars
  BY <1>5 DEF vars, dataVars
<1> QED
  BY <1>1, <1>2, <1>3, <1>4, <1>5 DEF Next

\* Each step of the control loop is a step of its threads, or moves none.
LEMMA ThreadStep == [Next]_vars => [Threads!Next]_threadVars
  BY StepKinds DEF StoreState, Threads!Next, Threads!StateThread

\* Both instances of StreamThreads define the same formulas.
LEMMA SameThreads ==
    /\ [Threads!Next]_threadVars => [ThreadProofs!Next]_(ThreadProofs!vars)
    /\ Threads!TypeOK <=> ThreadProofs!TypeOK
    /\ Threads!CountInv <=> ThreadProofs!CountInv
    /\ Threads!TypeOK' <=> ThreadProofs!TypeOK'
    /\ Threads!CountInv' <=> ThreadProofs!CountInv'
  BY DEF threadVars,
         Threads!stopVars, Threads!vars, Threads!DividerPcs,
         Threads!ReadPcs, Threads!PolicyPcs, Threads!OverPcs,
         Threads!GenPcs, Threads!StatePcs, Threads!StateStep,
         Threads!StartStateThread, Threads!StoreState, Threads!SetEvent,
         Threads!CheckStateStopping, Threads!StateStreamEnds,
         Threads!GenStep, Threads!StartGenerator,
         Threads!CheckCommandStopping, Threads!WaitReturns,
         Threads!WaitTimesOut, Threads!ClearEvent, Threads!SleepReturns,
         Threads!PolicyStep, Threads!CacheInitPos, Threads!CollectInputs,
         Threads!CreateProto, Threads!LogState, Threads!CommitAction,
         Threads!PolicyRaises, Threads!SendCommand, Threads!DropCommand,
         Threads!ActivateJointControl, Threads!ActivationFails,
         Threads!StopCommandStream, Threads!StopStateStream,
         Threads!StateCallback, Threads!TimingPolicy, Threads!CommandPolicy,
         Threads!Resumed, Threads!Generator, Threads!StateThread,
         Threads!Control, Threads!Next, Threads!TypeOK, Threads!CountInv,
         ThreadProofs!stopVars, ThreadProofs!vars, ThreadProofs!DividerPcs,
         ThreadProofs!ReadPcs, ThreadProofs!PolicyPcs, ThreadProofs!OverPcs,
         ThreadProofs!GenPcs, ThreadProofs!StatePcs, ThreadProofs!StateStep,
         ThreadProofs!StartStateThread, ThreadProofs!StoreState,
         ThreadProofs!SetEvent, ThreadProofs!CheckStateStopping,
         ThreadProofs!StateStreamEnds, ThreadProofs!GenStep,
         ThreadProofs!StartGenerator, ThreadProofs!CheckCommandStopping,
         ThreadProofs!WaitReturns, ThreadProofs!WaitTimesOut,
         ThreadProofs!ClearEvent, ThreadProofs!SleepReturns,
         ThreadProofs!PolicyStep, ThreadProofs!CacheInitPos,
         ThreadProofs!CollectInputs, ThreadProofs!CreateProto,
         ThreadProofs!LogState, ThreadProofs!CommitAction,
         ThreadProofs!PolicyRaises, ThreadProofs!SendCommand,
         ThreadProofs!DropCommand, ThreadProofs!ActivateJointControl,
         ThreadProofs!ActivationFails, ThreadProofs!StopCommandStream,
         ThreadProofs!StopStateStream, ThreadProofs!StateCallback,
         ThreadProofs!TimingPolicy, ThreadProofs!CommandPolicy,
         ThreadProofs!Resumed, ThreadProofs!Generator,
         ThreadProofs!StateThread, ThreadProofs!Control, ThreadProofs!Next,
         ThreadProofs!TypeOK, ThreadProofs!CountInv

\* So what StreamThreads_proof says of a step of StreamThreads holds here.
LEMMA ThreadInv ==
    Threads!TypeOK /\ Threads!CountInv /\ [Next]_vars
        => Threads!TypeOK' /\ Threads!CountInv'
  BY FactorAssumption, ThreadStep, SameThreads, ThreadProofs!NextInv

\* What ControlLoop adds to StreamThreads is data: hiding it leaves a behaviour
\* of the two threads, so what StreamThreads promises holds of the loop too.
THEOREM ImplementsThreads == Spec => Threads!Spec
<1>1. Init => Threads!Init
  BY DEF Init
<1>2. [Next]_vars => [Threads!Next]_(Threads!vars)
  BY ThreadStep DEF threadVars, Threads!vars, Threads!stopVars
<1> QED
  BY <1>1, <1>2, PTL DEF Spec, Threads!Spec

-----------------------------------------------------------------------------
(* Types.                                                                  *)

\* The threads have their types initially, and the divider has counted nothing.
LEMMA InitThreads == Init => Threads!TypeOK /\ Threads!CountInv
<1> SUFFICES ASSUME Threads!Init PROVE Threads!TypeOK /\ Threads!CountInv
    BY DEF Init
<1>1. count \in 0..Factor
  BY FactorAssumption DEF Threads!Init
<1>2. stPc \in Threads!StatePcs /\ genPc \in Threads!GenPcs
  BY DEF Threads!Init, Threads!StatePcs, Threads!GenPcs
<1>3. /\ event \in BOOLEAN
      /\ activated \in BOOLEAN
      /\ command_stream_stopping \in BOOLEAN
      /\ state_stream_stopping \in BOOLEAN
  BY DEF Threads!Init
<1>4. Threads!CountInv
  BY DEF Threads!Init, Threads!CountInv, Threads!PolicyPcs, Threads!ReadPcs
<1> QED
  BY <1>1, <1>2, <1>3, <1>4 DEF Threads!TypeOK

\* Every variable has its type initially.
LEMMA InitType == Init => TypeOK
<1> SUFFICES ASSUME Init PROVE TypeOK
    OBVIOUS
<1>1. Threads!TypeOK
  BY InitThreads
<1>2. /\ inputs \in [state : Nat, last : Nat]
      /\ proto \in Commands
  BY DEF Init, Commands, NoState
<1>3. sampled \in Seq(Nat) /\ sent \in Seq(Commands) /\ rows \in Seq(Rows)
  BY DEF Init
<1>4. /\ received \in 0..Len(sent)
      /\ latest_state \in 0..Len(sampled)
  BY DEF Init, NoState
<1> QED
  BY <1>1, <1>2, <1>3, <1>4 DEF Init, TypeOK, NoState

\* Every step keeps the types.
LEMMA TypeStep == TypeOK /\ Threads!CountInv /\ [Next]_vars => TypeOK'
<1> SUFFICES ASSUME TypeOK, Threads!CountInv, [Next]_vars PROVE TypeOK'
    OBVIOUS
<1>0. Threads!TypeOK'
  BY ThreadInv DEF TypeOK
<1> USE DEF TypeOK, dataVars, robotVars, policyVars, outputVars
<1>1. CASE RobotSamples
  <2>1. (IF received = 0 THEN 0 ELSE sent[received].key) \in Nat
    <3>1. CASE received = 0
      BY <3>1
    <3>2. CASE received # 0
      <4>1. received \in 1..Len(sent) /\ sent \in Seq(Commands)
        BY <3>2
      <4>2. sent[received] \in Commands
        BY <4>1
      <4> QED
        BY <3>2, <4>2 DEF Commands
    <3> QED
      BY <3>1, <3>2
  <2>2. sampled' \in Seq(Nat) /\ Len(sampled') = Len(sampled) + 1
    BY <1>1, <2>1 DEF RobotSamples
  <2> QED
    BY <1>0, <1>1, <2>2 DEF RobotSamples
<1>2. CASE RobotReceives
  BY <1>0, <1>2 DEF RobotReceives
<1>3. CASE StoreState
  BY <1>0, <1>3 DEF StoreState
<1>4. CASE CacheInitPos
  BY <1>0, <1>4 DEF CacheInitPos
<1>5. CASE CollectInputs
  BY <1>0, <1>5 DEF CollectInputs
<1>6. CASE CreateProto
  <2>1. Command(latest_state) \in Commands
    BY DEF Command, Commands
  <2> QED
    BY <1>0, <1>6, <2>1 DEF CreateProto
<1>7. CASE LogState
  BY <1>0, <1>7 DEF LogState, Commands, Rows
<1>8. CASE CommitAction
  BY <1>0, <1>8 DEF CommitAction
<1>9. CASE SendCommand
  BY <1>0, <1>9 DEF SendCommand
<1>10. CASE ActivateJointControl
  BY <1>0, <1>10 DEF ActivateJointControl
<1>11. CASE ControlStep
  BY <1>0, <1>11 DEF ControlStep
<1>12. CASE UNCHANGED vars
  BY <1>0, <1>12 DEF vars
<1> QED
  BY <1>1, <1>2, <1>3, <1>4, <1>5, <1>6, <1>7, <1>8, <1>9, <1>10, <1>11, <1>12
     DEF Next, Robot, CommandPolicy

\* Types, on their own an invariant once CountInv is there to bound the count.
THEOREM TypeCorrect == Spec => []TypeOK
<1>1. Init => TypeOK /\ Threads!CountInv
  BY InitType, InitThreads
<1>2. TypeOK /\ Threads!CountInv /\ [Next]_vars => TypeOK' /\ Threads!CountInv'
  BY TypeStep, ThreadInv DEF TypeOK
<1> QED
  BY <1>1, <1>2, PTL DEF Spec

-----------------------------------------------------------------------------
(* The pace of the commands.                                               *)

\* latest_state only grows.
LEMMA LatestGrows == TypeOK /\ [Next]_vars => latest_state' >= latest_state
  BY StepKinds DEF StoreState, TypeOK

\* Sums grow with their first term.
LEMMA SumMonotone ==
    ASSUME NEW a \in Nat, NEW b \in Nat, NEW c \in Nat, NEW d \in Int, b <= a
    PROVE  b + c + d <= a + c + d
  OBVIOUS

\* An event is set for a state that was announced, and counted only when it is
\* cleared: no step counts more than it has seen set.
LEMMA SlackStep ==
    TypeOK /\ Threads!CountInv /\ [Next]_vars
        => Pending' + Events' + Sets <= Pending + Events + Sets'
<1> SUFFICES ASSUME TypeOK, Threads!CountInv, [Next]_vars
             PROVE  Pending' + Events' + Sets <= Pending + Events + Sets'
    OBVIOUS
<1>0. /\ count \in Nat /\ latest_state \in Nat
      /\ count' \in Nat /\ latest_state' \in Nat
  <2>1. TypeOK'
    BY TypeStep
  <2> QED
    BY <2>1, FactorAssumption DEF TypeOK, Threads!TypeOK
<1> USE <1>0 DEF Pending, Events, Sets, Threads!DividerPcs, Threads!ReadPcs,
        Threads!StateStep, Threads!GenStep, Threads!PolicyStep
<1>1. CASE StoreState
  BY <1>1 DEF StoreState, Threads!StoreState
<1>2. CASE Threads!SetEvent /\ UNCHANGED latest_state
  BY <1>2 DEF Threads!SetEvent
<1>3. CASE Threads!ClearEvent /\ UNCHANGED latest_state
  BY <1>3 DEF Threads!ClearEvent, Threads!CountInv
<1>4. ASSUME UNCHANGED <<event, latest_state>>, Sets' = Sets, Pending' <= Pending
      PROVE  Pending' + Events' + Sets <= Pending + Events + Sets'
  <2>1. Events' = Events
    BY <1>4
  <2>2. Pending \in Nat /\ Pending' \in Nat
    OBVIOUS
  <2>3. Events \in Nat /\ Events' \in Nat
    OBVIOUS
  <2>4. Sets \in Int /\ Sets' \in Int
    OBVIOUS
  <2>5. Sets' = Sets /\ Pending' <= Pending
    BY <1>4
  <2> HIDE DEF Pending, Events, Sets
  <2> QED
    BY <2>1, <2>2, <2>3, <2>4, <2>5, SumMonotone
<1>5. CASE /\ UNCHANGED latest_state
           /\ \/ Threads!StateStreamEnds \/ Threads!CheckStateStopping
              \/ Threads!StartStateThread
  <2>1. UNCHANGED <<event, genPc, count>>
    BY <1>5 DEF Threads!StateStreamEnds, Threads!CheckStateStopping,
                Threads!StartStateThread
  <2>2. stPc # "stored" /\ stPc' # "stored"
    BY <1>5 DEF Threads!StateStreamEnds, Threads!CheckStateStopping,
                Threads!StartStateThread
  <2>3. Sets' = Sets
    BY <1>5, <2>2
  <2>4. Pending' = Pending
    BY <2>1
  <2> QED
    BY <1>4, <1>5, <2>1, <2>3, <2>4
<1>6. CASE /\ UNCHANGED latest_state
           /\ \/ Threads!WaitReturns \/ Threads!WaitTimesOut \/ Threads!SleepReturns
              \/ Threads!CommandPolicy
              \/ Threads!CheckCommandStopping \/ Threads!Resumed
              \/ Threads!StartGenerator
  <2>1. UNCHANGED <<event, stPc>>
    BY <1>6 DEF Threads!WaitReturns, Threads!WaitTimesOut, Threads!SleepReturns,
       Threads!CheckCommandStopping, Threads!StartGenerator,
       Threads!CommandPolicy, Threads!CacheInitPos, Threads!CollectInputs,
       Threads!CreateProto, Threads!LogState, Threads!CommitAction, Threads!PolicyRaises,
       Threads!Resumed, Threads!SendCommand, Threads!DropCommand,
       Threads!ActivateJointControl, Threads!ActivationFails
  <2>2. Pending' <= Pending
    BY <1>6 DEF Threads!WaitReturns, Threads!WaitTimesOut, Threads!SleepReturns,
       Threads!CheckCommandStopping, Threads!StartGenerator,
       Threads!CommandPolicy, Threads!CacheInitPos, Threads!CollectInputs,
       Threads!CreateProto, Threads!LogState, Threads!CommitAction, Threads!PolicyRaises,
       Threads!Resumed, Threads!SendCommand, Threads!DropCommand,
       Threads!ActivateJointControl, Threads!ActivationFails
  <2>3. Sets' = Sets
    BY <1>6, <2>1
  <2> QED
    BY <1>4, <1>6, <2>1, <2>2, <2>3
<1>7. CASE /\ UNCHANGED latest_state
           /\ \/ Threads!StopCommandStream \/ Threads!StopStateStream
              \/ UNCHANGED threadVars
  <2>1. UNCHANGED <<event, stPc, genPc, count>>
    BY <1>7 DEF Threads!StopCommandStream, Threads!StopStateStream, threadVars
  <2>2. Pending' = Pending
    BY <2>1
  <2>3. Sets' = Sets
    BY <1>7, <2>1
  <2> QED
    BY <1>4, <1>7, <2>1, <2>2, <2>3
<1> HIDE DEF Pending, Events, Sets
<1> QED
  BY StepKinds, <1>1, <1>2, <1>3, <1>5, <1>6, <1>7
     DEF Threads!StateCallback, Threads!Generator, Threads!TimingPolicy, Threads!Control

\* What the counters are.
CounterTypes ==
    /\ Pending \in Nat
    /\ Events \in Nat /\ Events <= 1
    /\ Sets \in Int /\ Sets <= latest_state /\ latest_state <= Sets + 1
    /\ latest_state \in Nat
    /\ Len(rows) \in Nat
    /\ Factor * Len(rows) \in Nat

\* They are numbers, there is one event at most, and all states but one at most
\* have been announced.
LEMMA Counters == TypeOK => CounterTypes
<1> SUFFICES ASSUME TypeOK PROVE CounterTypes
    OBVIOUS
<1>1. latest_state \in Nat /\ count \in Nat
  BY FactorAssumption DEF TypeOK, Threads!TypeOK
<1>2. Pending \in Nat
  BY <1>1 DEF Pending
<1>3. Events \in Nat /\ Events <= 1
  BY DEF Events
<1>4. Sets \in Int /\ Sets <= latest_state /\ latest_state <= Sets + 1
  BY <1>1 DEF Sets
<1>5. Len(rows) \in Nat
  BY DEF TypeOK
<1>6. Factor * Len(rows) \in Nat
  BY <1>5, FactorAssumption
<1> QED
  BY <1>1, <1>2, <1>3, <1>4, <1>5, <1>6 DEF CounterTypes

\* While the policy reads, Factor events are counted and not yet used up.
LEMMA PendingWhileReading ==
    Threads!CountInv /\ genPc \in Threads!ReadPcs => Pending = Factor
  BY DEF Threads!CountInv, Threads!PolicyPcs, Pending

\* Apart from the three actions that read for a row or log it, no step touches
\* what was read, and only an exception ends the reading.
LEMMA ReadKinds ==
    [Next]_vars =>
        \/ CollectInputs
        \/ CreateProto
        \/ LogState
        \/ /\ UNCHANGED <<inputs, proto, rows>>
           /\ genPc' \in {"proto", "log"} => genPc' = genPc
           /\ genPc \in {"proto", "log"} => genPc' \in {genPc, "raised"}
           /\ genPc \in Threads!OverPcs => genPc' \in Threads!OverPcs
<1> DEFINE Frame == /\ UNCHANGED <<inputs, proto, rows>>
                    /\ genPc' \in {"proto", "log"} => genPc' = genPc
                    /\ genPc \in {"proto", "log"} => genPc' \in {genPc, "raised"}
                    /\ genPc \in Threads!OverPcs => genPc' \in Threads!OverPcs
<1> SUFFICES ASSUME [Next]_vars, ~CollectInputs, ~CreateProto, ~LogState
             PROVE  Frame
    OBVIOUS
<1> USE DEF dataVars, threadVars, robotVars, policyVars, outputVars,
        Threads!StateStep, Threads!GenStep, Threads!PolicyStep, Threads!OverPcs
<1>1. CASE Robot
  BY <1>1 DEF Robot, RobotSamples, RobotReceives
<1>2. CASE StoreState
  BY <1>2 DEF StoreState, Threads!StoreState
<1>3. CASE CommandPolicy
  BY <1>3 DEF CommandPolicy, CacheInitPos, CommitAction,
              Threads!CacheInitPos, Threads!CommitAction
<1>4. CASE SendCommand \/ ActivateJointControl
  BY <1>4 DEF SendCommand, ActivateJointControl,
              Threads!SendCommand, Threads!ActivateJointControl
<1>5. CASE ControlStep
  <2>1. UNCHANGED <<inputs, proto, rows>>
    BY <1>5 DEF ControlStep
  <2>2. CASE Threads!StateCallback \/ Threads!StateStreamEnds
    BY <2>1, <2>2 DEF Threads!StateCallback, Threads!StateStreamEnds,
                      Threads!SetEvent, Threads!CheckStateStopping
  <2>3. CASE Threads!CheckCommandStopping \/ Threads!TimingPolicy
    BY <2>1, <2>3 DEF Threads!CheckCommandStopping, Threads!TimingPolicy,
                      Threads!WaitReturns, Threads!WaitTimesOut,
                      Threads!ClearEvent, Threads!SleepReturns
  <2>4. CASE Threads!PolicyRaises \/ Threads!DropCommand \/ Threads!ActivationFails
    BY <2>1, <2>4 DEF Threads!PolicyRaises, Threads!DropCommand,
                      Threads!ActivationFails, Threads!ReadPcs
  <2>5. CASE Threads!Control
    BY <2>1, <2>5 DEF Threads!Control, Threads!StartStateThread,
                      Threads!StartGenerator, Threads!StopCommandStream,
                      Threads!StopStateStream
  <2> QED
    BY <1>5, <2>2, <2>3, <2>4, <2>5 DEF ControlStep
<1>6. CASE UNCHANGED vars
  BY <1>6 DEF vars
<1> QED
  BY <1>1, <1>2, <1>3, <1>4, <1>5, <1>6 DEF Next, CommandPolicy

\* A row is added at the end of the log, with what was read for it.
LEMMA RowAdded ==
    TypeOK /\ LogState =>
        /\ Len(rows') = Len(rows) + 1
        /\ \A k \in 1..Len(rows) : rows'[k] = rows[k]
        /\ rows'[Len(rows) + 1].state = inputs.state
        /\ rows'[Len(rows) + 1].deadline = proto.deadline
        /\ rows'[Len(rows) + 1].raw = latest_state
<1> DEFINE row == [key |-> proto.key, state |-> inputs.state,
                   last |-> inputs.last, deadline |-> proto.deadline,
                   raw |-> latest_state]
<1> SUFFICES ASSUME rows \in Seq(Rows), row \in Rows, rows' = Append(rows, row)
             PROVE  /\ Len(rows') = Len(rows) + 1
                    /\ \A k \in 1..Len(rows) : rows'[k] = rows[k]
                    /\ rows'[Len(rows) + 1] = row
  BY DEF TypeOK, LogState, Commands, Rows
<1> HIDE DEF row
<1> QED
  BY AppendProperties

\* Rows have numbers in them.
LEMMA RowNumbers ==
    TypeOK => \A k \in 1..Len(rows) : /\ rows[k].state \in Nat
                                     /\ rows[k].deadline \in Nat
                                     /\ rows[k].raw \in Nat
<1> SUFFICES ASSUME rows \in Seq(Rows), NEW k \in 1..Len(rows)
             PROVE  /\ rows[k].state \in Nat
                    /\ rows[k].deadline \in Nat
                    /\ rows[k].raw \in Nat
  BY DEF TypeOK
<1>1. rows[k] \in Rows
  BY ElementOfSeq
<1> QED
  BY <1>1 DEF Rows

-----------------------------------------------------------------------------
(* The inductive invariant, part by part.                                  *)

\* With what is counted and set no further than before, the pace is kept.
LEMMA SlackKept ==
    ASSUME NEW a \in Nat, NEW p \in Nat, NEW e \in Nat, NEW s \in Int,
           NEW p2 \in Nat, NEW e2 \in Nat, NEW s2 \in Int,
           a + p + e <= s, p2 + e2 + s <= p + e + s2
    PROVE  a + p2 + e2 <= s2
  OBVIOUS

\* A row uses up the Factor events counted for it; other steps add no row, and
\* count no event that was not set.
LEMMA RateStep ==
    TypeOK /\ Threads!CountInv /\ RateInv /\ [Next]_vars => RateInv'
<1> SUFFICES ASSUME TypeOK, Threads!CountInv, RateInv, [Next]_vars PROVE RateInv'
    OBVIOUS
<1>1. TypeOK'
  BY TypeStep
<1>2. CASE LogState
  <2>1. Pending = Factor
    BY <1>2, PendingWhileReading
       DEF LogState, Threads!LogState, Threads!PolicyStep, Threads!GenStep,
           Threads!ReadPcs
  <2>2. Pending' = 0
    BY <1>2 DEF LogState, Threads!LogState, Threads!PolicyStep, Threads!GenStep,
                Threads!ReadPcs, Threads!DividerPcs, Pending
  <2>3. Events' = Events /\ Sets' = Sets
    BY <1>2 DEF LogState, Threads!LogState, Threads!PolicyStep, Threads!GenStep,
                Events, Sets
  <2>4. Len(rows') = Len(rows) + 1
    BY <1>2, RowAdded
  <2>5. ASSUME NEW n \in Nat, NEW e \in Nat, NEW s \in Int,
               Factor * n + Factor + e <= s
        PROVE  Factor * (n + 1) + 0 + e <= s
    BY <2>5, FactorAssumption
  <2> QED
    BY <2>1, <2>2, <2>3, <2>4, <2>5, Counters DEF RateInv, CounterTypes
<1>3. CASE ~LogState
  <2>1. UNCHANGED rows
    BY <1>3, ReadKinds DEF CollectInputs, CreateProto, outputVars
  <2>2. Factor * Len(rows') = Factor * Len(rows)
    BY <2>1
  <2>3. Pending' + Events' + Sets <= Pending + Events + Sets'
    BY SlackStep
  <2>4. CounterTypes'
    BY <1>1, Counters, PTL
  <2> QED
    BY <2>2, <2>3, <2>4, Counters, SlackKept DEF RateInv, CounterTypes
<1> QED
  BY <1>2, <1>3

\* How the three actions that read for a row or log it move the generator, and
\* what they leave alone.
LEMMA ReadMoves ==
    /\ CollectInputs =>
         /\ genPc = "inputs" /\ genPc' = "proto"
         /\ inputs'.state = latest_state
         /\ UNCHANGED <<latest_state, rows>>
         /\ UNCHANGED <<event, stPc>>
    /\ CreateProto =>
         /\ genPc = "proto" /\ genPc' = "log"
         /\ proto'.deadline = latest_state
         /\ UNCHANGED <<latest_state, rows, inputs>>
         /\ UNCHANGED <<event, stPc>>
    /\ LogState =>
         /\ genPc = "log" /\ genPc' = "commit"
         /\ UNCHANGED <<latest_state, inputs, proto>>
         /\ UNCHANGED <<event, stPc>>
  BY DEF CollectInputs, CreateProto, LogState, Command, outputVars, policyVars,
         Threads!CollectInputs, Threads!CreateProto, Threads!LogState,
         Threads!PolicyStep, Threads!GenStep

\* The reads of latest_state for a row lie in order: the state thread, whose
\* steps may come between any two of them, only ever moves it on.
LEMMA ReadsStep ==
    TypeOK /\ Threads!CountInv /\ RateInv /\ ReadsInv /\ [Next]_vars => ReadsInv'
<1> SUFFICES ASSUME TypeOK, Threads!CountInv, RateInv, ReadsInv, [Next]_vars
             PROVE  ReadsInv'
    OBVIOUS
<1>1. /\ latest_state \in Nat /\ latest_state' \in Nat /\ latest_state' >= latest_state
      /\ Len(rows) \in Nat /\ Factor * (Len(rows) + 1) \in Nat
      /\ inputs.state \in Nat
  <2>1. CounterTypes /\ CounterTypes'
    BY TypeStep, Counters, PTL
  <2>2. latest_state' >= latest_state
    BY LatestGrows
  <2>3. inputs.state \in Nat
    BY DEF TypeOK
  <2>4. Factor * (Len(rows) + 1) \in Nat
    BY <2>1, FactorAssumption DEF CounterTypes
  <2> QED
    BY <2>1, <2>2, <2>3, <2>4 DEF CounterTypes
<1>2. \A k \in 1..Len(rows) : rows[k].raw \in Nat
  BY RowNumbers
<1>3. rows # <<>> => Len(rows) \in 1..Len(rows)
  BY EmptySeq, <1>1 DEF TypeOK
<1>4. CASE CollectInputs
  <2>1. /\ genPc = "inputs" /\ genPc' = "proto" /\ inputs'.state = latest_state
        /\ UNCHANGED <<latest_state, rows>>
    BY <1>4, ReadMoves
  <2>2. Pending = Factor
    BY <2>1, PendingWhileReading DEF Threads!ReadPcs
  <2>3. ASSUME NEW n \in Nat, NEW e \in Nat, NEW s \in Int, NEW l \in Nat,
               Factor * n + Factor + e <= s, s <= l
        PROVE  Factor * (n + 1) <= l
    BY <2>3, FactorAssumption
  <2>4. Factor * (Len(rows) + 1) <= latest_state
    BY <2>2, <2>3, Counters DEF RateInv, CounterTypes
  <2>5. rows # <<>> => rows[Len(rows)].raw <= latest_state
    BY <1>3 DEF ReadsInv
  <2> QED
    BY <1>1, <2>1, <2>4, <2>5 DEF ReadsInv, Observing
<1>5. CASE CreateProto
  <2>1. /\ genPc = "proto" /\ genPc' = "log" /\ proto'.deadline = latest_state
        /\ UNCHANGED <<latest_state, rows, inputs>>
    BY <1>5, ReadMoves
  <2> QED
    BY <1>1, <2>1 DEF ReadsInv, Observing
<1>6. CASE LogState
  <2>1. genPc' = "commit" /\ UNCHANGED latest_state
    BY <1>6, ReadMoves
  <2>2. \A k \in 1..Len(rows') : rows'[k].raw <= latest_state'
    BY <1>1, <1>6, <2>1, RowAdded DEF ReadsInv
  <2> QED
    BY <2>1, <2>2 DEF ReadsInv, Observing
<1>7. CASE /\ UNCHANGED <<inputs, proto, rows>>
           /\ genPc' \in {"proto", "log"} => genPc' = genPc
  <2>1. Observing' => Observing
    BY <1>7 DEF Observing
  <2>2. genPc' = "log" => genPc = "log"
    BY <1>7
  <2>3. Observing' => inputs'.state \in Factor * (Len(rows') + 1) .. latest_state'
    BY <1>1, <1>7, <2>1 DEF ReadsInv
  <2>4. genPc' = "log" => proto'.deadline \in inputs'.state .. latest_state'
    BY <1>1, <1>7, <2>2 DEF ReadsInv
  <2>5. \A k \in 1..Len(rows') : rows'[k].raw <= latest_state'
    BY <1>1, <1>2, <1>7 DEF ReadsInv
  <2>6. Observing' /\ rows' # <<>> => rows'[Len(rows')].raw <= inputs'.state
    BY <1>7, <2>1 DEF ReadsInv
  <2> QED
    BY <2>3, <2>4, <2>5, <2>6 DEF ReadsInv
<1> QED
  BY <1>4, <1>5, <1>6, <1>7, ReadKinds

\* What is counted and what was set since the last observation, for steps that
\* make no observation.
LEMMA FreshKept ==
    ASSUME NEW o \in Nat, NEW p \in Nat, NEW e \in Nat, NEW s \in Int,
           NEW p2 \in Nat, NEW e2 \in Nat, NEW s2 \in Int,
           o + p + e - 2 <= s, p2 + e2 + s <= p + e + s2
    PROVE  o + p2 + e2 - 2 <= s2
  OBVIOUS

\* Between two observations the event is set often enough: those that count for
\* the second and those left over were set after the first, but for two.
LEMMA FreshStep ==
    TypeOK /\ Threads!CountInv /\ FreshInv /\ [Next]_vars => FreshInv'
<1> SUFFICES ASSUME TypeOK, Threads!CountInv, FreshInv, [Next]_vars
             PROVE  FreshInv'
    OBVIOUS
<1>1. CounterTypes /\ CounterTypes'
  BY TypeStep, Counters, PTL
<1>2. Pending' + Events' + Sets <= Pending + Events + Sets'
  BY SlackStep
<1>3. Threads!CountInv'
  BY ThreadInv DEF TypeOK
<1>4. inputs.state \in Nat /\ \A k \in 1..Len(rows) : rows[k].state \in Nat
  BY RowNumbers DEF TypeOK
<1>5. rows # <<>> => Len(rows) \in 1..Len(rows)
  BY EmptySeq, <1>1 DEF TypeOK, CounterTypes
<1> DEFINE last == rows[Len(rows)].state
<1>6. rows # <<>> => last \in Nat
  BY <1>4, <1>5
<1>7. CASE CollectInputs
  <2>1. /\ genPc = "inputs" /\ genPc' = "proto" /\ inputs'.state = latest_state
        /\ UNCHANGED <<latest_state, rows, stPc>>
    BY <1>7, ReadMoves
  <2>2. UNCHANGED event
    BY <1>7, ReadMoves
  <2>3. Pending = Factor
    BY <2>1, PendingWhileReading DEF Threads!ReadPcs
  <2>4. Events' = Events
    BY <2>2 DEF Events
  <2>5. Sets' = Sets
    BY <2>1 DEF Sets
  <2>6. inputs'.state + Events' - 2 <= Sets'
    BY <1>1, <2>1, <2>4, <2>5 DEF CounterTypes
  <2>7. ASSUME rows' # <<>>
        PROVE  inputs'.state >= rows'[Len(rows')].state + Factor - 2
    <3>1. rows # <<>> /\ rows' = rows
      BY <2>1, <2>7
    <3>2. last + Pending + Events - 2 <= Sets
      BY <2>1, <3>1 DEF FreshInv, Observing, Threads!OverPcs
    <3>3. latest_state >= last + Factor - 2
      BY <1>1, <1>6, <2>3, <3>1, <3>2, FactorAssumption DEF CounterTypes
    <3> QED
      BY <2>1, <3>1, <3>3
  <2>8. Observing'
    BY <2>1 DEF Observing
  <2> QED
    BY <2>6, <2>7, <2>8 DEF FreshInv
<1>8. CASE LogState
  <2>1. /\ genPc = "log" /\ genPc' = "commit"
        /\ UNCHANGED <<latest_state, stPc>>
    BY <1>8, ReadMoves
  <2>2. UNCHANGED event
    BY <1>8, ReadMoves
  <2>3. inputs.state + Events - 2 <= Sets
    BY <2>1 DEF FreshInv, Observing
  <2>4. Pending' = 0
    BY <2>1 DEF Pending, Threads!DividerPcs, Threads!ReadPcs
  <2>5. Events' = Events
    BY <2>2 DEF Events
  <2>6. Sets' = Sets
    BY <2>1 DEF Sets
  <2>7. rows'[Len(rows')].state = inputs.state
    BY <1>8, RowAdded
  <2>8. ASSUME NEW o \in Nat, NEW e \in Nat, NEW s \in Int, o + e - 2 <= s
        PROVE  o + 0 + e - 2 <= s
    BY <2>8
  <2>9. rows'[Len(rows')].state + Pending' + Events' - 2 <= Sets'
    BY <1>1, <1>4, <2>3, <2>4, <2>5, <2>6, <2>7, <2>8 DEF CounterTypes
  <2>10. ~Observing'
    BY <2>1 DEF Observing
  <2> QED
    BY <2>9, <2>10 DEF FreshInv
<1>9. CASE /\ UNCHANGED <<inputs, rows>>
           /\ Observing' => Observing
           /\ genPc' \notin Threads!OverPcs /\ ~Observing' => ~Observing
           /\ genPc' \notin Threads!OverPcs => genPc \notin Threads!OverPcs
  <2>1. ASSUME Observing'
        PROVE  inputs'.state + Events' - 2 <= Sets'
    <3>1. Pending = Factor
      BY <1>9, <2>1, PendingWhileReading DEF Observing, Threads!ReadPcs
    <3>2. Pending' = Factor
      BY <1>3, <2>1 DEF Threads!CountInv, Threads!PolicyPcs, Pending, Observing,
                        Threads!ReadPcs
    <3>3. ASSUME NEW p \in Nat, NEW e \in Nat, NEW s \in Int, NEW e2 \in Nat,
                 NEW s2 \in Int, p + e2 + s <= p + e + s2
          PROVE  0 + e2 + s <= 0 + e + s2
      BY <3>3
    <3>4. 0 + Events' + Sets <= 0 + Events + Sets'
      BY <1>1, <1>2, <3>1, <3>2, <3>3, FactorAssumption DEF CounterTypes
    <3>5. inputs.state + Events - 2 <= Sets
      BY <1>9, <2>1 DEF FreshInv
    <3>6. inputs.state + 0 + Events - 2 <= Sets
      BY <1>1, <1>4, <3>5 DEF CounterTypes
    <3>7. inputs.state + 0 + Events' - 2 <= Sets'
      BY <1>1, <1>4, <3>4, <3>6, FreshKept DEF CounterTypes
    <3> QED
      BY <1>1, <1>4, <1>9, <3>7 DEF CounterTypes
  <2>2. ASSUME Observing', rows' # <<>>
        PROVE  inputs'.state >= rows'[Len(rows')].state + Factor - 2
    BY <1>9, <2>2 DEF FreshInv
  <2>3. ASSUME ~Observing', rows' # <<>>, genPc' \notin Threads!OverPcs
        PROVE  rows'[Len(rows')].state + Pending' + Events' - 2 <= Sets'
    <3>1. last + Pending + Events - 2 <= Sets /\ rows # <<>>
      BY <1>9, <2>3 DEF FreshInv
    <3>2. last + Pending' + Events' - 2 <= Sets'
      BY <1>1, <1>2, <1>6, <3>1, FreshKept DEF CounterTypes
    <3> QED
      BY <1>9, <3>2
  <2> QED
    BY <2>1, <2>2, <2>3 DEF FreshInv
<1>10. CASE CreateProto
  <2>1. genPc = "proto" /\ genPc' = "log" /\ UNCHANGED <<inputs, rows>>
    BY <1>10, ReadMoves
  <2> QED
    BY <1>9, <2>1 DEF Observing, Threads!OverPcs
<1>11. CASE /\ UNCHANGED <<inputs, proto, rows>>
            /\ genPc' \in {"proto", "log"} => genPc' = genPc
            /\ genPc \in {"proto", "log"} => genPc' \in {genPc, "raised"}
            /\ genPc \in Threads!OverPcs => genPc' \in Threads!OverPcs
  BY <1>9, <1>11 DEF Observing, Threads!OverPcs
<1> QED
  BY <1>7, <1>8, <1>10, <1>11, ReadKinds

\* What the invariant says of the reads is what the three properties say of the
\* row that is made of them.
LEMMA RowsStep ==
    TypeOK /\ ReadsInv /\ FreshInv /\ RateBound /\ FreshInputs /\ ReadsInOrder
        /\ [Next]_vars
        => RateBound' /\ FreshInputs' /\ ReadsInOrder'
<1> SUFFICES ASSUME TypeOK, ReadsInv, FreshInv, [Next]_vars,
                    RateBound, FreshInputs, ReadsInOrder
             PROVE  RateBound' /\ FreshInputs' /\ ReadsInOrder'
    OBVIOUS
<1>1. CASE ~LogState
  <2>1. UNCHANGED rows
    BY <1>1, ReadKinds, ReadMoves
  <2> QED
    BY <2>1 DEF RateBound, FreshInputs, ReadsInOrder
<1>2. CASE LogState
  <2> DEFINE n == Len(rows)
  <2>1. /\ n \in Nat /\ Len(rows') = n + 1
        /\ \A k \in 1..n : rows'[k] = rows[k]
    BY <1>2, RowAdded, Counters DEF CounterTypes
  <2>2. /\ rows'[n + 1].state = inputs.state
        /\ rows'[n + 1].deadline = proto.deadline
        /\ rows'[n + 1].raw = latest_state
    BY <1>2, RowAdded
  <2>3. genPc = "log" /\ Observing
    BY <1>2, ReadMoves DEF Observing
  <2>4. n # 0 => rows # <<>>
    BY EmptySeq DEF TypeOK
  <2>5. /\ inputs.state \in Nat /\ proto.deadline \in Nat /\ latest_state \in Nat
        /\ Factor * (n + 1) \in Nat
    BY <2>1, FactorAssumption, Counters DEF TypeOK, Commands, CounterTypes
  <2>6. /\ Factor * (n + 1) <= inputs.state
        /\ inputs.state <= proto.deadline
        /\ proto.deadline <= latest_state
    BY <2>3, <2>5 DEF ReadsInv
  <2>7. n # 0 => /\ inputs.state >= rows[n].state + Factor - 2
                 /\ rows[n].raw <= inputs.state
    BY <2>3, <2>4 DEF ReadsInv, FreshInv
  <2> HIDE DEF n
  <2>8. RateBound'
    <3> SUFFICES ASSUME NEW k \in 1..n + 1 PROVE rows'[k].state >= Factor * k
      BY <2>1 DEF RateBound
    <3>1. CASE k = n + 1
      BY <2>2, <2>5, <2>6, <3>1
    <3>2. CASE k \in 1..n
      BY <2>1, <3>2 DEF RateBound, n
    <3> QED
      BY <2>1, <3>1, <3>2
  <2>9. FreshInputs'
    <3> SUFFICES ASSUME NEW k \in 1..n
                 PROVE  rows'[k + 1].state >= rows'[k].state + Factor - 2
      BY <2>1 DEF FreshInputs
    <3>1. CASE k = n
      BY <2>1, <2>2, <2>7, <3>1
    <3>2. CASE k \in 1..n - 1
      <4>1. k + 1 \in 1..n /\ k \in 1..n
        BY <2>1, <3>2
      <4> QED
        BY <2>1, <3>2, <4>1 DEF FreshInputs, n
    <3> QED
      BY <2>1, <3>1, <3>2
  <2>10. ASSUME NEW k \in 1..n + 1
         PROVE  rows'[k].state <= rows'[k].deadline /\ rows'[k].deadline <= rows'[k].raw
    <3>1. CASE k = n + 1
      BY <2>2, <2>6, <3>1
    <3>2. CASE k \in 1..n
      BY <2>1, <3>2 DEF ReadsInOrder, n
    <3> QED
      BY <2>1, <3>1, <3>2
  <2>11. ASSUME NEW k \in 1..n PROVE rows'[k].raw <= rows'[k + 1].state
    <3>1. CASE k = n
      BY <2>1, <2>2, <2>7, <3>1
    <3>2. CASE k \in 1..n - 1
      <4>1. k + 1 \in 1..n /\ k \in 1..n
        BY <2>1, <3>2
      <4> QED
        BY <2>1, <3>2, <4>1 DEF ReadsInOrder, n
    <3> QED
      BY <2>1, <3>1, <3>2
  <2>12. ReadsInOrder'
    BY <2>1, <2>10, <2>11 DEF ReadsInOrder
  <2> QED
    BY <2>8, <2>9, <2>12
<1> QED
  BY <1>1, <1>2

\* The invariant holds before the first state arrives.
LEMMA InvInit == Init => IInv
<1> SUFFICES ASSUME Init PROVE IInv
    OBVIOUS
<1>1. TypeOK /\ Threads!CountInv
  BY InitType, InitThreads
<1>2. /\ rows = <<>> /\ genPc = "off" /\ latest_state = 0 /\ stPc = "off"
  BY DEF Init, Threads!Init, NoState
<1>3. Events = 0
  BY DEF Init, Threads!Init, Events
<1>4. Pending = 0 /\ Sets = 0 /\ ~Observing
  BY <1>2 DEF Pending, Sets, Observing, Threads!DividerPcs, Threads!ReadPcs
<1>5. RateInv
  BY <1>2, <1>3, <1>4, FactorAssumption DEF RateInv
<1>6. ReadsInv /\ FreshInv
  BY <1>2, <1>4 DEF ReadsInv, FreshInv
<1>7. RateBound /\ FreshInputs /\ ReadsInOrder
  BY <1>2 DEF RateBound, FreshInputs, ReadsInOrder
<1> QED
  BY <1>1, <1>5, <1>6, <1>7 DEF IInv

\* The invariant is inductive: the six strengthenings and properties hold
\* however the robot, the state thread and the generator interleave.
THEOREM LoopInvariant == Spec => []IInv
<1>1. IInv /\ [Next]_vars => IInv'
  <2> SUFFICES ASSUME IInv, [Next]_vars PROVE IInv'
    OBVIOUS
  <2>1. TypeOK' /\ Threads!CountInv'
    BY TypeStep, ThreadInv DEF IInv, TypeOK
  <2>2. RateInv' /\ ReadsInv' /\ FreshInv'
    BY RateStep, ReadsStep, FreshStep DEF IInv
  <2>3. RateBound' /\ FreshInputs' /\ ReadsInOrder'
    BY RowsStep DEF IInv
  <2> QED
    BY <2>1, <2>2, <2>3 DEF IInv
<1> QED
  BY <1>1, InvInit, PTL DEF Spec

\* EventDivider paces the loop: the k-th command never acts on a state before
\* the one numbered Factor * k.
THEOREM PacedByStates == Spec => []RateBound
<1>1. IInv => RateBound
  BY DEF IInv
<1> QED
  BY <1>1, LoopInvariant, PTL

\* Successive commands act on states that are at least Factor - 2 apart,
\* although clearing the event races with setting it.
THEOREM InputsAreFresh == Spec => []FreshInputs
<1>1. IInv => FreshInputs
  BY DEF IInv
<1> QED
  BY <1>1, LoopInvariant, PTL

\* The reads of the unlocked latest_state are in order, within a command and
\* from one command to the next.
THEOREM ReadsAreOrdered == Spec => []ReadsInOrder
<1>1. IInv => ReadsInOrder
  BY DEF IInv
<1> QED
  BY <1>1, LoopInvariant, PTL

\* The policy never finds None in latest_state: Factor events were counted for
\* the command it computes, and each of them stands for a state.
THEOREM PolicyFindsState == Spec => []PolicyHasState
<1>1. IInv => PolicyHasState
  <2> SUFFICES ASSUME IInv, genPc \in Threads!ReadPcs PROVE latest_state # NoState
    BY DEF PolicyHasState
  <2>1. CounterTypes
    BY Counters DEF IInv
  <2>2. Pending = Factor
    BY PendingWhileReading DEF IInv
  <2>3. Factor * Len(rows) + Pending + Events <= Sets
    BY DEF IInv, RateInv
  <2> QED
    BY <2>1, <2>2, <2>3, FactorAssumption DEF CounterTypes, NoState
<1> QED
  BY <1>1, LoopInvariant, PTL
=============================================================================
