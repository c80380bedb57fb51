----------------------- MODULE CommandProtocol_proof -----------------------
(***************************************************************************)
(* More proofs about ControlLoop, for every Factor, GainSteps and          *)
(* MaxStates: what the commands carry, when joint control is activated,    *)
(* what a logged state can acknowledge, and that the loop implements       *)
(* CommandPipe.                                                            *)
(***************************************************************************)
EXTENDS MCControlLoop, ControlLoop_proof

-----------------------------------------------------------------------------
(* The invariants.                                                         *)

\* The row of the command in the generator's hands is logged, and the command
\* is not sent.
Unsent == genPc \in {"commit", "send"}

\* The count is one ahead of the log, but between the two.
CountInSequence ==
    /\ last_action = key - 1
    /\ Len(rows) = IF genPc = "commit" THEN key ELSE key - 1

\* What the generator holds while it makes a row, and until the row's command
\* is sent.
HeldInSequence ==
    /\ Observing => inputs.last = last_action
    /\ genPc = "log" => proto.key = key /\ proto.state = inputs.state
    /\ genPc = "log" \/ Unsent => (proto.key <= GainSteps => proto.gains)
    /\ Unsent => /\ rows # <<>>
                 /\ proto.key = rows[Len(rows)].key
                 /\ proto.state = rows[Len(rows)].state
                 /\ proto.deadline = rows[Len(rows)].deadline

\* Every row but that of an unsent command has been sent.
SentInSequence ==
    /\ Unsent => Len(sent) = Len(rows) - 1
    /\ ~Unsent /\ genPc # "dropped" => Len(sent) = Len(rows)

KeyInv ==
    /\ CountInSequence
    /\ HeldInSequence
    /\ SentInSequence
    /\ KeysInSequence

\* Joint control is asked for between the first command and the second.
ActivationInv ==
    /\ activations = IF activated THEN 1 ELSE 0
    /\ sent # <<>> => sent[1].gains
    /\ genPc = "activate" => ~activated /\ Len(sent) = 1
    /\ ~activated => Len(sent) <= 1
    /\ ~activated /\ genPc # "activate" /\ genPc \notin Threads!OverPcs => sent = <<>>
    /\ activated => sent # <<>>

\* A state acknowledges what had been received when it was sampled, so no
\* later one acknowledges less.
SampledInOrder ==
    /\ \A i \in 1..Len(sampled) : sampled[i] <= received
    /\ \A i, j \in 1..Len(sampled) : i <= j => sampled[i] <= sampled[j]

\* A row's state acknowledges a command of an earlier row.
RowsAcknowledge == \A k \in 1..Len(rows) : sampled[rows[k].raw] < k

AckInv == SampledInOrder /\ RowsAcknowledge

ProtocolInv == IInv /\ KeyInv /\ ActivationInv /\ AckInv

-----------------------------------------------------------------------------
(* How steps move the generator, and what they change.                     *)

\* Moves of the generator in which nothing is read for a command, logged, sent
\* or activated.
QuietMove ==
    \/ genPc' = genPc
    \/ genPc = "send" /\ genPc' = "dropped"
    \/ genPc = "activate" /\ genPc' = "raised"
    \/ /\ genPc \notin {"commit", "send", "activate"} \cup Threads!OverPcs
       /\ genPc' \notin {"proto", "log", "commit", "send", "activate", "dropped"}

\* The six actions that deal with a command; any other step is quiet, and leaves
\* alone what is computed, logged, sent and activated.
LEMMA ProtocolKinds ==
    [Next]_vars =>
        \/ CollectInputs \/ CreateProto \/ LogState
        \/ CommitAction \/ SendCommand \/ ActivateJointControl
        \/ /\ QuietMove
           /\ UNCHANGED <<inputs, proto, last_action, key, rows>>
           /\ UNCHANGED <<sent, activations, activated>>
<1> DEFINE Quiet == /\ QuietMove
                    /\ UNCHANGED <<inputs, proto, last_action, key, rows>>
                    /\ UNCHANGED <<sent, activations, activated>>
<1> SUFFICES ASSUME [Next]_vars, ~CollectInputs, ~CreateProto, ~LogState,
                    ~CommitAction, ~SendCommand, ~ActivateJointControl
             PROVE  Quiet
    OBVIOUS
<1> USE DEF dataVars, threadVars, robotVars, policyVars, outputVars,
        Threads!StateStep, Threads!GenStep, Threads!PolicyStep, Threads!OverPcs
<1>1. CASE Robot
  BY <1>1 DEF Robot, RobotSamples, RobotReceives, QuietMove
<1>2. CASE StoreState
  BY <1>2 DEF StoreState, Threads!StoreState, QuietMove
<1>3. CASE CacheInitPos
  BY <1>3 DEF CacheInitPos, Threads!CacheInitPos, QuietMove
<1>4. CASE ControlStep
  <2>1. /\ UNCHANGED <<inputs, proto, last_action, key, rows>>
        /\ UNCHANGED <<sent, activations>>
    BY <1>4 DEF ControlStep
  <2>2. CASE Threads!StateCallback \/ Threads!StateStreamEnds
    BY <2>1, <2>2 DEF Threads!StateCallback, Threads!StateStreamEnds,
                      Threads!SetEvent, Threads!CheckStateStopping, QuietMove
  <2>3. CASE Threads!CheckCommandStopping \/ Threads!TimingPolicy
    BY <2>1, <2>3 DEF Threads!CheckCommandStopping, Threads!TimingPolicy,
                      Threads!WaitReturns, Threads!WaitTimesOut,
                      Threads!ClearEvent, Threads!SleepReturns, QuietMove
  <2>4. CASE Threads!PolicyRaises \/ Threads!DropCommand \/ Threads!ActivationFails
    BY <2>1, <2>4 DEF Threads!PolicyRaises, Threads!DropCommand,
                      Threads!ActivationFails, Threads!ReadPcs, QuietMove
  <2>5. CASE Threads!Control
    BY <2>1, <2>5 DEF Threads!Control, Threads!StartStateThread,
                      Threads!StartGenerator, Threads!StopCommandStream,
                      Threads!StopStateStream, QuietMove
  <2> QED
    BY <1>4, <2>2, <2>3, <2>4, <2>5 DEF ControlStep
<1>5. CASE UNCHANGED vars
  BY <1>5 DEF vars, QuietMove
<1> HIDE DEF Quiet
<1> QED
  BY <1>1, <1>2, <1>3, <1>4, <1>5 DEF Next, CommandPolicy

\* How the six actions move the generator, and what they leave alone.
LEMMA CommandMoves ==
    /\ CollectInputs =>
         /\ genPc = "inputs" /\ genPc' = "proto"
         /\ inputs'.last = last_action
         /\ UNCHANGED <<proto, last_action, key, rows>>
         /\ UNCHANGED <<sent, activations, activated>>
    /\ CreateProto =>
         /\ genPc = "proto" /\ genPc' = "log"
         /\ proto' = Command(latest_state)
         /\ UNCHANGED <<inputs, last_action, key, rows>>
         /\ UNCHANGED <<sent, activations, activated>>
    /\ LogState =>
         /\ genPc = "log" /\ genPc' = "commit"
         /\ UNCHANGED <<inputs, proto, last_action, key>>
         /\ UNCHANGED <<sent, activations, activated>>
    /\ CommitAction =>
         /\ genPc = "commit" /\ genPc' = "send"
         /\ last_action' = key /\ key' = key + 1
         /\ UNCHANGED <<inputs, proto, rows>>
         /\ UNCHANGED <<sent, activations, activated>>
    /\ SendCommand =>
         /\ genPc = "send" /\ genPc' = IF activated THEN "loop" ELSE "activate"
         /\ sent' = Append(sent, proto)
         /\ UNCHANGED <<inputs, proto, last_action, key, rows>>
         /\ UNCHANGED <<activations, activated>>
    /\ ActivateJointControl =>
         /\ genPc = "activate" /\ genPc' = "loop"
         /\ activations' = activations + 1 /\ activated' = TRUE
         /\ UNCHANGED <<inputs, proto, last_action, key, rows>>
         /\ UNCHANGED sent
  BY DEF CollectInputs, CreateProto, LogState, CommitAction, SendCommand,
         ActivateJointControl, outputVars, policyVars,
         Threads!CollectInputs, Threads!CreateProto, Threads!LogState,
         Threads!CommitAction, Threads!SendCommand, Threads!ActivateJointControl,
         Threads!PolicyStep, Threads!GenStep

\* A row has the key and the action that the generator holds.
LEMMA RowKey ==
    TypeOK /\ LogState =>
        /\ rows'[Len(rows) + 1].key = proto.key
        /\ rows'[Len(rows) + 1].last = inputs.last
<1> DEFINE row == [key |-> proto.key, state |-> inputs.state,
                   last |-> inputs.last, deadline |-> proto.deadline,
                   raw |-> latest_state]
<1> SUFFICES ASSUME rows \in Seq(Rows), row \in Rows, rows' = Append(rows, row)
             PROVE  rows'[Len(rows) + 1] = row
  BY DEF TypeOK, LogState, Commands, Rows
<1> HIDE DEF row
<1> QED
  BY AppendProperties

\* A command is sent after those that were.
LEMMA CommandSent ==
    TypeOK /\ SendCommand =>
        /\ Len(sent) \in Nat
        /\ Len(sent') = Len(sent) + 1
        /\ \A k \in 1..Len(sent) : sent'[k] = sent[k]
        /\ sent'[Len(sent) + 1] = proto
<1> SUFFICES ASSUME sent \in Seq(Commands), proto \in Commands,
                    sent' = Append(sent, proto)
             PROVE  /\ Len(sent) \in Nat
                    /\ Len(sent') = Len(sent) + 1
                    /\ \A k \in 1..Len(sent) : sent'[k] = sent[k]
                    /\ sent'[Len(sent) + 1] = proto
  BY DEF TypeOK, SendCommand
<1> QED
  BY AppendProperties

-----------------------------------------------------------------------------
(* Keys.                                                                   *)

\* The next key follows the log's last row.
LEMMA CountStep == TypeOK /\ CountInSequence /\ [Next]_vars => CountInSequence'
<1> SUFFICES ASSUME TypeOK, CountInSequence, [Next]_vars PROVE CountInSequence'
    OBVIOUS
<1>0. key \in Nat /\ Len(rows) \in Nat
  BY DEF TypeOK
<1>1. CASE LogState
  BY <1>0, <1>1, CommandMoves, RowAdded DEF CountInSequence
<1>2. CASE CommitAction
  BY <1>0, <1>2, CommandMoves DEF CountInSequence
<1>3. CASE CollectInputs \/ CreateProto \/ SendCommand \/ ActivateJointControl
  BY <1>0, <1>3, CommandMoves DEF CountInSequence
<1>4. CASE QuietMove /\ UNCHANGED <<last_action, key, rows>>
  BY <1>0, <1>4 DEF CountInSequence, QuietMove
<1> QED
  BY <1>1, <1>2, <1>3, <1>4, ProtocolKinds

\* What the generator holds is what it will log or has just logged.
LEMMA HeldStep ==
    TypeOK /\ HeldInSequence /\ [Next]_vars => HeldInSequence'
<1> SUFFICES ASSUME TypeOK, HeldInSequence, [Next]_vars PROVE HeldInSequence'
    OBVIOUS
<1> USE DEF HeldInSequence, Observing, Unsent
<1>0. rows \in Seq(Rows) /\ Len(rows) \in Nat
  BY DEF TypeOK
<1>1. CASE CollectInputs
  BY <1>1, CommandMoves
<1>2. CASE CreateProto
  <2>1. /\ genPc = "proto" /\ genPc' = "log"
        /\ UNCHANGED <<inputs, last_action, key>>
    BY <1>2, CommandMoves
  <2>2. /\ proto'.key = key
        /\ proto'.state = inputs.state
        /\ proto'.gains = (key <= GainSteps)
    BY <1>2, CommandMoves DEF Command
  <2>3. proto'.key <= GainSteps => proto'.gains
    BY <2>2, Zenon
  <2> QED
    BY <2>1, <2>2, <2>3
<1>3. CASE LogState
  <2>1. rows' # <<>> /\ Len(rows') = Len(rows) + 1
    BY <1>0, <1>3, RowAdded, EmptySeq
  <2> QED
    BY <1>0, <1>3, <2>1, CommandMoves, RowAdded, RowKey
<1>4. CASE CommitAction
  BY <1>4, CommandMoves
<1>5. CASE SendCommand \/ ActivateJointControl
  BY <1>5, CommandMoves
<1>6. CASE QuietMove /\ UNCHANGED <<inputs, proto, last_action, key, rows>>
  BY <1>6 DEF QuietMove, Threads!OverPcs
<1> QED
  BY <1>1, <1>2, <1>3, <1>4, <1>5, <1>6, ProtocolKinds

\* The commands sent keep up with the log.
LEMMA SentStep ==
    TypeOK /\ SentInSequence /\ [Next]_vars => SentInSequence'
<1> SUFFICES ASSUME TypeOK, SentInSequence, [Next]_vars PROVE SentInSequence'
    OBVIOUS
<1> USE DEF SentInSequence, Unsent
<1>0. Len(rows) \in Nat /\ Len(sent) \in Nat
  BY DEF TypeOK
<1>1. CASE LogState
  BY <1>0, <1>1, CommandMoves, RowAdded
<1>2. CASE SendCommand
  BY <1>0, <1>2, CommandMoves, CommandSent
<1>3. CASE CollectInputs \/ CreateProto \/ CommitAction \/ ActivateJointControl
  BY <1>0, <1>3, CommandMoves
<1>4. CASE QuietMove /\ UNCHANGED rows /\ UNCHANGED sent
  BY <1>0, <1>4 DEF QuietMove, Threads!OverPcs
<1> QED
  BY <1>1, <1>2, <1>3, <1>4, ProtocolKinds

\* Rows and commands are numbered without a gap, and agree.
LEMMA SequenceStep ==
    TypeOK /\ KeyInv /\ [Next]_vars => KeysInSequence'
<1> SUFFICES ASSUME TypeOK, KeyInv, [Next]_vars PROVE KeysInSequence'
    OBVIOUS
<1>0. /\ Len(rows) \in Nat /\ Len(sent) \in Nat /\ key \in Nat /\ proto.key \in Nat
      /\ last_action \in Nat
  BY DEF TypeOK, Commands
<1>1. CASE LogState
  <2>1. /\ genPc = "log" /\ UNCHANGED sent
        /\ Len(rows') = Len(rows) + 1
        /\ \A k \in 1..Len(rows) : rows'[k] = rows[k]
    BY <1>1, CommandMoves, RowAdded
  <2>2. /\ rows'[Len(rows) + 1].key = Len(rows) + 1
        /\ rows'[Len(rows) + 1].last = Len(rows)
        /\ Len(sent) = Len(rows)
    BY <1>0, <1>1, <2>1, RowKey
       DEF KeyInv, CountInSequence, HeldInSequence, SentInSequence, Observing, Unsent
  <2>3. \A k \in 1..Len(rows') : rows'[k].key = k /\ rows'[k].last = k - 1
    <3> SUFFICES ASSUME NEW k \in 1..Len(rows) + 1
                 PROVE  rows'[k].key = k /\ rows'[k].last = k - 1
      BY <2>1
    <3>1. CASE k \in 1..Len(rows)
      BY <2>1, <3>1 DEF KeyInv, KeysInSequence
    <3>2. CASE k = Len(rows) + 1
      BY <1>0, <2>2, <3>2
    <3> QED
      BY <1>0, <3>1, <3>2
  <2>4. \A k \in 1..Len(sent) : rows'[k] = rows[k]
    BY <2>1, <2>2
  <2> QED
    BY <1>0, <2>1, <2>2, <2>3, <2>4 DEF KeyInv, KeysInSequence
<1>2. CASE SendCommand
  <2>1. /\ Unsent /\ UNCHANGED rows
        /\ Len(sent') = Len(sent) + 1
        /\ \A k \in 1..Len(sent) : sent'[k] = sent[k]
        /\ sent'[Len(sent) + 1] = proto
    BY <1>2, CommandMoves, CommandSent DEF Unsent
  <2>2. Len(sent) + 1 = Len(rows)
    BY <1>0, <2>1 DEF KeyInv, SentInSequence
  <2>3. /\ proto.key = rows[Len(rows)].key
        /\ proto.state = rows[Len(rows)].state
        /\ proto.deadline = rows[Len(rows)].deadline
    BY <2>1 DEF KeyInv, HeldInSequence
  <2>4. \A k \in 1..Len(sent') : /\ sent'[k].key = rows[k].key
                                 /\ sent'[k].state = rows[k].state
                                 /\ sent'[k].deadline = rows[k].deadline
    <3> SUFFICES ASSUME NEW k \in 1..Len(sent) + 1
                 PROVE  /\ sent'[k].key = rows[k].key
                        /\ sent'[k].state = rows[k].state
                        /\ sent'[k].deadline = rows[k].deadline
      BY <2>1
    <3>1. CASE k \in 1..Len(sent)
      BY <2>1, <3>1 DEF KeyInv, KeysInSequence
    <3>2. CASE k = Len(sent) + 1
      BY <2>1, <2>2, <2>3, <3>2
    <3> QED
      BY <1>0, <3>1, <3>2
  <2> QED
    BY <1>0, <2>1, <2>2, <2>4 DEF KeyInv, KeysInSequence
<1>3. CASE UNCHANGED rows /\ UNCHANGED sent
  BY <1>3 DEF KeyInv, KeysInSequence
<1> QED
  BY <1>1, <1>2, <1>3, ProtocolKinds, CommandMoves

\* The invariant about keys is inductive.
LEMMA KeyStep == TypeOK /\ KeyInv /\ [Next]_vars => KeyInv'
  BY CountStep, HeldStep, SentStep, SequenceStep DEF KeyInv

-----------------------------------------------------------------------------
(* Activation.                                                             *)

\* The first command carries the gains, and nothing but it is sent before the
\* robot was asked for joint control.
LEMMA ActivationStep ==
    TypeOK /\ KeyInv /\ ActivationInv /\ [Next]_vars => ActivationInv'
<1> SUFFICES ASSUME TypeOK, KeyInv, ActivationInv, [Next]_vars PROVE ActivationInv'
    OBVIOUS
<1> USE DEF ActivationInv, Threads!OverPcs
<1>0. /\ Len(rows) \in Nat /\ Len(sent) \in Nat /\ sent \in Seq(Commands)
      /\ activated \in BOOLEAN /\ activations \in Nat
  BY DEF TypeOK, Threads!TypeOK
<1>1. CASE SendCommand
  <2>1. /\ genPc = "send" /\ genPc' = IF activated THEN "loop" ELSE "activate"
        /\ UNCHANGED <<activations, activated>>
        /\ Len(sent') = Len(sent) + 1
        /\ \A k \in 1..Len(sent) : sent'[k] = sent[k]
        /\ sent'[Len(sent) + 1] = proto
    BY <1>1, CommandMoves, CommandSent
  <2>2. sent' # <<>>
    BY <1>0, <2>1
  <2>3. sent'[1].gains
    <3>1. CASE sent = <<>>
      <4>1. Unsent
        BY <2>1 DEF Unsent
      <4>2. Len(rows) = 1 /\ proto.key = rows[1].key
        <5>1. Len(sent) = 0
          BY <3>1
        <5>2. Len(rows) = 1
          BY <1>0, <4>1, <5>1 DEF KeyInv, SentInSequence
        <5>3. proto.key = rows[Len(rows)].key
          BY <4>1 DEF KeyInv, HeldInSequence
        <5> QED
          BY <5>2, <5>3
      <4>3. proto.key <= GainSteps => proto.gains
        BY <4>1 DEF KeyInv, HeldInSequence
      <4>4. rows[1].key = 1
        BY <4>2 DEF KeyInv, KeysInSequence
      <4>5. proto.key <= GainSteps
        BY <4>2, <4>4, GainStepsAssumption
      <4>6. sent'[1] = proto
        BY <2>1, <3>1
      <4> QED
        BY <4>3, <4>5, <4>6
    <3>2. CASE sent # <<>>
      <4>1. 1 \in 1..Len(sent)
        BY <1>0, <3>2, EmptySeq
      <4> QED
        BY <2>1, <3>2, <4>1
    <3> QED
      BY <3>1, <3>2
  <2>4. ~activated => Len(sent') = 1
    BY <2>1
  <2> QED
    BY <1>0, <2>1, <2>2, <2>3, <2>4
<1>2. CASE ActivateJointControl
  BY <1>0, <1>2, CommandMoves
<1>3. CASE CollectInputs \/ CreateProto \/ LogState \/ CommitAction
  BY <1>3, CommandMoves
<1>4. CASE QuietMove /\ UNCHANGED <<sent, activations, activated>>
  BY <1>0, <1>4 DEF QuietMove
<1> QED
  BY <1>1, <1>2, <1>3, <1>4, ProtocolKinds

-----------------------------------------------------------------------------
(* Acknowledgements.                                                       *)

\* Only the robot samples states, and only it receives commands.
LEMMA RobotKinds ==
    [Next]_vars => \/ RobotSamples
                   \/ RobotReceives
                   \/ UNCHANGED <<sampled, received>>
  BY DEF Next, Robot, StoreState, CommandPolicy, CacheInitPos, CollectInputs,
         CreateProto, LogState, CommitAction, SendCommand, ActivateJointControl,
         ControlStep, vars, dataVars, robotVars

\* A state is sampled with the key of the last command received, which is the
\* number of commands received.
LEMMA StateSampled ==
    TypeOK /\ KeyInv /\ RobotSamples =>
        /\ Len(sampled') = Len(sampled) + 1
        /\ \A i \in 1..Len(sampled) : sampled'[i] = sampled[i]
        /\ sampled'[Len(sampled) + 1] = received
        /\ UNCHANGED <<received, rows>>
<1> SUFFICES ASSUME TypeOK, KeyInv, RobotSamples
             PROVE  /\ Len(sampled') = Len(sampled) + 1
                    /\ \A i \in 1..Len(sampled) : sampled'[i] = sampled[i]
                    /\ sampled'[Len(sampled) + 1] = received
                    /\ UNCHANGED <<received, rows>>
    OBVIOUS
<1>1. (IF received = 0 THEN 0 ELSE sent[received].key) = received
  <2>1. CASE received = 0
    BY <2>1
  <2>2. CASE received # 0
    <3>1. received \in 1..Len(sent) /\ received \in 1..Len(rows)
      BY <2>2 DEF TypeOK, KeyInv, KeysInSequence
    <3> QED
      BY <2>2, <3>1 DEF KeyInv, KeysInSequence
  <2> QED
    BY <2>1, <2>2
<1>2. sampled \in Seq(Nat) /\ received \in Nat /\ sampled' = Append(sampled, received)
  BY <1>1 DEF TypeOK, RobotSamples
<1>3. UNCHANGED <<received, rows>>
  BY DEF RobotSamples, outputVars
<1> QED
  BY <1>2, <1>3, AppendProperties

\* What the robot has received only grows.
LEMMA SampledStep ==
    TypeOK /\ KeyInv /\ SampledInOrder /\ [Next]_vars => SampledInOrder'
<1> SUFFICES ASSUME TypeOK, KeyInv, SampledInOrder, [Next]_vars PROVE SampledInOrder'
    OBVIOUS
<1>0. Len(sampled) \in Nat /\ received \in Nat /\ sampled \in Seq(Nat)
  BY DEF TypeOK
<1>1. \A i \in 1..Len(sampled) : sampled[i] \in Nat
  BY <1>0, ElementOfSeq
<1>2. CASE RobotSamples
  <2> DEFINE n == Len(sampled)
  <2>1. /\ Len(sampled') = n + 1
        /\ \A i \in 1..n : sampled'[i] = sampled[i]
        /\ sampled'[n + 1] = received
        /\ received' = received
    BY <1>2, StateSampled
  <2>2. /\ \A i \in 1..n : sampled[i] <= received
        /\ \A i, j \in 1..n : i <= j => sampled[i] <= sampled[j]
    BY DEF SampledInOrder
  <2>3. n \in Nat
    BY <1>0
  <2> HIDE DEF n
  <2>4. \A i \in 1..n + 1 : sampled'[i] <= received
    <3> SUFFICES ASSUME NEW i \in 1..n + 1 PROVE sampled'[i] <= received
      OBVIOUS
    <3>1. i \in 1..n \/ i = n + 1
      BY <2>3
    <3> QED
      BY <1>0, <2>1, <2>2, <3>1
  <2>5. ASSUME NEW i \in 1..n + 1, NEW j \in 1..n + 1, i <= j
        PROVE  sampled'[i] <= sampled'[j]
    <3>1. CASE j = n + 1
      BY <2>1, <2>4, <3>1
    <3>2. CASE j \in 1..n
      <4>1. i \in 1..n
        BY <2>3, <2>5, <3>2
      <4> QED
        BY <2>1, <2>2, <2>5, <3>2, <4>1
    <3> QED
      BY <2>3, <3>1, <3>2
  <2> QED
    BY <2>1, <2>4, <2>5 DEF SampledInOrder
<1>3. CASE RobotReceives
  <2>1. sampled' = sampled /\ received' = received + 1
    BY <1>3 DEF RobotReceives
  <2> QED
    BY <1>0, <1>1, <2>1 DEF SampledInOrder
<1>4. CASE UNCHANGED <<sampled, received>>
  BY <1>4 DEF SampledInOrder
<1> QED
  BY <1>2, <1>3, <1>4, RobotKinds

\* The states that rows were logged with are states of the stream.
LEMMA RowsSampled ==
    ASSUME IInv
    PROVE  \A k \in 1..Len(rows) : rows[k].raw \in 1..Len(sampled)
<1> SUFFICES ASSUME NEW k \in 1..Len(rows) PROVE rows[k].raw \in 1..Len(sampled)
    OBVIOUS
<1>1. /\ rows[k].state \in Nat /\ rows[k].deadline \in Nat /\ rows[k].raw \in Nat
      /\ latest_state \in 0..Len(sampled) /\ Len(sampled) \in Nat
  BY RowNumbers DEF IInv, TypeOK
<1>2. rows[k].raw <= latest_state
  BY DEF IInv, ReadsInv
<1>3. rows[k].state >= Factor * k
  BY DEF IInv, RateBound
<1>4. rows[k].state <= rows[k].deadline /\ rows[k].deadline <= rows[k].raw
  BY DEF IInv, ReadsInOrder
<1>5. k \in Nat \ {0}
  BY DEF IInv, TypeOK
<1>6. Factor * k \in Nat /\ Factor * k >= 1
  BY <1>5, FactorAssumption
<1> QED
  BY <1>1, <1>2, <1>3, <1>4, <1>6

\* The command of a row isn't sent before the row is logged, nor received.
LEMMA RowsAcknowledgeStep ==
    ASSUME IInv, KeyInv, AckInv, [Next]_vars PROVE RowsAcknowledge'
<1>0. /\ TypeOK /\ Len(sampled) \in Nat /\ received \in Nat /\ Len(rows) \in Nat
      /\ sampled \in Seq(Nat)
  BY DEF IInv, TypeOK
<1>1. \A k \in 1..Len(rows) : rows[k].raw \in 1..Len(sampled)
  BY RowsSampled
<1>2. CASE LogState
  <2> DEFINE n == Len(rows)
  <2>1. /\ genPc = "log"
        /\ sampled' = sampled
        /\ Len(rows') = n + 1
        /\ \A k \in 1..n : rows'[k] = rows[k]
        /\ rows'[n + 1].raw = latest_state
    BY <1>0, <1>2, CommandMoves, RowAdded DEF LogState, robotVars
  <2>2. latest_state \in 1..Len(sampled)
    <3>1. inputs.state \in Factor * (n + 1) .. latest_state
      BY <2>1 DEF IInv, ReadsInv, Observing
    <3>2. Factor * (n + 1) \in Nat /\ Factor * (n + 1) >= 1
      BY <1>0, FactorAssumption
    <3>3. latest_state \in 0..Len(sampled)
      BY DEF IInv, TypeOK
    <3> HIDE DEF n
    <3> QED
      BY <1>0, <3>1, <3>2, <3>3
  <2>3. sampled[latest_state] <= received
    BY <2>2 DEF AckInv, SampledInOrder
  <2>4. received <= n
    BY <1>0, <2>1 DEF TypeOK, KeyInv, SentInSequence, Unsent
  <2>5. sampled[latest_state] \in Nat
    BY <1>0, <2>2, ElementOfSeq
  <2> HIDE DEF n
  <2>6. n \in Nat
    BY <1>0 DEF n
  <2> SUFFICES ASSUME NEW k \in 1..n + 1 PROVE sampled'[rows'[k].raw] < k
    BY <2>1 DEF RowsAcknowledge
  <2>7. CASE k = n + 1
    BY <1>0, <2>1, <2>3, <2>4, <2>5, <2>6, <2>7
  <2>8. CASE k \in 1..n
    BY <2>1, <2>8 DEF AckInv, RowsAcknowledge, n
  <2> QED
    BY <2>6, <2>7, <2>8
<1>3. CASE ~LogState
  <2>1. UNCHANGED rows
    BY <1>3, ReadKinds, ReadMoves
  <2>2. \A i \in 1..Len(sampled) : sampled'[i] = sampled[i]
    BY <1>0, RobotKinds, StateSampled DEF RobotReceives
  <2> QED
    BY <1>1, <2>1, <2>2 DEF AckInv, RowsAcknowledge
<1> QED
  BY <1>2, <1>3

\* Rows are logged with later and later states.
LEMMA RawsInOrder ==
    ASSUME IInv, NEW k \in 1..Len(rows) - 1
    PROVE  rows[k].raw <= rows[k + 1].raw
<1>1. k \in 1..Len(rows) /\ k + 1 \in 1..Len(rows)
  BY DEF IInv, TypeOK
<1>2. /\ rows[k].raw \in Nat
      /\ rows[k + 1].state \in Nat
      /\ rows[k + 1].deadline \in Nat
      /\ rows[k + 1].raw \in Nat
  BY <1>1, RowNumbers DEF IInv
<1>3. /\ rows[k].raw <= rows[k + 1].state
      /\ rows[k + 1].state <= rows[k + 1].deadline
      /\ rows[k + 1].deadline <= rows[k + 1].raw
  BY <1>1 DEF IInv, ReadsInOrder
<1> QED
  BY <1>2, <1>3

-----------------------------------------------------------------------------
(* The theorems.                                                           *)

\* Nothing is sent, logged or sampled initially.
LEMMA ProtocolInit == Init => ProtocolInv
<1> SUFFICES ASSUME Init PROVE ProtocolInv
    OBVIOUS
<1>1. IInv
  BY InvInit
<1>2. /\ sampled = <<>> /\ sent = <<>> /\ rows = <<>> /\ genPc = "off"
      /\ key = 1 /\ last_action = 0 /\ activations = 0 /\ activated = FALSE
  BY DEF Init, Threads!Init
<1>3. KeyInv
  BY <1>2 DEF KeyInv, CountInSequence, HeldInSequence, SentInSequence,
              KeysInSequence, Unsent, Observing
<1>4. ActivationInv
  BY <1>2 DEF ActivationInv
<1>5. AckInv
  BY <1>2 DEF AckInv, SampledInOrder, RowsAcknowledge
<1> QED
  BY <1>1, <1>3, <1>4, <1>5 DEF ProtocolInv

\* The invariant of the protocol is inductive, upon that of the pace.
THEOREM ProtocolInvariant == Spec => []ProtocolInv
<1>1. ProtocolInv /\ IInv' /\ [Next]_vars => ProtocolInv'
  <2> SUFFICES ASSUME ProtocolInv, IInv', [Next]_vars PROVE ProtocolInv'
    OBVIOUS
  <2>1. TypeOK /\ IInv /\ KeyInv /\ ActivationInv /\ AckInv
    BY DEF ProtocolInv, IInv
  <2>2. KeyInv'
    BY <2>1, KeyStep
  <2>3. ActivationInv'
    BY <2>1, ActivationStep
  <2>4. AckInv'
    BY <2>1, SampledStep, RowsAcknowledgeStep DEF AckInv
  <2> QED
    BY <2>2, <2>3, <2>4 DEF ProtocolInv
<1> QED
  BY <1>1, ProtocolInit, LoopInvariant, PTL DEF Spec

\* Keys count the rows without a gap, the policy is fed its own last action, and
\* the commands sent are those of the log.
THEOREM KeysHaveNoGap == Spec => []KeysInSequence
<1>1. ProtocolInv => KeysInSequence
  BY DEF ProtocolInv, KeyInv
<1> QED
  BY <1>1, ProtocolInvariant, PTL

\* Joint control is asked for once, between a first command with gains and the
\* second command.
THEOREM ActivatedOnce == Spec => []ActivationProtocol
<1>1. ProtocolInv => ActivationProtocol
  <2> SUFFICES ASSUME ProtocolInv PROVE ActivationProtocol
    OBVIOUS
  <2>1. Len(sent) \in Nat /\ sent \in Seq(Commands) /\ activated \in BOOLEAN
    BY DEF ProtocolInv, IInv, TypeOK, Threads!TypeOK
  <2>2. sent # <<>> => Len(sent) >= 1
    BY <2>1, EmptySeq
  <2> QED
    BY <2>1, <2>2 DEF ProtocolInv, ActivationInv, ActivationProtocol
<1> QED
  BY <1>1, ProtocolInvariant, PTL

\* No row's state acknowledges the row's own command or a later one, and
\* acknowledgements never go back.
THEOREM AcknowledgedInOrder == Spec => []AckCausal
<1>1. ProtocolInv => AckCausal
  <2> SUFFICES ASSUME ProtocolInv PROVE AckCausal
    OBVIOUS
  <2>1. \A k \in 1..Len(rows) : sampled[rows[k].raw] < rows[k].key
    BY DEF ProtocolInv, AckInv, RowsAcknowledge, KeyInv, KeysInSequence
  <2>2. ASSUME NEW k \in 1..Len(rows) - 1
        PROVE  sampled[rows[k].raw] <= sampled[rows[k + 1].raw]
    <3>1. k \in 1..Len(rows) /\ k + 1 \in 1..Len(rows)
      BY DEF ProtocolInv, IInv, TypeOK
    <3>2. rows[k].raw \in 1..Len(sampled) /\ rows[k + 1].raw \in 1..Len(sampled)
      BY <3>1, RowsSampled DEF ProtocolInv
    <3>3. rows[k].raw <= rows[k + 1].raw
      BY RawsInOrder DEF ProtocolInv
    <3> QED
      BY <3>2, <3>3 DEF ProtocolInv, AckInv, SampledInOrder
  <2> QED
    BY <2>1, <2>2 DEF AckCausal
<1> QED
  BY <1>1, ProtocolInvariant, PTL

-----------------------------------------------------------------------------
(* The refinement.                                                         *)

\* Storing a state publishes it.
LEMMA StorePublishes == StoreState => Pipe!Publish
  BY DEF StoreState, outputVars, Pipe!Publish

\* Sending a command emits it: it acts on the state of the row logged last.
LEMMA SendEmits == ASSUME ProtocolInv, SendCommand PROVE Pipe!Emit
<1> DEFINE pipe == [k \in 1..Len(sent) |-> sent[k].state]
           n == Len(sent)
           s == proto.state
<1>1. /\ TypeOK /\ KeyInv /\ RateBound /\ FreshInputs
      /\ n \in Nat /\ s \in Nat
  BY DEF ProtocolInv, IInv, TypeOK, Commands
<1>2. /\ Len(rows) = n + 1
      /\ s = rows[n + 1].state
  <2>1. Unsent
    BY CommandMoves DEF Unsent
  <2> QED
    BY <1>1, <2>1 DEF TypeOK, KeyInv, SentInSequence, HeldInSequence
<1>3. /\ Len(sent') = n + 1
      /\ \A k \in 1..n : sent'[k] = sent[k]
      /\ sent'[n + 1] = proto
      /\ UNCHANGED latest_state
  BY <1>1, CommandSent DEF SendCommand
<1>4. s \in Factor * (n + 1) .. latest_state
  <2>1. s >= Factor * (n + 1)
    BY <1>1, <1>2 DEF RateBound
  <2>2. s <= latest_state
    <3>1. n + 1 \in 1..Len(rows)
      BY <1>1, <1>2
    <3>2. /\ rows[n + 1].raw <= latest_state
          /\ rows[n + 1].state <= rows[n + 1].deadline
          /\ rows[n + 1].deadline <= rows[n + 1].raw
      BY <3>1 DEF ProtocolInv, IInv, ReadsInv, ReadsInOrder
    <3>3. /\ rows[n + 1].deadline \in Nat /\ rows[n + 1].raw \in Nat
          /\ latest_state \in Nat
      BY <1>1, <3>1, RowNumbers DEF TypeOK
    <3> QED
      BY <1>1, <1>2, <3>2, <3>3
  <2>3. Factor * (n + 1) \in Int /\ latest_state \in Int
    BY <1>1, FactorAssumption DEF TypeOK
  <2> QED
    BY <1>1, <2>1, <2>2, <2>3
<1>5. pipe \in Seq(Nat) /\ Len(pipe) = n
  <2>1. \A k \in 1..n : sent[k].state \in Nat
    <3> SUFFICES ASSUME NEW k \in 1..n PROVE sent[k].state \in Nat
      OBVIOUS
    <3>1. sent[k] \in Commands
      BY <1>1, ElementOfSeq DEF TypeOK
    <3> QED
      BY <3>1 DEF Commands
  <2> QED
    BY <1>1, <2>1
<1>6. pipe # <<>> => s >= pipe[Len(pipe)] + Factor - 2
  <2> SUFFICES ASSUME pipe # <<>> PROVE s >= pipe[n] + Factor - 2
    BY <1>5
  <2>1. n \in 1..n /\ n \in 1..Len(rows) - 1
    BY <1>1, <1>2, <1>5, EmptySeq
  <2>2. pipe[n] = rows[n].state
    BY <1>1, <2>1 DEF KeyInv, KeysInSequence
  <2> QED
    BY <1>1, <1>2, <2>1, <2>2 DEF FreshInputs
<1>7. [k \in 1..Len(sent') |-> sent'[k].state] = Append(pipe, s)
  <2>1. Append(pipe, s) = [k \in 1..n + 1 |-> IF k = n + 1 THEN s ELSE pipe[k]]
    BY <1>1, <1>5
  <2>2. \A k \in 1..n + 1 : sent'[k].state = IF k = n + 1 THEN s ELSE pipe[k]
    BY <1>1, <1>3
  <2> QED
    BY <1>3, <2>1, <2>2
<1> HIDE DEF s
<1> QED
  BY <1>3, <1>4, <1>5, <1>6, <1>7 DEF Pipe!Emit

\* Whatever the threads do, a reader of the command stream sees a behaviour of
\* CommandPipe.
THEOREM Refinement == Spec => ImplementsPipe
<1>1. Init => Pipe!Init
  BY DEF Init, NoState, Pipe!Init
<1>2. ProtocolInv /\ [Next]_vars
        => [Pipe!Next]_<<latest_state, [k \in 1..Len(sent) |-> sent[k].state]>>
  <2> SUFFICES ASSUME ProtocolInv, [Next]_vars
               PROVE  \/ Pipe!Next
                      \/ UNCHANGED <<latest_state, sent>>
    OBVIOUS
  <2>1. CASE StoreState
    BY <2>1, StorePublishes DEF Pipe!Next
  <2>2. CASE SendCommand
    BY <2>2, SendEmits DEF Pipe!Next
  <2>3. CASE ~StoreState /\ ~SendCommand
    <3>1. UNCHANGED latest_state
      BY <2>3, StepKinds
    <3>2. UNCHANGED sent
      BY <2>3, ProtocolKinds, CommandMoves
    <3> QED
      BY <3>1, <3>2
  <2> QED
    BY <2>1, <2>2, <2>3
<1> QED
  BY <1>1, <1>2, ProtocolInvariant, PTL DEF Spec, Pipe!Spec, ImplementsPipe
=============================================================================
