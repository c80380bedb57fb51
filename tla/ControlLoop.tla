---------------------------- MODULE ControlLoop ----------------------------
(***************************************************************************)
(* The control loop of spot_rl_demo.py with its data: the robot streams    *)
(* its states, the state thread stores each one in the shared              *)
(* OnnxControllerContext, and the generator computes one command from the  *)
(* latest state (OnnxCommandGenerator) for every Factor events.            *)
(*                                                                         *)
(* Every step is a step of StreamThreads that also moves data.  Nothing is *)
(* locked: the generator reads context.latest_state up to four times for a *)
(* command, and the state thread may write it between any two reads.       *)
(*                                                                         *)
(* A state is represented by its number in the stream, from 1; the output  *)
(* of the policy by the key of the command it went into; joint values,     *)
(* gains and times by what the properties tell apart.  The safety branches *)
(* of the policy are dead code: _triggered_safety is set to False just     *)
(* before it is tested, so _safety_pos stays None.                         *)
(***************************************************************************)
EXTENDS Integers, Sequences

CONSTANTS
    Factor,     \* events per command: EventDivider(context, 6) in the demo
    GainSteps,  \* commands that carry the gains: 3 in create_proto
    MaxStates   \* bound: states the robot streams before it falls silent

ASSUME FactorAssumption == Factor \in Nat \ {0}
ASSUME GainStepsAssumption == GainSteps \in Nat \ {0}
ASSUME MaxStatesAssumption == MaxStates \in Nat

VARIABLES
    event, stPc, genPc, count, activated,               \* see StreamThreads
    command_stream_stopping, state_stream_stopping,
    sampled,        \* robot: for each state, the last_command key it carries
    received,       \* robot: number of commands that have reached it
    latest_state,   \* context.latest_state: number of the state, 0 for None
    init_pos,       \* _init_pos: number of the state it was taken from
    inputs,         \* what collect_inputs returned
    proto,          \* the command create_proto built
    last_action,    \* _last_action: key of the command it went into, 0 at first
    key,            \* _count, the next user_command_key
    activations,    \* times the robot was asked for joint control
    sent,           \* commands gRPC has sent, in order
    rows            \* rows of the HDF5 log

Threads == INSTANCE StreamThreads

threadVars == <<event, stPc, genPc, count, activated,
                command_stream_stopping, state_stream_stopping>>
robotVars == <<sampled, received>>
policyVars == <<init_pos, inputs, proto, last_action, key>>
outputVars == <<activations, sent, rows>>
dataVars == <<robotVars, latest_state, policyVars, outputVars>>

vars == <<threadVars, dataVars>>

NoState == 0

\* What a joint command is built from and what it carries.
Commands == [key : Nat, state : Nat, last : Nat, deadline : Nat, gains : BOOLEAN]

\* The columns of a row: the command, its observation and the raw state.
Rows == [key : Nat, state : Nat, last : Nat, deadline : Nat, raw : Nat]

Init ==
    /\ Threads!Init
    /\ sampled = <<>>
    /\ received = 0
    /\ latest_state = NoState
    /\ init_pos = NoState
    /\ inputs = [state |-> NoState, last |-> 0]
    /\ proto = [key |-> 0, state |-> NoState, last |-> 0,
                deadline |-> NoState, gains |-> FALSE]
    /\ last_action = 0
    /\ key = 1
    /\ activations = 0
    /\ sent = <<>>
    /\ rows = <<>>

-----------------------------------------------------------------------------
(* The robot.  Both streams are ordered and lose nothing, but delay.       *)

\* The robot samples a state; it carries the key of the last command received.
RobotSamples ==
    /\ Len(sampled) < MaxStates
    /\ sampled' = Append(sampled, IF received = 0 THEN 0 ELSE sent[received].key)
    /\ UNCHANGED <<threadVars, received, latest_state, policyVars, outputVars>>

RobotReceives ==
    /\ received < Len(sent)
    /\ received' = received + 1
    /\ UNCHANGED <<threadVars, sampled, latest_state, policyVars, outputVars>>

-----------------------------------------------------------------------------
(* The state thread.                                                       *)

\* The next state of the stream replaces the one in the context.
StoreState ==
    /\ Threads!StoreState
    /\ latest_state < Len(sampled)
    /\ latest_state' = latest_state + 1
    /\ UNCHANGED <<robotVars, policyVars, outputVars>>

-----------------------------------------------------------------------------
(* The command policy, OnnxCommandGenerator.__call__.                      *)

\* The first call caches the initial position; None has no joint_states.
CacheInitPos ==
    /\ init_pos' = IF init_pos = NoState THEN latest_state ELSE init_pos
    /\ Threads!CacheInitPos
    /\ UNCHANGED <<robotVars, latest_state, inputs, proto, last_action, key,
                   outputVars>>

\* A bug to look for: the observation is made from the cached state.
CollectInputsFromCache ==
    /\ Threads!CollectInputs
    /\ inputs' = [state |-> init_pos, last |-> last_action]
    /\ UNCHANGED <<robotVars, latest_state, init_pos, proto, last_action, key,
                   outputVars>>

\* collect_inputs, and the inference that follows it.
CollectInputs ==
    /\ Threads!CollectInputs
    /\ inputs' = [state |-> latest_state, last |-> last_action]
    /\ UNCHANGED <<robotVars, latest_state, init_pos, proto, last_action, key,
                   outputVars>>

\* The command for the observation just made, its end_time from state d.
Command(d) == [key |-> key, state |-> inputs.state, last |-> inputs.last,
               deadline |-> d, gains |-> key <= GainSteps]

\* A bug to look for: the deadline is counted from the cached state.
CreateProtoFromCache ==
    /\ Threads!CreateProto
    /\ proto' = Command(init_pos)
    /\ UNCHANGED <<robotVars, latest_state, init_pos, inputs, last_action, key,
                   outputVars>>

\* create_proto reads latest_state again for the end_time.
CreateProto ==
    /\ Threads!CreateProto
    /\ proto' = Command(latest_state)
    /\ UNCHANGED <<robotVars, latest_state, init_pos, inputs, last_action, key,
                   outputVars>>

\* The row holds the observation, the command, and latest_state read again.
LogState ==
    /\ Threads!LogState
    /\ rows' = Append(rows, [key |-> proto.key, state |-> inputs.state,
                             last |-> inputs.last, deadline |-> proto.deadline,
                             raw |-> latest_state])
    /\ UNCHANGED <<robotVars, latest_state, policyVars, activations, sent>>

\* A bug to look for: the action is cached after the count has moved on.
CountThenCache ==
    /\ Threads!CommitAction
    /\ key' = key + 1
    /\ last_action' = key'
    /\ UNCHANGED <<robotVars, latest_state, init_pos, inputs, proto, outputVars>>

\* A bug to look for: the count is left where it was.
CacheOnly ==
    /\ Threads!CommitAction
    /\ last_action' = key
    /\ UNCHANGED <<robotVars, latest_state, init_pos, inputs, proto, key,
                   outputVars>>

\* _last_action and _count; the command is returned and yielded.
CommitAction ==
    /\ Threads!CommitAction
    /\ last_action' = key
    /\ key' = key + 1
    /\ UNCHANGED <<robotVars, latest_state, init_pos, inputs, proto, outputVars>>

-----------------------------------------------------------------------------
(* The command stream.                                                     *)

SendCommand ==
    /\ Threads!SendCommand
    /\ sent' = Append(sent, proto)
    /\ UNCHANGED <<robotVars, latest_state, policyVars, activations, rows>>

ActivateJointControl ==
    /\ Threads!ActivateJointControl
    /\ activations' = activations + 1
    /\ UNCHANGED <<robotVars, latest_state, policyVars, sent, rows>>

-----------------------------------------------------------------------------

Robot == RobotSamples \/ RobotReceives

CommandPolicy ==
    CacheInitPos \/ CollectInputs \/ CreateProto \/ LogState \/ CommitAction

\* The steps of the threads and of the main thread that move no data.
ControlStep ==
    /\ \/ Threads!StateCallback
       \/ Threads!StateStreamEnds
       \/ Threads!CheckCommandStopping
       \/ Threads!TimingPolicy
       \/ Threads!PolicyRaises
       \/ Threads!DropCommand
       \/ Threads!ActivationFails
       \/ Threads!Control
    /\ UNCHANGED dataVars

Next ==
    \/ Robot
    \/ StoreState
    \/ CommandPolicy
    \/ SendCommand
    \/ ActivateJointControl
    \/ ControlStep

Spec == Init /\ [][Next]_vars

-----------------------------------------------------------------------------
(* What the control loop promises.                                         *)

\* The threads, the generator's fields, the commands sent and the rows logged
\* keep their types, and the context never runs ahead of the stream.
TypeOK ==
    /\ Threads!TypeOK
    /\ sampled \in Seq(Nat)
    /\ received \in 0..Len(sent)
    /\ latest_state \in 0..Len(sampled)
    /\ init_pos \in Nat
    /\ inputs \in [state : Nat, last : Nat]
    /\ proto \in Commands
    /\ last_action \in Nat
    /\ key \in Nat \ {0}
    /\ activations \in Nat
    /\ sent \in Seq(Commands)
    /\ rows \in Seq(Rows)

\* OnnxCommandGenerator never finds None in latest_state: the command policy
\* runs only after the divider has seen an event, and an event is set only
\* after the state it announces was stored.
PolicyHasState == genPc \in Threads!ReadPcs => latest_state # NoState

\* EventDivider paces the loop: the k-th command acts on the state numbered
\* Factor * k or on a later one, however threads are scheduled and however
\* many events a clear forgets; so there are at most 333 / 6 commands a second.
RateBound == \A k \in 1..Len(rows) : rows[k].state >= Factor * k

\* Commands do not repeat an observation: one event may be left over from before
\* the last observation was read and another may be pending in StateHandler, so
\* the next one is at least Factor - 2 states fresher, 4 for the demo's 6.
FreshInputs ==
    \A k \in 1..Len(rows) - 1 : rows[k + 1].state >= rows[k].state + Factor - 2

\* The unlocked reads of latest_state never run backwards: a command's end_time
\* is counted from its observation's state or a later one, the state logged
\* beside it is no older still, and no later command goes back behind any.
ReadsInOrder ==
    /\ \A k \in 1..Len(rows) : /\ rows[k].state <= rows[k].deadline
                               /\ rows[k].deadline <= rows[k].raw
    /\ \A k \in 1..Len(rows) - 1 : rows[k].raw <= rows[k + 1].state

\* user_command_key counts the log's rows with no skip; the policy is fed its own
\* previous output, a row having in last_actions the action of the row before;
\* and the commands sent are those of the rows, in order: the last row's may
\* still be on its way.
KeysInSequence ==
    /\ \A k \in 1..Len(rows) : rows[k].key = k /\ rows[k].last = k - 1
    /\ Len(sent) \in {Len(rows), Len(rows) - 1}
    /\ \A k \in 1..Len(sent) : /\ sent[k].key = rows[k].key
                               /\ sent[k].state = rows[k].state
                               /\ sent[k].deadline = rows[k].deadline

\* Joint control is asked for once, after a first command that carries gains
\* was sent, and before a second one is: the robot never holds it without any.
ActivationProtocol ==
    /\ activations <= 1
    /\ activations = 1 => Len(sent) >= 1 /\ sent[1].gains
    /\ Len(sent) >= 2 => activations = 1

\* The state logged in a row acknowledges an earlier command than the row's
\* own, and acknowledgements never go back from one row to the next.
AckCausal ==
    /\ \A k \in 1..Len(rows) : sampled[rows[k].raw] < rows[k].key
    /\ \A k \in 1..Len(rows) - 1 :
          sampled[rows[k].raw] <= sampled[rows[k + 1].raw]

-----------------------------------------------------------------------------
(* Why RateBound, FreshInputs and ReadsInOrder hold: the inductive         *)
(* invariant that ControlLoop_proof is about.                              *)

\* An event that is set counts for one in the divider.
Events == IF event THEN 1 ELSE 0

\* How often the event was set: once for every state stored, bar the one that
\* StateHandler has stored and not yet announced.
Sets == latest_state - (IF stPc = "stored" THEN 1 ELSE 0)

\* Events counted towards the command that is being waited for or built.
Pending == IF genPc \in Threads!DividerPcs \cup Threads!ReadPcs THEN count ELSE 0

\* The generator holds an observation that is in no row yet.
Observing == genPc \in {"proto", "log"}

\* No event is counted twice, neither for a command nor for two of them.
RateInv == Factor * Len(rows) + Pending + Events <= Sets

\* The reads made so far for the next row, and those of the last one, lie in
\* order, and latest_state is behind none of them.
ReadsInv ==
    /\ Observing => inputs.state \in Factor * (Len(rows) + 1) .. latest_state
    /\ genPc = "log" => proto.deadline \in inputs.state .. latest_state
    /\ \A k \in 1..Len(rows) : rows[k].raw <= latest_state
    /\ Observing /\ rows # <<>> => rows[Len(rows)].raw <= inputs.state

\* Since the last observation was read, the event was set at least as often as
\* it was counted, but for one set left over and one state not yet announced.
FreshInv ==
    /\ Observing => inputs.state + Events - 2 <= Sets
    /\ Observing /\ rows # <<>> =>
          inputs.state >= rows[Len(rows)].state + Factor - 2
    /\ ~Observing /\ rows # <<>> /\ genPc \notin Threads!OverPcs =>
          rows[Len(rows)].state + Pending + Events - 2 <= Sets

\* The types, the strengthenings and the three properties, all at once.
IInv ==
    /\ TypeOK
    /\ Threads!CountInv
    /\ RateInv
    /\ ReadsInv
    /\ FreshInv
    /\ RateBound
    /\ FreshInputs
    /\ ReadsInOrder

-----------------------------------------------------------------------------
(* What documents and comments of the repository say, and the code doesn't.*)

\* README.md: the cross-check of the diagnostics expects the state of a row to
\* acknowledge the command of the row before, "ensuring the robot acknowledges
\* each command in sequence".
AckMatchesPreviousKey ==
    \A k \in 1..Len(rows) - 1 : sampled[rows[k + 1].raw] = rows[k].key
=============================================================================
