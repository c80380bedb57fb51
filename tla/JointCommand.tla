---------------------------- MODULE JointCommand ---------------------------
(***************************************************************************)
(* What a joint command carries, from the training configuration to the    *)
(* robot: load_configuration reads gains and default positions out of      *)
(* env.yaml by regular expressions, and OnnxCommandGenerator puts them     *)
(* and the output of the policy into lists, by position.                   *)
(*                                                                         *)
(* A regular expression is the set of the joints it matches (re.match: a   *)
(* match of the name's beginning is one).  A value in a list of positions  *)
(* is <<joint, number>>: the joint it was computed for, which the robot    *)
(* doesn't see, and the number.  The threads are in ControlLoop; here a    *)
(* call of the generator is one step.                                      *)
(***************************************************************************)
EXTENDS Integers, Sequences

CONSTANTS
    ISAAC,          \* ORDERED_JOINT_NAMES_ISAAC
    SPOT,           \* ORDERED_JOINT_NAMES_SPOT
    NLegs,          \* how many of both are legs: 12
    Envs,           \* what env.yaml can hold
    DefaultKp,      \* DEFAULT_K_Q_P by joint
    ArmOffset,      \* arm_offsets_ordered by joint
    Positions,      \* what a joint can be read at
    Actions,        \* the numbers the policy gives
    GainSteps,      \* commands that carry the gains: 3
    MaxCount,       \* bound on _count
    NULL            \* None

Joints == {SPOT[i] : i \in DOMAIN SPOT}
Legs == {ISAAC[i] : i \in 1..NLegs}
Arm == {ISAAC[i] : i \in NLegs + 1..Len(ISAAC)}

\* What is assumed of them.  The trained policy was given the joints in Spot's
\* order, so that nothing is reordered (observations.py: "I trained with the
\* correct order").
Assumptions ==
    /\ ISAAC = SPOT
    /\ SPOT \in Seq(Joints)
    /\ NLegs \in 1..Len(SPOT)
    /\ \A i, j \in DOMAIN ISAAC : i # j => ISAAC[i] # ISAAC[j]
    /\ \A e \in Envs :
        /\ e.actuators \in Seq([joint_names_expr : Seq(SUBSET Joints), stiffness : Int])
        /\ e.joint_pos \in Seq([expr : SUBSET Joints, value : Int])
    /\ GainSteps \in Nat \ {0} /\ MaxCount \in Nat

VARIABLES
    env,            \* the configuration being loaded
    mock,           \* the generator's parameter
    pc,             \* "actuators", "defaults", "arm", "ready" or "dead"
    next,           \* the next group or expression to be applied
    joint_kp,       \* stiffness; damping is treated alike
    joint_offsets,  \* default positions
    position,       \* latest_state.joint_states.position, by joint
    _count,
    command         \* the command last returned, NULL before the first

config == <<env, mock, joint_kp, joint_offsets>>

vars == <<config, pc, next, position, _count, command>>

-----------------------------------------------------------------------------
(* The configuration.                                                      *)

\* A bug to look for: the first match is kept.
SetMatchingKeeps(data, expr, value) ==
    [j \in DOMAIN data |-> IF j \in expr /\ data[j] = NULL THEN value ELSE data[j]]

\* set_matching
SetMatching(data, expr, value) ==
    [j \in DOMAIN data |-> IF j \in expr THEN value ELSE data[j]]

Init ==
    /\ env \in Envs
    /\ mock \in BOOLEAN
    /\ pc = "actuators"
    /\ next = 1
    /\ joint_kp = [j \in Joints |-> NULL]
    /\ joint_offsets = [j \in Joints |-> NULL]
    /\ position = [j \in Joints |-> NULL]
    /\ _count = 1
    /\ command = NULL

\* The loop over the actuator groups; of a group's expressions only the first.
LoadActuators ==
    /\ pc = "actuators"
    /\ IF next <= Len(env.actuators)
       THEN LET group == env.actuators[next]
            IN  /\ joint_kp' = SetMatching(joint_kp, group.joint_names_expr[1],
                                           group.stiffness)
                /\ next' = next + 1
                /\ pc' = pc
       ELSE joint_kp' = joint_kp /\ next' = 1 /\ pc' = "defaults"
    /\ UNCHANGED <<env, mock, joint_offsets, position, _count, command>>

\* The loop over init_state.joint_pos.
LoadDefaults ==
    /\ pc = "defaults"
    /\ IF next <= Len(env.joint_pos)
       THEN /\ joint_offsets' = SetMatching(joint_offsets, env.joint_pos[next].expr,
                                            env.joint_pos[next].value)
            /\ next' = next + 1
            /\ pc' = pc
       ELSE joint_offsets' = joint_offsets /\ next' = 1 /\ pc' = "arm"
    /\ UNCHANGED <<env, mock, joint_kp, position, _count, command>>

\* The arm has the robot's own gains, whatever the training's were.
OverrideArm ==
    /\ pc = "arm"
    /\ joint_kp' = [j \in Joints |-> IF j \in Arm THEN DefaultKp[j] ELSE joint_kp[j]]
    /\ pc' = "ready"
    /\ UNCHANGED <<env, mock, next, joint_offsets, position, _count, command>>

-----------------------------------------------------------------------------
(* The generator.                                                          *)

\* latest_state is not None.
Arrived == \A j \in Joints : position[j] # NULL

\* A state arrives from the robot; the arm stays where the commands hold it.
StateArrives ==
    /\ pc = "ready"
    /\ \E p \in [Legs -> Positions] :
          position' = [j \in Joints |-> IF j \in Arm THEN ArmOffset[j] ELSE p[j]]
    /\ UNCHANGED <<config, pc, next, _count, command>>

\* dict_to_list(data, ORDERED_JOINT_NAMES_SPOT)
InSpotOrder(data) == [i \in DOMAIN SPOT |-> data[SPOT[i]]]

\* create_proto with _count = c.
CreateProto(pos, c) ==
    [position |-> pos,
     gains |-> IF c <= GainSteps THEN InSpotOrder(joint_kp) ELSE <<>>,
     key |-> c]

\* The policy's output, or the zeros of the mock, by the policy's joints.
Output(a) == [i \in 1..NLegs |-> <<ISAAC[i], IF mock THEN 0 ELSE a>>]

\* arm_offsets_ordered
ArmOffsets == [i \in 1..Len(SPOT) - NLegs |-> <<SPOT[NLegs + i], ArmOffset[SPOT[NLegs + i]]>>]

\* A bug to look for: the arm before the legs, as in generate_joint_commands.
FullActionArmFirst(a) == ArmOffsets \o Output(a)

FullAction(a) == Output(a) \o ArmOffsets

\* A bug to look for: the first command goes without the gains.
CompleteLate ==
    /\ _count \in 2..GainSteps => \A j \in Joints : joint_kp[j] # NULL
    /\ \A j \in Joints : joint_offsets[j] # NULL

\* extend takes no None, nor can the default of a joint be subtracted without
\* one, which the columns of log_state need; main always gives a logger.
Complete ==
    /\ _count <= GainSteps => \A j \in Joints : joint_kp[j] # NULL
    /\ \A j \in Joints : joint_offsets[j] # NULL

\* __call__.  _triggered_safety is False whatever the positions, the check being
\* commented out, so that the branches that hold the robot are never entered.
Call ==
    /\ pc = "ready"
    /\ _count <= MaxCount
    /\ Arrived
    /\ Complete
    /\ _count' = _count + 1
    /\ \E a \in Actions :
          command' = IF mock THEN CreateProto(Output(a), _count')
                     ELSE CreateProto(FullAction(a), _count)
    /\ UNCHANGED <<config, pc, next, position>>

\* __call__ raises: no state has arrived yet, or the configuration has a hole.
\* The stream of commands ends.
CallRaises ==
    /\ pc = "ready"
    /\ ~Arrived \/ ~Complete
    /\ pc' = "dead"
    /\ UNCHANGED <<config, next, position, _count, command>>

Next ==
    \/ LoadActuators \/ LoadDefaults \/ OverrideArm
    \/ StateArrives \/ Call \/ CallRaises

Spec == Init /\ [][Next]_vars

-----------------------------------------------------------------------------

\* The dictionaries have every joint, the lists a command is made of a joint's
\* value at each place.
TypeOK ==
    /\ env \in Envs /\ mock \in BOOLEAN
    /\ pc \in {"actuators", "defaults", "arm", "ready", "dead"}
    /\ next \in Nat
    /\ DOMAIN joint_kp = Joints /\ DOMAIN joint_offsets = Joints
    /\ DOMAIN position = Joints
    /\ _count \in 1..MaxCount + 1
    /\ command # NULL => Len(command.gains) \in {0, Len(SPOT)}

\* The groups that give a joint its gains.
Matching(j) ==
    {g \in DOMAIN env.actuators : j \in env.actuators[g].joint_names_expr[1]}

\* The order in which groups overwrite each other is the order of the file: a
\* leg has the stiffness of the last group whose first expression matches it,
\* and an arm joint, whatever the groups say, the robot's own.
LastMatchWins ==
    pc \in {"ready", "dead"} =>
        \A j \in Joints :
            joint_kp[j] =
                IF j \in Arm THEN DefaultKp[j]
                ELSE IF Matching(j) = {} THEN NULL
                ELSE env.actuators[CHOOSE g \in Matching(j) :
                                      \A h \in Matching(j) : h <= g].stiffness

\* A robot whose configuration has a hole never gets a command, not even one
\* without the gains: the first call stops the stream.
NoCommandWithoutGains ==
    command # NULL =>
        \A j \in Joints : joint_kp[j] # NULL /\ joint_offsets[j] # NULL

\* Nothing in a command names a joint: each position is for the joint at its
\* place in Spot's order only because the policy was trained in that order and
\* the arm comes last in both.
EachToItsJoint ==
    command # NULL =>
        \A i \in DOMAIN command.position : command.position[i][1] = SPOT[i]

=============================================================================
