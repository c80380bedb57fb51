---------------------------- MODULE ResetJoints ----------------------------
(***************************************************************************)
(* How the two simulated environments put a robot's joints back when some  *)
(* of them are reset while the others go on: the deployment's              *)
(* (spot_env.py) draws the legs around their defaults and folds the arm,   *)
(* the training's (interlimb_env_cfg.py) writes the defaults and then, as  *)
(* a second event, the folded arm.                                         *)
(*                                                                         *)
(* sample_uniform gives the ends of its range, or the middle.  The physics *)
(* takes the joints anywhere.                                              *)
(***************************************************************************)
EXTENDS Integers

CONSTANTS
    Programs,       \* "deployment" and "training"
    Envs,           \* the environments that run side by side
    Base, Arm,      \* base_joint_names, arm_joint_names
    Default,        \* default_joint_pos; default_joint_vel is 0
    Stow,           \* ARM_STOW_JOINT_POS by arm joint
    Lower, Upper,   \* soft_joint_pos_limits
    MaxVel,         \* soft_joint_vel_limits
    PosRange,       \* position_range is (-PosRange, PosRange)
    VelRange,       \* velocity_range
    Elsewhere       \* where the physics takes a joint

Joints == Base \cup Arm

\* What is assumed of them.
Assumptions ==
    /\ Base \cap Arm = {}
    /\ Default \in [Joints -> Int] /\ Stow \in [Arm -> Int] /\ Elsewhere \subseteq Int
    /\ \A j \in Joints : Lower[j] \in Int /\ Upper[j] \in Int /\ Lower[j] <= Upper[j]
    /\ MaxVel \in [Joints -> Nat]
    /\ PosRange \in Nat /\ VelRange \in Nat
    /\ \A j \in Joints : Default[j] \in Lower[j]..Upper[j]
    /\ \A j \in Arm : Stow[j] \in Lower[j]..Upper[j]

VARIABLES
    program,
    joint_pos, joint_vel,   \* of every joint of every environment
    cache,                  \* _arm_poses_cache: the poses, once they were read
    arm_pending,            \* the environments whose second event is due
    fresh                   \* history: the environments reset since the physics ran

vars == <<program, joint_pos, joint_vel, cache, arm_pending, fresh>>

-----------------------------------------------------------------------------

Clamp(x, low, high) == IF x < low THEN low ELSE IF x > high THEN high ELSE x

\* sample_uniform, f halves of the way.
Uniform(low, high, f) == low + (f * (high - low)) \div 2

\* A bug to look for: the range isn't clipped.
BasePositionUnclipped(j, f) == Uniform(Default[j] - PosRange, Default[j] + PosRange, f)

\* A position around the default, the ends of the range clipped one by one.
BasePosition(j, f) ==
    Uniform(Clamp(Default[j] - PosRange, Lower[j], Upper[j]),
            Clamp(Default[j] + PosRange, Lower[j], Upper[j]), f)

BaseVelocity(j, f) ==
    Uniform(Clamp(-VelRange, -MaxVel[j], MaxVel[j]), Clamp(VelRange, -MaxVel[j], MaxVel[j]), f)

Init ==
    /\ program \in Programs
    /\ joint_pos = [e \in Envs |-> Default]
    /\ joint_vel = [e \in Envs |-> [j \in Joints |-> 0]]
    /\ cache = {}
    /\ arm_pending = {}
    /\ fresh = {}

\* _load_arm_poses_from_csv: the file isn't read any more, the only pose is the
\* folded arm.
ArmPoses == IF cache = {} THEN {Stow} ELSE cache

\* A bug to look for: write_joint_state_to_sim without env_ids.
WriteEverywhere(ids, pos, vel) ==
    /\ joint_pos' = [e \in Envs |-> IF e \in ids THEN pos[e] ELSE Default]
    /\ joint_vel' = [e \in Envs |-> IF e \in ids THEN vel[e] ELSE [j \in Joints |-> 0]]

\* write_joint_state_to_sim
Write(ids, pos, vel) ==
    /\ joint_pos' = [e \in Envs |-> IF e \in ids THEN pos[e] ELSE joint_pos[e]]
    /\ joint_vel' = [e \in Envs |-> IF e \in ids THEN vel[e] ELSE joint_vel[e]]

\* reset_base_and_arm_joints_from_csv.  The joint states are built from the
\* defaults, those of joints in neither list included.
ResetBaseAndArm ==
    /\ program = "deployment"
    /\ cache' = ArmPoses
    /\ \E ids \in (SUBSET Envs) \ {{}} :
          /\ \E f, g \in [Base -> 0..2], pose \in cache' :
                Write(ids,
                      [e \in ids |-> [j \in Joints |->
                          IF j \in Arm THEN pose[j] ELSE BasePosition(j, f[j])]],
                      [e \in ids |-> [j \in Joints |->
                          IF j \in Arm THEN 0 ELSE BaseVelocity(j, g[j])]])
          /\ fresh' = fresh \cup ids
    /\ UNCHANGED <<program, arm_pending>>

\* reset_scene_to_default, the first event of the training's EventCfg.
ResetToDefault ==
    /\ program = "training"
    /\ arm_pending = {}
    /\ \E ids \in (SUBSET Envs) \ {{}} :
          /\ Write(ids, [e \in ids |-> Default], [e \in ids |-> [j \in Joints |-> 0]])
          /\ arm_pending' = ids
          /\ fresh' = fresh \ ids
    /\ UNCHANGED <<program, cache>>

\* reset_joints_to_position, the second; it writes the arm only.
ResetArm ==
    /\ arm_pending # {}
    /\ Write(arm_pending,
             [e \in arm_pending |->
                 [j \in Joints |-> IF j \in Arm THEN Stow[j] ELSE joint_pos[e][j]]],
             [e \in arm_pending |->
                 [j \in Joints |-> IF j \in Arm THEN 0 ELSE joint_vel[e][j]]])
    /\ fresh' = fresh \cup arm_pending
    /\ arm_pending' = {}
    /\ UNCHANGED <<program, cache>>

\* The simulation goes on.
Physics ==
    /\ arm_pending = {}
    /\ \E x \in Elsewhere, e \in Envs :
          /\ joint_pos' = [joint_pos EXCEPT ![e] = [j \in Joints |-> x]]
          /\ joint_vel' = [joint_vel EXCEPT ![e] = [j \in Joints |-> x]]
          /\ fresh' = fresh \ {e}
    /\ UNCHANGED <<program, cache, arm_pending>>

Next == ResetBaseAndArm \/ ResetToDefault \/ ResetArm \/ Physics

Spec == Init /\ [][Next]_vars

-----------------------------------------------------------------------------

\* Every joint of every environment has a position and a speed.
TypeOK ==
    /\ program \in Programs
    /\ joint_pos \in [Envs -> [Joints -> Int]]
    /\ joint_vel \in [Envs -> [Joints -> Int]]
    /\ cache \subseteq {Stow}
    /\ arm_pending \subseteq Envs /\ fresh \subseteq Envs

\* A robot starts within its limits, legs and arm, although only the ranges of
\* the legs are clipped; from outside them the simulation would throw it.
StartsWithinLimits ==
    \A e \in fresh, j \in Joints :
        /\ joint_pos[e][j] \in Lower[j]..Upper[j]
        /\ joint_vel[e][j] \in -MaxVel[j]..MaxVel[j]

\* It starts with the arm folded and at rest: of the training's two events the
\* second has the last word, and the cache of the deployment's poses is the
\* same at the hundredth reset.
ArmFolded ==
    \A e \in fresh, j \in Arm : joint_pos[e][j] = Stow[j] /\ joint_vel[e][j] = 0

\* While some environments are reset the others don't notice.
Undisturbed ==
    ~Physics => \A e \in Envs \ (fresh' \cup arm_pending') :
        joint_pos'[e] = joint_pos[e] /\ joint_vel'[e] = joint_vel[e]
=============================================================================
