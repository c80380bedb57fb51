---------------------------- MODULE KneeActuator ---------------------------
(***************************************************************************)
(* The simulated knee (spot_knee_actuator.py, interlimb_env_cfg.py): a PD   *)
(* controller with a communication delay, whose torque is limited first by *)
(* what the linkage gives at the joint's angle and then by what the motor  *)
(* gives at its speed.                                                     *)
(*                                                                         *)
(* The policy sets a position once in Decimation physics steps; in each    *)
(* the actuator computes an effort.  What the physics makes of it is not   *)
(* modelled: angle and speed can be any of those given.  The lag of an     *)
(* environment is drawn when it is reset (IsaacLab's DelayedPDActuator).   *)
(***************************************************************************)
EXTENDS Integers, Sequences

CONSTANTS
    Setpoints, Angles, Speeds,
    Stiffness, Damping,
    EffortLimit,        \* the motor's own limit
    TorqueLimit,        \* of an angle: the third column of the lookup table
    PosSpeedLimit,      \* of a speed: POS_TORQUE_SPEED_LIMIT interpolated
    NegSpeedLimit,      \* of a speed: NEG_TORQUE_SPEED_LIMIT interpolated
    MaxDelay,           \* max_delay, in physics steps
    Decimation          \* physics steps of one step of the policy

ASSUME NumbersAssumption ==
    /\ Setpoints \subseteq Int /\ Setpoints # {}
    /\ Angles \subseteq Int /\ Speeds \subseteq Int
    /\ Stiffness \in Nat /\ Damping \in Nat /\ EffortLimit \in Nat

ASSUME LimitsAssumption ==
    /\ TorqueLimit \in [Angles -> Nat]
    /\ PosSpeedLimit \in [Speeds -> Nat]
    /\ NegSpeedLimit \in [Speeds -> Int]
    /\ \A v \in Speeds : NegSpeedLimit[v] <= 0

ASSUME DelayAssumption ==
    /\ MaxDelay \in Nat /\ Decimation \in Nat
    /\ MaxDelay < Decimation

VARIABLES
    target,         \* the position the policy asked for last
    k,              \* physics steps since then
    lag,            \* time_lags of positions_delay_buffer
    buffer,         \* its data, the newest first; empty after a reset
    applied,        \* the position the effort was computed from
    joint_pos, joint_vel,       \* the joint when it was
    applied_effort

vars == <<target, k, lag, buffer, applied, joint_pos, joint_vel, applied_effort>>

-----------------------------------------------------------------------------

\* torch.clamp(x, min=low, max=high); low <= high.
Clamp(x, low, high) == IF x < low THEN low ELSE IF x > high THEN high ELSE x

\* The buffer after a setpoint was appended: the first one fills it.
Pushed(b, x) ==
    IF b = <<>> THEN [i \in 1..MaxDelay + 1 |-> x]
    ELSE [i \in 1..MaxDelay + 1 |-> IF i = 1 THEN x ELSE b[i - 1]]

\* A bug to look for: always the oldest.
DelayedOldest(b) == b[MaxDelay + 1]

\* What comes out of it.
Delayed(b) == b[lag + 1]

\* compute_pd_ideal; the setpoint of the speed is 0, no effort is fed forward.
Computed(set, pos, vel) == Stiffness * (set - pos) + Damping * (0 - vel)

\* compute_remotized_pd
Remotized(e, pos) == Clamp(e, -TorqueLimit[pos], TorqueLimit[pos])

\* A bug to look for: the two tables are taken for the same one, mirrored.
SpeedLimitedMirrored(e, vel) == Clamp(e, -PosSpeedLimit[vel], PosSpeedLimit[vel])

\* compute; enable_torque_speed_limit is set.
SpeedLimited(e, vel) == Clamp(e, NegSpeedLimit[vel], PosSpeedLimit[vel])

Effort(set, pos, vel) ==
    SpeedLimited(
        Remotized(Clamp(Computed(set, pos, vel), -EffortLimit, EffortLimit), pos),
        vel)

Init ==
    /\ target \in Setpoints
    /\ k = Decimation
    /\ lag \in 0..MaxDelay
    /\ buffer = <<>>
    /\ applied = target
    /\ joint_pos \in Angles
    /\ joint_vel \in Speeds
    /\ applied_effort = Effort(target, joint_pos, joint_vel)

\* The policy's action arrives.
Command ==
    /\ k = Decimation
    /\ target' \in Setpoints
    /\ k' = 0
    /\ UNCHANGED <<lag, buffer, applied, joint_pos, joint_vel, applied_effort>>

\* One physics step.
Compute ==
    /\ k < Decimation
    /\ buffer' = Pushed(buffer, target)
    /\ applied' = Delayed(buffer')
    /\ joint_pos' \in Angles
    /\ joint_vel' \in Speeds
    /\ applied_effort' = Effort(applied', joint_pos', joint_vel')
    /\ k' = k + 1
    /\ UNCHANGED <<target, lag>>

\* The environment is reset: a new lag, and the past forgotten.
Reset ==
    /\ k = Decimation
    /\ lag' \in 0..MaxDelay
    /\ buffer' = <<>>
    /\ UNCHANGED <<target, k, applied, joint_pos, joint_vel, applied_effort>>

Next == Command \/ Compute \/ Reset

Spec == Init /\ [][Next]_vars

-----------------------------------------------------------------------------

\* The buffer is as long as the longest delay needs; the lag is within it.
TypeOK ==
    /\ target \in Setpoints /\ applied \in Setpoints
    /\ k \in 0..Decimation
    /\ lag \in 0..MaxDelay
    /\ buffer = <<>> \/ buffer \in [1..MaxDelay + 1 -> Setpoints]
    /\ joint_pos \in Angles /\ joint_vel \in Speeds
    /\ applied_effort \in Int

\* The effort respects both limits, of the angle and of the speed, although
\* the second clamp knows nothing of the first: no knee is driven further
\* beyond its no-load speed, nor harder than its linkage can.
BothLimits ==
    /\ applied_effort \in -TorqueLimit[joint_pos] .. TorqueLimit[joint_pos]
    /\ applied_effort \in NegSpeedLimit[joint_vel] .. PosSpeedLimit[joint_vel]

\* The limits weaken the controller and never turn it round.
DirectionKept ==
    LET e == Computed(applied, joint_pos, joint_vel)
    IN  /\ e >= 0 => applied_effort \in 0..e
        /\ e <= 0 => applied_effort \in e..0

\* However long the delay, once it has passed the joint follows the policy's
\* newest position, before the policy computes the next: no step is skipped.
SetpointLands == k > lag => applied = target

\* A newer position never gives way to an older one: what is applied changes
\* only into what the policy asked for last.
NoOlderSetpoint == [][applied' \in {applied, target}]_vars
=============================================================================
