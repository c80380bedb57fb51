----------------------------- MODULE Simulation -----------------------------
(***************************************************************************)
(* The parts of the simulation: a knee's actuator, the goals of the        *)
(* interlimb environment, the joints that are put back at a reset, and the *)
(* loop of the demo and of the replay.  They share no state; a behaviour   *)
(* is of one of them, drawn in Init, and the others stay where they begin. *)
(***************************************************************************)
EXTENDS KneeActuator

CONSTANTS
    Envs,                   \* the environments of the goals and of the resets
    Legs, Sampled, Which, TrajSteps, HoldSteps, Poses, Actions,
    ArmLower, ArmUpper,     \* the goals' limits of the arm
    Tasks,                  \* the programs that put joints back
    Base, Arm, Default, Stow,
    JointLower, JointUpper, MaxVel, PosRange, VelRange, Elsewhere,
    Scripts,                \* the programs with a loop
    Steps, Dt, MaxKeys

VARIABLES
    part,
    phase, arm, leg, torso, command_leg_idxs, command_leg, timer, traj, hold,
    arm_leg_target,
    env_program, env_pos, env_vel, cache, arm_pending, fresh,
    program, pc, resets, simSteps, step, obs, latest, action, rows, recorded, keys,
    velocity, heard, saved

goalVars == <<phase, arm, leg, torso, command_leg_idxs, command_leg, timer, traj,
              hold, arm_leg_target>>

jointVars == <<env_program, env_pos, env_vel, cache, arm_pending, fresh>>

loopVars == <<program, pc, resets, simSteps, step, obs, latest, action, rows,
              recorded, keys, velocity, heard, saved>>

-----------------------------------------------------------------------------

Goals == INSTANCE GoalCommand WITH
    Lower <- ArmLower, Upper <- ArmUpper, target <- arm_leg_target

Resets == INSTANCE ResetJoints WITH
    Programs <- Tasks, Lower <- JointLower, Upper <- JointUpper,
    program <- env_program, joint_pos <- env_pos, joint_vel <- env_vel

Loop == INSTANCE IsaacLoop WITH Programs <- Scripts

ASSUME GoalsAssumption == Goals!Assumptions

ASSUME ResetsAssumption == Resets!Assumptions

ASSUME LoopAssumption == Loop!Assumptions

-----------------------------------------------------------------------------

simVars == <<part, vars, goalVars, jointVars, loopVars>>

SimInit ==
    /\ part \in {"knee", "goals", "resets", "loop"}
    /\ Init /\ Goals!Init /\ Resets!Init /\ Loop!Init

KneeStep == part = "knee" /\ Next /\ UNCHANGED <<part, goalVars, jointVars, loopVars>>

GoalStep ==
    part = "goals" /\ Goals!Next /\ UNCHANGED <<part, vars, jointVars, loopVars>>

ResetStep ==
    part = "resets" /\ Resets!Next /\ UNCHANGED <<part, vars, goalVars, loopVars>>

LoopStep ==
    part = "loop" /\ Loop!Next /\ UNCHANGED <<part, vars, goalVars, jointVars>>

SimNext == KneeStep \/ GoalStep \/ ResetStep \/ LoopStep

SimSpec == SimInit /\ [][SimNext]_simVars

-----------------------------------------------------------------------------

\* The goals of an environment come from one command that is feasible, and legs
\* without one are silent.
GoalsFeasible == Goals!TypeOK /\ Goals!OneCommand /\ Goals!SilentLegs

\* Sub-goals and the arm's targets are on the schedule of the environment's own
\* timer, from start to goal.
OnSchedule == Goals!TimerInRange /\ Goals!OnSchedule /\ Goals!ArmFollows

\* Resampling some environments disturbs no other.
OthersUndisturbed == [][Goals!Undisturbed]_goalVars

\* While the environments are stepped, goals change again and again.
GoalsChange == part = "goals" => Goals!GoalsChange

\* Robots that are put back start within their limits, the arm folded.
StartsWithinLimits == Resets!TypeOK /\ Resets!StartsWithinLimits /\ Resets!ArmFolded

\* Putting some robots back leaves the others where they are.
OthersGoOn == [][Resets!Undisturbed]_jointVars

\* The simulation, the controller and the keyboard move in step.
LockStep == Loop!TypeOK /\ Loop!LockStep /\ Loop!KeysReachNextCommand /\ Loop!SavedIsWhole

\* What is recorded of a step belongs together.
RecordsBelongTogether == Loop!RecordsBelongTogether
=============================================================================
