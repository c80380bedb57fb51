----------------------------- MODULE GoalCommand ----------------------------
(***************************************************************************)
(* The goals of the interlimb environment: ArmLegJointBasePoseCommand      *)
(* draws for every environment a goal for the arm, for one leg or none,    *)
(* and for the torso, moves a sub-goal from the joints' positions to the   *)
(* goal in traj_timesteps steps, keeps it there for hold_timesteps and     *)
(* draws again; MixedPDArmMultiLegJointPositionAction turns actions and    *)
(* sub-goals into joint targets.                                           *)
(*                                                                         *)
(* The code works on tensors with a row for each environment, and writes   *)
(* some of them for all environments while it resamples a few.  Here the   *)
(* arm and every leg has one joint, and positions are integers; the torso  *)
(* goal is a number that stands for roll, pitch and height.                *)
(***************************************************************************)
EXTENDS Integers

CONSTANTS
    Envs,       \* environments that are simulated side by side
    Legs,       \* legs, numbered from 0: fl, fr, hl, hr
    Sampled,    \* commands drawn when the term is built, each a record
    Which,      \* command_which_leg: -1 for no leg, 4 for a mix
    TrajSteps,  \* values of traj_timesteps: trajectory_time / step_dt
    HoldSteps,  \* values of hold_timesteps: hold_time / step_dt
    Poses,      \* where the simulated joints may be, each a record
    Actions,    \* what the policy may ask of the legs' joints
    Lower,      \* soft limits of the arm's joint
    Upper

NoLeg == -1

AnyLeg == 4

\* The commands left once they are filtered by command_which_leg.
Cached == {c \in Sampled : Which # AnyLeg => c.name = Which}

\* What is assumed of them; torch.randint(0, 0) raises.
Assumptions ==
    /\ 0 \in Legs /\ Legs \subseteq 0..3
    /\ TrajSteps \subseteq Nat \ {0} /\ TrajSteps # {}
    /\ HoldSteps \subseteq Nat /\ HoldSteps # {}
    /\ \A p \in Poses : p.arm \in Int /\ p.leg \in [Legs -> Int]
    /\ \A a \in Actions : a \in [Legs -> Int]
    /\ Lower \in Int /\ Upper \in Int /\ Lower <= Upper
    /\ \A c \in Sampled : c.name \in Legs \cup {NoLeg} /\ {c.arm, c.leg, c.torso} \subseteq Int
    /\ Cached # {}

VARIABLES
    phase,              \* where the environments' step is
    arm,                \* arm_joint_start, _goal and _sub_goal
    leg,                \* leg_joint_start, _goal and _sub_goal
    torso,              \* torso_roll_pitch_height_goal
    command_leg_idxs,   \* the leg that is commanded, 0 where none is
    command_leg,        \* whether one is
    timer, traj, hold,  \* timer, traj_timesteps, hold_timesteps
    target              \* joint position targets of the articulation

goalVars == <<arm, leg, torso, command_leg_idxs, command_leg, timer, traj, hold>>

vars == <<phase, goalVars, target>>

Zero == [l \in Legs |-> 0]

Init ==
    /\ phase = "new"
    /\ arm = [e \in Envs |-> [start |-> 0, goal |-> 0, sub |-> 0]]
    /\ leg = [e \in Envs |-> [start |-> Zero, goal |-> Zero, sub |-> Zero]]
    /\ torso = [e \in Envs |-> 0]
    /\ command_leg_idxs = [e \in Envs |-> 0]
    /\ command_leg = [e \in Envs |-> TRUE]
    /\ timer = [e \in Envs |-> 0]
    /\ traj \in [Envs -> TrajSteps]
    /\ hold \in [Envs -> HoldSteps]
    /\ target = [e \in Envs |-> [arm |-> 0, leg |-> Zero]]

-----------------------------------------------------------------------------
(* _resample_command: new goals for the environments in E, where drawn[e]  *)
(* is the cached command drawn for e, and pos[e] is where its joints are.  *)

Clamp(x) == IF x < Lower THEN Lower ELSE IF x > Upper THEN Upper ELSE x

\* A joint, or all legs, at the start of the way to a goal.
From(start, goal) == [start |-> start, goal |-> goal, sub |-> start]

\* Leg l alone has a value.
Only(l, x) == [Zero EXCEPT ![l] = x]

\* The arm starts where it is, within its limits.
ResampleArm(A, E, drawn, pos) ==
    [e \in Envs |-> IF e \in E THEN From(Clamp(pos[e].arm), drawn[e].arm) ELSE A[e]]

\* No leg becomes leg 0, as a placeholder.
ResampleIdxs(E, drawn) ==
    [e \in Envs |-> IF e \notin E THEN command_leg_idxs[e]
                    ELSE IF drawn[e].name = NoLeg THEN 0
                    ELSE drawn[e].name]

ResampleMask(E, drawn) ==
    [e \in Envs |-> IF e \in E THEN drawn[e].name # NoLeg ELSE command_leg[e]]

\* A bug to look for: when one environment has no leg to command, the legs of
\* every environment are zeroed.
ResampleZeroesAll(L, E, drawn, pos) ==
    LET idx == ResampleIdxs(E, drawn)
    IN  [e \in Envs |-> IF \E f \in E : drawn[f].name = NoLeg THEN From(Zero, Zero)
                        ELSE IF e \in E THEN From(Only(idx[e], pos[e].leg[idx[e]]),
                                                  Only(idx[e], drawn[e].leg))
                        ELSE L[e]]

\* The commanded leg starts where it is, unclamped; the zeroing of the legs
\* without a command goes over all environments, not only those in E.
ResampleLeg(L, E, drawn, pos) ==
    LET idx == ResampleIdxs(E, drawn)
    IN  [e \in Envs |-> IF ~ResampleMask(E, drawn)[e] THEN From(Zero, Zero)
                        ELSE IF e \in E THEN From(Only(idx[e], pos[e].leg[idx[e]]),
                                                  Only(idx[e], drawn[e].leg))
                        ELSE L[e]]

ResampleBase(E, drawn) ==
    [e \in Envs |-> IF e \in E THEN drawn[e].torso ELSE torso[e]]

\* The timer of the environments that start over is zeroed.
ResetTimer(k, E) == [e \in Envs |-> IF e \in E THEN 0 ELSE k[e]]

\* A, L and k are what the arm, the legs and the timer are before.
Resample(A, L, k, E) ==
    /\ \E drawn \in [E -> Cached], pos \in [E -> Poses] :
          /\ arm' = ResampleArm(A, E, drawn, pos)
          /\ leg' = ResampleLeg(L, E, drawn, pos)
          /\ torso' = ResampleBase(E, drawn)
          /\ command_leg_idxs' = ResampleIdxs(E, drawn)
          /\ command_leg' = ResampleMask(E, drawn)
    /\ \E T \in [E -> TrajSteps] :
          traj' = [e \in Envs |-> IF e \in E THEN T[e] ELSE traj[e]]
    /\ \E H \in [E -> HoldSteps] :
          hold' = [e \in Envs |-> IF e \in E THEN H[e] ELSE hold[e]]
    /\ timer' = ResetTimer(k, E)

-----------------------------------------------------------------------------
(* _update_command: where the sub-goals are k steps after the start.       *)

\* A bug to look for: the timer stands still when the goal is reached.
StepTimerReaching ==
    [e \in Envs |-> IF timer[e] < traj[e] THEN timer[e] + 1 ELSE timer[e]]

StepTimer == [e \in Envs |-> timer[e] + 1]

\* torch.lerp, k steps of T along the way.
Lerp(start, goal, k, T) == start + ((goal - start) * k) \div T

\* A bug to look for: the last step of the way is not taken, but jumped.
AdvanceShort(start, goal, sub, k, T) ==
    IF k <= T THEN Lerp(start, goal, k - 1, T) ELSE goal

\* Reaching, and after T steps holding.
Advance(start, goal, sub, k, T) ==
    IF k <= T THEN Lerp(start, goal, k, T) ELSE goal

AdvanceArm(k) ==
    [e \in Envs |-> [arm[e] EXCEPT
        !.sub = Advance(arm[e].start, arm[e].goal, @, k[e], traj[e])]]

AdvanceLeg(k) ==
    [e \in Envs |-> [leg[e] EXCEPT
        !.sub = [l \in Legs |->
            Advance(leg[e].start[l], leg[e].goal[l], @[l], k[e], traj[e])]]]

\* The environments that have reached and held their goals.
Overdue(k) == {e \in Envs : k[e] > traj[e] + hold[e]}

-----------------------------------------------------------------------------
(* A step of the environments.                                             *)

\* env.reset() resets the command term for all environments.
FirstReset ==
    /\ phase = "new"
    /\ phase' = "actions"
    /\ Resample(arm, leg, timer, Envs)
    /\ UNCHANGED target

\* process_actions copies the arm's sub-goal ...
ArmTarget(e) == arm[e].sub

\* ... and apply_actions sends it to the arm, and the policy's actions to all
\* legs; the commanded leg's sub-goal is copied as well, but not sent.
ProcessActions ==
    /\ phase = "actions"
    /\ phase' = "reset"
    /\ \E a \in Actions :
          target' = [e \in Envs |-> [arm |-> ArmTarget(e), leg |-> a]]
    /\ UNCHANGED goalVars

\* The environments whose episode is over are reset.
ResetEnvs ==
    /\ phase = "reset"
    /\ phase' = "command"
    /\ \E E \in SUBSET Envs : Resample(arm, leg, timer, E)
    /\ UNCHANGED target

\* _update_command: reaching, holding, or starting over.
UpdateCommand ==
    /\ phase = "command"
    /\ phase' = "actions"
    /\ Resample(AdvanceArm(StepTimer), AdvanceLeg(StepTimer), StepTimer,
                Overdue(StepTimer))
    /\ UNCHANGED target

Next == FirstReset \/ ProcessActions \/ ResetEnvs \/ UpdateCommand

Spec == Init /\ [][Next]_vars

\* The loop of the player goes on as long as the simulation app runs.
FairSpec == Spec /\ WF_vars(Next)

-----------------------------------------------------------------------------

Way == [start : Int, goal : Int, sub : Int]

LegWay == [start : [Legs -> Int], goal : [Legs -> Int], sub : [Legs -> Int]]

\* The buffers keep their shapes, and a leg that is commanded is a leg.
TypeOK ==
    /\ phase \in {"new", "actions", "reset", "command"}
    /\ arm \in [Envs -> Way]
    /\ leg \in [Envs -> LegWay]
    /\ torso \in [Envs -> Int]
    /\ command_leg_idxs \in [Envs -> Legs]
    /\ command_leg \in [Envs -> BOOLEAN]
    /\ timer \in [Envs -> Nat]
    /\ traj \in [Envs -> TrajSteps]
    /\ hold \in [Envs -> HoldSteps]
    /\ target \in [Envs -> [arm : Int, leg : [Legs -> Int]]]

\* The timer never runs past the time to reach and to hold a goal: whichever
\* environments are reset, and whenever, all others keep their own schedule.
TimerInRange == \A e \in Envs : timer[e] <= traj[e] + hold[e]

\* The placeholder that stands for no leg moves nothing: where no leg is
\* commanded, every leg's start, goal and sub-goal is zero; and otherwise all
\* but the commanded one's are.  The policy reads them in its observation.
SilentLegs ==
    phase # "new" =>
        \A e \in Envs, l \in Legs :
            ~command_leg[e] \/ l # command_leg_idxs[e] =>
                leg[e].start[l] = 0 /\ leg[e].goal[l] = 0 /\ leg[e].sub[l] = 0

\* The goals of an environment are feasible together: arm, leg and torso come
\* from one cached command, whatever was resampled around them.
OneCommand ==
    phase # "new" =>
        \A e \in Envs : \E c \in Cached :
            /\ arm[e].goal = c.arm
            /\ torso[e] = c.torso
            /\ command_leg[e] <=> c.name # NoLeg
            /\ command_leg[e] => /\ command_leg_idxs[e] = c.name
                                 /\ leg[e].goal[c.name] = c.leg

\* The sub-goals are on schedule: on the start when the timer is reset, on the
\* goal when the time to reach it is over and as long as it is held, and on
\* the straight line between them before.
OnSchedule ==
    phase # "new" =>
        \A e \in Envs :
            LET on(s, g) == IF timer[e] >= traj[e] THEN g
                            ELSE Lerp(s, g, timer[e], traj[e])
            IN  /\ arm[e].sub = on(arm[e].start, arm[e].goal)
                /\ \A l \in Legs :
                      leg[e].sub[l] = on(leg[e].start[l], leg[e].goal[l])

\* The targets that the arm is sent are the sub-goals the policy has last seen,
\* and they never leave the way from the start to the goal, which begins
\* within the arm's limits.
ArmFollows ==
    /\ phase = "reset" => \A e \in Envs : target[e].arm = arm[e].sub
    /\ phase # "new" =>
         \A e \in Envs : /\ arm[e].start \in Lower..Upper
                         /\ \/ arm[e].sub \in arm[e].start..arm[e].goal
                            \/ arm[e].sub \in arm[e].goal..arm[e].start

Distance(x, y) == IF x < y THEN y - x ELSE x - y

\* An environment that is not resampled is left alone by the resampling of the
\* others: its goals stay, its timer goes on, and its arm's sub-goal moves by
\* no more than a step of its way, but for the rounding to whole units.
Undisturbed ==
    \A e \in Envs : timer'[e] > 0 /\ phase # "new" =>
        /\ arm'[e].goal = arm[e].goal /\ arm'[e].start = arm[e].start
        /\ leg'[e].goal = leg[e].goal /\ leg'[e].start = leg[e].start
        /\ torso'[e] = torso[e]
        /\ timer'[e] - timer[e] \in 0..1
        /\ Distance(arm[e].sub, arm'[e].sub) * traj[e]
              < Distance(arm[e].start, arm[e].goal) + traj[e]

\* Every environment gets a new goal again and again: its timer does not run
\* for ever, whether its episodes end early or never.
GoalsChange == \A e \in Envs : timer[e] > 0 ~> timer[e] = 0

=============================================================================
