---------------------------- MODULE MCSimulation ----------------------------
(***************************************************************************)
(* Values for the parts of the simulation.                                 *)
(***************************************************************************)
EXTENDS Simulation, TLC, SequencesExt, FiniteSetsExt

-----------------------------------------------------------------------------
(* A knee in tenths of a radian and rad/s.  The torques are scaled so that *)
(* the slopes of the two speed tables, 97/14 and 97/15 in the code, are    *)
(* whole: 97 Nm are 210.  Of the 101 rows of JOINT_PARAMETER_LOOKUP_TABLE  *)
(* the ends and the row of the largest torque.                             *)

MCSetpoints == {-28, -14, -2}

\* Angles beyond the table have the torque of its end.
MCTorqueLimit == -28 :> 80 @@ -14 :> 245 @@ -2 :> 66 @@ 0 :> 66

MCAngles == DOMAIN MCTorqueLimit

MCSpeeds == {-30, -15, -6, 0, 5, 14, 20}

POS_TORQUE_SPEED_LIMIT == << <<-30, 210>>, <<0, 210>>, <<14, 0>> >>

NEG_TORQUE_SPEED_LIMIT == << <<-15, 0>>, <<0, -210>>, <<30, -210>> >>

\* LinearInterpolation: the ends of the table hold beyond it.
Interpolate(table, x) ==
    IF x <= table[1][1] THEN table[1][2]
    ELSE IF x >= Last(table)[1] THEN Last(table)[2]
    ELSE LET i == Max({j \in 1..Len(table) : table[j][1] <= x})
             p == table[i]
             q == table[i + 1]
         IN  p[2] + ((q[2] - p[2]) * (x - p[1])) \div (q[1] - p[1])

MCPosSpeedLimit == [v \in MCSpeeds |-> Interpolate(POS_TORQUE_SPEED_LIMIT, v)]

MCNegSpeedLimit == [v \in MCSpeeds |-> Interpolate(NEG_TORQUE_SPEED_LIMIT, v)]

-----------------------------------------------------------------------------
(* Goals of two environments.  Positions are multiples of 6, so that ways  *)
(* of 2 and of 3 steps have whole sub-goals; one position is beyond the    *)
(* arm's limits.  One cached command has no leg, the other leg 1.          *)

MCSampled == {[arm |-> 0, leg |-> 6, name |-> -1, torso |-> 0],
              [arm |-> 12, leg |-> 6, name |-> 1, torso |-> 1]}

MCPoses == {[arm |-> 6, leg |-> 0 :> 6 @@ 1 :> 6],
            [arm |-> 18, leg |-> 0 :> 0 @@ 1 :> 18]}

MCActions == {0 :> 12 @@ 1 :> 12}

(* Two environments of a robot with a hip whose range is clipped on one    *)
(* side, and an arm of two joints; hundredths of a radian.                 *)

MCDefault == "hx" :> 70 @@ "sh1" :> -90 @@ "el0" :> 180

MCStow == "sh1" :> -314 @@ "el0" :> 314

MCJointLower == "hx" :> -79 @@ "sh1" :> -315 @@ "el0" :> 0

MCJointUpper == "hx" :> 79 @@ "sh1" :> 52 @@ "el0" :> 315

MCMaxVel == "hx" :> 100 @@ "sh1" :> 300 @@ "el0" :> 300

-----------------------------------------------------------------------------

\* The parts that do not move begin at one place.
MCInit ==
    /\ SimInit
    /\ part # "knee" => lag = 0 /\ target = -14 /\ joint_pos = -14 /\ joint_vel = 0
    /\ part # "goals" => traj = [e \in Envs |-> 2]
    /\ part # "resets" => env_program = "deployment"
    /\ part # "loop" => program = "demo"

\* The loop that steps the environments goes on, as in GoalCommand's FairSpec.
MCSpec == MCInit /\ [][SimNext]_simVars /\ WF_simVars(GoalStep)
=============================================================================
