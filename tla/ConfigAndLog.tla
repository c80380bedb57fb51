---------------------------- MODULE ConfigAndLog ----------------------------
(***************************************************************************)
(* The files of a run: the configuration it starts from, with the commands *)
(* that are made of it, and the log it leaves behind.  The two parts share *)
(* no state; a behaviour is of one of them, drawn in Init, and the other   *)
(* stays where it begins.                                                  *)
(***************************************************************************)
EXTENDS RobotLog

CONSTANTS
    ISAAC, SPOT, NLegs, Envs, DefaultKp, ArmOffset, Positions, Actions, GainSteps,
    MaxCount, NULL      \* see JointCommand

VARIABLES
    part,
    env, mock, pc, next_expr, joint_kp, joint_offsets, position, _count, command

commandVars == <<env, mock, pc, next_expr, joint_kp, joint_offsets, position, _count,
                 command>>

Joint == INSTANCE JointCommand WITH next <- next_expr

ASSUME CommandsAssumption == Joint!Assumptions

-----------------------------------------------------------------------------

filesVars == <<part, vars, commandVars>>

FilesInit == part \in {"log", "commands"} /\ Init /\ Joint!Init

LogStep == part = "log" /\ Next /\ UNCHANGED <<part, commandVars>>

CommandStep == part = "commands" /\ Joint!Next /\ UNCHANGED <<part, vars>>

FilesNext == LogStep \/ CommandStep

FilesSpec == FilesInit /\ [][FilesNext]_filesVars

-----------------------------------------------------------------------------

\* Gains come from the last group of the configuration that matches a joint.
LastMatchWins == Joint!TypeOK /\ Joint!LastMatchWins

\* A robot whose configuration has a hole never gets a command.
NoCommandWithoutGains == Joint!NoCommandWithoutGains

\* Each position in a command is for the joint at its place.
EachToItsJoint == Joint!EachToItsJoint

\* A saved log is whole, or torn in its last row by a generator left behind.
WholeOrTorn == TypeOK /\ WholeLog /\ LastRowTorn

\* The diagnostics get through a log, and raise no false alarm over a healthy one.
Diagnosable == ReadsThrough /\ NoFalseAlarm
=============================================================================
