--------------------------- MODULE MCConfigAndLog ---------------------------
(***************************************************************************)
(* Values for the configuration, the commands and the log.  The robot has  *)
(* one leg of three joints and an arm of two.  Of the configurations the   *)
(* first is like configs/env.yaml; in the others a later group overwrites  *)
(* an earlier one, an expression that is second in its group is lost, and  *)
(* a default is missing.                                                   *)
(***************************************************************************)
EXTENDS ConfigAndLog, TLC

MCOrder == <<"fl_hx", "fl_hy", "fl_kn", "arm_sh0", "arm_sh1">>

Hips == {"fl_hx", "fl_hy"}

Knee == {"fl_kn"}

Group(exprs, stiffness) == [joint_names_expr |-> exprs, stiffness |-> stiffness]

Default(expr, value) == [expr |-> expr, value |-> value]

AllDefaults == <<Default({"arm_sh0"}, 0), Default({"arm_sh1"}, -90),
                 Default({"fl_hx"}, 12), Default({"fl_hy"}, 50), Default(Knee, -100)>>

Shoulders == <<Group(<<{"arm_sh0"}>>, 120), Group(<<{"arm_sh1"}>>, 121)>>

MCConfigurations ==
    {[actuators |-> a \o Shoulders, joint_pos |-> d] :
        a \in {<<Group(<<Hips>>, 75), Group(<<Knee>>, 85)>>,
               <<Group(<<Hips \cup Knee>>, 60), Group(<<Knee>>, 85)>>,
               <<Group(<<Knee>>, 85), Group(<<Hips \cup Knee>>, 60)>>,
               <<Group(<<Hips, Knee>>, 75)>>},
        d \in {AllDefaults, Tail(AllDefaults),
               <<Default(Hips \cup Knee, 0)>> \o AllDefaults}}

MCDefaultKp == "fl_hx" :> 624 @@ "fl_hy" :> 936 @@ "fl_kn" :> 286
               @@ "arm_sh0" :> 1020 @@ "arm_sh1" :> 255

MCArmOffset == "arm_sh0" :> 0 @@ "arm_sh1" :> -314

MCPositions == {-60, 12}

-----------------------------------------------------------------------------

\* A log has no configuration.
MCInit ==
    /\ FilesInit
    /\ part = "log" => mock = FALSE /\ env = CHOOSE e \in Envs : TRUE

MCSpec == MCInit /\ [][FilesNext]_filesVars
=============================================================================
