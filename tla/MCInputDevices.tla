--------------------------- MODULE MCInputDevices ---------------------------
(***************************************************************************)
(* Values for the three devices.                                           *)
(***************************************************************************)
EXTENDS InputDevices, TLC

\* The axes of GamepadConfig in twentieths of the travel: forward and lateral
\* with a step at the deadband, yaw without one, and one that isn't inverted.
PadAxis(inverted, min, max) ==
    [inverted |-> inverted, deadband |-> 4,
     min_forward_dir |-> min, max_forward_dir |-> max,
     min_reverse_dir |-> min, max_reverse_dir |-> max]

MCDefaults == {PadAxis(TRUE, 5, 20), PadAxis(TRUE, 0, 20)}

MCConfigs == MCDefaults \cup {PadAxis(FALSE, 5, 20)}

MCPositions == {-20, -12, -4, 3, 12, 20}

\* Limits in increments of 0.5.  KeyboardConfig's are all 2; the first axis may
\* go backward less than forward, as its two parameters allow.
MCMaxPlus == "x_vel" :> 2 @@ "yaw" :> 2

MCMaxMinus == "x_vel" :> 1 @@ "yaw" :> 2

-----------------------------------------------------------------------------

\* The axis matters to the gamepad alone.
MCInit ==
    /\ DevicesInit
    /\ device # "gamepad" => cfg = CHOOSE c \in Configs : TRUE

\* The threads of the terminal's keyboard are scheduled, as in FairSpec.
MCSpec ==
    /\ MCInit /\ [][DevicesNext]_devicesVars
    /\ WF_devicesVars(Terminal(Reader)) /\ WF_devicesVars(Terminal(Listener))
=============================================================================
