---------------------------- MODULE InputDevices ----------------------------
(***************************************************************************)
(* The three devices that a robot can be driven with: the terminal's       *)
(* keyboard, a gamepad, and the keyboard of a pygame window.  Each program *)
(* creates one of them, so a behaviour is of one device, drawn in Init;    *)
(* the others stay where they begin.                                       *)
(***************************************************************************)
EXTENDS TerminalKeyboard

CONSTANTS
    Configs, Positions, Full, Window,   \* see Gamepad
    WindowAxes, MaxPlus, MaxMinus       \* see PygameKeyboard

VARIABLES
    device,
    cfg, stick, buffer, x_vel, still, pad_stopping,
    held, quit, key_vel, key_cmd, key_stopping, since

padVars == <<cfg, stick, buffer, x_vel, still, pad_stopping>>

pygameVars == <<held, quit, key_vel, key_cmd, key_stopping, since>>

Pad == INSTANCE Gamepad WITH vel <- x_vel, _stopping <- pad_stopping

Pygame == INSTANCE PygameKeyboard WITH
    Axes <- WindowAxes, vel <- key_vel, velocity_cmd <- key_cmd,
    _stopping <- key_stopping

ASSUME PadAssumption == Pad!Assumptions

ASSUME PygameAssumption == Pygame!Assumptions

-----------------------------------------------------------------------------

devicesVars == <<device, vars, padVars, pygameVars>>

DevicesInit ==
    /\ device \in {"terminal", "gamepad", "pygame"}
    /\ Init /\ Pad!Init /\ Pygame!Init

\* A step of the terminal's keyboard.
Terminal(A) ==
    /\ device = "terminal"
    /\ A
    /\ UNCHANGED <<device, padVars, pygameVars>>

PadStep == device = "gamepad" /\ Pad!Next /\ UNCHANGED <<device, vars, pygameVars>>

PygameStep == device = "pygame" /\ Pygame!Next /\ UNCHANGED <<device, vars, padVars>>

DevicesNext == Terminal(Next) \/ PadStep \/ PygameStep

DevicesSpec == DevicesInit /\ [][DevicesNext]_devicesVars

-----------------------------------------------------------------------------

\* The caps of the terminal's keyboard hold whenever a key is waited for, and
\* what is published between a key and its capping is one key press over them.
KeysCapped == TypeOK /\ CappedBetweenKeys /\ CommandBounded

\* The stop key stops the robot, if it is the terminal's keyboard that drives it.
StopKeyHeard == device = "terminal" => StopReachesController

\* Pushing the stick of a gamepad further never slows the robot down nor turns it
\* round, and forward it gives the configured magnitudes at both ends.
StickCurve == Pad!TypeOK /\ Pad!CurveMonotone /\ Pad!ForwardMagnitudes

\* What AxisConfig says of the stick's reverse, and _apply_curve doesn't do.
ReverseAsDocumented == Pad!ReverseMagnitudes

\* A few wrong samples of the stick don't show.
StickFiltered == Pad!MinorityFiltered

\* Keys held down in the pygame window settle the velocity.
HeldKeysSettle == Pygame!TypeOK /\ Pygame!HeldKeysSettle
=============================================================================
