-------------------------- MODULE TerminalKeyboard --------------------------
(***************************************************************************)
(* terminal_keyboard.py: how key presses become the velocity command that  *)
(* the policy is given.                                                    *)
(*                                                                         *)
(* The input thread, _read_loop, adds to a velocity or zeroes all of them, *)
(* and only then caps them.  The main thread, listen, makes a list of the  *)
(* velocities every 20 ms and puts it in the context, from where the       *)
(* policy takes the list as a whole.  The two share the velocities and     *)
(* _stopping, and lock nothing.                                            *)
(*                                                                         *)
(* Axes are numbered in the order in which the code handles them: x_vel,   *)
(* y_vel, yaw.  Velocities are in units in which the deltas and the caps   *)
(* of the configuration are whole numbers; 0.5 makes them 1 and 2.         *)
(***************************************************************************)
EXTENDS Integers, Sequences

CONSTANTS
    Axes,   \* number of axes, 3 in the code
    Delta,  \* what a key adds: delta_forward_velocity and the like
    Max     \* what the velocities are capped at: max_forward_velocity etc.

ASSUME AxesAssumption == Axes \in Nat \ {0}
ASSUME DeltaAssumption == Delta \in Nat \ {0}
ASSUME MaxAssumption == Max \in Nat

VARIABLES
    vel,            \* x_vel, y_vel, yaw
    _stopping,
    readPc,         \* where the input thread is
    axis,           \* the axis it handles next, while it stops or caps them
    lastKey,        \* history: whether the last key moved or stopped the robot
    listenPc,       \* where the main thread is in listen()
    list,           \* the list it makes, as far as it has got
    velocity_cmd,   \* context.velocity_cmd
    stale           \* history: lists other than vel published since vel changed

readVars == <<vel, readPc, axis, lastKey>>
listenVars == <<listenPc, list, velocity_cmd>>

vars == <<readVars, _stopping, listenVars, stale>>

AxisNumbers == 1..Axes

Zero == [a \in AxisNumbers |-> 0]

ReadPcs == {"check", "read", "stop", "cap", "done"}

ListenPcs == {"while", "if", "make", "publish", "sleep", "over"}

Init ==
    /\ vel = Zero
    /\ _stopping = FALSE
    /\ readPc = "check"
    /\ axis = 1
    /\ lastKey = "none"
    /\ listenPc = "while"
    /\ list = <<>>
    /\ velocity_cmd = Zero
    /\ stale = 0

-----------------------------------------------------------------------------
(* The input thread.                                                       *)

CheckStopping ==
    /\ readPc = "check"
    /\ readPc' = IF _stopping THEN "done" ELSE "read"
    /\ UNCHANGED <<vel, axis, lastKey, _stopping, listenVars, stale>>

\* The end of the input reads as an empty string, over and over.
EndOfInput ==
    /\ readPc = "read"
    /\ readPc' = "check"
    /\ UNCHANGED <<vel, axis, lastKey, _stopping, listenVars, stale>>

\* A bug to look for: a key is handled, and the velocities are not capped.
MoveUncapped ==
    \E a \in AxisNumbers, d \in {-Delta, Delta} :
        /\ readPc = "read"
        /\ readPc' = "check"
        /\ vel' = [vel EXCEPT ![a] = @ + d]
        /\ lastKey' = "move"
        /\ stale' = 0
        /\ UNCHANGED <<axis, _stopping, listenVars>>

\* A key of an axis, one way or the other.
MoveKey ==
    \E a \in AxisNumbers, d \in {-Delta, Delta} :
        /\ readPc = "read"
        /\ readPc' = "cap"
        /\ axis' = 1
        /\ vel' = [vel EXCEPT ![a] = @ + d]
        /\ lastKey' = "move"
        /\ stale' = 0
        /\ UNCHANGED <<_stopping, listenVars>>

StopKey ==
    /\ readPc = "read"
    /\ readPc' = "stop"
    /\ axis' = 1
    /\ lastKey' = "stop"
    /\ UNCHANGED <<vel, _stopping, listenVars, stale>>

\* A key that means nothing.
OtherKey ==
    /\ readPc = "read"
    /\ readPc' = "cap"
    /\ axis' = 1
    /\ UNCHANGED <<vel, lastKey, _stopping, listenVars, stale>>

\* One axis is given the value v, the next one is due, or else what follows.
SetAxis(v, next) ==
    /\ vel' = [vel EXCEPT ![axis] = v]
    /\ stale' = IF vel' = vel THEN stale ELSE 0
    /\ IF axis < Axes
       THEN axis' = axis + 1 /\ UNCHANGED readPc
       ELSE axis' = 1 /\ readPc' = next
    /\ UNCHANGED <<lastKey, _stopping, listenVars>>

\* A bug to look for: the last axis is forgotten.
StopAxisButLast ==
    /\ readPc = "stop"
    /\ SetAxis(IF axis < Axes THEN 0 ELSE vel[axis], "cap")

StopAxis == readPc = "stop" /\ SetAxis(0, "cap")

\* np.clip
Capped(v) == IF v > Max THEN Max ELSE IF v < -Max THEN -Max ELSE v

CapAxis == readPc = "cap" /\ SetAxis(Capped(vel[axis]), "check")

\* Ctrl-C read as a character: both threads are to stop.
ControlC ==
    /\ readPc = "read"
    /\ readPc' = "done"
    /\ _stopping' = TRUE
    /\ UNCHANGED <<vel, axis, lastKey, listenVars, stale>>

\* read() or print() raises: the thread ends, and the listener never knows.
ReaderFails ==
    /\ readPc \in {"read", "check"}
    /\ readPc' = "done"
    /\ UNCHANGED <<vel, axis, lastKey, _stopping, listenVars, stale>>

-----------------------------------------------------------------------------
(* The main thread.                                                        *)

ListenStep(from, to) ==
    /\ listenPc = from
    /\ listenPc' = to
    /\ UNCHANGED <<readVars, _stopping>>

\* while not self._stopping: in listen
ListenWhile ==
    /\ ListenStep("while", IF _stopping THEN "over" ELSE "if")
    /\ UNCHANGED <<list, velocity_cmd, stale>>

\* A bug to look for: the list made first is put in the context for ever.
KeepList ==
    /\ ListenStep("if", IF Len(list) = Axes THEN "publish" ELSE "make")
    /\ UNCHANGED <<list, velocity_cmd, stale>>

\* if not self._stopping: in listen_loop
ListenIf ==
    /\ ListenStep("if", IF _stopping THEN "sleep" ELSE "make")
    /\ list' = <<>>
    /\ UNCHANGED <<velocity_cmd, stale>>

\* The list takes one velocity after the other.
MakeList ==
    /\ ListenStep("make", IF Len(list) + 1 < Axes THEN "make" ELSE "publish")
    /\ list' = Append(list, vel[Len(list) + 1])
    /\ UNCHANGED <<velocity_cmd, stale>>

Publish ==
    /\ ListenStep("publish", "sleep")
    /\ velocity_cmd' = list
    /\ stale' = IF list = vel THEN stale ELSE stale + 1
    /\ UNCHANGED list

Sleep ==
    /\ ListenStep("sleep", "while")
    /\ UNCHANGED <<list, velocity_cmd, stale>>

\* KeyboardInterrupt, anywhere.
Interrupted ==
    /\ listenPc # "over"
    /\ listenPc' = "over"
    /\ UNCHANGED <<readVars, _stopping, list, velocity_cmd, stale>>

-----------------------------------------------------------------------------

\* What the input thread does by itself; for the keys it waits.
Reader == CheckStopping \/ StopAxis \/ CapAxis

Keys ==
    \/ EndOfInput
    \/ MoveKey
    \/ StopKey
    \/ OtherKey
    \/ ControlC
    \/ ReaderFails

Listener == ListenWhile \/ ListenIf \/ MakeList \/ Publish \/ Sleep

Next == Reader \/ Keys \/ Listener \/ Interrupted

Spec == Init /\ [][Next]_vars

\* Both threads are scheduled; nobody need press a key.
FairSpec == Spec /\ WF_vars(Reader) /\ WF_vars(Listener)

-----------------------------------------------------------------------------

\* The velocities and lists of them are of numbers, one for each axis once a
\* list is made, and the input thread handles no axis there isn't.
TypeOK ==
    /\ vel \in [AxisNumbers -> Int]
    /\ _stopping \in BOOLEAN
    /\ readPc \in ReadPcs
    /\ axis \in AxisNumbers
    /\ lastKey \in {"none", "move", "stop"}
    /\ listenPc \in ListenPcs
    /\ list \in Seq(Int)
    /\ listenPc = "publish" => Len(list) = Axes
    /\ velocity_cmd \in [AxisNumbers -> Int]
    /\ stale \in Nat

\* The caps hold whenever the input thread waits for a key, whatever keys came
\* before, and while it caps they hold for the axes it is done with.
CappedBetweenKeys ==
    /\ readPc \in {"check", "read", "done"} =>
          \A a \in AxisNumbers : vel[a] \in -Max .. Max
    /\ readPc = "cap" => \A a \in 1..axis - 1 : vel[a] \in -Max .. Max

\* The policy is never commanded faster than one key press over the cap: a list
\* that was read between a key and its capping is all that can go wrong.
CommandBounded ==
    \A a \in AxisNumbers : velocity_cmd[a] \in -(Max + Delta) .. Max + Delta

\* A list that is made while the velocities change may be of old and new ones,
\* one that was never asked for; but once they rest, only one such is published.
StaleOnce == stale <= 1

\* The stop key stops: unless a key follows or listen() ends, the velocity
\* command becomes zero in every axis, although neither thread waits for the
\* other and stopping takes a step for each axis.
StopReachesController ==
    lastKey = "stop" ~>
        velocity_cmd = Zero \/ lastKey # "stop" \/ listenPc = "over"

=============================================================================
