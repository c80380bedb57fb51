--------------------------- MODULE PygameKeyboard --------------------------
(***************************************************************************)
(* hid/keyboard.py: ten times a second the keys that are held down change  *)
(* the velocities, which are capped and published.  Unlike the terminal's  *)
(* keyboard there is one thread, and what counts is which keys are down    *)
(* when the loop looks, not which were pressed since.                      *)
(*                                                                         *)
(* The axes are those of the constant; velocities are in units of the      *)
(* increment.                                                              *)
(***************************************************************************)
EXTENDS Integers, FiniteSets

CONSTANTS
    Axes,           \* x_vel, y_vel, yaw
    MaxPlus,        \* max_forward_velocity and its like
    MaxMinus        \* max_backward_velocity and its like

\* What is assumed of them.
Assumptions ==
    /\ MaxPlus \in [Axes -> Nat] /\ MaxMinus \in [Axes -> Nat]
    /\ \E a \in Axes : \A b \in Axes :
          MaxPlus[b] + MaxMinus[b] <= MaxPlus[a] + MaxMinus[a]

\* Loops after which a key held down has brought any velocity to its limit.
Span ==
    LET spans == {MaxPlus[a] + MaxMinus[a] : a \in Axes}
    IN  CHOOSE n \in spans : \A m \in spans : m <= n

Stop == <<"stop", 0>>
Plus(a) == <<a, 1>>
Minus(a) == <<a, -1>>

Keys == {Stop} \cup {Plus(a) : a \in Axes} \cup {Minus(a) : a \in Axes}

VARIABLES
    held,           \* what get_pressed returns
    quit,           \* a QUIT event is waiting
    vel,            \* x_vel, y_vel and yaw
    velocity_cmd,   \* of the context
    _stopping,
    since           \* history: loops since a key last went down or up

vars == <<held, quit, vel, velocity_cmd, _stopping, since>>

-----------------------------------------------------------------------------

Init ==
    /\ held = {}
    /\ quit = FALSE
    /\ vel = [a \in Axes |-> 0]
    /\ velocity_cmd = vel
    /\ _stopping = FALSE
    /\ since = 0

KeyDown ==
    /\ \E key \in Keys \ held : held' = held \cup {key}
    /\ since' = 0
    /\ UNCHANGED <<quit, vel, velocity_cmd, _stopping>>

KeyUp ==
    /\ \E key \in held : held' = held \ {key}
    /\ since' = 0
    /\ UNCHANGED <<quit, vel, velocity_cmd, _stopping>>

CloseWindow ==
    /\ ~quit /\ ~_stopping
    /\ quit' = TRUE
    /\ UNCHANGED <<held, vel, velocity_cmd, _stopping, since>>

\* A bug to look for: if for elif, so that the two keys cancel out.
StepsBoth(a) ==
    (IF Plus(a) \in held THEN 1 ELSE 0) - (IF Minus(a) \in held THEN 1 ELSE 0)

\* The increment: forward before backward, left before right.
Steps(a) == IF Plus(a) \in held THEN 1 ELSE IF Minus(a) \in held THEN -1 ELSE 0

\* The stop key overrides the others.
Target(a) == IF Stop \in held THEN 0 ELSE vel[a] + Steps(a)

\* np.clip
Cap(a, v) ==
    IF v > MaxPlus[a] THEN MaxPlus[a] ELSE IF v < -MaxMinus[a] THEN -MaxMinus[a] ELSE v

\* listen_loop; the loop that meets QUIT still looks at the keys.
ListenLoop ==
    /\ ~_stopping
    /\ quit' = FALSE
    /\ _stopping' = quit
    /\ vel' = [a \in Axes |-> Cap(a, Target(a))]
    /\ velocity_cmd' = vel'
    /\ since' = IF since < Span THEN since + 1 ELSE since
    /\ UNCHANGED held

Next == KeyDown \/ KeyUp \/ CloseWindow \/ ListenLoop

Spec == Init /\ [][Next]_vars

-----------------------------------------------------------------------------

\* What was published is what is counted from, and both are within the limits.
TypeOK ==
    /\ held \subseteq Keys
    /\ quit \in BOOLEAN /\ _stopping \in BOOLEAN
    /\ since \in 0..Span
    /\ \A a \in Axes : vel[a] \in -MaxMinus[a]..MaxPlus[a]
    /\ velocity_cmd = vel

\* Whatever the velocity was, keys held for Span loops have settled it: the
\* limit of the direction that wins, or 0 with the stop key among them.
HeldKeysSettle ==
    since = Span =>
        \A a \in Axes :
            velocity_cmd[a] \in
                CASE Stop \in held -> {0}
                  [] Stop \notin held /\ Plus(a) \in held -> {MaxPlus[a]}
                  [] Stop \notin held /\ Plus(a) \notin held /\ Minus(a) \in held ->
                        {-MaxMinus[a]}
                  [] OTHER -> -MaxMinus[a]..MaxPlus[a]

=============================================================================
