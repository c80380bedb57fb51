------------------------------ MODULE Gamepad ------------------------------
(***************************************************************************)
(* gamepad.py: a joystick's axis becomes a velocity by a curve with a      *)
(* deadband, and the velocity is the median of the last samples, so that a *)
(* few wrong ones do no harm.  The three axes are treated alike and share  *)
(* nothing: the model has one, any of those it is given.                   *)
(*                                                                         *)
(* The stick's travel and the velocities are in parts of Full.  Inside the *)
(* module a velocity is 2 * (Full - deadband) times that, so that the      *)
(* slope of the curve and the mean of two samples are whole.               *)
(***************************************************************************)
EXTENDS Integers, Sequences, SequencesExt, FiniteSetsExt

CONSTANTS
    Configs,        \* the AxisConfig of each axis
    Positions,      \* where the stick can be
    Full,           \* full travel, 1.0 in the code
    Window          \* median_filter_window

\* What is assumed of them.
Assumptions ==
    /\ Full \in Nat \ {0} /\ Positions \subseteq -Full..Full
    /\ Window \in Nat \ {0}
    /\ \A c \in Configs :
          /\ {c.max_forward_dir, c.max_reverse_dir} \subseteq Nat
          /\ c.inverted \in BOOLEAN
          /\ c.deadband \in 1..Full - 1
          /\ c.min_forward_dir \in 0..c.max_forward_dir
          /\ c.min_reverse_dir \in 0..c.max_reverse_dir

VARIABLES
    cfg,            \* the axis
    stick,          \* what get_axis returns
    buffer,         \* _x_buffer, the oldest sample first
    vel,            \* x_vel, and the axis of context.velocity_cmd
    still,          \* history: the samples since the stick was last moved
    _stopping

vars == <<cfg, stick, buffer, vel, still, _stopping>>

-----------------------------------------------------------------------------

Scale(c) == 2 * (Full - c.deadband)

Clip(x, low, high) == IF x < low THEN low ELSE IF x > high THEN high ELSE x

\* slope * value + shift, scaled.
Line(value, min, max, c) ==
    2 * ((max - min) * value + max * (Full - c.deadband) - (max - min) * Full)

ForwardCurve(value, c) ==
    Clip(Line(value, c.min_forward_dir, c.max_forward_dir, c),
         c.min_forward_dir * Scale(c), c.max_forward_dir * Scale(c))

ReverseCurve(value, c) ==
    Clip(Line(value, c.min_reverse_dir, c.max_reverse_dir, c),
         -c.max_reverse_dir * Scale(c), -c.min_reverse_dir * Scale(c))

Abs(x) == IF x < 0 THEN -x ELSE x

\* A bug to look for: the reversed output is taken for a magnitude.
CurveUnsigned(value, c) ==
    LET v == IF c.inverted THEN -value ELSE value
    IN  CASE Abs(v) < c.deadband -> 0
          [] v >= c.deadband -> ForwardCurve(v, c)
          [] OTHER -> -ReverseCurve(v, c)

\* _apply_curve
ApplyCurve(value, c) ==
    LET v == IF c.inverted THEN -value ELSE value
    IN  CASE Abs(v) < c.deadband -> 0
          [] v >= c.deadband -> ForwardCurve(v, c)
          [] OTHER -> ReverseCurve(v, c)

Below(s, x) == {i \in DOMAIN s : s[i] < x}

UpTo(s, x) == {i \in DOMAIN s : s[i] <= x}

\* The sample that is k-th by size.
Sorted(s, k) ==
    CHOOSE x \in ToSet(s) :
        Cardinality(Below(s, x)) < k /\ k <= Cardinality(UpTo(s, x))

\* np.median, of an even number of samples the mean of the two in the middle.
Median(s) ==
    (Sorted(s, (Len(s) + 1) \div 2) + Sorted(s, Len(s) \div 2 + 1)) \div 2

Init ==
    /\ cfg \in Configs
    /\ stick = 0
    /\ buffer = [i \in 1..Window |-> 0]
    /\ vel = 0
    /\ still = Window
    /\ _stopping = FALSE

\* The stick is moved, or reports a wrong sample.
Move ==
    /\ ~_stopping
    /\ \E p \in Positions \ {stick} : stick' = p
    /\ still' = 0
    /\ UNCHANGED <<cfg, buffer, vel, _stopping>>

\* append, to a deque of a fixed length.
Push(sample) == Append(Tail(buffer), sample)

\* A bug to look for: the mean instead of the median.
FilterMean(s) == FoldSeq(+, 0, s) \div Len(s)

Filter(s) == Median(s)

\* One round of listen.
Listen ==
    /\ ~_stopping
    /\ buffer' = Push(ApplyCurve(stick, cfg))
    /\ vel' = Filter(buffer')
    /\ still' = IF still < Window THEN still + 1 ELSE still
    /\ UNCHANGED <<cfg, stick, _stopping>>

StopListening == _stopping' = TRUE /\ UNCHANGED <<cfg, stick, buffer, vel, still>>

Next == Move \/ Listen \/ (~_stopping /\ StopListening)

Spec == Init /\ [][Next]_vars

-----------------------------------------------------------------------------

\* The buffer keeps its length, and holds velocities.
TypeOK ==
    /\ cfg \in Configs
    /\ stick \in Positions \cup {0}
    /\ Len(buffer) = Window
    /\ \A i \in 1..Len(buffer) : buffer[i] \in Int
    /\ still \in 0..Window
    /\ _stopping \in BOOLEAN

\* The curve keeps the stick's order and its sign on either side of the deadband:
\* pushing the stick further never slows the robot down nor turns it round; and
\* no velocity is beyond the configured magnitudes.  Order and bounds are all that
\* holds in reverse: ReverseMagnitudes says what does not.
CurveMonotone ==
    /\ \A p, q \in Positions :
          LET sign == IF cfg.inverted THEN -1 ELSE 1
          IN  /\ sign * p <= sign * q => ApplyCurve(p, cfg) <= ApplyCurve(q, cfg)
              /\ sign * p * ApplyCurve(p, cfg) >= 0
    /\ vel \in -cfg.max_reverse_dir * Scale(cfg) .. cfg.max_forward_dir * Scale(cfg)

\* The stick has settled at v, the way the axis is turned: for more than half the
\* window, so that the filter has followed.
Settled(v) == still > Window \div 2 /\ stick = IF cfg.inverted THEN -v ELSE v

\* AxisConfig's magnitudes forward: at the edge of the deadband the velocity is
\* min_forward_dir, with the stick fully forward it is max_forward_dir, whatever
\* the stick did before.
ForwardMagnitudes ==
    /\ Settled(cfg.deadband) => vel = cfg.min_forward_dir * Scale(cfg)
    /\ Settled(Full) => vel = cfg.max_forward_dir * Scale(cfg)

\* And in reverse, as the comments of AxisConfig have it: min_reverse_dir is the
\* "magnitude of output when joystick is at reverse edge of deadband",
\* max_reverse_dir that "when joystick is fully reversed".  The reverse branch of
\* _apply_curve shifts its line as the forward one does, and misses one of them.
ReverseMagnitudes ==
    /\ Settled(-cfg.deadband) => vel = -(cfg.min_reverse_dir * Scale(cfg))
    /\ Settled(-Full) => vel = -(cfg.max_reverse_dir * Scale(cfg))

\* Salt and pepper: while more than half the samples agree, the others, however
\* wrong, don't show; so once the stick has been still for more than half the
\* window, the velocity is the stick's, whatever it did before.
MinorityFiltered ==
    /\ \A x \in ToSet(buffer) :
          2 * Cardinality({i \in 1..Len(buffer) : buffer[i] = x}) > Len(buffer) => vel = x
    /\ still > Window \div 2 => vel = ApplyCurve(stick, cfg)

=============================================================================
