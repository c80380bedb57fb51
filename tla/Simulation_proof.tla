-------------------------- MODULE Simulation_proof --------------------------
(***************************************************************************)
(* The parts of the simulation, for every value of their constants: the    *)
(* two clamps of a knee respect both limits and a short delay loses no     *)
(* setpoint; goals stay feasible and on schedule, whichever environments   *)
(* are reset; robots are put back within their limits and nobody else is   *)
(* moved; and the demo's loop keeps simulation, controller and recorders   *)
(* in step.                                                                *)
(***************************************************************************)
EXTENDS Simulation, TLAPS

\* Each part behaves as its module says: the steps of the others leave it alone.
THEOREM PartsAlone == SimSpec => Spec /\ Goals!Spec /\ Resets!Spec /\ Loop!Spec
<1>1. SimInit => Init /\ Goals!Init /\ Resets!Init /\ Loop!Init
  BY DEF SimInit
<1> USE DEF SimNext, simVars, KneeStep, GoalStep, ResetStep, LoopStep
<1>2. [SimNext]_simVars => [Next]_vars
  BY DEF vars
<1>3. [SimNext]_simVars => [Goals!Next]_(Goals!vars)
  BY DEF goalVars, Goals!vars, Goals!goalVars
<1>4. [SimNext]_simVars => [Resets!Next]_(Resets!vars)
  BY DEF jointVars, Resets!vars
<1>5. [SimNext]_simVars => [Loop!Next]_(Loop!vars)
  BY DEF loopVars, Loop!vars, Loop!envVars, Loop!policyVars, Loop!keyVars
<1> QED
  BY <1>1, <1>2, <1>3, <1>4, <1>5, PTL
     DEF SimSpec, Spec, Goals!Spec, Resets!Spec, Loop!Spec

-----------------------------------------------------------------------------
(* The knee.                                                               *)

(***************************************************************************)
(* What the delay buffer holds while the newest setpoint travels through   *)
(* it: this setpoint k times, and behind it, until it comes out, what is   *)
(* still applied.  That a step of the policy is longer than the buffer     *)
(* makes the rest of it uniform when the next setpoint enters.             *)
(***************************************************************************)
BufferHolds ==
    /\ buffer = <<>> => k \in {0, Decimation}
    /\ buffer # <<>> =>
          \A i \in 1..MaxDelay + 1 :
              /\ i <= k => buffer[i] = target
              /\ i > k /\ k <= lag => buffer[i] = applied

KneeInv ==
    /\ TypeOK
    /\ BothLimits
    /\ DirectionKept
    /\ SetpointLands
    /\ BufferHolds

-----------------------------------------------------------------------------

\* A clamp to an interval around 0 stays in it, and between 0 and its argument.
LEMMA ClampAroundZero ==
    ASSUME NEW x \in Int, NEW low \in Int, NEW high \in Int, low <= 0, 0 <= high
    PROVE  /\ Clamp(x, low, high) \in Int
           /\ Clamp(x, low, high) \in low..high
           /\ x >= 0 => Clamp(x, low, high) \in 0..x
           /\ x <= 0 => Clamp(x, low, high) \in x..0
BY DEF Clamp

\* The controller computes a number.
LEMMA ComputedType ==
    ASSUME NEW set \in Setpoints, NEW pos \in Angles, NEW vel \in Speeds
    PROVE  Computed(set, pos, vel) \in Int
BY NumbersAssumption DEF Computed

\* Clamped thrice, an effort respects the last two limits and its direction.
LEMMA EffortLimited ==
    ASSUME NEW set \in Setpoints, NEW pos \in Angles, NEW vel \in Speeds
    PROVE  /\ Effort(set, pos, vel) \in -TorqueLimit[pos] .. TorqueLimit[pos]
           /\ Effort(set, pos, vel) \in NegSpeedLimit[vel] .. PosSpeedLimit[vel]
           /\ Computed(set, pos, vel) >= 0 =>
                Effort(set, pos, vel) \in 0..Computed(set, pos, vel)
           /\ Computed(set, pos, vel) <= 0 =>
                Effort(set, pos, vel) \in Computed(set, pos, vel)..0
<1> DEFINE c == Computed(set, pos, vel)
           m == Clamp(c, -EffortLimit, EffortLimit)
           r == Remotized(m, pos)
           e == SpeedLimited(r, vel)
<1>1. c \in Int
  BY ComputedType
<1>2. /\ EffortLimit \in Nat /\ TorqueLimit[pos] \in Nat
      /\ PosSpeedLimit[vel] \in Nat
      /\ NegSpeedLimit[vel] \in Int /\ NegSpeedLimit[vel] <= 0
  BY NumbersAssumption, LimitsAssumption
<1> HIDE DEF c
<1>3. /\ m \in Int
      /\ c >= 0 => m \in 0..c
      /\ c <= 0 => m \in c..0
  <2>1. -EffortLimit \in Int /\ -EffortLimit <= 0 /\ EffortLimit \in Int
    BY <1>2
  <2> QED
    BY <1>1, <1>2, <2>1 DEF Clamp
<1> HIDE DEF m
<1>4. /\ r \in Int
      /\ r \in -TorqueLimit[pos] .. TorqueLimit[pos]
      /\ m >= 0 => r \in 0..m
      /\ m <= 0 => r \in m..0
  <2>1. -TorqueLimit[pos] \in Int /\ -TorqueLimit[pos] <= 0 /\ TorqueLimit[pos] \in Int
    BY <1>2
  <2> QED
    BY <1>2, <1>3, <2>1 DEF Clamp, Remotized
<1> HIDE DEF r
<1>5. /\ e \in Int
      /\ e \in NegSpeedLimit[vel] .. PosSpeedLimit[vel]
      /\ r >= 0 => e \in 0..r
      /\ r <= 0 => e \in r..0
  BY <1>2, <1>4 DEF Clamp, SpeedLimited
<1> HIDE DEF e
<1>6. Effort(set, pos, vel) = e
  BY DEF Effort, c, m, r, e
<1>7. /\ e \in -TorqueLimit[pos] .. TorqueLimit[pos]
      /\ c >= 0 => e \in 0..c
      /\ c <= 0 => e \in c..0
  BY <1>1, <1>2, <1>3, <1>4, <1>5
<1> QED
  BY <1>5, <1>6, <1>7 DEF c

-----------------------------------------------------------------------------

\* The limits hold of what the actuator applies, whenever it was computed.
LEMMA EffortInvariants ==
    ASSUME applied \in Setpoints, joint_pos \in Angles, joint_vel \in Speeds,
           applied_effort = Effort(applied, joint_pos, joint_vel)
    PROVE  BothLimits /\ DirectionKept /\ applied_effort \in Int
<1>1. BothLimits /\ DirectionKept
  BY EffortLimited DEF BothLimits, DirectionKept
<1>2. NegSpeedLimit[joint_vel] \in Int /\ PosSpeedLimit[joint_vel] \in Int
  BY LimitsAssumption
<1> QED
  BY <1>1, <1>2 DEF BothLimits

LEMMA KneeInit == Init => KneeInv
<1> SUFFICES ASSUME Init PROVE KneeInv
  OBVIOUS
<1>1. applied \in Setpoints /\ joint_pos \in Angles /\ joint_vel \in Speeds
  BY DEF Init
<1>2. BothLimits /\ DirectionKept /\ applied_effort \in Int
  BY <1>1, EffortInvariants DEF Init
<1> QED
  BY <1>1, <1>2, DelayAssumption DEF Init, KneeInv, TypeOK, SetpointLands, BufferHolds

\* A setpoint that was pushed into the buffer makes it a full one.
LEMMA PushedType ==
    ASSUME NEW b, b = <<>> \/ b \in [1..MaxDelay + 1 -> Setpoints],
           NEW x \in Setpoints
    PROVE  /\ Pushed(b, x) \in [1..MaxDelay + 1 -> Setpoints]
           /\ Pushed(b, x) # <<>>
           /\ Pushed(b, x)[1] = x
           /\ b = <<>> => \A i \in 1..MaxDelay + 1 : Pushed(b, x)[i] = x
           /\ b # <<>> => \A i \in 2..MaxDelay + 1 : Pushed(b, x)[i] = b[i - 1]
<1>1. Pushed(b, x) \in [1..MaxDelay + 1 -> Setpoints]
  BY DelayAssumption DEF Pushed
<1>2. 1 \in 1..MaxDelay + 1
  BY DelayAssumption
<1>3. Pushed(b, x) # <<>>
  <2>1. DOMAIN Pushed(b, x) = 1..MaxDelay + 1
    BY <1>1
  <2>2. DOMAIN <<>> = {}
    OBVIOUS
  <2> QED
    BY <1>2, <2>1, <2>2
<1> QED
  BY <1>1, <1>2, <1>3, DelayAssumption DEF Pushed

-----------------------------------------------------------------------------

LEMMA KneeCommandStep == ASSUME KneeInv, Command PROVE KneeInv'
<1>1. k > lag
  BY DelayAssumption DEF KneeInv, TypeOK, Command
<1>2. applied = target
  BY <1>1 DEF KneeInv, SetpointLands
<1>3. TypeOK'
  BY DelayAssumption DEF KneeInv, TypeOK, Command
<1>4. BothLimits' /\ DirectionKept'
  BY DEF KneeInv, BothLimits, DirectionKept, Command, Computed
<1>5. SetpointLands'
  BY DelayAssumption DEF KneeInv, TypeOK, SetpointLands, Command
<1>6. BufferHolds'
  BY <1>2, DelayAssumption DEF KneeInv, TypeOK, BufferHolds, Command
<1> QED
  BY <1>3, <1>4, <1>5, <1>6 DEF KneeInv

LEMMA KneeComputeStep ==
    ASSUME KneeInv, Compute PROVE KneeInv' /\ applied' \in {applied, target}
<1> USE DelayAssumption
<1>1. /\ target \in Setpoints /\ k \in 0..Decimation /\ lag \in 0..MaxDelay
      /\ buffer = <<>> \/ buffer \in [1..MaxDelay + 1 -> Setpoints]
      /\ k < Decimation /\ k' = k + 1 /\ target' = target /\ lag' = lag
      /\ buffer' = Pushed(buffer, target)
      /\ applied' = buffer'[lag + 1]
  BY DEF KneeInv, TypeOK, Compute, Delayed
<1>2. /\ buffer' \in [1..MaxDelay + 1 -> Setpoints]
      /\ buffer' # <<>>
      /\ buffer'[1] = target
      /\ buffer = <<>> => \A i \in 1..MaxDelay + 1 : buffer'[i] = target
      /\ buffer # <<>> => \A i \in 2..MaxDelay + 1 : buffer'[i] = buffer[i - 1]
  <2> DEFINE p == Pushed(buffer, target)
  <2>1. /\ p \in [1..MaxDelay + 1 -> Setpoints]
        /\ p # <<>>
        /\ p[1] = target
        /\ buffer = <<>> => \A i \in 1..MaxDelay + 1 : p[i] = target
        /\ buffer # <<>> => \A i \in 2..MaxDelay + 1 : p[i] = buffer[i - 1]
    <3> HIDE DelayAssumption
    <3> QED
      BY <1>1, PushedType
  <2> HIDE DEF p
  <2>2. buffer' = p
    BY <1>1 DEF p
  <2> QED
    BY <2>1, <2>2
<1>3. applied' \in Setpoints
  BY <1>1, <1>2
<1>4. BothLimits' /\ DirectionKept' /\ applied_effort' \in Int
  <2>1. /\ joint_pos' \in Angles /\ joint_vel' \in Speeds
        /\ applied_effort' = Effort(applied', joint_pos', joint_vel')
    BY DEF Compute
  <2>2. /\ applied_effort' \in -TorqueLimit[joint_pos'] .. TorqueLimit[joint_pos']
        /\ applied_effort' \in NegSpeedLimit[joint_vel'] .. PosSpeedLimit[joint_vel']
        /\ Computed(applied', joint_pos', joint_vel') >= 0 =>
             applied_effort' \in 0..Computed(applied', joint_pos', joint_vel')
        /\ Computed(applied', joint_pos', joint_vel') <= 0 =>
             applied_effort' \in Computed(applied', joint_pos', joint_vel')..0
    BY <1>3, <2>1, EffortLimited
  <2>3. NegSpeedLimit[joint_vel'] \in Int /\ PosSpeedLimit[joint_vel'] \in Int
    BY <2>1, LimitsAssumption
  <2> QED
    BY <2>2, <2>3 DEF BothLimits, DirectionKept, Computed
<1>5. TypeOK'
  BY <1>1, <1>2, <1>3, <1>4 DEF TypeOK, Compute
<1>6. \A i \in 1..MaxDelay + 1 :
          /\ i <= k + 1 => buffer'[i] = target
          /\ i > k + 1 /\ k <= lag => buffer'[i] = IF buffer = <<>> THEN target
                                                   ELSE applied
  <2>1. CASE buffer = <<>>
    BY <1>2, <2>1
  <2>2. CASE buffer # <<>>
    <3>1. \A i \in 1..MaxDelay + 1 :
              /\ i <= k => buffer[i] = target
              /\ i > k /\ k <= lag => buffer[i] = applied
      BY <2>2 DEF KneeInv, BufferHolds
    <3> SUFFICES ASSUME NEW i \in 1..MaxDelay + 1
                 PROVE  /\ i <= k + 1 => buffer'[i] = target
                        /\ i > k + 1 /\ k <= lag => buffer'[i] = applied
      BY <2>2
    <3>2. CASE i = 1
      BY <1>1, <1>2, <3>2
    <3>3. CASE i # 1
      <4>1. i \in 2..MaxDelay + 1 /\ i - 1 \in 1..MaxDelay + 1
        BY <3>3
      <4>2. buffer'[i] = buffer[i - 1]
        BY <1>2, <2>2, <4>1
      <4> QED
        BY <1>1, <3>1, <4>1, <4>2
    <3> QED
      BY <3>2, <3>3
  <2> QED
    BY <2>1, <2>2
<1>7. lag + 1 \in 1..MaxDelay + 1
  BY <1>1
<1>8. SetpointLands'
  BY <1>1, <1>6, <1>7 DEF SetpointLands
<1>9. k < lag => applied' = IF buffer = <<>> THEN target ELSE applied
  BY <1>1, <1>6, <1>7
<1>10. BufferHolds'
  BY <1>1, <1>2, <1>6, <1>9 DEF BufferHolds
<1>11. applied' \in {applied, target}
  <2>1. CASE k < lag
    BY <1>9, <2>1
  <2>2. CASE k >= lag
    BY <1>1, <1>6, <1>7, <2>2
  <2> QED
    BY <1>1, <2>1, <2>2
<1> QED
  BY <1>4, <1>5, <1>8, <1>10, <1>11 DEF KneeInv

LEMMA KneeResetStep == ASSUME KneeInv, Reset PROVE KneeInv'
<1>1. applied = target
  BY DelayAssumption DEF KneeInv, TypeOK, SetpointLands, Reset
<1>2. TypeOK'
  BY DEF KneeInv, TypeOK, Reset
<1>3. BothLimits' /\ DirectionKept'
  BY DEF KneeInv, BothLimits, DirectionKept, Reset, Computed
<1>4. SetpointLands' /\ BufferHolds'
  BY <1>1 DEF SetpointLands, BufferHolds, Reset
<1> QED
  BY <1>2, <1>3, <1>4 DEF KneeInv

LEMMA KneeNext == KneeInv /\ [Next]_vars => KneeInv' /\ (applied' \in {applied, target})
<1> SUFFICES ASSUME KneeInv, [Next]_vars
             PROVE  KneeInv' /\ applied' \in {applied, target}
  OBVIOUS
<1>1. CASE Command
  BY <1>1, KneeCommandStep DEF Command
<1>2. CASE Compute
  BY <1>2, KneeComputeStep
<1>3. CASE Reset
  BY <1>3, KneeResetStep DEF Reset
<1>4. CASE UNCHANGED vars
  BY <1>4 DEF vars, KneeInv, TypeOK, BothLimits, DirectionKept, SetpointLands,
              BufferHolds, Computed
<1> QED
  BY <1>1, <1>2, <1>3, <1>4 DEF Next

\* The inductive invariant of the knee.
THEOREM KneeInvariant == Spec => []KneeInv
<1>1. KneeInv /\ [Next]_vars => KneeInv'
  BY KneeNext
<1> QED
  BY KneeInit, <1>1, PTL DEF Spec

\* No knee is driven beyond its no-load speed nor harder than its linkage
\* gives, whatever the tables.
THEOREM LimitsHold == Spec => []BothLimits
BY KneeInvariant, PTL DEF KneeInv

\* The limits never turn the controller round.
THEOREM DirectionHolds == Spec => []DirectionKept
BY KneeInvariant, PTL DEF KneeInv

\* A position arrives at the joint before the policy computes the next.
THEOREM SetpointsLand == Spec => []SetpointLands
BY KneeInvariant, PTL DEF KneeInv

\* Type correctness of the knee.
THEOREM KneeTypeCorrect == Spec => []TypeOK
BY KneeInvariant, PTL DEF KneeInv

\* A newer position never gives way to an older one.
THEOREM SetpointsInOrder == Spec => NoOlderSetpoint
<1>1. KneeInv /\ [Next]_vars => [applied' \in {applied, target}]_vars
  BY KneeNext
<1> QED
  BY KneeInvariant, <1>1, PTL DEF Spec, NoOlderSetpoint

-----------------------------------------------------------------------------
(* Euclidean division.                                                     *)

\* Euclidean division: the remainder is within the divisor.
LEMMA DivBounds ==
  ASSUME NEW x \in Int, NEW T \in Nat \ {0}
  PROVE /\ x \div T \in Int
        /\ T * (x \div T) <= x /\ x < T * (x \div T) + T
OBVIOUS

\* A whole number of halves of a way ends within it.
LEMMA DivBetween ==
    ASSUME NEW d \in Int, NEW q \in Nat, NEW T \in Nat \ {0}, q <= T
    PROVE  /\ (d * q) \div T \in Int
           /\ d >= 0 => (d * q) \div T \in 0..d
           /\ d <= 0 => (d * q) \div T \in d..0
           /\ q = 0 => (d * q) \div T = 0
           /\ q = T => (d * q) \div T = d
<1> DEFINE x == d * q
           y == x \div T
<1>1. x \in Int
  OBVIOUS
<1>2. y \in Int /\ T * y <= x /\ x < T * y + T
  BY <1>1, DivBounds
<1>3. /\ d >= 0 => x >= 0 /\ x <= d * T
      /\ d <= 0 => x <= 0 /\ x >= d * T
      /\ q = 0 => x = 0
      /\ q = T => x = d * T
  <2>1. d >= 0 => d * q >= 0 /\ d * (T - q) >= 0
    OBVIOUS
  <2>2. d <= 0 => d * q <= 0 /\ d * (T - q) <= 0
    OBVIOUS
  <2>3. d * (T - q) = d * T - d * q
    OBVIOUS
  <2>4. d * T \in Int
    OBVIOUS
  <2> QED
    BY <2>1, <2>2, <2>3, <2>4
<1> HIDE DEF x
<1> HIDE DEF y
<1>4. d >= 0 => y >= 0 /\ y <= d
  <2>1. CASE d >= 0
    <3>1. T * (y + 1) > 0
      BY <1>1, <1>2, <1>3, <2>1
    <3>2. T * y <= T * d
      BY <1>1, <1>2, <1>3, <2>1
    <3>3. y + 1 > 0
      BY <1>2, <3>1
    <3>4. y <= d
      BY <1>2, <3>2
    <3> QED
      BY <1>2, <3>3, <3>4
  <2> QED
    BY <2>1
<1>5. d <= 0 => y <= 0 /\ y >= d
  <2>1. CASE d <= 0
    <3>1. T * y <= 0
      BY <1>1, <1>2, <1>3, <2>1
    <3>2. T * d < T * (y + 1)
      BY <1>1, <1>2, <1>3, <2>1
    <3>3. y <= 0
      BY <1>2, <3>1
    <3>4. d < y + 1
      BY <1>2, <3>2
    <3> QED
      BY <1>2, <3>3, <3>4
  <2> QED
    BY <2>1
<1>6. q = 0 => y = 0
  <2>1. CASE q = 0
    <3>1. T * y <= 0 /\ T * (y + 1) > 0
      BY <1>1, <1>2, <1>3, <2>1
    <3> QED
      BY <1>2, <3>1
  <2> QED
    BY <2>1
<1>7. q = T => y = d
  <2>1. CASE q = T
    <3>1. T * y <= T * d /\ T * d < T * (y + 1)
      BY <1>1, <1>2, <1>3, <2>1
    <3>2. y <= d /\ d < y + 1
      BY <1>2, <3>1
    <3> QED
      BY <1>2, <3>2
  <2> QED
    BY <2>1
<1> QED
  BY <1>2, <1>4, <1>5, <1>6, <1>7 DEF y, x

\* Two neighbouring steps of T are less than d / T and the rounding apart.
LEMMA DivStep ==
    ASSUME NEW d \in Int, NEW q \in Nat, NEW T \in Nat \ {0}
    PROVE  LET a == (d * q) \div T
               b == (d * (q + 1)) \div T
           IN  /\ (b - a) * T < d + T
               /\ (a - b) * T < T - d
<1> DEFINE x == d * q
           a == x \div T
           z == d * (q + 1)
           b == z \div T
<1>1. x \in Int /\ z \in Int /\ z = x + d
  OBVIOUS
<1>2. /\ a \in Int /\ T * a <= x /\ x < T * a + T
      /\ b \in Int /\ T * b <= z /\ z < T * b + T
  BY <1>1, DivBounds
<1> HIDE DEF x, z
<1> HIDE DEF a, b
<1>3. T * b - T * a < d + T /\ T * a - T * b < T - d
  <2>1. T * a \in Int /\ T * b \in Int
    BY <1>2
  <2> QED
    BY <1>1, <1>2, <2>1
<1>4. (b - a) * T = T * b - T * a /\ (a - b) * T = T * a - T * b
  BY <1>2
<1> QED
  BY <1>3, <1>4 DEF a, b, x, z

\* A sub-goal is between start and goal, and on them at the ends of the way.
LEMMA LerpBetween ==
    ASSUME NEW s \in Int, NEW g \in Int, NEW q \in Nat, NEW T \in Nat \ {0}, q <= T
    PROVE  /\ Goals!Lerp(s, g, q, T) \in Int
           /\ Goals!Lerp(s, g, q, T) \in s..g \/ Goals!Lerp(s, g, q, T) \in g..s
           /\ q = 0 => Goals!Lerp(s, g, q, T) = s
           /\ q = T => Goals!Lerp(s, g, q, T) = g
<1> DEFINE d == g - s
           y == (d * q) \div T
<1>1. d \in Int
  OBVIOUS
<1> HIDE DEF d
<1>2. /\ y \in Int
      /\ d >= 0 => y \in 0..d
      /\ d <= 0 => y \in d..0
      /\ q = 0 => y = 0
      /\ q = T => y = d
  BY <1>1, DivBetween
<1> HIDE DEF y
<1>3. Goals!Lerp(s, g, q, T) = s + y
  BY DEF Goals!Lerp, y, d
<1>4. s + d = g
  BY DEF d
<1> QED
  BY <1>1, <1>2, <1>3, <1>4

\* Two neighbouring sub-goals are a step of the way apart.
LEMMA LerpStep ==
    ASSUME NEW s \in Int, NEW g \in Int, NEW q \in Nat, NEW T \in Nat \ {0}, q + 1 <= T
    PROVE  Goals!Distance(Goals!Lerp(s, g, q, T), Goals!Lerp(s, g, q + 1, T)) * T
              < Goals!Distance(s, g) + T
<1> DEFINE d == g - s
           a == (d * q) \div T
           b == (d * (q + 1)) \div T
<1>1. d \in Int
  OBVIOUS
<1> HIDE DEF d
<1>2. a \in Int /\ b \in Int
  BY <1>1, DivBounds
<1>3. (b - a) * T < d + T /\ (a - b) * T < T - d
  BY <1>1, DivStep
<1> HIDE DEF a, b
<1>4. Goals!Lerp(s, g, q, T) = s + a /\ Goals!Lerp(s, g, q + 1, T) = s + b
  BY DEF Goals!Lerp, a, b, d
<1>5. Goals!Distance(s + a, s + b) = IF a < b THEN b - a ELSE a - b
  BY <1>2 DEF Goals!Distance
<1>6. d <= Goals!Distance(s, g) /\ -d <= Goals!Distance(s, g) /\ Goals!Distance(s, g) \in Int
  BY DEF Goals!Distance, d
<1>7. CASE a < b
  <2>1. (b - a) * T \in Int
    BY <1>2
  <2> QED
    BY <1>1, <1>3, <1>4, <1>5, <1>6, <1>7, <2>1
<1>8. CASE ~(a < b)
  <2>1. (a - b) * T \in Int
    BY <1>2
  <2> QED
    BY <1>1, <1>3, <1>4, <1>5, <1>6, <1>8, <2>1
<1> QED
  BY <1>7, <1>8

-----------------------------------------------------------------------------
(* The goals.                                                              *)

\* The inductive invariant of the goals: it is what the runs check, taken together.
GoalInv ==
    /\ Goals!TypeOK /\ Goals!OneCommand /\ Goals!SilentLegs
    /\ Goals!TimerInRange /\ Goals!OnSchedule /\ Goals!ArmFollows

\* What GoalsAssumption says of the members of the sets.
LEMMA GoalConstants ==
    /\ 0 \in Legs
    /\ \A T \in TrajSteps : T \in Nat \ {0} /\ T \in Nat /\ T > 0
    /\ HoldSteps \subseteq Nat
    /\ \A p \in Poses : p.arm \in Int /\ p.leg \in [Legs -> Int]
    /\ \A a \in Actions : a \in [Legs -> Int]
    /\ ArmLower \in Int /\ ArmUpper \in Int /\ ArmLower <= ArmUpper
    /\ \A c \in Goals!Cached :
          /\ c.name \in Legs \cup {-1}
          /\ c.arm \in Int /\ c.leg \in Int /\ c.torso \in Int
    /\ -1 \notin Legs
BY GoalsAssumption DEF Goals!Assumptions, Goals!Cached, Goals!NoLeg

\* One leg alone has a value.
LEMMA OnlyType ==
    ASSUME NEW l \in Legs, NEW x \in Int
    PROVE  /\ Goals!Only(l, x) \in [Legs -> Int]
           /\ Goals!Only(l, x)[l] = x
           /\ \A m \in Legs : m # l => Goals!Only(l, x)[m] = 0
           /\ Goals!Zero \in [Legs -> Int]
           /\ \A m \in Legs : Goals!Zero[m] = 0
BY DEF Goals!Only, Goals!Zero

\* What a resampled environment e has afterwards.
Drawn(e, c, p) ==
    /\ arm'[e] = [start |-> Goals!Clamp(p.arm), goal |-> c.arm, sub |-> Goals!Clamp(p.arm)]
    /\ torso'[e] = c.torso
    /\ command_leg'[e] \in BOOLEAN
    /\ command_leg'[e] <=> c.name # -1
    /\ command_leg_idxs'[e] = IF c.name = -1 THEN 0 ELSE c.name
    /\ leg'[e] = IF c.name = -1 THEN Goals!From(Goals!Zero, Goals!Zero)
                 ELSE Goals!From(Goals!Only(c.name, p.leg[c.name]), Goals!Only(c.name, c.leg))
    /\ timer'[e] = 0 /\ traj'[e] \in TrajSteps /\ hold'[e] \in HoldSteps

\* What another one has.
Kept(e, a, l, tm) ==
    /\ arm'[e] = a
    /\ torso'[e] = torso[e]
    /\ command_leg'[e] = command_leg[e]
    /\ command_leg_idxs'[e] = command_leg_idxs[e]
    /\ leg'[e] = IF command_leg[e] THEN l ELSE Goals!From(Goals!Zero, Goals!Zero)
    /\ timer'[e] = tm /\ traj'[e] = traj[e] /\ hold'[e] = hold[e]

\* Whatever the resampling of E draws, it does one of two things to each environment.
LEMMA ResampleEach ==
    ASSUME NEW A, NEW L, NEW tm, NEW E \in SUBSET Envs,
           Goals!Resample(A, L, tm, E), Goals!TypeOK
    PROVE  /\ arm' = [e \in Envs |-> arm'[e]]
           /\ leg' = [e \in Envs |-> leg'[e]]
           /\ torso' = [e \in Envs |-> torso'[e]]
           /\ command_leg_idxs' = [e \in Envs |-> command_leg_idxs'[e]]
           /\ command_leg' = [e \in Envs |-> command_leg'[e]]
           /\ timer' = [e \in Envs |-> timer'[e]]
           /\ traj' = [e \in Envs |-> traj'[e]]
           /\ hold' = [e \in Envs |-> hold'[e]]
           /\ \A e \in E : \E c \in Goals!Cached, p \in Poses : Drawn(e, c, p)
           /\ \A e \in Envs \ E : Kept(e, A[e], L[e], tm[e])
<1>1. PICK drawn \in [E -> Goals!Cached], pos \in [E -> Poses] :
          /\ arm' = Goals!ResampleArm(A, E, drawn, pos)
          /\ leg' = Goals!ResampleLeg(L, E, drawn, pos)
          /\ torso' = Goals!ResampleBase(E, drawn)
          /\ command_leg_idxs' = Goals!ResampleIdxs(E, drawn)
          /\ command_leg' = Goals!ResampleMask(E, drawn)
  BY DEF Goals!Resample
<1>2. PICK T \in [E -> TrajSteps] :
          traj' = [e \in Envs |-> IF e \in E THEN T[e] ELSE traj[e]]
  BY DEF Goals!Resample
<1>3. PICK H \in [E -> HoldSteps] :
          hold' = [e \in Envs |-> IF e \in E THEN H[e] ELSE hold[e]]
  BY DEF Goals!Resample
<1>4. timer' = [e \in Envs |-> IF e \in E THEN 0 ELSE tm[e]]
  BY DEF Goals!Resample, Goals!ResetTimer
<1>5. ASSUME NEW e \in E PROVE Drawn(e, drawn[e], pos[e])
  <2>1. e \in Envs
    OBVIOUS
  <2>2. arm'[e] = Goals!From(Goals!Clamp(pos[e].arm), drawn[e].arm)
    BY <1>1, <2>1 DEF Goals!ResampleArm
  <2>3. torso'[e] = drawn[e].torso
    BY <1>1, <2>1 DEF Goals!ResampleBase
  <2>4. /\ Goals!ResampleMask(E, drawn)[e] \in BOOLEAN
        /\ Goals!ResampleMask(E, drawn)[e] <=> drawn[e].name # -1
    BY <2>1 DEF Goals!ResampleMask, Goals!NoLeg
  <2>5. Goals!ResampleIdxs(E, drawn)[e] = IF drawn[e].name = -1 THEN 0 ELSE drawn[e].name
    BY <2>1 DEF Goals!ResampleIdxs, Goals!NoLeg
  <2>6. leg'[e] = IF drawn[e].name = -1 THEN Goals!From(Goals!Zero, Goals!Zero)
                  ELSE Goals!From(Goals!Only(drawn[e].name, pos[e].leg[drawn[e].name]),
                                  Goals!Only(drawn[e].name, drawn[e].leg))
    BY <1>1, <2>1, <2>4, <2>5 DEF Goals!ResampleLeg
  <2>7. timer'[e] = 0 /\ traj'[e] \in TrajSteps /\ hold'[e] \in HoldSteps
    BY <1>2, <1>3, <1>4, <2>1
  <2> QED
    BY <1>1, <2>2, <2>3, <2>4, <2>5, <2>6, <2>7 DEF Drawn, Goals!From
<1>6. ASSUME NEW e \in Envs \ E PROVE Kept(e, A[e], L[e], tm[e])
  <2>1. arm'[e] = A[e] /\ torso'[e] = torso[e]
    BY <1>1 DEF Goals!ResampleArm, Goals!ResampleBase
  <2>2. Goals!ResampleMask(E, drawn)[e] = command_leg[e]
    BY DEF Goals!ResampleMask
  <2>3. command_leg_idxs'[e] = command_leg_idxs[e]
    BY <1>1 DEF Goals!ResampleIdxs
  <2>4. leg'[e] = IF command_leg[e] THEN L[e] ELSE Goals!From(Goals!Zero, Goals!Zero)
    BY <1>1, <2>2 DEF Goals!ResampleLeg
  <2>5. timer'[e] = tm[e] /\ traj'[e] = traj[e] /\ hold'[e] = hold[e]
    BY <1>2, <1>3, <1>4
  <2> QED
    BY <1>1, <2>1, <2>2, <2>3, <2>4, <2>5 DEF Kept
<1>7. /\ arm' = [e \in Envs |-> arm'[e]] /\ leg' = [e \in Envs |-> leg'[e]]
      /\ torso' = [e \in Envs |-> torso'[e]]
  BY <1>1 DEF Goals!ResampleArm, Goals!ResampleLeg, Goals!ResampleBase
<1>8. /\ command_leg_idxs' = [e \in Envs |-> command_leg_idxs'[e]]
      /\ command_leg' = [e \in Envs |-> command_leg'[e]]
  BY <1>1 DEF Goals!ResampleIdxs, Goals!ResampleMask
<1>9. /\ timer' = [e \in Envs |-> timer'[e]] /\ traj' = [e \in Envs |-> traj'[e]]
      /\ hold' = [e \in Envs |-> hold'[e]]
  BY <1>2, <1>3, <1>4
<1>10. \A e \in E : drawn[e] \in Goals!Cached /\ pos[e] \in Poses
  OBVIOUS
<1> QED
  BY <1>5, <1>6, <1>7, <1>8, <1>9, <1>10

\* What GoalInv says of one environment, once it has goals.
EnvTyped(e) ==
    /\ arm[e] \in Goals!Way /\ leg[e] \in Goals!LegWay /\ torso[e] \in Int
    /\ command_leg_idxs[e] \in Legs /\ command_leg[e] \in BOOLEAN
    /\ timer[e] \in Nat /\ traj[e] \in TrajSteps /\ hold[e] \in HoldSteps

EnvCommand(e) ==
    \E c \in Goals!Cached :
        /\ arm[e].goal = c.arm
        /\ torso[e] = c.torso
        /\ command_leg[e] <=> c.name # -1
        /\ command_leg[e] => /\ command_leg_idxs[e] = c.name
                             /\ leg[e].goal[c.name] = c.leg

EnvSilent(e) ==
    \A l \in Legs :
        ~command_leg[e] \/ l # command_leg_idxs[e] =>
            leg[e].start[l] = 0 /\ leg[e].goal[l] = 0 /\ leg[e].sub[l] = 0

\* The schedule: q steps of T after the start.
On(s, g, q, T) == IF q >= T THEN g ELSE Goals!Lerp(s, g, q, T)

EnvOnSchedule(e) ==
    /\ arm[e].sub = On(arm[e].start, arm[e].goal, timer[e], traj[e])
    /\ \A l \in Legs :
          leg[e].sub[l] = On(leg[e].start[l], leg[e].goal[l], timer[e], traj[e])

EnvOK(e) ==
    /\ EnvTyped(e) /\ EnvCommand(e) /\ EnvSilent(e) /\ EnvOnSchedule(e)
    /\ timer[e] <= traj[e] + hold[e]
    /\ arm[e].start \in ArmLower..ArmUpper

\* GoalInv, environment by environment ...
LEMMA GoalInvEach ==
    ASSUME GoalInv, phase # "new", NEW e \in Envs PROVE EnvOK(e)
<1>1. EnvTyped(e)
  BY DEF GoalInv, Goals!TypeOK, EnvTyped
<1>2. EnvCommand(e)
  BY DEF GoalInv, Goals!OneCommand, EnvCommand, Goals!NoLeg
<1>3. EnvSilent(e)
  BY DEF GoalInv, Goals!SilentLegs, EnvSilent
<1>4. EnvOnSchedule(e)
  BY DEF GoalInv, Goals!OnSchedule, EnvOnSchedule, On
<1>5. timer[e] <= traj[e] + hold[e] /\ arm[e].start \in ArmLower..ArmUpper
  BY DEF GoalInv, Goals!TimerInRange, Goals!ArmFollows
<1> QED
  BY <1>1, <1>2, <1>3, <1>4, <1>5 DEF EnvOK

\* A resampled environment starts on schedule with a feasible command.
LEMMA DrawnOK ==
    ASSUME NEW e \in Envs, NEW c \in Goals!Cached, NEW p \in Poses, Drawn(e, c, p)
    PROVE  EnvOK(e)'
<1> DEFINE a == Goals!Clamp(p.arm)
<1>1. a \in ArmLower..ArmUpper /\ a \in Int
  BY GoalConstants DEF Goals!Clamp
<1>2. /\ arm'[e] = [start |-> a, goal |-> c.arm, sub |-> a]
      /\ torso'[e] = c.torso
      /\ command_leg'[e] <=> c.name # -1
      /\ command_leg_idxs'[e] = IF c.name = -1 THEN 0 ELSE c.name
      /\ timer'[e] = 0 /\ traj'[e] \in TrajSteps /\ hold'[e] \in HoldSteps
  BY DEF Drawn
<1>3. leg'[e] = IF c.name = -1 THEN Goals!From(Goals!Zero, Goals!Zero)
                ELSE Goals!From(Goals!Only(c.name, p.leg[c.name]), Goals!Only(c.name, c.leg))
  BY DEF Drawn
<1> HIDE DEF a
<1>4. /\ c.name \in Legs \cup {-1} /\ c.arm \in Int /\ c.leg \in Int /\ c.torso \in Int
      /\ p.leg \in [Legs -> Int] /\ 0 \in Legs /\ -1 \notin Legs
  BY GoalConstants
<1>5. arm'[e] \in Goals!Way
  BY <1>1, <1>2, <1>4 DEF Goals!Way
<1>6. /\ leg'[e] \in Goals!LegWay
      /\ leg'[e].sub = leg'[e].start
      /\ c.name # -1 => leg'[e].goal[c.name] = c.leg
      /\ \A l \in Legs : l # c.name => leg'[e].start[l] = 0 /\ leg'[e].goal[l] = 0
  <2>1. CASE c.name = -1
    <3>1. leg'[e] = [start |-> Goals!Zero, goal |-> Goals!Zero, sub |-> Goals!Zero]
      BY <1>3, <2>1 DEF Goals!From
    <3>2. Goals!Zero \in [Legs -> Int] /\ \A m \in Legs : Goals!Zero[m] = 0
      BY <1>4, OnlyType
    <3> QED
      BY <2>1, <3>1, <3>2 DEF Goals!LegWay
  <2>2. CASE c.name # -1
    <3> DEFINE s == Goals!Only(c.name, p.leg[c.name])
               g == Goals!Only(c.name, c.leg)
    <3>1. leg'[e] = [start |-> s, goal |-> g, sub |-> s]
      BY <1>3, <2>2 DEF Goals!From
    <3>2. c.name \in Legs /\ p.leg[c.name] \in Int
      BY <1>4, <2>2
    <3>3. /\ s \in [Legs -> Int] /\ g \in [Legs -> Int] /\ g[c.name] = c.leg
          /\ \A m \in Legs : m # c.name => s[m] = 0 /\ g[m] = 0
      <4>1. /\ s \in [Legs -> Int]
            /\ \A m \in Legs : m # c.name => s[m] = 0
        BY <3>2, OnlyType
      <4>2. /\ g \in [Legs -> Int] /\ g[c.name] = c.leg
            /\ \A m \in Legs : m # c.name => g[m] = 0
        BY <1>4, <3>2, OnlyType
      <4> QED
        BY <4>1, <4>2
    <3> HIDE DEF s, g
    <3> QED
      BY <3>1, <3>3 DEF Goals!LegWay
  <2> QED
    BY <2>1, <2>2
<1>7. command_leg'[e] \in BOOLEAN
  BY DEF Drawn
<1>8. EnvTyped(e)'
  BY <1>2, <1>4, <1>5, <1>6, <1>7, GoalConstants DEF EnvTyped
<1>9. EnvCommand(e)'
  BY <1>2, <1>4, <1>6 DEF EnvCommand
<1>10. EnvSilent(e)'
  BY <1>2, <1>4, <1>6 DEF EnvSilent
<1>11. EnvOnSchedule(e)'
  <2>1. traj'[e] \in Nat \ {0} /\ ~(timer'[e] >= traj'[e])
    BY <1>2, GoalConstants
  <2>2. \A s, g \in Int : On(s, g, timer'[e], traj'[e]) = s
    BY <1>2, <2>1, LerpBetween DEF On
  <2>3. \A l \in Legs : leg'[e].start[l] \in Int /\ leg'[e].goal[l] \in Int
    BY <1>6 DEF Goals!LegWay
  <2>4. arm'[e].sub = On(arm'[e].start, arm'[e].goal, timer'[e], traj'[e])
    BY <1>1, <1>2, <1>4, <2>2
  <2>5. \A l \in Legs :
            leg'[e].sub[l] = On(leg'[e].start[l], leg'[e].goal[l], timer'[e], traj'[e])
    BY <1>6, <2>2, <2>3
  <2> QED
    BY <2>4, <2>5 DEF EnvOnSchedule
<1>12. timer'[e] <= traj'[e] + hold'[e] /\ arm'[e].start \in ArmLower..ArmUpper
  <2>1. traj'[e] \in Nat /\ hold'[e] \in Nat /\ timer'[e] = 0
    BY <1>2, GoalConstants
  <2>2. arm'[e].start \in ArmLower..ArmUpper
    BY <1>1, <1>2
  <2> QED
    BY <2>1, <2>2
<1> QED
  BY <1>8, <1>9, <1>10, <1>11, <1>12 DEF EnvOK

\* Zeroing the legs of an environment that commands none changes nothing.
LEMMA SilentZero ==
    ASSUME NEW e, EnvTyped(e), EnvSilent(e), ~command_leg[e]
    PROVE  leg[e] = Goals!From(Goals!Zero, Goals!Zero)
<1>1. /\ leg[e] = [start |-> leg[e].start, goal |-> leg[e].goal, sub |-> leg[e].sub]
      /\ leg[e].start \in [Legs -> Int] /\ leg[e].goal \in [Legs -> Int]
      /\ leg[e].sub \in [Legs -> Int]
  BY DEF EnvTyped, Goals!LegWay
<1>2. leg[e].start = Goals!Zero /\ leg[e].goal = Goals!Zero /\ leg[e].sub = Goals!Zero
  BY <1>1 DEF EnvSilent, Goals!Zero
<1> QED
  BY <1>1, <1>2 DEF Goals!From

\* An environment that is neither resampled nor stepped stays as it is.
LEMMA KeptOK ==
    ASSUME NEW e \in Envs, EnvOK(e), Kept(e, arm[e], leg[e], timer[e]) PROVE EnvOK(e)'
<1>1. leg'[e] = leg[e]
  BY SilentZero DEF Kept, EnvOK
<1> QED
  BY <1>1 DEF Kept, EnvOK, EnvTyped, EnvCommand, EnvSilent, EnvOnSchedule, On

\* The arm's sub-goal moves by no more than a step.
EnvMoves(e) ==
    Goals!Distance(arm[e].sub, arm'[e].sub) * traj[e]
        < Goals!Distance(arm[e].start, arm[e].goal) + traj[e]

\* A step of the timer puts the sub-goal where the schedule wants it ...
LEMMA OnAdvances ==
    ASSUME NEW s \in Int, NEW g \in Int, NEW q \in Nat, NEW T \in Nat \ {0}
    PROVE  /\ \A b : Goals!Advance(s, g, b, q + 1, T) = On(s, g, q + 1, T)
           /\ On(s, g, q + 1, T) \in Int
           /\ s = 0 /\ g = 0 => On(s, g, q + 1, T) = 0
<1>1. q + 1 \in Nat
  OBVIOUS
<1>2. q + 1 <= T =>
         /\ Goals!Lerp(s, g, q + 1, T) \in Int
         /\ Goals!Lerp(s, g, q + 1, T) \in s..g \/ Goals!Lerp(s, g, q + 1, T) \in g..s
         /\ q + 1 = T => Goals!Lerp(s, g, q + 1, T) = g
  BY <1>1, LerpBetween
<1>3. \A b : Goals!Advance(s, g, b, q + 1, T) = On(s, g, q + 1, T)
  BY <1>2 DEF On, Goals!Advance
<1>4. On(s, g, q + 1, T) \in Int
  BY <1>2 DEF On
<1>5. s = 0 /\ g = 0 => On(s, g, q + 1, T) = 0
  BY <1>2 DEF On
<1> QED
  BY <1>3, <1>4, <1>5

\* ... and moves it by no more than a step of the way.
LEMMA OnMoves ==
    ASSUME NEW s \in Int, NEW g \in Int, NEW q \in Nat, NEW T \in Nat \ {0}
    PROVE  Goals!Distance(On(s, g, q, T), On(s, g, q + 1, T)) * T
              < Goals!Distance(s, g) + T
<1>1. q <= T /\ q = T => Goals!Lerp(s, g, q, T) = g
  BY LerpBetween
<1>2. q + 1 <= T /\ q + 1 = T => Goals!Lerp(s, g, q + 1, T) = g
  BY LerpBetween
<1>3. CASE q + 1 <= T
  <2>1. /\ On(s, g, q, T) = Goals!Lerp(s, g, q, T)
        /\ On(s, g, q + 1, T) = Goals!Lerp(s, g, q + 1, T)
    BY <1>2, <1>3 DEF On
  <2> QED
    BY <1>3, <2>1, LerpStep
<1>4. CASE q >= T
  <2>1. On(s, g, q, T) = g /\ On(s, g, q + 1, T) = g
    BY <1>4 DEF On
  <2>2. Goals!Distance(g, g) = 0 /\ Goals!Distance(s, g) >= 0 /\ Goals!Distance(s, g) \in Int
    BY DEF Goals!Distance
  <2> QED
    BY <2>1, <2>2
<1> QED
  BY <1>3, <1>4

\* An environment that is not resampled after a step of its timer.
Advanced(e) ==
    Kept(e, Goals!AdvanceArm(Goals!StepTimer)[e], Goals!AdvanceLeg(Goals!StepTimer)[e],
         Goals!StepTimer[e])

\* An environment that is stepped stays on schedule, and nothing but the sub-goals moves.
LEMMA AdvancedOK ==
    ASSUME NEW e \in Envs, EnvOK(e), Advanced(e), timer[e] + 1 <= traj[e] + hold[e]
    PROVE  /\ EnvOK(e)'
           /\ EnvMoves(e)
           /\ arm'[e].start = arm[e].start /\ arm'[e].goal = arm[e].goal
           /\ leg'[e].start = leg[e].start /\ leg'[e].goal = leg[e].goal
           /\ torso'[e] = torso[e] /\ timer'[e] = timer[e] + 1
<1>1. /\ timer'[e] = timer[e] + 1 /\ traj'[e] = traj[e] /\ hold'[e] = hold[e]
      /\ torso'[e] = torso[e] /\ command_leg'[e] = command_leg[e]
      /\ command_leg_idxs'[e] = command_leg_idxs[e]
  BY DEF Advanced, Kept, Goals!StepTimer
<1>2. /\ timer[e] \in Nat /\ traj[e] \in Nat \ {0}
      /\ arm[e] \in Goals!Way /\ leg[e] \in Goals!LegWay
  BY GoalConstants DEF EnvOK, EnvTyped
<1> DEFINE q == timer[e]
           T == traj[e]
<1>3. arm[e].start \in Int /\ arm[e].goal \in Int
  BY <1>2 DEF Goals!Way
<1>4. /\ arm'[e] = [start |-> arm[e].start, goal |-> arm[e].goal,
                    sub |-> On(arm[e].start, arm[e].goal, q + 1, T)]
      /\ On(arm[e].start, arm[e].goal, q + 1, T) \in Int
  <2>1. arm'[e] = [start |-> arm[e].start, goal |-> arm[e].goal,
                   sub |-> Goals!Advance(arm[e].start, arm[e].goal, arm[e].sub, q + 1, T)]
    BY <1>2 DEF Advanced, Kept, Goals!AdvanceArm, Goals!StepTimer, Goals!Way
  <2> DEFINE s == arm[e].start
             g == arm[e].goal
  <2>2. s \in Int /\ g \in Int /\ q \in Nat /\ T \in Nat \ {0}
    BY <1>2, <1>3
  <2> HIDE DEF s, g, q, T
  <2>3. /\ \A b : Goals!Advance(s, g, b, q + 1, T) = On(s, g, q + 1, T)
        /\ On(s, g, q + 1, T) \in Int
    BY <2>2, OnAdvances
  <2> QED
    BY <2>1, <2>3 DEF s, g
<1>5. EnvMoves(e)
  <2>1. /\ arm[e].sub = On(arm[e].start, arm[e].goal, q, T)
        /\ arm'[e].sub = On(arm[e].start, arm[e].goal, q + 1, T)
    BY <1>4 DEF EnvOK, EnvOnSchedule
  <2> DEFINE s == arm[e].start
             g == arm[e].goal
  <2>2. s \in Int /\ g \in Int /\ q \in Nat /\ T \in Nat \ {0}
    BY <1>2, <1>3
  <2> HIDE DEF s, g, q, T
  <2>3. Goals!Distance(On(s, g, q, T), On(s, g, q + 1, T)) * T < Goals!Distance(s, g) + T
    BY <2>2, OnMoves
  <2> QED
    BY <2>1, <2>3 DEF EnvMoves, s, g, T
<1>6. \A l \in Legs : leg[e].start[l] \in Int /\ leg[e].goal[l] \in Int
  BY <1>2 DEF Goals!LegWay
<1>7. /\ leg'[e].start = leg[e].start /\ leg'[e].goal = leg[e].goal
      /\ leg'[e] \in Goals!LegWay
      /\ \A l \in Legs : leg'[e].sub[l] = On(leg[e].start[l], leg[e].goal[l], q + 1, T)
      /\ \A l \in Legs : leg[e].start[l] = 0 /\ leg[e].goal[l] = 0 => leg'[e].sub[l] = 0
  <2>1. \A l \in Legs :
           /\ \A b : Goals!Advance(leg[e].start[l], leg[e].goal[l], b, q + 1, T)
                        = On(leg[e].start[l], leg[e].goal[l], q + 1, T)
           /\ On(leg[e].start[l], leg[e].goal[l], q + 1, T) \in Int
           /\ leg[e].start[l] = 0 /\ leg[e].goal[l] = 0 =>
                On(leg[e].start[l], leg[e].goal[l], q + 1, T) = 0
    <3> SUFFICES ASSUME NEW l \in Legs, NEW b
                 PROVE  /\ Goals!Advance(leg[e].start[l], leg[e].goal[l], b, q + 1, T)
                              = On(leg[e].start[l], leg[e].goal[l], q + 1, T)
                        /\ On(leg[e].start[l], leg[e].goal[l], q + 1, T) \in Int
                        /\ leg[e].start[l] = 0 /\ leg[e].goal[l] = 0 =>
                             On(leg[e].start[l], leg[e].goal[l], q + 1, T) = 0
      OBVIOUS
    <3> DEFINE s == leg[e].start[l]
               g == leg[e].goal[l]
    <3>1. s \in Int /\ g \in Int /\ q \in Nat /\ T \in Nat \ {0}
      BY <1>2, <1>6
    <3> HIDE DEF s, g, q, T
    <3>2. /\ Goals!Advance(s, g, b, q + 1, T) = On(s, g, q + 1, T)
          /\ On(s, g, q + 1, T) \in Int
          /\ s = 0 /\ g = 0 => On(s, g, q + 1, T) = 0
      BY <3>1, OnAdvances
    <3> QED
      BY <3>2 DEF s, g
  <2>2. CASE command_leg[e]
    <3> DEFINE x == [l \in Legs |->
                        Goals!Advance(leg[e].start[l], leg[e].goal[l], leg[e].sub[l],
                                      q + 1, T)]
    <3>1. leg'[e] = [start |-> leg[e].start, goal |-> leg[e].goal, sub |-> x]
      BY <1>2, <2>2 DEF Advanced, Kept, Goals!AdvanceLeg, Goals!StepTimer, Goals!LegWay
    <3>2. \A l \in Legs : x[l] = On(leg[e].start[l], leg[e].goal[l], q + 1, T)
      BY <2>1
    <3>3. x \in [Legs -> Int]
      BY <2>1
    <3> HIDE DEF x
    <3> QED
      BY <1>2, <2>1, <3>1, <3>2, <3>3 DEF Goals!LegWay
  <2>3. CASE ~command_leg[e]
    <3>1. leg[e] = Goals!From(Goals!Zero, Goals!Zero)
      BY <2>3, SilentZero DEF EnvOK
    <3>2. leg'[e] = leg[e]
      BY <2>3, <3>1 DEF Advanced, Kept
    <3>3. \A l \in Legs : leg[e].start[l] = 0 /\ leg[e].goal[l] = 0 /\ leg[e].sub[l] = 0
      BY <2>3 DEF EnvOK, EnvSilent
    <3> QED
      BY <1>2, <2>1, <3>2, <3>3
  <2> QED
    BY <2>2, <2>3
<1> HIDE DEF q, T
<1>8. EnvTyped(e)'
  <2>1. arm'[e] \in Goals!Way
    BY <1>3, <1>4 DEF Goals!Way
  <2> QED
    BY <1>1, <1>2, <1>7, <2>1 DEF EnvOK, EnvTyped
<1>9. EnvCommand(e)'
  BY <1>1, <1>4, <1>7 DEF EnvOK, EnvCommand
<1>10. EnvSilent(e)'
  BY <1>1, <1>7 DEF EnvOK, EnvSilent
<1>11. EnvOnSchedule(e)'
  BY <1>1, <1>4, <1>7 DEF EnvOnSchedule, q, T
<1>12. timer'[e] <= traj'[e] + hold'[e] /\ arm'[e].start \in ArmLower..ArmUpper
  BY <1>1, <1>4 DEF EnvOK
<1>13. EnvOK(e)'
  BY <1>8, <1>9, <1>10, <1>11, <1>12 DEF EnvOK
<1> QED
  BY <1>1, <1>4, <1>5, <1>7, <1>13

\* What GoalInv says of all environments together.
GoalShapes ==
    /\ phase \in {"new", "actions", "reset", "command"}
    /\ arm = [e \in Envs |-> arm[e]] /\ leg = [e \in Envs |-> leg[e]]
    /\ torso = [e \in Envs |-> torso[e]]
    /\ command_leg_idxs = [e \in Envs |-> command_leg_idxs[e]]
    /\ command_leg = [e \in Envs |-> command_leg[e]]
    /\ timer = [e \in Envs |-> timer[e]] /\ traj = [e \in Envs |-> traj[e]]
    /\ hold = [e \in Envs |-> hold[e]]
    /\ arm_leg_target \in [Envs -> [arm : Int, leg : [Legs -> Int]]]
    /\ phase = "reset" => \A e \in Envs : arm_leg_target[e].arm = arm[e].sub

\* ... and back.
LEMMA GoalInvOfEach ==
    ASSUME GoalShapes', phase' # "new", \A e \in Envs : EnvOK(e)' PROVE GoalInv'
<1>1. Goals!TypeOK'
  <2>1. \A e \in Envs : EnvTyped(e)'
    BY DEF EnvOK
  <2>2. arm' \in [Envs -> Goals!Way] /\ leg' \in [Envs -> Goals!LegWay]
    BY <2>1 DEF GoalShapes, EnvTyped
  <2>3. torso' \in [Envs -> Int] /\ command_leg_idxs' \in [Envs -> Legs]
    BY <2>1 DEF GoalShapes, EnvTyped
  <2>4. command_leg' \in [Envs -> BOOLEAN]
    BY <2>1 DEF GoalShapes, EnvTyped
  <2>5. /\ timer' \in [Envs -> Nat] /\ traj' \in [Envs -> TrajSteps]
        /\ hold' \in [Envs -> HoldSteps]
    BY <2>1 DEF GoalShapes, EnvTyped
  <2> QED
    BY <2>2, <2>3, <2>4, <2>5 DEF GoalShapes, Goals!TypeOK
<1>2. Goals!OneCommand'
  BY DEF Goals!OneCommand, EnvOK, EnvCommand, Goals!NoLeg
<1>3. Goals!SilentLegs'
  BY DEF Goals!SilentLegs, EnvOK, EnvSilent
<1>4. Goals!TimerInRange'
  BY DEF Goals!TimerInRange, EnvOK
<1>5. Goals!OnSchedule'
  BY DEF Goals!OnSchedule, EnvOK, EnvOnSchedule, On
<1>6. Goals!ArmFollows'
  <2>1. ASSUME NEW e \in Envs
        PROVE  arm'[e].sub \in arm'[e].start..arm'[e].goal \/ arm'[e].sub \in arm'[e].goal..arm'[e].start
    <3> DEFINE s == arm'[e].start
               g == arm'[e].goal
               q == timer'[e]
               T == traj'[e]
    <3>1. /\ s \in Int /\ g \in Int /\ q \in Nat /\ T \in Nat \ {0}
          /\ arm'[e].sub = On(s, g, q, T)
      BY GoalConstants DEF EnvOK, EnvTyped, EnvOnSchedule, Goals!Way
    <3> HIDE DEF s, g, q, T
    <3>2. q <= T => Goals!Lerp(s, g, q, T) \in s..g \/ Goals!Lerp(s, g, q, T) \in g..s
      BY <3>1, LerpBetween
    <3>3. On(s, g, q, T) \in s..g \/ On(s, g, q, T) \in g..s
      BY <3>1, <3>2 DEF On
    <3> QED
      BY <3>1, <3>3 DEF s, g
  <2> QED
    BY <2>1 DEF Goals!ArmFollows, GoalShapes, EnvOK
<1> QED
  BY <1>1, <1>2, <1>3, <1>4, <1>5, <1>6 DEF GoalInv

LEMMA GoalInit == Goals!Init => GoalInv
<1> SUFFICES ASSUME Goals!Init PROVE GoalInv
  OBVIOUS
<1>1. Goals!Zero \in [Legs -> Int]
  BY DEF Goals!Zero
<1>2. traj \in [Envs -> TrajSteps] /\ hold \in [Envs -> HoldSteps] /\ phase = "new"
  BY DEF Goals!Init
<1>3. arm \in [Envs -> Goals!Way] /\ leg \in [Envs -> Goals!LegWay]
  BY <1>1 DEF Goals!Init, Goals!Way, Goals!LegWay
<1>4. /\ torso \in [Envs -> Int] /\ command_leg_idxs \in [Envs -> Legs]
      /\ timer \in [Envs -> Nat]
  BY GoalConstants DEF Goals!Init
<1>5. command_leg \in [Envs -> BOOLEAN]
  BY DEF Goals!Init
<1>6. arm_leg_target \in [Envs -> [arm : Int, leg : [Legs -> Int]]]
  BY <1>1 DEF Goals!Init
<1>7. Goals!TimerInRange
  <2>1. \A e \in Envs : timer[e] = 0 /\ traj[e] \in Nat /\ hold[e] \in Nat
    BY GoalConstants DEF Goals!Init
  <2> QED
    BY <2>1 DEF Goals!TimerInRange
<1> QED
  BY <1>2, <1>3, <1>4, <1>5, <1>6, <1>7
     DEF GoalInv, Goals!TypeOK, Goals!OneCommand, Goals!SilentLegs, Goals!OnSchedule,
         Goals!ArmFollows

LEMMA FirstResetStep == ASSUME GoalInv, Goals!FirstReset PROVE GoalInv' /\ Goals!Undisturbed
<1>1. /\ phase = "new" /\ phase' = "actions" /\ arm_leg_target' = arm_leg_target
      /\ Goals!Resample(arm, leg, timer, Envs)
  BY DEF Goals!FirstReset
<1>2. Goals!TypeOK
  BY DEF GoalInv
<1>3. \A e \in Envs : \E c \in Goals!Cached, p \in Poses : Drawn(e, c, p)
  BY <1>1, <1>2, ResampleEach
<1>4. \A e \in Envs : EnvOK(e)'
  BY <1>3, DrawnOK
<1>5. GoalShapes'
  <2>1. Envs \in SUBSET Envs
    OBVIOUS
  <2>2. arm_leg_target \in [Envs -> [arm : Int, leg : [Legs -> Int]]]
    BY <1>2 DEF Goals!TypeOK
  <2> QED
    BY <1>1, <1>2, <2>1, <2>2, ResampleEach DEF GoalShapes
<1> QED
  BY <1>1, <1>4, <1>5, GoalInvOfEach DEF Goals!Undisturbed

LEMMA ProcessActionsStep ==
    ASSUME GoalInv, Goals!ProcessActions PROVE GoalInv' /\ Goals!Undisturbed
<1>1. /\ phase = "actions" /\ phase' = "reset"
      /\ arm' = arm /\ leg' = leg /\ torso' = torso /\ timer' = timer
      /\ command_leg_idxs' = command_leg_idxs /\ command_leg' = command_leg
      /\ traj' = traj /\ hold' = hold
  BY DEF Goals!ProcessActions, Goals!goalVars
<1>2. PICK a \in Actions :
          arm_leg_target' = [e \in Envs |-> [arm |-> arm[e].sub, leg |-> a]]
  BY DEF Goals!ProcessActions, Goals!ArmTarget
<1>3. Goals!TypeOK
  BY DEF GoalInv
<1>4. \A e \in Envs : EnvOK(e)
  BY <1>1, GoalInvEach
<1>5. \A e \in Envs : EnvOK(e)'
  BY <1>1, <1>4 DEF EnvOK, EnvTyped, EnvCommand, EnvSilent, EnvOnSchedule
<1>6. /\ arm_leg_target' \in [Envs -> [arm : Int, leg : [Legs -> Int]]]
      /\ \A e \in Envs : arm_leg_target'[e].arm = arm'[e].sub
  <2>1. a \in [Legs -> Int] /\ \A e \in Envs : arm[e].sub \in Int
    BY <1>3, GoalConstants DEF Goals!TypeOK, Goals!Way
  <2> QED
    BY <1>1, <1>2, <2>1
<1>7. GoalShapes'
  BY <1>1, <1>3, <1>6 DEF GoalShapes, Goals!TypeOK
<1>8. Goals!Undisturbed
  <2>1. ASSUME NEW e \in Envs
        PROVE Goals!Distance(arm[e].sub, arm[e].sub) * traj[e]
                 < Goals!Distance(arm[e].start, arm[e].goal) + traj[e]
    <3>1. /\ arm[e].sub \in Int /\ arm[e].start \in Int /\ arm[e].goal \in Int
          /\ traj[e] \in Nat /\ traj[e] > 0
      BY <1>3, GoalConstants DEF Goals!TypeOK, Goals!Way
    <3>2. Goals!Distance(arm[e].sub, arm[e].sub) = 0
      BY <3>1 DEF Goals!Distance
    <3>3. /\ Goals!Distance(arm[e].start, arm[e].goal) \in Int
          /\ Goals!Distance(arm[e].start, arm[e].goal) >= 0
      BY <3>1 DEF Goals!Distance
    <3> QED
      BY <3>1, <3>2, <3>3
  <2>2. \A e \in Envs : timer'[e] - timer[e] = 0
    BY <1>1, <1>3 DEF Goals!TypeOK
  <2> QED
    BY <1>1, <2>1, <2>2 DEF Goals!Undisturbed
<1> QED
  BY <1>1, <1>5, <1>7, <1>8, GoalInvOfEach

LEMMA ResetEnvsStep == ASSUME GoalInv, Goals!ResetEnvs PROVE GoalInv' /\ Goals!Undisturbed
<1>1. /\ phase = "reset" /\ phase' = "command" /\ arm_leg_target' = arm_leg_target
  BY DEF Goals!ResetEnvs
<1>2. PICK E \in SUBSET Envs : Goals!Resample(arm, leg, timer, E)
  BY DEF Goals!ResetEnvs
<1>3. Goals!TypeOK
  BY DEF GoalInv
<1>4. /\ \A e \in E : \E c \in Goals!Cached, p \in Poses : Drawn(e, c, p)
      /\ \A e \in Envs \ E : Kept(e, arm[e], leg[e], timer[e])
  BY <1>2, <1>3, ResampleEach
<1>5. \A e \in Envs : EnvOK(e)
  BY <1>1, GoalInvEach
<1>6. \A e \in Envs : EnvOK(e)'
  <2>1. \A e \in E : EnvOK(e)'
    BY <1>4, DrawnOK
  <2>2. \A e \in Envs \ E : EnvOK(e)'
    BY <1>4, <1>5, KeptOK
  <2> QED
    BY <2>1, <2>2
<1>7. GoalShapes'
  <2>1. arm_leg_target \in [Envs -> [arm : Int, leg : [Legs -> Int]]]
    BY <1>3 DEF Goals!TypeOK
  <2> QED
    BY <1>1, <1>2, <1>3, <2>1, ResampleEach DEF GoalShapes
<1>8. Goals!Undisturbed
  <2> SUFFICES ASSUME NEW e \in Envs, timer'[e] > 0
               PROVE  /\ arm'[e] = arm[e] /\ leg'[e] = leg[e] /\ torso'[e] = torso[e]
                      /\ timer'[e] = timer[e] /\ timer[e] \in Nat
                      /\ Goals!Distance(arm[e].sub, arm[e].sub) * traj[e]
                           < Goals!Distance(arm[e].start, arm[e].goal) + traj[e]
    BY DEF Goals!Undisturbed
  <2>1. e \notin E
    <3>1. \A f \in E : timer'[f] = 0
      BY <1>4 DEF Drawn
    <3> QED
      BY <3>1
  <2>2. Kept(e, arm[e], leg[e], timer[e])
    BY <1>4, <2>1
  <2>3. leg'[e] = leg[e]
    BY <1>5, <2>2, SilentZero DEF Kept, EnvOK
  <2>4. Goals!Distance(arm[e].sub, arm[e].sub) * traj[e]
           < Goals!Distance(arm[e].start, arm[e].goal) + traj[e]
    <3>1. /\ arm[e].sub \in Int /\ arm[e].start \in Int /\ arm[e].goal \in Int
          /\ traj[e] \in Nat /\ traj[e] > 0
      BY <1>3, GoalConstants DEF Goals!TypeOK, Goals!Way
    <3>2. Goals!Distance(arm[e].sub, arm[e].sub) = 0
      BY <3>1 DEF Goals!Distance
    <3>3. /\ Goals!Distance(arm[e].start, arm[e].goal) \in Int
          /\ Goals!Distance(arm[e].start, arm[e].goal) >= 0
      BY <3>1 DEF Goals!Distance
    <3> QED
      BY <3>1, <3>2, <3>3
  <2> QED
    BY <1>3, <2>2, <2>3, <2>4 DEF Kept, Goals!TypeOK
<1> QED
  BY <1>1, <1>6, <1>7, <1>8, GoalInvOfEach

LEMMA UpdateCommandStep ==
    ASSUME GoalInv, Goals!UpdateCommand PROVE GoalInv' /\ Goals!Undisturbed
<1> DEFINE E == Goals!Overdue(Goals!StepTimer)
<1>1. /\ phase = "command" /\ phase' = "actions" /\ arm_leg_target' = arm_leg_target
      /\ Goals!Resample(Goals!AdvanceArm(Goals!StepTimer), Goals!AdvanceLeg(Goals!StepTimer),
                        Goals!StepTimer, E)
  BY DEF Goals!UpdateCommand
<1>2. E \in SUBSET Envs
  BY DEF Goals!Overdue
<1>3. Goals!TypeOK
  BY DEF GoalInv
<1>4. \A e \in Envs \ E : timer[e] + 1 <= traj[e] + hold[e]
  <2>1. \A e \in Envs : timer[e] \in Nat /\ traj[e] \in Nat /\ hold[e] \in Nat
    BY <1>3, GoalConstants DEF Goals!TypeOK
  <2> QED
    BY <2>1 DEF Goals!Overdue, Goals!StepTimer
<1> HIDE DEF E
<1>5. /\ \A e \in E : \E c \in Goals!Cached, p \in Poses : Drawn(e, c, p)
      /\ \A e \in Envs \ E : Advanced(e)
      /\ GoalShapes'
  <2>1. arm_leg_target \in [Envs -> [arm : Int, leg : [Legs -> Int]]]
    BY <1>3 DEF Goals!TypeOK
  <2> DEFINE A == Goals!AdvanceArm(Goals!StepTimer)
             L == Goals!AdvanceLeg(Goals!StepTimer)
             K == Goals!StepTimer
  <2>2. Goals!Resample(A, L, K, E)
    BY <1>1
  <2> HIDE DEF A, L, K
  <2>3. /\ \A e \in E : \E c \in Goals!Cached, p \in Poses : Drawn(e, c, p)
        /\ \A e \in Envs \ E : Kept(e, A[e], L[e], K[e])
    BY <1>2, <1>3, <2>2, ResampleEach
  <2>4. GoalShapes'
    BY <1>1, <1>2, <1>3, <2>1, <2>2, ResampleEach DEF GoalShapes
  <2> QED
    BY <2>3, <2>4 DEF Advanced, A, L, K
<1>6. \A e \in Envs : EnvOK(e)
  BY <1>1, GoalInvEach
<1>7. \A e \in Envs : EnvOK(e)'
  <2>1. \A e \in E : EnvOK(e)'
    BY <1>2, <1>5, DrawnOK
  <2>2. \A e \in Envs \ E : EnvOK(e)'
    BY <1>4, <1>5, <1>6, AdvancedOK
  <2> QED
    BY <2>1, <2>2
<1>8. Goals!Undisturbed
  <2> SUFFICES ASSUME NEW e \in Envs, timer'[e] > 0
               PROVE  /\ arm'[e].goal = arm[e].goal /\ arm'[e].start = arm[e].start
                      /\ leg'[e].goal = leg[e].goal /\ leg'[e].start = leg[e].start
                      /\ torso'[e] = torso[e]
                      /\ timer'[e] = timer[e] + 1 /\ timer[e] \in Nat
                      /\ EnvMoves(e)
    BY DEF Goals!Undisturbed, EnvMoves
  <2>1. e \notin E
    <3>1. \A f \in E : timer'[f] = 0
      BY <1>5 DEF Drawn
    <3> QED
      BY <3>1
  <2>2. timer[e] \in Nat
    BY <1>3 DEF Goals!TypeOK
  <2> QED
    BY <1>4, <1>5, <1>6, <2>1, <2>2, AdvancedOK
<1> QED
  BY <1>1, <1>5, <1>7, <1>8, GoalInvOfEach

LEMMA GoalStuttering ==
    ASSUME GoalInv, UNCHANGED Goals!vars PROVE GoalInv'
BY DEF GoalInv, Goals!vars, Goals!goalVars, Goals!TypeOK, Goals!OneCommand,
       Goals!SilentLegs, Goals!TimerInRange, Goals!OnSchedule, Goals!ArmFollows

LEMMA GoalNext ==
    GoalInv /\ [Goals!Next]_(Goals!vars) => GoalInv' /\ [Goals!Undisturbed]_goalVars
<1> SUFFICES ASSUME GoalInv, [Goals!Next]_(Goals!vars)
             PROVE  GoalInv' /\ [Goals!Undisturbed]_goalVars
  OBVIOUS
<1>1. CASE Goals!FirstReset
  BY <1>1, FirstResetStep
<1>2. CASE Goals!ProcessActions
  BY <1>2, ProcessActionsStep
<1>3. CASE Goals!ResetEnvs
  BY <1>3, ResetEnvsStep
<1>4. CASE Goals!UpdateCommand
  BY <1>4, UpdateCommandStep
<1>5. CASE UNCHANGED Goals!vars
  BY <1>5, GoalStuttering DEF Goals!vars, Goals!goalVars, goalVars
<1> QED
  BY <1>1, <1>2, <1>3, <1>4, <1>5 DEF Goals!Next

\* Goals are feasible and on schedule for every number of environments, every pool
\* of commands and every way of resetting them.
THEOREM GoalInvariant == Goals!Spec => []GoalInv
<1>1. GoalInv /\ [Goals!Next]_(Goals!vars) => GoalInv'
  BY GoalNext
<1> QED
  BY GoalInit, <1>1, PTL DEF Goals!Spec

\* An environment's goals come from one feasible command, and legs without one are
\* silent.
THEOREM GoalsAreFeasible == Goals!Spec => []GoalsFeasible
<1>1. GoalInv => GoalsFeasible
  BY DEF GoalInv, GoalsFeasible
<1> QED
  BY GoalInvariant, <1>1, PTL

\* Sub-goals and the arm's targets are on the schedule of their own timer.
THEOREM GoalsOnSchedule == Goals!Spec => []OnSchedule
<1>1. GoalInv => OnSchedule
  BY DEF GoalInv, OnSchedule
<1> QED
  BY GoalInvariant, <1>1, PTL

\* Resampling some environments disturbs no other, although the code zeroes legs
\* over all of them.
THEOREM GoalsUndisturbed == Goals!Spec => OthersUndisturbed
<1>1. GoalInv /\ [Goals!Next]_(Goals!vars) => [Goals!Undisturbed]_goalVars
  BY GoalNext
<1> QED
  BY GoalInvariant, <1>1, PTL DEF OthersUndisturbed, Goals!Spec

-----------------------------------------------------------------------------
(* The joints that are put back.                                           *)

\* Between the two events of the training the robot stands as by default.
PendingAtDefault ==
    /\ arm_pending # {} => env_program = "training"
    /\ \A e \in arm_pending, j \in Resets!Joints :
          env_pos[e][j] = Default[j] /\ env_vel[e][j] = 0

\* The inductive invariant of the resets.
ResetInv ==
    /\ Resets!TypeOK /\ Resets!StartsWithinLimits /\ Resets!ArmFolded
    /\ PendingAtDefault

\* What ResetsAssumption says, joint by joint.
LEMMA ResetConstants ==
    /\ Default \in [Resets!Joints -> Int] /\ Stow \in [Arm -> Int] /\ Elsewhere \subseteq Int
    /\ PosRange \in Nat /\ VelRange \in Nat
    /\ \A j \in Resets!Joints :
          /\ JointLower[j] \in Int /\ JointUpper[j] \in Int /\ MaxVel[j] \in Nat
          /\ Default[j] \in JointLower[j]..JointUpper[j] /\ Default[j] \in Int
          /\ j \in Base \/ j \in Arm
    /\ \A j \in Arm : /\ Stow[j] \in JointLower[j]..JointUpper[j] /\ Stow[j] \in Int
                      /\ j \in Resets!Joints
BY ResetsAssumption DEF Resets!Assumptions, Resets!Joints

\* What is drawn from a range lies in it.
LEMMA UniformWithin ==
    ASSUME NEW low \in Int, NEW high \in Int, NEW f \in 0..2, low <= high
    PROVE  Resets!Uniform(low, high, f) \in low..high
<1> DEFINE x == f * (high - low)
<1>1. x \in Int /\ x >= 0 /\ x <= 2 * (high - low)
  <2>1. CASE f = 0
    BY <2>1
  <2>2. CASE f = 1
    BY <2>2
  <2>3. CASE f = 2
    BY <2>3
  <2> QED
    BY <2>1, <2>2, <2>3
<1> HIDE DEF x
<1>2. x \div 2 \in Int /\ 2 * (x \div 2) <= x /\ x < 2 * (x \div 2) + 2
  BY <1>1, DivBounds
<1> QED
  BY <1>1, <1>2 DEF Resets!Uniform, x

\* Clamping to limits keeps the order.
LEMMA ClampWithin ==
    ASSUME NEW x \in Int, NEW y \in Int, NEW low \in Int, NEW high \in Int,
           low <= high, x <= y
    PROVE  /\ Resets!Clamp(x, low, high) \in low..high
           /\ Resets!Clamp(x, low, high) \in Int
           /\ Resets!Clamp(x, low, high) <= Resets!Clamp(y, low, high)
BY DEF Resets!Clamp

\* What is drawn for a leg's joint is within its limits.
LEMMA BaseWithin ==
    ASSUME NEW j \in Resets!Joints, NEW f \in 0..2
    PROVE  /\ Resets!BasePosition(j, f) \in JointLower[j]..JointUpper[j]
           /\ Resets!BaseVelocity(j, f) \in -MaxVel[j]..MaxVel[j]
<1> DEFINE l == JointLower[j]
           u == JointUpper[j]
           d == Default[j]
           m == MaxVel[j]
<1>1. /\ l \in Int /\ u \in Int /\ d \in Int /\ l <= d /\ d <= u /\ m \in Nat
      /\ PosRange \in Nat /\ VelRange \in Nat
  BY ResetConstants
<1> HIDE DEF l, u, d, m
<1> DEFINE a == Resets!Clamp(d - PosRange, l, u)
           b == Resets!Clamp(d + PosRange, l, u)
           v == Resets!Clamp(-VelRange, -m, m)
           w == Resets!Clamp(VelRange, -m, m)
<1>2. a \in l..u /\ b \in l..u /\ a <= b /\ a \in Int /\ b \in Int
  <2>1. d - PosRange \in Int /\ d + PosRange \in Int /\ d - PosRange <= d + PosRange /\ l <= u
    BY <1>1
  <2> QED
    BY <1>1, <2>1, ClampWithin
<1>3. v \in -m..m /\ w \in -m..m /\ v <= w /\ v \in Int /\ w \in Int
  <2>1. -VelRange \in Int /\ VelRange \in Int /\ -VelRange <= VelRange
        /\ -m \in Int /\ m \in Int /\ -m <= m
    BY <1>1
  <2> QED
    BY <2>1, ClampWithin
<1>4. /\ Resets!BasePosition(j, f) = Resets!Uniform(a, b, f)
      /\ Resets!BaseVelocity(j, f) = Resets!Uniform(v, w, f)
  BY DEF Resets!BasePosition, Resets!BaseVelocity, l, u, d, m
<1> HIDE DEF a, b, v, w
<1>5. Resets!Uniform(a, b, f) \in a..b
  BY <1>2, UniformWithin
<1>6. Resets!Uniform(v, w, f) \in v..w
  BY <1>3, UniformWithin
<1>7. Resets!BasePosition(j, f) \in l..u /\ Resets!BaseVelocity(j, f) \in -m..m
  BY <1>1, <1>2, <1>3, <1>4, <1>5, <1>6
<1> QED
  BY <1>7 DEF l, u, m

\* A robot e that was put back: at rest within its limits, the arm folded.
PutBack(e) ==
    /\ \A j \in Resets!Joints :
          /\ env_pos[e][j] \in JointLower[j]..JointUpper[j]
          /\ env_vel[e][j] \in -MaxVel[j]..MaxVel[j]
    /\ \A j \in Arm : env_pos[e][j] = Stow[j] /\ env_vel[e][j] = 0

\* ResetInv, robot by robot ...
LEMMA PutBackEach ==
    ASSUME ResetInv PROVE \A e \in fresh : PutBack(e)
BY DEF ResetInv, Resets!StartsWithinLimits, Resets!ArmFolded, PutBack

\* Writing the joints of some robots changes those and no others.
LEMMA WriteEach ==
    ASSUME NEW ids \in SUBSET Envs, NEW pos, NEW vel, Resets!TypeOK,
           Resets!Write(ids, pos, vel),
           \A e \in ids : pos[e] \in [Resets!Joints -> Int] /\ vel[e] \in [Resets!Joints -> Int]
    PROVE  /\ env_pos' \in [Envs -> [Resets!Joints -> Int]]
           /\ env_vel' \in [Envs -> [Resets!Joints -> Int]]
           /\ \A e \in ids : env_pos'[e] = pos[e] /\ env_vel'[e] = vel[e]
           /\ \A e \in Envs \ ids : env_pos'[e] = env_pos[e] /\ env_vel'[e] = env_vel[e]
<1>1. /\ env_pos' = [e \in Envs |-> IF e \in ids THEN pos[e] ELSE env_pos[e]]
      /\ env_vel' = [e \in Envs |-> IF e \in ids THEN vel[e] ELSE env_vel[e]]
  BY DEF Resets!Write
<1>2. /\ env_pos \in [Envs -> [Resets!Joints -> Int]]
      /\ env_vel \in [Envs -> [Resets!Joints -> Int]]
  BY DEF Resets!TypeOK
<1> QED
  BY <1>1, <1>2

LEMMA ResetInit == Resets!Init => ResetInv
<1> SUFFICES ASSUME Resets!Init PROVE ResetInv
  OBVIOUS
<1>1. [j \in Resets!Joints |-> 0] \in [Resets!Joints -> Int]
  OBVIOUS
<1>2. Default \in [Resets!Joints -> Int]
  BY ResetConstants
<1>3. Resets!TypeOK
  BY <1>1, <1>2 DEF Resets!Init, Resets!TypeOK
<1> QED
  BY <1>3 DEF Resets!Init, ResetInv, Resets!StartsWithinLimits, Resets!ArmFolded,
              PendingAtDefault

\* ... and back.
LEMMA ResetInvOfEach ==
    ASSUME Resets!TypeOK', \A e \in fresh' : PutBack(e)', PendingAtDefault'
    PROVE  ResetInv'
BY DEF ResetInv, Resets!StartsWithinLimits, Resets!ArmFolded, PutBack

LEMMA ResetBaseAndArmStep ==
    ASSUME ResetInv, Resets!ResetBaseAndArm PROVE ResetInv' /\ Resets!Undisturbed
<1>1. Resets!TypeOK
  BY DEF ResetInv
<1>2. /\ cache' = Resets!ArmPoses /\ env_program' = env_program /\ arm_pending' = arm_pending
      /\ env_program = "deployment"
  BY DEF Resets!ResetBaseAndArm
<1>3. cache' \subseteq {Stow}
  BY <1>1, <1>2 DEF Resets!TypeOK, Resets!ArmPoses
<1> DEFINE pos(f, pose) == [j \in Resets!Joints |->
               IF j \in Arm THEN pose[j] ELSE Resets!BasePosition(j, f[j])]
           vel(g) == [j \in Resets!Joints |->
               IF j \in Arm THEN 0 ELSE Resets!BaseVelocity(j, g[j])]
<1>4. PICK ids \in (SUBSET Envs) \ {{}} :
          /\ \E f, g \in [Base -> 0..2], pose \in cache' :
                Resets!Write(ids, [e \in ids |-> pos(f, pose)], [e \in ids |-> vel(g)])
          /\ fresh' = fresh \cup ids
  BY DEF Resets!ResetBaseAndArm
<1>5. PICK f \in [Base -> 0..2], g \in [Base -> 0..2], pose \in cache' :
          Resets!Write(ids, [e \in ids |-> pos(f, pose)], [e \in ids |-> vel(g)])
  BY <1>4
<1>6. pose = Stow
  BY <1>3
<1>7. \A j \in Resets!Joints \ Arm : f[j] \in 0..2 /\ g[j] \in 0..2
  BY ResetConstants
<1>8. /\ pos(f, pose) \in [Resets!Joints -> Int] /\ vel(g) \in [Resets!Joints -> Int]
      /\ \A j \in Resets!Joints :
            /\ pos(f, pose)[j] \in JointLower[j]..JointUpper[j]
            /\ vel(g)[j] \in -MaxVel[j]..MaxVel[j]
      /\ \A j \in Arm : pos(f, pose)[j] = Stow[j] /\ vel(g)[j] = 0
  <2>1. ASSUME NEW j \in Resets!Joints
        PROVE  /\ pos(f, pose)[j] \in JointLower[j]..JointUpper[j]
               /\ vel(g)[j] \in -MaxVel[j]..MaxVel[j]
               /\ pos(f, pose)[j] \in Int /\ vel(g)[j] \in Int
    <3>1. JointLower[j] \in Int /\ JointUpper[j] \in Int /\ MaxVel[j] \in Nat
      BY ResetConstants
    <3>2. CASE j \in Arm
      BY <1>6, <3>1, <3>2, ResetConstants
    <3>3. CASE j \notin Arm
      <4>1. /\ Resets!BasePosition(j, f[j]) \in JointLower[j]..JointUpper[j]
            /\ Resets!BaseVelocity(j, g[j]) \in -MaxVel[j]..MaxVel[j]
        BY <1>7, <3>3, BaseWithin
      <4> QED
        BY <3>1, <3>3, <4>1
    <3> QED
      BY <3>2, <3>3
  <2>2. \A j \in Arm : pos(f, pose)[j] = Stow[j] /\ vel(g)[j] = 0
    BY <1>6, ResetConstants
  <2> QED
    BY <2>1, <2>2
<1> DEFINE p == pos(f, pose)
           v == vel(g)
<1>9. Resets!Write(ids, [e \in ids |-> p], [e \in ids |-> v])
  BY <1>5
<1>10. /\ p \in [Resets!Joints -> Int] /\ v \in [Resets!Joints -> Int]
       /\ \A j \in Resets!Joints :
            /\ p[j] \in JointLower[j]..JointUpper[j]
            /\ v[j] \in -MaxVel[j]..MaxVel[j]
       /\ \A j \in Arm : p[j] = Stow[j] /\ v[j] = 0
  BY <1>8
<1> HIDE DEF p, v
<1>11. /\ env_pos' \in [Envs -> [Resets!Joints -> Int]]
       /\ env_vel' \in [Envs -> [Resets!Joints -> Int]]
       /\ \A e \in ids : env_pos'[e] = p /\ env_vel'[e] = v
       /\ \A e \in Envs \ ids : env_pos'[e] = env_pos[e] /\ env_vel'[e] = env_vel[e]
  <2> DEFINE ps == [e \in ids |-> p]
             vs == [e \in ids |-> v]
  <2>1. \A e \in ids : ps[e] = p /\ vs[e] = v
    OBVIOUS
  <2>2. Resets!Write(ids, ps, vs)
    BY <1>9
  <2> HIDE DEF ps, vs
  <2>3. ids \in SUBSET Envs
    OBVIOUS
  <2>4. \A e \in ids : ps[e] \in [Resets!Joints -> Int] /\ vs[e] \in [Resets!Joints -> Int]
    BY <1>10, <2>1
  <2>5. /\ env_pos' \in [Envs -> [Resets!Joints -> Int]]
        /\ env_vel' \in [Envs -> [Resets!Joints -> Int]]
        /\ \A e \in ids : env_pos'[e] = ps[e] /\ env_vel'[e] = vs[e]
        /\ \A e \in Envs \ ids : env_pos'[e] = env_pos[e] /\ env_vel'[e] = env_vel[e]
    BY <1>1, <2>2, <2>3, <2>4, WriteEach
  <2> QED
    BY <2>1, <2>5
<1>12. Resets!TypeOK'
  BY <1>1, <1>2, <1>3, <1>4, <1>11 DEF Resets!TypeOK
<1>13. \A e \in fresh' : PutBack(e)'
  <2>1. \A e \in ids : PutBack(e)'
    BY <1>10, <1>11 DEF PutBack
  <2>2. \A e \in fresh \ ids : PutBack(e)'
    BY <1>1, <1>11, PutBackEach DEF PutBack, Resets!TypeOK
  <2> QED
    BY <1>4, <2>1, <2>2
<1>14. arm_pending = {}
  BY <1>2 DEF ResetInv, PendingAtDefault
<1>15. PendingAtDefault'
  BY <1>2, <1>14 DEF PendingAtDefault
<1>16. Resets!Undisturbed
  BY <1>4, <1>11 DEF Resets!Undisturbed
<1> QED
  BY <1>12, <1>13, <1>15, <1>16, ResetInvOfEach

LEMMA ResetToDefaultStep ==
    ASSUME ResetInv, Resets!ResetToDefault PROVE ResetInv' /\ Resets!Undisturbed
<1>1. Resets!TypeOK
  BY DEF ResetInv
<1>2. cache' = cache /\ env_program' = env_program /\ env_program = "training"
  BY DEF Resets!ResetToDefault
<1> DEFINE v == [j \in Resets!Joints |-> 0]
<1>3. PICK ids \in (SUBSET Envs) \ {{}} :
          /\ Resets!Write(ids, [e \in ids |-> Default], [e \in ids |-> v])
          /\ arm_pending' = ids
          /\ fresh' = fresh \ ids
  BY DEF Resets!ResetToDefault
<1>4. /\ v \in [Resets!Joints -> Int] /\ Default \in [Resets!Joints -> Int]
      /\ \A j \in Resets!Joints : v[j] = 0
  BY ResetConstants
<1> HIDE DEF v
<1>5. /\ env_pos' \in [Envs -> [Resets!Joints -> Int]]
      /\ env_vel' \in [Envs -> [Resets!Joints -> Int]]
      /\ \A e \in ids : env_pos'[e] = Default /\ env_vel'[e] = v
      /\ \A e \in Envs \ ids : env_pos'[e] = env_pos[e] /\ env_vel'[e] = env_vel[e]
  <2> DEFINE ps == [e \in ids |-> Default]
             vs == [e \in ids |-> v]
  <2>1. \A e \in ids : ps[e] = Default /\ vs[e] = v
    OBVIOUS
  <2>2. Resets!Write(ids, ps, vs)
    BY <1>3
  <2> HIDE DEF ps, vs
  <2>3. ids \in SUBSET Envs
    OBVIOUS
  <2>4. \A e \in ids : ps[e] \in [Resets!Joints -> Int] /\ vs[e] \in [Resets!Joints -> Int]
    BY <1>4, <2>1
  <2>5. /\ env_pos' \in [Envs -> [Resets!Joints -> Int]]
        /\ env_vel' \in [Envs -> [Resets!Joints -> Int]]
        /\ \A e \in ids : env_pos'[e] = ps[e] /\ env_vel'[e] = vs[e]
        /\ \A e \in Envs \ ids : env_pos'[e] = env_pos[e] /\ env_vel'[e] = env_vel[e]
    BY <1>1, <2>2, <2>3, <2>4, WriteEach
  <2> QED
    BY <2>1, <2>5
<1>6. Resets!TypeOK'
  BY <1>1, <1>2, <1>3, <1>5 DEF Resets!TypeOK
<1>7. \A e \in fresh' : PutBack(e)'
  BY <1>1, <1>3, <1>5, PutBackEach DEF PutBack, Resets!TypeOK
<1>8. PendingAtDefault'
  BY <1>2, <1>3, <1>4, <1>5 DEF PendingAtDefault
<1>9. Resets!Undisturbed
  BY <1>3, <1>5 DEF Resets!Undisturbed
<1> QED
  BY <1>6, <1>7, <1>8, <1>9, ResetInvOfEach

LEMMA ResetArmStep ==
    ASSUME ResetInv, Resets!ResetArm PROVE ResetInv' /\ Resets!Undisturbed
<1>1. Resets!TypeOK /\ arm_pending \in SUBSET Envs
  BY DEF ResetInv, Resets!TypeOK
<1>2. /\ cache' = cache /\ env_program' = env_program
      /\ fresh' = fresh \cup arm_pending /\ arm_pending' = {}
  BY DEF Resets!ResetArm
<1> DEFINE p(e) == [j \in Resets!Joints |-> IF j \in Arm THEN Stow[j] ELSE env_pos[e][j]]
           v(e) == [j \in Resets!Joints |-> IF j \in Arm THEN 0 ELSE env_vel[e][j]]
           ps == [e \in arm_pending |-> p(e)]
           vs == [e \in arm_pending |-> v(e)]
<1>3. Resets!Write(arm_pending, ps, vs)
  BY DEF Resets!ResetArm
<1>4. ASSUME NEW e \in arm_pending
      PROVE  /\ ps[e] \in [Resets!Joints -> Int] /\ vs[e] \in [Resets!Joints -> Int]
             /\ \A j \in Resets!Joints : /\ ps[e][j] \in JointLower[j]..JointUpper[j]
                                         /\ vs[e][j] \in -MaxVel[j]..MaxVel[j]
             /\ \A j \in Arm : ps[e][j] = Stow[j] /\ vs[e][j] = 0
  <2>1. ASSUME NEW j \in Resets!Joints
        PROVE  /\ ps[e][j] \in JointLower[j]..JointUpper[j] /\ ps[e][j] \in Int
               /\ vs[e][j] \in -MaxVel[j]..MaxVel[j] /\ vs[e][j] \in Int
               /\ j \in Arm => ps[e][j] = Stow[j] /\ vs[e][j] = 0
    <3>1. /\ ps[e][j] = IF j \in Arm THEN Stow[j] ELSE Default[j]
          /\ vs[e][j] = 0
      BY DEF ResetInv, PendingAtDefault
    <3>2. /\ MaxVel[j] \in Nat /\ Default[j] \in JointLower[j]..JointUpper[j]
          /\ j \in Arm => Stow[j] \in JointLower[j]..JointUpper[j]
          /\ JointLower[j] \in Int /\ JointUpper[j] \in Int
      BY ResetConstants
    <3> HIDE DEF ps, vs
    <3> QED
      BY <3>1, <3>2
  <2>2. \A j \in Arm : j \in Resets!Joints
    BY ResetConstants
  <2>3. /\ ps[e] = [j \in Resets!Joints |-> ps[e][j]]
        /\ vs[e] = [j \in Resets!Joints |-> vs[e][j]]
    OBVIOUS
  <2> HIDE DEF ps, vs
  <2> QED
    BY <2>1, <2>2, <2>3
<1> HIDE DEF ps, vs
<1>5. /\ env_pos' \in [Envs -> [Resets!Joints -> Int]]
      /\ env_vel' \in [Envs -> [Resets!Joints -> Int]]
      /\ \A e \in arm_pending : env_pos'[e] = ps[e] /\ env_vel'[e] = vs[e]
      /\ \A e \in Envs \ arm_pending : env_pos'[e] = env_pos[e] /\ env_vel'[e] = env_vel[e]
  <2>1. \A e \in arm_pending :
            ps[e] \in [Resets!Joints -> Int] /\ vs[e] \in [Resets!Joints -> Int]
    BY <1>4
  <2> QED
    BY <1>1, <1>3, <2>1, WriteEach
<1>6. Resets!TypeOK'
  BY <1>1, <1>2, <1>5 DEF Resets!TypeOK
<1>7. \A e \in fresh' : PutBack(e)'
  <2>1. \A e \in arm_pending : PutBack(e)'
    BY <1>4, <1>5 DEF PutBack
  <2>2. \A e \in fresh \ arm_pending : PutBack(e)'
    BY <1>1, <1>5, PutBackEach DEF PutBack, Resets!TypeOK
  <2> QED
    BY <1>2, <2>1, <2>2
<1>8. PendingAtDefault'
  BY <1>2 DEF PendingAtDefault
<1>9. Resets!Undisturbed
  BY <1>2, <1>5 DEF Resets!Undisturbed
<1> QED
  BY <1>6, <1>7, <1>8, <1>9, ResetInvOfEach

LEMMA PhysicsStep ==
    ASSUME ResetInv, Resets!Physics PROVE ResetInv' /\ Resets!Undisturbed
<1>1. Resets!TypeOK
  BY DEF ResetInv
<1>2. /\ cache' = cache /\ env_program' = env_program /\ arm_pending' = arm_pending
      /\ arm_pending = {}
  BY DEF Resets!Physics
<1>3. PICK x \in Elsewhere, e \in Envs :
          /\ env_pos' = [env_pos EXCEPT ![e] = [j \in Resets!Joints |-> x]]
          /\ env_vel' = [env_vel EXCEPT ![e] = [j \in Resets!Joints |-> x]]
          /\ fresh' = fresh \ {e}
  BY DEF Resets!Physics
<1>4. x \in Int
  BY ResetConstants
<1>5. [j \in Resets!Joints |-> x] \in [Resets!Joints -> Int]
  BY <1>4
<1>6. Resets!TypeOK'
  BY <1>1, <1>2, <1>3, <1>5 DEF Resets!TypeOK
<1>7. \A d \in fresh' : PutBack(d)'
  <2>1. \A d \in fresh' : d \in fresh /\ env_pos'[d] = env_pos[d] /\ env_vel'[d] = env_vel[d]
    BY <1>1, <1>3 DEF Resets!TypeOK
  <2> QED
    BY <2>1, PutBackEach DEF PutBack
<1>8. PendingAtDefault'
  BY <1>2 DEF PendingAtDefault
<1>9. Resets!Undisturbed
  BY DEF Resets!Undisturbed
<1> QED
  BY <1>6, <1>7, <1>8, <1>9, ResetInvOfEach

LEMMA ResetStuttering ==
    ASSUME ResetInv, UNCHANGED Resets!vars PROVE ResetInv'
BY DEF ResetInv, Resets!vars, Resets!TypeOK, Resets!StartsWithinLimits, Resets!ArmFolded,
       PendingAtDefault

LEMMA ResetNext ==
    ResetInv /\ [Resets!Next]_(Resets!vars) => ResetInv' /\ [Resets!Undisturbed]_jointVars
<1> SUFFICES ASSUME ResetInv, [Resets!Next]_(Resets!vars)
             PROVE  ResetInv' /\ [Resets!Undisturbed]_jointVars
  OBVIOUS
<1>1. CASE Resets!ResetBaseAndArm
  BY <1>1, ResetBaseAndArmStep
<1>2. CASE Resets!ResetToDefault
  BY <1>2, ResetToDefaultStep
<1>3. CASE Resets!ResetArm
  BY <1>3, ResetArmStep
<1>4. CASE Resets!Physics
  BY <1>4, PhysicsStep
<1>5. CASE UNCHANGED Resets!vars
  BY <1>5, ResetStuttering DEF Resets!vars, jointVars
<1> QED
  BY <1>1, <1>2, <1>3, <1>4, <1>5 DEF Resets!Next

\* Robots are put back rightly for every set of joints, limits and ranges.
THEOREM ResetInvariant == Resets!Spec => []ResetInv
<1>1. ResetInv /\ [Resets!Next]_(Resets!vars) => ResetInv'
  BY ResetNext
<1> QED
  BY ResetInit, <1>1, PTL DEF Resets!Spec

\* Robots that are put back start within their limits, the arm folded.
THEOREM RobotsStartWithinLimits == Resets!Spec => []StartsWithinLimits
<1>1. ResetInv => StartsWithinLimits
  BY DEF ResetInv, StartsWithinLimits
<1> QED
  BY ResetInvariant, <1>1, PTL

\* Putting some robots back leaves the others where they are.
THEOREM OtherRobotsGoOn == Resets!Spec => OthersGoOn
<1>1. ResetInv /\ [Resets!Next]_(Resets!vars) => [Resets!Undisturbed]_jointVars
  BY ResetNext
<1> QED
  BY ResetInvariant, <1>1, PTL DEF OthersGoOn, Resets!Spec

-----------------------------------------------------------------------------
(* The loop.                                                               *)

\* What the state or the observations may be.
Reading == [step : -1..Steps, sim_time : Int]

\* Of what the loop's variables are made.
LoopTyped ==
    /\ program \in Scripts
    /\ pc \in {"first_reset", "reset", "first_state", "command", "step",
               "set_state", "listen", "close", "save", "done", "killed", "KeyError"}
    /\ resets \in 0..2 /\ step \in 0..Steps /\ simSteps \in Nat
    /\ obs \in Reading /\ latest \in Reading
    /\ action \in 0..Steps
    /\ rows \in Seq([state : Int, velocity : 0..MaxKeys])
    /\ recorded \in Seq([obs : Int, action : Int, state : Int])
    /\ keys \in 0..MaxKeys /\ velocity \in 0..MaxKeys
    /\ heard \in Seq(0..MaxKeys)
    /\ saved \in BOOLEAN

\* The physics steps are those of the loop's steps.
LoopClock == simSteps = step * Decimation

\* How long the sequences are, and what is known in the loop at each statement.
LoopLengths ==
    /\ Len(recorded) <= Len(rows) /\ Len(rows) <= Len(heard) /\ Len(rows) <= Steps
    /\ 1 <= Len(heard) /\ velocity = heard[Len(heard)]

LoopAtPc ==
    /\ pc = "first_reset" => resets = 0
    /\ pc = "reset" => resets <= 1
    /\ pc \in {"first_reset", "reset", "first_state"} =>
          step = 0 /\ Len(rows) = 0 /\ Len(recorded) = 0 /\ Len(heard) = 1
    /\ pc \in {"first_state", "command", "step", "set_state", "listen"} => obs.step = step
    /\ pc = "command" =>
          /\ step < Steps /\ latest.step = step
          /\ Len(rows) = step /\ Len(recorded) = step /\ Len(heard) = step + 1
    /\ pc = "step" =>
          /\ step < Steps /\ latest.step = step /\ action = step + 1
          /\ Len(rows) = step + 1 /\ Len(recorded) = step /\ Len(heard) = step + 1
    /\ pc \in {"set_state", "listen"} =>
          /\ Len(rows) = step /\ Len(recorded) = step /\ Len(heard) = step
    /\ pc = "listen" => latest.step = step
    /\ pc \in {"close", "save", "done"} => Len(rows) = Steps /\ Len(recorded) = Steps
    /\ saved => pc = "done"

\* The rows of the log ...
LoopRows ==
    \A i \in 1..Len(rows) : rows[i].state = i - 1 /\ rows[i].velocity = heard[i]

\* ... and those of the recorders.
LoopRecords ==
    \A i \in 1..Len(recorded) :
        recorded[i].obs = i - 1 /\ recorded[i].action = i /\ recorded[i].state = i

\* The inductive invariant of the loop: the rows alone do not say how many states,
\* keys and actions are under way, so LoopAtPc counts them at every statement.
LoopInv == LoopTyped /\ LoopClock /\ LoopLengths /\ LoopAtPc /\ LoopRows /\ LoopRecords

LEMMA LoopConstants ==
    /\ MaxKeys \in Nat
    /\ Steps \in Nat /\ Steps > 0
    /\ Decimation \in Nat /\ Decimation > 0 /\ Dt \in Nat /\ Dt > 0
BY LoopAssumption DEF Loop!Assumptions

LEMMA LoopInit == Loop!Init => LoopInv
<1> USE LoopConstants
<1> SUFFICES ASSUME Loop!Init PROVE LoopInv
  OBVIOUS
<1>1. LoopTyped
  <2>1. Loop!None \in Reading
    BY DEF Loop!None, Reading
  <2>2. rows = << >> /\ recorded = << >> /\ heard = <<0>>
    BY DEF Loop!Init
  <2>3. /\ << >> \in Seq([state : Int, velocity : 0..MaxKeys])
        /\ << >> \in Seq([obs : Int, action : Int, state : Int])
        /\ <<0>> \in Seq(0..MaxKeys)
    BY DEF Loop!Init
  <2>4. /\ program \in Scripts /\ pc \in {"first_reset", "reset"} /\ saved \in BOOLEAN
        /\ obs \in Reading /\ latest \in Reading
    BY <2>1 DEF Loop!Init
  <2>5. /\ resets \in 0..2 /\ step \in 0..Steps /\ simSteps \in Nat /\ action \in 0..Steps
        /\ keys \in 0..MaxKeys /\ velocity \in 0..MaxKeys
    BY DEF Loop!Init
  <2> QED
    BY <2>2, <2>3, <2>4, <2>5 DEF LoopTyped
<1>2. LoopClock /\ LoopLengths /\ LoopAtPc /\ LoopRows /\ LoopRecords
  BY DEF Loop!Init, LoopClock, LoopLengths, LoopAtPc, LoopRows, LoopRecords
<1> QED
  BY <1>1, <1>2 DEF LoopInv

\* The statements of the loop, one by one.
LEMMA LoopFirstReset == ASSUME LoopInv, Loop!FirstReset PROVE LoopInv'
<1> USE LoopConstants
    DEF LoopInv, Loop!FirstReset, Loop!Goes, Loop!envVars, Loop!policyVars,
        Loop!keyVars, Loop!Reset, Loop!Observe, Loop!time_
<1>1. LoopTyped'
  BY DEF LoopTyped, LoopAtPc, LoopLengths, Reading
<1>2. LoopClock'
  BY DEF LoopClock, LoopTyped, LoopAtPc
<1>3. LoopLengths'
  BY DEF LoopLengths, LoopTyped, LoopAtPc, Reading
<1>4. LoopAtPc'
  BY DEF LoopAtPc, LoopTyped, LoopLengths, Reading
<1>5. LoopRows'
  BY DEF LoopRows, LoopTyped, LoopAtPc, LoopLengths, Reading
<1>6. LoopRecords'
  BY DEF LoopRecords, LoopTyped, LoopAtPc, LoopLengths, Reading
<1> QED
  BY <1>1, <1>2, <1>3, <1>4, <1>5, <1>6 DEF LoopInv

LEMMA LoopSecondReset == ASSUME LoopInv, Loop!SecondReset PROVE LoopInv'
<1> USE LoopConstants
    DEF LoopInv, Loop!SecondReset, Loop!Goes, Loop!envVars, Loop!policyVars,
        Loop!keyVars, Loop!Reset, Loop!Observe, Loop!time_
<1>1. LoopTyped'
  BY DEF LoopTyped, LoopAtPc, LoopLengths, Reading
<1>2. LoopClock'
  BY DEF LoopClock, LoopTyped, LoopAtPc
<1>3. LoopLengths'
  BY DEF LoopLengths, LoopTyped, LoopAtPc, Reading
<1>4. LoopAtPc'
  BY DEF LoopAtPc, LoopTyped, LoopLengths, Reading
<1>5. LoopRows'
  BY DEF LoopRows, LoopTyped, LoopAtPc, LoopLengths, Reading
<1>6. LoopRecords'
  BY DEF LoopRecords, LoopTyped, LoopAtPc, LoopLengths, Reading
<1> QED
  BY <1>1, <1>2, <1>3, <1>4, <1>5, <1>6 DEF LoopInv

LEMMA LoopEnvStep == ASSUME LoopInv, Loop!EnvStep PROVE LoopInv'
<1> USE LoopConstants
    DEF LoopInv, Loop!EnvStep, Loop!Goes, Loop!envVars, Loop!policyVars,
        Loop!keyVars, Loop!Observe, Loop!time_, Loop!Record
<1>1. LoopTyped'
  BY DEF LoopTyped, LoopAtPc, LoopLengths, Reading
<1>2. LoopClock'
  BY DEF LoopClock, LoopTyped, LoopAtPc
<1>3. LoopLengths'
  BY DEF LoopLengths, LoopTyped, LoopAtPc, Reading
<1>4. LoopAtPc'
  <2>1. Len(recorded') = Len(recorded) + 1
    BY DEF LoopTyped
  <2>2. pc = "step" /\ pc' = "set_state" /\ step' = step + 1 /\ obs'.step = step + 1
    OBVIOUS
  <2>3. UNCHANGED <<rows, heard, saved>>
    OBVIOUS
  <2> QED
    BY <2>1, <2>2, <2>3 DEF LoopAtPc, LoopTyped
<1>5. LoopRows'
  BY DEF LoopRows, LoopTyped, LoopAtPc, LoopLengths, Reading
<1>6. LoopRecords'
  <2> DEFINE r == [obs |-> obs.step, action |-> action, state |-> step + 1]
  <2>1. recorded' = Append(recorded, r) /\ recorded \in Seq([obs : Int, action : Int, state : Int])
    BY DEF LoopTyped
  <2>2. /\ obs.step = step /\ action = step + 1 /\ Len(recorded) = step
        /\ step \in Nat
    BY DEF LoopAtPc, LoopTyped
  <2>3. r.obs = step /\ r.action = step + 1 /\ r.state = step + 1
    BY <2>2
  <2> HIDE DEF r
  <2>4. /\ Len(recorded') = step + 1 /\ recorded'[step + 1] = r
        /\ \A i \in 1..step : recorded'[i] = recorded[i]
    BY <2>1, <2>2
  <2>5. \A i \in 1..step :
            recorded[i].obs = i - 1 /\ recorded[i].action = i /\ recorded[i].state = i
    BY <2>2 DEF LoopRecords
  <2>6. \A i \in 1..step + 1 : i \in 1..step \/ i = step + 1
    BY <2>2
  <2>7. \A i \in 1..step + 1 :
            recorded'[i].obs = i - 1 /\ recorded'[i].action = i /\ recorded'[i].state = i
    BY <2>2, <2>3, <2>4, <2>5, <2>6
  <2> QED
    BY <2>4, <2>7 DEF LoopRecords
<1> QED
  BY <1>1, <1>2, <1>3, <1>4, <1>5, <1>6 DEF LoopInv

LEMMA LoopFirstState == ASSUME LoopInv, Loop!FirstState PROVE LoopInv'
<1> USE LoopConstants
    DEF LoopInv, Loop!FirstState, Loop!Goes, Loop!envVars, Loop!policyVars,
        Loop!keyVars, Loop!SetState, Loop!HandOver
<1>1. LoopTyped'
  BY DEF LoopTyped, LoopAtPc, LoopLengths, Reading
<1>2. LoopClock'
  BY DEF LoopClock, LoopTyped, LoopAtPc
<1>3. LoopLengths'
  BY DEF LoopLengths, LoopTyped, LoopAtPc, Reading
<1>4. LoopAtPc'
  BY DEF LoopAtPc, LoopTyped, LoopLengths, Reading
<1>5. LoopRows'
  BY DEF LoopRows, LoopTyped, LoopAtPc, LoopLengths, Reading
<1>6. LoopRecords'
  BY DEF LoopRecords, LoopTyped, LoopAtPc, LoopLengths, Reading
<1> QED
  BY <1>1, <1>2, <1>3, <1>4, <1>5, <1>6 DEF LoopInv

LEMMA LoopStateOfStep == ASSUME LoopInv, Loop!StateOfStep PROVE LoopInv'
<1> USE LoopConstants
    DEF LoopInv, Loop!StateOfStep, Loop!Goes, Loop!envVars, Loop!policyVars,
        Loop!keyVars, Loop!SetState, Loop!HandOver
<1>1. LoopTyped'
  BY DEF LoopTyped, LoopAtPc, LoopLengths, Reading
<1>2. LoopClock'
  BY DEF LoopClock, LoopTyped, LoopAtPc
<1>3. LoopLengths'
  BY DEF LoopLengths, LoopTyped, LoopAtPc, Reading
<1>4. LoopAtPc'
  BY DEF LoopAtPc, LoopTyped, LoopLengths, Reading
<1>5. LoopRows'
  BY DEF LoopRows, LoopTyped, LoopAtPc, LoopLengths, Reading
<1>6. LoopRecords'
  BY DEF LoopRecords, LoopTyped, LoopAtPc, LoopLengths, Reading
<1> QED
  BY <1>1, <1>2, <1>3, <1>4, <1>5, <1>6 DEF LoopInv

LEMMA LoopSetStateRaises == ASSUME LoopInv, Loop!SetStateRaises PROVE LoopInv'
<1> USE LoopConstants
    DEF LoopInv, Loop!SetStateRaises, Loop!Goes, Loop!envVars, Loop!policyVars,
        Loop!keyVars
<1>1. LoopTyped'
  BY DEF LoopTyped, LoopAtPc, LoopLengths, Reading
<1>2. LoopClock'
  BY DEF LoopClock, LoopTyped, LoopAtPc
<1>3. LoopLengths'
  BY DEF LoopLengths, LoopTyped, LoopAtPc, Reading
<1>4. LoopAtPc'
  BY DEF LoopAtPc, LoopTyped, LoopLengths, Reading
<1>5. LoopRows'
  BY DEF LoopRows, LoopTyped, LoopAtPc, LoopLengths, Reading
<1>6. LoopRecords'
  BY DEF LoopRecords, LoopTyped, LoopAtPc, LoopLengths, Reading
<1> QED
  BY <1>1, <1>2, <1>3, <1>4, <1>5, <1>6 DEF LoopInv

LEMMA LoopCommandUpdate == ASSUME LoopInv, Loop!CommandUpdate PROVE LoopInv'
<1> USE LoopConstants
    DEF LoopInv, Loop!CommandUpdate, Loop!Goes, Loop!envVars, Loop!policyVars,
        Loop!keyVars
<1>1. LoopTyped'
  BY DEF LoopTyped, LoopAtPc, LoopLengths, Reading
<1>2. LoopClock'
  BY DEF LoopClock, LoopTyped, LoopAtPc
<1>3. LoopLengths'
  BY DEF LoopLengths, LoopTyped, LoopAtPc, Reading
<1>4. LoopAtPc'
  BY DEF LoopAtPc, LoopTyped, LoopLengths, Reading
<1>5. LoopRows'
  <2> DEFINE r == [state |-> latest.step, velocity |-> velocity]
  <2>1. rows' = Append(rows, r) /\ rows \in Seq([state : Int, velocity : 0..MaxKeys])
    BY DEF LoopTyped
  <2>2. /\ latest.step = step /\ Len(rows) = step /\ velocity = heard[step + 1]
        /\ step \in Nat /\ heard' = heard
    BY DEF LoopAtPc, LoopTyped, LoopLengths
  <2>3. r.state = step /\ r.velocity = heard[step + 1]
    BY <2>2
  <2> HIDE DEF r
  <2>4. /\ Len(rows') = step + 1 /\ rows'[step + 1] = r
        /\ \A i \in 1..step : rows'[i] = rows[i]
    BY <2>1, <2>2
  <2>5. \A i \in 1..step : rows[i].state = i - 1 /\ rows[i].velocity = heard[i]
    BY <2>2 DEF LoopRows
  <2>6. \A i \in 1..step + 1 : i \in 1..step \/ i = step + 1
    BY <2>2
  <2>7. \A i \in 1..step + 1 : rows'[i].state = i - 1 /\ rows'[i].velocity = heard[i]
    BY <2>2, <2>3, <2>4, <2>5, <2>6
  <2> QED
    BY <2>2, <2>4, <2>7 DEF LoopRows
<1>6. LoopRecords'
  BY DEF LoopRecords, LoopTyped, LoopAtPc, LoopLengths, Reading
<1> QED
  BY <1>1, <1>2, <1>3, <1>4, <1>5, <1>6 DEF LoopInv

LEMMA LoopPressKey == ASSUME LoopInv, Loop!PressKey PROVE LoopInv'
<1> USE LoopConstants
    DEF LoopInv, Loop!PressKey, Loop!Goes, Loop!envVars, Loop!policyVars, Loop!keyVars
<1>1. LoopTyped'
  BY DEF LoopTyped, LoopAtPc, LoopLengths, Reading
<1>2. LoopClock'
  BY DEF LoopClock, LoopTyped, LoopAtPc
<1>3. LoopLengths'
  BY DEF LoopLengths, LoopTyped, LoopAtPc, Reading
<1>4. LoopAtPc'
  BY DEF LoopAtPc, LoopTyped, LoopLengths, Reading
<1>5. LoopRows'
  BY DEF LoopRows, LoopTyped, LoopAtPc, LoopLengths, Reading
<1>6. LoopRecords'
  BY DEF LoopRecords, LoopTyped, LoopAtPc, LoopLengths, Reading
<1> QED
  BY <1>1, <1>2, <1>3, <1>4, <1>5, <1>6 DEF LoopInv

LEMMA LoopListenLoop == ASSUME LoopInv, Loop!ListenLoop PROVE LoopInv'
<1> USE LoopConstants
    DEF LoopInv, Loop!ListenLoop, Loop!Goes, Loop!envVars, Loop!policyVars,
        Loop!keyVars, Loop!LastStep, Loop!Publish
<1>1. LoopTyped'
  BY DEF LoopTyped, LoopAtPc, LoopLengths, Reading
<1>2. LoopClock'
  BY DEF LoopClock, LoopTyped, LoopAtPc
<1>3. LoopLengths'
  <2>1. /\ heard' = Append(heard, keys) /\ velocity' = keys
        /\ UNCHANGED <<rows, recorded>>
    OBVIOUS
  <2>2. heard \in Seq(0..MaxKeys) /\ keys \in 0..MaxKeys
    BY DEF LoopTyped
  <2>3. Len(heard') = Len(heard) + 1 /\ heard'[Len(heard')] = keys /\ Len(heard) \in Nat
    BY <2>1, <2>2
  <2>4. Len(rows) \in Nat
    BY DEF LoopTyped
  <2> QED
    BY <2>1, <2>3, <2>4 DEF LoopLengths
<1>4. LoopAtPc'
  <2>1. /\ Len(heard') = Len(heard) + 1 /\ pc = "listen"
        /\ pc' = IF step = Steps THEN "close" ELSE "command"
        /\ UNCHANGED <<resets, step, obs, latest, rows, recorded, saved>>
    BY DEF LoopTyped
  <2>2. CASE step = Steps
    BY <2>1, <2>2 DEF LoopAtPc, LoopTyped
  <2>3. CASE step # Steps
    BY <2>1, <2>3 DEF LoopAtPc, LoopTyped
  <2> QED
    BY <2>2, <2>3
<1>5. LoopRows'
  BY DEF LoopRows, LoopTyped, LoopAtPc, LoopLengths, Reading
<1>6. LoopRecords'
  BY DEF LoopRecords, LoopTyped, LoopAtPc, LoopLengths, Reading
<1> QED
  BY <1>1, <1>2, <1>3, <1>4, <1>5, <1>6 DEF LoopInv

LEMMA LoopCloseEnv == ASSUME LoopInv, Loop!CloseEnv PROVE LoopInv'
<1> USE LoopConstants
    DEF LoopInv, Loop!CloseEnv, Loop!Goes, Loop!envVars, Loop!policyVars, Loop!keyVars
<1>1. LoopTyped'
  BY DEF LoopTyped, LoopAtPc, LoopLengths, Reading
<1>2. LoopClock'
  BY DEF LoopClock, LoopTyped, LoopAtPc
<1>3. LoopLengths'
  BY DEF LoopLengths, LoopTyped, LoopAtPc, Reading
<1>4. LoopAtPc'
  BY DEF LoopAtPc, LoopTyped, LoopLengths, Reading
<1>5. LoopRows'
  BY DEF LoopRows, LoopTyped, LoopAtPc, LoopLengths, Reading
<1>6. LoopRecords'
  BY DEF LoopRecords, LoopTyped, LoopAtPc, LoopLengths, Reading
<1> QED
  BY <1>1, <1>2, <1>3, <1>4, <1>5, <1>6 DEF LoopInv

LEMMA LoopSave == ASSUME LoopInv, Loop!Save PROVE LoopInv'
<1> USE LoopConstants
    DEF LoopInv, Loop!Save, Loop!Goes, Loop!envVars, Loop!policyVars, Loop!keyVars
<1>1. LoopTyped'
  BY DEF LoopTyped, LoopAtPc, LoopLengths, Reading
<1>2. LoopClock'
  BY DEF LoopClock, LoopTyped, LoopAtPc
<1>3. LoopLengths'
  BY DEF LoopLengths, LoopTyped, LoopAtPc, Reading
<1>4. LoopAtPc'
  BY DEF LoopAtPc, LoopTyped, LoopLengths, Reading
<1>5. LoopRows'
  BY DEF LoopRows, LoopTyped, LoopAtPc, LoopLengths, Reading
<1>6. LoopRecords'
  BY DEF LoopRecords, LoopTyped, LoopAtPc, LoopLengths, Reading
<1> QED
  BY <1>1, <1>2, <1>3, <1>4, <1>5, <1>6 DEF LoopInv

LEMMA LoopInterrupt == ASSUME LoopInv, Loop!Interrupt PROVE LoopInv'
<1> USE LoopConstants
    DEF LoopInv, Loop!Interrupt, Loop!Goes, Loop!envVars, Loop!policyVars,
        Loop!keyVars
<1>1. LoopTyped'
  BY DEF LoopTyped, LoopAtPc, LoopLengths, Reading
<1>2. LoopClock'
  BY DEF LoopClock, LoopTyped, LoopAtPc
<1>3. LoopLengths'
  BY DEF LoopLengths, LoopTyped, LoopAtPc, Reading
<1>4. LoopAtPc'
  BY DEF LoopAtPc, LoopTyped, LoopLengths, Reading
<1>5. LoopRows'
  BY DEF LoopRows, LoopTyped, LoopAtPc, LoopLengths, Reading
<1>6. LoopRecords'
  BY DEF LoopRecords, LoopTyped, LoopAtPc, LoopLengths, Reading
<1> QED
  BY <1>1, <1>2, <1>3, <1>4, <1>5, <1>6 DEF LoopInv

LEMMA LoopStuttering == ASSUME LoopInv, UNCHANGED Loop!vars PROVE LoopInv'
BY DEF LoopInv, LoopTyped, LoopClock, LoopLengths, LoopAtPc, LoopRows, LoopRecords,
       Loop!vars, Loop!envVars, Loop!policyVars, Loop!keyVars

LEMMA LoopNext == LoopInv /\ [Loop!Next]_(Loop!vars) => LoopInv'
<1> SUFFICES ASSUME LoopInv, [Loop!Next]_(Loop!vars) PROVE LoopInv'
  OBVIOUS
<1>1. CASE Loop!Env
  BY <1>1, LoopFirstReset, LoopSecondReset, LoopEnvStep DEF Loop!Env
<1>2. CASE Loop!Controller
  BY <1>2, LoopFirstState, LoopStateOfStep, LoopSetStateRaises, LoopCommandUpdate
     DEF Loop!Controller
<1>3. CASE Loop!ListenLoop \/ Loop!CloseEnv \/ Loop!Save
  BY <1>3, LoopListenLoop, LoopCloseEnv, LoopSave
<1>4. CASE Loop!PressKey \/ Loop!Interrupt
  BY <1>4, LoopPressKey, LoopInterrupt
<1>5. CASE UNCHANGED Loop!vars
  BY <1>5, LoopStuttering
<1> QED
  BY <1>1, <1>2, <1>3, <1>4, <1>5 DEF Loop!Next, Loop!Main

\* The invariant holds for any number of steps and of keys.
THEOREM LoopInvariant == Loop!Spec => []LoopInv
<1>1. LoopInv /\ [Loop!Next]_(Loop!vars) => LoopInv'
  BY LoopNext
<1> QED
  BY LoopInit, <1>1, PTL DEF Loop!Spec

\* What the runs check follows from the invariant.
LEMMA LoopInvImplies == LoopInv => LockStep /\ RecordsBelongTogether
<1> SUFFICES ASSUME LoopInv PROVE LockStep /\ RecordsBelongTogether
  OBVIOUS
<1> USE LoopConstants DEF LoopInv
<1>1. Loop!TypeOK
  <2>1. simSteps \in 0..Steps * Decimation
    <3>1. step \in Nat /\ step <= Steps
      BY DEF LoopTyped
    <3>2. step * Decimation <= Steps * Decimation /\ step * Decimation \in Nat
      BY <3>1
    <3> QED
      BY <3>2 DEF LoopClock
  <2>2. Len(rows) <= Steps /\ Len(recorded) <= Steps
    BY DEF LoopLengths, LoopTyped
  <2> QED
    BY <2>1, <2>2 DEF Loop!TypeOK, LoopTyped, Reading
<1>2. Loop!LockStep
  BY DEF Loop!LockStep, LoopRows, LoopRecords
<1>3. Loop!KeysReachNextCommand
  BY DEF Loop!KeysReachNextCommand, LoopRows
<1>4. Loop!SavedIsWhole
  BY DEF Loop!SavedIsWhole, LoopAtPc
<1>5. Loop!RecordsBelongTogether
  <2> SUFFICES ASSUME NEW i \in 1..Len(recorded)
               PROVE  /\ recorded[i].obs = rows[recorded[i].action].state
                      /\ recorded[i].state = recorded[i].obs + 1
    BY DEF Loop!RecordsBelongTogether
  <2>1. recorded[i].obs = i - 1 /\ recorded[i].action = i /\ recorded[i].state = i
    BY DEF LoopRecords
  <2>2. i \in 1..Len(rows)
    <3>1. Len(recorded) \in Nat /\ Len(rows) \in Nat
      BY DEF LoopTyped
    <3>2. Len(recorded) <= Len(rows)
      BY DEF LoopLengths
    <3> QED
      BY <3>1, <3>2
  <2>3. rows[i].state = i - 1
    BY <2>2 DEF LoopRows
  <2> QED
    BY <2>1, <2>3
<1> QED
  BY <1>1, <1>2, <1>3, <1>4, <1>5 DEF LockStep, RecordsBelongTogether

\* Simulation, controller and keyboard move in step, and a saved log is whole.
THEOREM LoopInStep == Loop!Spec => []LockStep
BY LoopInvariant, LoopInvImplies, PTL

\* What is recorded of a step belongs together.
THEOREM RecordsTogether == Loop!Spec => []RecordsBelongTogether
BY LoopInvariant, LoopInvImplies, PTL
=============================================================================
