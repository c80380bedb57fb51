-------------------------- MODULE InputDevices_proof ------------------------
(***************************************************************************)
(* The velocity command of each input device, for every configuration: how *)
(* far the terminal's can be off its caps and off the keys; that a stick   *)
(* pushed further never slows the robot down, and that the median hides    *)
(* any minority of wrong samples; that keys held down in the pygame window *)
(* settle the velocity.                                                    *)
(***************************************************************************)
EXTENDS InputDevices, SequenceTheorems, FiniteSetTheorems, WellFoundedInduction, TLAPS

-----------------------------------------------------------------------------
(* The devices share nothing.                                              *)

\* A device that isn't used stays as it is, and the one that is used behaves as
\* its module says.
THEOREM DevicesApart == DevicesSpec => Spec /\ Pad!Spec /\ Pygame!Spec
<1>1. DevicesInit => Init /\ Pad!Init /\ Pygame!Init
  BY DEF DevicesInit
<1>2. [DevicesNext]_devicesVars =>
          [Next]_vars /\ [Pad!Next]_(Pad!vars) /\ [Pygame!Next]_(Pygame!vars)
  BY DEF DevicesNext, Terminal, PadStep, PygameStep, devicesVars, padVars, pygameVars,
         Pad!vars, Pygame!vars
<1> QED
  BY <1>1, <1>2, PTL DEF DevicesSpec, Spec, Pad!Spec, Pygame!Spec

-----------------------------------------------------------------------------
(* The terminal: its invariant.                                            *)

\* What a velocity can be: one key press over the cap.
Bounded == -(Max + Delta) .. Max + Delta

\* Velocities are over the cap only between a key and their capping.
VelocityInv ==
    /\ vel \in [AxisNumbers -> Bounded]
    /\ axis \in AxisNumbers
    /\ readPc # "cap" => \A a \in AxisNumbers : vel[a] \in -Max .. Max
    /\ readPc = "cap" => \A a \in 1..axis - 1 : vel[a] \in -Max .. Max

\* So is what was read of them.
ListInv ==
    /\ list \in Seq(Bounded)
    /\ listenPc = "make" => Len(list) < Axes
    /\ listenPc = "publish" => Len(list) = Axes
    /\ velocity_cmd \in [AxisNumbers -> Bounded]

\* Once a list that differs from the velocities was published, the next one is
\* made of these velocities alone.
StaleInv ==
    /\ stale \in {0, 1}
    /\ stale = 1 /\ listenPc \in {"make", "publish"} =>
          \A i \in 1..Len(list) : list[i] = vel[i]

\* The inductive invariant of the terminal.
KeyboardInv == VelocityInv /\ ListInv /\ StaleInv

-----------------------------------------------------------------------------
(* The terminal: steps of the two threads.                                 *)

\* What the bound is made of.
LEMMA Bounds ==
    /\ 0 \in -Max .. Max
    /\ -Max .. Max \subseteq Bounded
    /\ Bounded \subseteq Int
    /\ \A v \in -Max .. Max : v + Delta \in Bounded /\ v + (-Delta) \in Bounded
    /\ \A v \in Bounded : Capped(v) \in -Max .. Max
    /\ Max \in Nat /\ Axes \in Nat /\ Axes >= 1
  BY MaxAssumption, DeltaAssumption, AxesAssumption DEF Bounded, Capped

\* The input thread changes no list, and the listener no velocity.
LEMMA WhoWrites ==
    [Next]_vars =>
        \/ /\ Reader \/ Keys
           /\ UNCHANGED listenVars
        \/ UNCHANGED readVars
  BY DEF Next, Reader, Keys, Listener, Interrupted, CheckStopping, EndOfInput,
         MoveKey, StopKey, OtherKey, SetAxis, StopAxis, CapAxis, ControlC,
         ReaderFails, ListenStep, ListenWhile, ListenIf, MakeList, Publish,
         Sleep, vars

\* An axis is set to a value within the caps.
LEMMA AxisSet ==
    ASSUME NEW v \in -Max .. Max, NEW next \in {"cap", "check"}, VelocityInv,
           \/ readPc = "stop" /\ next = "cap"
           \/ readPc = "cap" /\ next = "check",
           SetAxis(v, next)
    PROVE  VelocityInv'
<1>1. /\ vel' = [vel EXCEPT ![axis] = v]
      /\ axis \in AxisNumbers /\ axis \in Nat /\ Axes \in Nat
      /\ AxisNumbers = 1..Axes
  BY AxesAssumption DEF SetAxis, VelocityInv, AxisNumbers
<1>2. vel' \in [AxisNumbers -> Bounded] /\ vel'[axis] = v
  BY <1>1, Bounds DEF VelocityInv
<1>3. \A a \in AxisNumbers : a # axis => vel'[a] = vel[a]
  BY <1>1 DEF VelocityInv
<1>4. \/ axis < Axes /\ axis' = axis + 1 /\ readPc' = readPc
      \/ ~(axis < Axes) /\ axis' = 1 /\ readPc' = next
  BY DEF SetAxis
<1>5. axis' \in AxisNumbers
  BY <1>1, <1>4, AxesAssumption
<1>6. CASE readPc = "stop"
  <2>1. \A a \in AxisNumbers : vel'[a] \in -Max .. Max
    BY <1>2, <1>3, <1>6 DEF VelocityInv
  <2>2. readPc' = "cap" => axis' = 1
    BY <1>4, <1>6
  <2> QED
    BY <1>2, <1>5, <2>1, <2>2 DEF VelocityInv
<1>7. CASE readPc = "cap"
  <2>1. \A a \in 1..axis : vel'[a] \in -Max .. Max
    <3> SUFFICES ASSUME NEW a \in 1..axis PROVE vel'[a] \in -Max .. Max
      OBVIOUS
    <3>1. a \in AxisNumbers /\ (a = axis \/ a \in 1..axis - 1)
      BY <1>1
    <3> QED
      BY <1>2, <1>3, <1>7, <3>1 DEF VelocityInv
  <2>2. CASE axis < Axes
    <3>1. axis' - 1 = axis /\ readPc' = "cap"
      BY <1>1, <1>4, <1>7, <2>2
    <3> QED
      BY <1>2, <1>5, <2>1, <3>1 DEF VelocityInv
  <2>3. CASE ~(axis < Axes)
    <3>1. axis = Axes /\ readPc' = "check"
      BY <1>1, <1>4, <1>7, <2>3
    <3> QED
      BY <1>1, <1>2, <1>5, <2>1, <3>1 DEF VelocityInv
  <2> QED
    BY <2>2, <2>3
<1> QED
  BY <1>6, <1>7

\* Keys take the velocities over the caps by one press, and capping takes them
\* back before the next key is read.
LEMMA VelocityStep == VelocityInv /\ [Next]_vars => VelocityInv'
<1> SUFFICES ASSUME VelocityInv, [Next]_vars PROVE VelocityInv'
    OBVIOUS
<1>1. CASE CheckStopping \/ EndOfInput \/ StopKey \/ ControlC \/ ReaderFails
  <2>1. /\ readPc # "cap" /\ readPc' # "cap"
        /\ UNCHANGED vel
        /\ axis' = axis \/ axis' = 1
    BY <1>1 DEF CheckStopping, EndOfInput, StopKey, ControlC, ReaderFails
  <2> QED
    BY <2>1, AxesAssumption DEF VelocityInv, AxisNumbers
<1>2. CASE OtherKey
  BY <1>2, AxesAssumption DEF OtherKey, VelocityInv, AxisNumbers
<1>3. CASE MoveKey
  <2>1. PICK a \in AxisNumbers, d \in {-Delta, Delta} :
           /\ readPc = "read" /\ readPc' = "cap" /\ axis' = 1
           /\ vel' = [vel EXCEPT ![a] = @ + d]
    BY <1>3 DEF MoveKey
  <2>2. vel[a] \in -Max .. Max
    BY <2>1 DEF VelocityInv
  <2>3. vel[a] + d \in Bounded
    BY <2>2, Bounds
  <2>4. vel' \in [AxisNumbers -> Bounded]
    BY <2>1, <2>3 DEF VelocityInv
  <2>5. 1 \in AxisNumbers /\ 1..(1 - 1) = {}
    BY AxesAssumption DEF AxisNumbers
  <2> QED
    BY <2>1, <2>4, <2>5 DEF VelocityInv
<1>4. CASE StopAxis
  <2>1. readPc = "stop" /\ SetAxis(0, "cap")
    BY <1>4 DEF StopAxis
  <2> QED
    BY <2>1, AxisSet, Bounds
<1>5. CASE CapAxis
  <2>1. readPc = "cap" /\ SetAxis(Capped(vel[axis]), "check")
    BY <1>5 DEF CapAxis
  <2>2. Capped(vel[axis]) \in -Max .. Max
    BY Bounds DEF VelocityInv
  <2> QED
    BY <2>1, <2>2, AxisSet
<1>6. CASE UNCHANGED readVars
  BY <1>6 DEF readVars, VelocityInv
<1> QED
  BY <1>1, <1>2, <1>3, <1>4, <1>5, <1>6, WhoWrites DEF Reader, Keys

\* What the listener's steps do to its list.
LEMMA ListenKinds ==
    [Next]_vars =>
        \/ MakeList
        \/ Publish
        \/ ListenIf
        \/ /\ UNCHANGED <<list, velocity_cmd>>
           /\ listenPc' = listenPc \/ listenPc' \notin {"make", "publish"}
  BY DEF Next, Reader, Keys, Listener, Interrupted, CheckStopping, EndOfInput,
         MoveKey, StopKey, OtherKey, SetAxis, StopAxis, CapAxis, ControlC,
         ReaderFails, ListenStep, ListenWhile, Sleep, vars, listenVars

\* A list grows by the velocity of its next axis.
LEMMA ListGrows ==
    ASSUME VelocityInv, ListInv, MakeList
    PROVE  /\ list' \in Seq(Bounded)
           /\ Len(list) \in Nat /\ Len(list) < Axes
           /\ Len(list') = Len(list) + 1
           /\ \A i \in 1..Len(list) : list'[i] = list[i]
           /\ list'[Len(list) + 1] = vel[Len(list) + 1]
<1>1. /\ list \in Seq(Bounded) /\ Len(list) \in Nat /\ Len(list) < Axes
      /\ list' = Append(list, vel[Len(list) + 1])
  BY DEF ListInv, MakeList, ListenStep
<1>2. vel[Len(list) + 1] \in Bounded
  BY <1>1, AxesAssumption DEF VelocityInv, AxisNumbers
<1> QED
  BY <1>1, <1>2, AppendProperties

\* A full list is a velocity for each axis.
LEMMA FullList ==
    ASSUME ListInv, Len(list) = Axes
    PROVE  list \in [AxisNumbers -> Bounded]
  BY LenProperties DEF ListInv, AxisNumbers

\* Lists are made of velocities, and published when they are full.
LEMMA ListStep == VelocityInv /\ ListInv /\ [Next]_vars => ListInv'
<1> SUFFICES ASSUME VelocityInv, ListInv, [Next]_vars PROVE ListInv'
    OBVIOUS
<1>1. CASE MakeList
  <2>1. /\ UNCHANGED velocity_cmd
        /\ listenPc' = IF Len(list) + 1 < Axes THEN "make" ELSE "publish"
    BY <1>1 DEF MakeList, ListenStep
  <2> QED
    BY <1>1, <2>1, ListGrows, AxesAssumption DEF ListInv
<1>2. CASE Publish
  <2>1. /\ Len(list) = Axes
        /\ velocity_cmd' = list /\ list' = list /\ listenPc' = "sleep"
    BY <1>2 DEF Publish, ListenStep, ListInv
  <2> QED
    BY <2>1, FullList DEF ListInv
<1>3. CASE ListenIf
  <2>1. list' = <<>> /\ UNCHANGED velocity_cmd /\ listenPc' # "publish"
    BY <1>3 DEF ListenIf, ListenStep
  <2> QED
    BY <2>1, AxesAssumption DEF ListInv
<1>4. CASE /\ UNCHANGED <<list, velocity_cmd>>
           /\ listenPc' = listenPc \/ listenPc' \notin {"make", "publish"}
  BY <1>4 DEF ListInv
<1> QED
  BY <1>1, <1>2, <1>3, <1>4, ListenKinds

\* A change of the velocities starts the count over.
LEMMA StaleKinds ==
    [Next]_vars =>
        \/ UNCHANGED listenVars /\ stale' = 0
        \/ UNCHANGED <<vel, listenVars, stale>>
        \/ MakeList
        \/ Publish
        \/ ListenIf
        \/ /\ UNCHANGED <<vel, list, stale>>
           /\ listenPc' \notin {"make", "publish"}
<1> SUFFICES ASSUME [Next]_vars, ~MakeList, ~Publish, ~ListenIf
             PROVE  \/ UNCHANGED listenVars /\ stale' = 0
                    \/ UNCHANGED <<vel, listenVars, stale>>
                    \/ /\ UNCHANGED <<vel, list, stale>>
                       /\ listenPc' \notin {"make", "publish"}
    OBVIOUS
<1>1. CASE StopAxis \/ CapAxis
  BY <1>1 DEF StopAxis, CapAxis, SetAxis
<1>2. CASE Keys \/ CheckStopping
  BY <1>2 DEF Keys, CheckStopping, EndOfInput, MoveKey, StopKey, OtherKey, ControlC,
              ReaderFails
<1>3. CASE ListenWhile \/ Sleep \/ Interrupted
  BY <1>3 DEF ListenWhile, Sleep, Interrupted, ListenStep, readVars
<1>4. CASE UNCHANGED vars
  BY <1>4 DEF vars, readVars
<1> QED
  BY <1>1, <1>2, <1>3, <1>4 DEF Next, Reader, Listener

\* A list made since the last change of the velocities is the velocities.
LEMMA StaleStep ==
    VelocityInv /\ ListInv /\ StaleInv /\ [Next]_vars => StaleInv'
<1> SUFFICES ASSUME VelocityInv, ListInv, StaleInv, [Next]_vars PROVE StaleInv'
    OBVIOUS
<1>1. CASE UNCHANGED listenVars /\ stale' = 0
  BY <1>1 DEF StaleInv
<1>2. CASE UNCHANGED <<vel, listenVars, stale>>
  BY <1>2 DEF StaleInv, listenVars
<1>3. CASE MakeList
  <2>1. UNCHANGED <<vel, stale>> /\ listenPc = "make"
    BY <1>3 DEF MakeList, ListenStep, readVars
  <2>2. ASSUME stale = 1, NEW i \in 1..Len(list) + 1
        PROVE  list'[i] = vel[i]
    <3>1. i \in 1..Len(list) \/ i = Len(list) + 1
      BY <1>3, ListGrows
    <3> QED
      BY <1>3, <2>1, <2>2, <3>1, ListGrows DEF StaleInv
  <2> QED
    BY <1>3, <2>1, <2>2, ListGrows DEF StaleInv
<1>4. CASE Publish
  <2>1. /\ listenPc = "publish" /\ listenPc' = "sleep"
        /\ stale' = IF list = vel THEN stale ELSE stale + 1
    BY <1>4 DEF Publish, ListenStep
  <2>2. stale = 1 => list = vel
    <3> SUFFICES ASSUME stale = 1 PROVE list = vel
      OBVIOUS
    <3>1. Len(list) = Axes /\ \A i \in AxisNumbers : list[i] = vel[i]
      BY <2>1 DEF StaleInv, ListInv, AxisNumbers
    <3>2. list \in [AxisNumbers -> Bounded] /\ vel \in [AxisNumbers -> Bounded]
      BY <3>1, FullList DEF VelocityInv
    <3> QED
      BY <3>1, <3>2
  <2> QED
    BY <2>1, <2>2 DEF StaleInv
<1>5. CASE ListenIf
  <2>1. list' = <<>> /\ UNCHANGED stale
    BY <1>5 DEF ListenIf
  <2> QED
    BY <2>1 DEF StaleInv
<1>6. CASE UNCHANGED <<vel, list, stale>> /\ listenPc' \notin {"make", "publish"}
  BY <1>6 DEF StaleInv
<1> QED
  BY <1>1, <1>2, <1>3, <1>4, <1>5, <1>6, StaleKinds

-----------------------------------------------------------------------------
(* The terminal: what follows.                                             *)

\* The robot stands still, and no list is made, when listen() is called.
LEMMA KeyboardInit == Init => KeyboardInv
<1> SUFFICES ASSUME Init PROVE KeyboardInv
    OBVIOUS
<1>1. Zero \in [AxisNumbers -> Bounded] /\ \A a \in AxisNumbers : Zero[a] = 0
  BY Bounds DEF Zero
<1>2. VelocityInv
  BY <1>1, Bounds DEF Init, VelocityInv, AxisNumbers
<1>3. ListInv
  BY <1>1 DEF Init, ListInv
<1>4. StaleInv
  BY DEF Init, StaleInv
<1> QED
  BY <1>2, <1>3, <1>4 DEF KeyboardInv

\* The invariant is inductive.
THEOREM KeyboardInvariant == Spec => []KeyboardInv
<1>1. KeyboardInv /\ [Next]_vars => KeyboardInv'
  BY VelocityStep, ListStep, StaleStep DEF KeyboardInv
<1> QED
  BY <1>1, KeyboardInit, PTL DEF Spec

\* The threads' places and the keys, value by value; the rest of TypeOK follows
\* from KeyboardInv.
PlacesOK ==
    /\ _stopping \in BOOLEAN /\ readPc \in ReadPcs /\ listenPc \in ListenPcs
    /\ lastKey \in {"none", "move", "stop"}

\* Each step leads to a place there is.
LEMMA PlacesStep == PlacesOK /\ [Next]_vars => PlacesOK'
<1> SUFFICES ASSUME PlacesOK, [Next]_vars PROVE PlacesOK'
    OBVIOUS
<1>1. CASE Reader
  BY <1>1 DEF Reader, CheckStopping, StopAxis, CapAxis, SetAxis, listenVars,
              PlacesOK, ReadPcs
<1>2. CASE Keys
  BY <1>2 DEF Keys, EndOfInput, MoveKey, StopKey, OtherKey, ControlC, ReaderFails,
              listenVars, PlacesOK, ReadPcs
<1>3. CASE Listener \/ Interrupted
  BY <1>3 DEF Listener, ListenWhile, ListenIf, MakeList, Publish, Sleep, ListenStep,
              Interrupted, readVars, PlacesOK, ListenPcs
<1>4. CASE UNCHANGED vars
  BY <1>4 DEF vars, readVars, listenVars, PlacesOK
<1> QED
  BY <1>1, <1>2, <1>3, <1>4 DEF Next

\* Numbers within the bound are numbers.
LEMMA KeyboardTyped == KeyboardInv /\ PlacesOK => TypeOK
<1> SUFFICES ASSUME KeyboardInv, PlacesOK PROVE TypeOK
    OBVIOUS
<1>1. Bounded \subseteq Int
  BY Bounds
<1>2. vel \in [AxisNumbers -> Int] /\ velocity_cmd \in [AxisNumbers -> Int]
  BY <1>1 DEF KeyboardInv, VelocityInv, ListInv
<1>3. list \in Seq(Int) /\ (listenPc = "publish" => Len(list) = Axes)
  BY <1>1, SeqMonotonic DEF KeyboardInv, ListInv
<1>4. axis \in AxisNumbers /\ stale \in Nat
  BY DEF KeyboardInv, VelocityInv, StaleInv
<1> QED
  BY <1>2, <1>3, <1>4 DEF PlacesOK, TypeOK

\* The terminal's keyboard: types, caps and commands as KeysCapped has them.
THEOREM CapsHold == Spec => []KeysCapped
<1>1. KeyboardInv => CappedBetweenKeys /\ CommandBounded
  BY DEF KeyboardInv, VelocityInv, ListInv, Bounded, CappedBetweenKeys, CommandBounded
<1>2. Init => PlacesOK
  BY DEF Init, PlacesOK, ReadPcs, ListenPcs
<1>3. Spec => []PlacesOK
  BY <1>2, PlacesStep, PTL DEF Spec
<1>4. KeyboardInv /\ PlacesOK => KeysCapped
  BY <1>1, KeyboardTyped DEF KeysCapped
<1> QED
  BY <1>3, <1>4, KeyboardInvariant, PTL

\* When the velocities rest, at most one list that differs from them is
\* published, however many axes there are.
THEOREM StaleAtMostOnce == Spec => []StaleOnce
<1>1. KeyboardInv => StaleOnce
  BY DEF KeyboardInv, StaleInv, StaleOnce
<1> QED
  BY <1>1, KeyboardInvariant, PTL

-----------------------------------------------------------------------------
(* The window: its invariant, and what follows.                            *)

\* While the same keys are held, the velocity is at its end or has come nearer by
\* one step in each of the loops since they changed.
HeldInv ==
    \A a \in WindowAxes :
        /\ Pygame!Stop \in held => since = 0 \/ key_vel[a] = 0
        /\ Pygame!Stop \notin held /\ Pygame!Plus(a) \in held =>
              key_vel[a] = MaxPlus[a] \/ key_vel[a] >= since - MaxMinus[a]
        /\ Pygame!Stop \notin held /\ Pygame!Plus(a) \notin held /\ Pygame!Minus(a) \in held =>
              key_vel[a] = -MaxMinus[a] \/ key_vel[a] <= MaxPlus[a] - since

\* The inductive invariant of the pygame window.
WindowInv ==
    /\ Pygame!TypeOK
    /\ DOMAIN key_vel = WindowAxes
    /\ HeldInv

\* No axis has further to go than Span.
LEMMA Limits ==
    /\ Pygame!Span \in Nat
    /\ \A a \in WindowAxes : /\ MaxPlus[a] \in Nat /\ MaxMinus[a] \in Nat
                             /\ MaxPlus[a] + MaxMinus[a] <= Pygame!Span
<1> DEFINE spans == {MaxPlus[a] + MaxMinus[a] : a \in WindowAxes}
<1>1. \A a \in WindowAxes : MaxPlus[a] \in Nat /\ MaxMinus[a] \in Nat
  <2>1. MaxPlus \in [WindowAxes -> Nat] /\ MaxMinus \in [WindowAxes -> Nat]
    BY PygameAssumption DEF Pygame!Assumptions
  <2>2. QED
    BY <2>1
<1>2. PICK b \in WindowAxes : \A a \in WindowAxes :
          MaxPlus[a] + MaxMinus[a] <= MaxPlus[b] + MaxMinus[b]
  BY PygameAssumption DEF Pygame!Assumptions
<1>3. \E n \in spans : \A m \in spans : m <= n
  BY <1>2
<1>4. Pygame!Span \in spans /\ \A m \in spans : m <= Pygame!Span
  BY <1>3 DEF Pygame!Span
<1>5. QED
  BY <1>1, <1>4

\* No key is held, and the robot stands still.
LEMMA WindowInit == Pygame!Init => WindowInv
<1> SUFFICES ASSUME Pygame!Init PROVE WindowInv
  OBVIOUS
<1>1. /\ held = {} /\ quit = FALSE /\ key_vel = [a \in WindowAxes |-> 0]
      /\ key_cmd = key_vel /\ key_stopping = FALSE /\ since = 0
  BY DEF Pygame!Init
<1>2. \A a \in WindowAxes : key_vel[a] \in -MaxMinus[a]..MaxPlus[a]
  BY <1>1, Limits
<1>3. 0 \in 0..Pygame!Span
  BY Limits
<1>4. Pygame!TypeOK
  BY <1>1, <1>2, <1>3 DEF Pygame!TypeOK
<1>5. HeldInv
  BY <1>1 DEF HeldInv
<1>6. QED
  BY <1>1, <1>4, <1>5 DEF WindowInv

\* The keys change, and the loops are counted anew.
LEMMA KeysChange ==
    ASSUME WindowInv, since' = 0, UNCHANGED key_vel
    PROVE  HeldInv'
<1>1. \A a \in WindowAxes : key_vel'[a] \in -MaxMinus[a]..MaxPlus[a]
  BY DEF WindowInv, Pygame!TypeOK
<1>2. QED
  BY <1>1, Limits DEF HeldInv

\* A velocity is capped at the end of its axis.
LEMMA CapKeeps ==
    ASSUME NEW a \in WindowAxes, NEW v \in Int
    PROVE  /\ Pygame!Cap(a, v) \in -MaxMinus[a]..MaxPlus[a]
           /\ v \in -MaxMinus[a]..MaxPlus[a] => Pygame!Cap(a, v) = v
           /\ v > MaxPlus[a] => Pygame!Cap(a, v) = MaxPlus[a]
           /\ v < -MaxMinus[a] => Pygame!Cap(a, v) = -MaxMinus[a]
BY Limits DEF Pygame!Cap

\* A loop moves each axis by a step, unless it is at its end.
LEMMA LoopKeeps ==
    ASSUME WindowInv, Pygame!ListenLoop
    PROVE  WindowInv'
<1>1. /\ key_vel' = [a \in WindowAxes |-> Pygame!Cap(a, Pygame!Target(a))]
      /\ key_cmd' = key_vel' /\ held' = held /\ quit' \in BOOLEAN
      /\ key_stopping' \in BOOLEAN
      /\ since' = IF since < Pygame!Span THEN since + 1 ELSE since
  BY DEF Pygame!ListenLoop, WindowInv, Pygame!TypeOK
<1>2. since \in Nat /\ since <= Pygame!Span /\ since' \in 0..Pygame!Span /\ since' <= since + 1
  BY <1>1, Limits DEF WindowInv, Pygame!TypeOK
<1>3. ASSUME NEW a \in WindowAxes
      PROVE  /\ key_vel[a] \in Int /\ key_vel[a] >= -MaxMinus[a] /\ key_vel[a] <= MaxPlus[a]
             /\ MaxPlus[a] \in Nat /\ MaxMinus[a] \in Nat
             /\ MaxPlus[a] + MaxMinus[a] <= Pygame!Span
             /\ Pygame!Steps(a) \in {-1, 0, 1} /\ Pygame!Target(a) \in Int
  <2>1. key_vel[a] \in -MaxMinus[a]..MaxPlus[a]
    BY DEF WindowInv, Pygame!TypeOK
  <2>2. QED
    BY <2>1, Limits DEF Pygame!Steps, Pygame!Target
<1>4. Pygame!TypeOK'
  <2>1. \A a \in WindowAxes : key_vel'[a] \in -MaxMinus[a]..MaxPlus[a]
    BY <1>1, <1>3, CapKeeps
  <2>2. QED
    BY <1>1, <1>2, <2>1 DEF WindowInv, Pygame!TypeOK
<1>5. HeldInv'
  <2> SUFFICES ASSUME NEW a \in WindowAxes
               PROVE  /\ Pygame!Stop \in held => since' = 0 \/ key_vel'[a] = 0
                      /\ Pygame!Stop \notin held /\ Pygame!Plus(a) \in held =>
                            \/ key_vel'[a] = MaxPlus[a]
                            \/ key_vel'[a] >= since' - MaxMinus[a]
                      /\ Pygame!Stop \notin held /\ Pygame!Plus(a) \notin held
                         /\ Pygame!Minus(a) \in held =>
                            \/ key_vel'[a] = -MaxMinus[a]
                            \/ key_vel'[a] <= MaxPlus[a] - since'
    BY <1>1 DEF HeldInv
  <2>1. key_vel'[a] = Pygame!Cap(a, Pygame!Target(a))
    BY <1>1
  <2>2. CASE Pygame!Stop \in held
    <3>1. Pygame!Target(a) = 0
      BY <2>2 DEF Pygame!Target
    <3>2. 0 \in -MaxMinus[a]..MaxPlus[a]
      BY <1>3
    <3>3. QED
      BY <2>1, <2>2, <3>1, <3>2, CapKeeps
  <2>3. CASE Pygame!Stop \notin held /\ Pygame!Plus(a) \in held
    <3>1. Pygame!Target(a) = key_vel[a] + 1
      BY <2>3 DEF Pygame!Target, Pygame!Steps
    <3>2. key_vel[a] = MaxPlus[a] \/ key_vel[a] >= since - MaxMinus[a]
      BY <2>3 DEF WindowInv, HeldInv
    <3>3. key_vel'[a] = IF key_vel[a] = MaxPlus[a] THEN MaxPlus[a] ELSE key_vel[a] + 1
      BY <1>3, <2>1, <3>1 DEF Pygame!Cap
    <3>4. QED
      BY <1>2, <1>3, <2>3, <3>2, <3>3
  <2>4. CASE Pygame!Stop \notin held /\ Pygame!Plus(a) \notin held
             /\ Pygame!Minus(a) \in held
    <3>1. Pygame!Target(a) = key_vel[a] - 1
      BY <1>3, <2>4 DEF Pygame!Target, Pygame!Steps
    <3>2. key_vel[a] = -MaxMinus[a] \/ key_vel[a] <= MaxPlus[a] - since
      BY <2>4 DEF WindowInv, HeldInv
    <3>3. key_vel'[a] = IF key_vel[a] = -MaxMinus[a] THEN -MaxMinus[a] ELSE key_vel[a] - 1
      BY <1>3, <2>1, <3>1 DEF Pygame!Cap
    <3>4. QED
      BY <1>2, <1>3, <2>4, <3>2, <3>3
  <2>5. QED
    BY <2>2, <2>3, <2>4
<1>6. QED
  BY <1>1, <1>4, <1>5 DEF WindowInv

\* Whatever keys go down and up, in the window as in its loops.
THEOREM WindowInvariant == Pygame!Spec => []WindowInv
<1>1. WindowInv /\ [Pygame!Next]_(Pygame!vars) => WindowInv'
  <2> SUFFICES ASSUME WindowInv, [Pygame!Next]_(Pygame!vars) PROVE WindowInv'
    OBVIOUS
  <2>1. 0 \in 0..Pygame!Span
    BY Limits
  <2>2. CASE Pygame!KeyDown
    <3>1. HeldInv'
      BY <2>2, KeysChange DEF Pygame!KeyDown
    <3>2. QED
      BY <2>1, <2>2, <3>1 DEF Pygame!KeyDown, WindowInv, Pygame!TypeOK
  <2>3. CASE Pygame!KeyUp
    <3>1. HeldInv'
      BY <2>3, KeysChange DEF Pygame!KeyUp
    <3>2. QED
      BY <2>1, <2>3, <3>1 DEF Pygame!KeyUp, WindowInv, Pygame!TypeOK
  <2>4. CASE Pygame!CloseWindow
    BY <2>4 DEF Pygame!CloseWindow, WindowInv, HeldInv, Pygame!TypeOK
  <2>5. CASE Pygame!ListenLoop
    BY <2>5, LoopKeeps
  <2>6. CASE UNCHANGED Pygame!vars
    BY <2>6 DEF Pygame!vars, WindowInv, HeldInv, Pygame!TypeOK
  <2>7. QED
    BY <2>2, <2>3, <2>4, <2>5, <2>6 DEF Pygame!Next
<1>2. QED
  BY WindowInit, <1>1, PTL DEF Pygame!Spec

\* Keys held for as many loops as the widest axis has steps have settled every
\* velocity: zero, or the end of the axis, whatever it was before.
THEOREM KeysSettle == Pygame!Spec => []HeldKeysSettle
<1>1. WindowInv => HeldKeysSettle
  <2> SUFFICES ASSUME WindowInv, since = Pygame!Span, NEW a \in WindowAxes
               PROVE  key_cmd[a] \in
                         CASE Pygame!Stop \in held -> {0}
                           [] Pygame!Stop \notin held /\ Pygame!Plus(a) \in held ->
                                 {MaxPlus[a]}
                           [] /\ Pygame!Stop \notin held
                              /\ Pygame!Plus(a) \notin held
                              /\ Pygame!Minus(a) \in held -> {-MaxMinus[a]}
                           [] OTHER -> -MaxMinus[a]..MaxPlus[a]
    BY DEF WindowInv, HeldKeysSettle, Pygame!HeldKeysSettle
  <2>1. key_cmd[a] = key_vel[a] /\ key_vel[a] \in -MaxMinus[a]..MaxPlus[a]
    BY DEF WindowInv, Pygame!TypeOK
  <2>2. /\ MaxPlus[a] \in Nat /\ MaxMinus[a] \in Nat
        /\ MaxPlus[a] + MaxMinus[a] <= since /\ since \in Nat
    BY Limits
  <2>3. CASE Pygame!Stop \in held
    <3>1. key_vel[a] = 0
      BY <2>1, <2>2, <2>3 DEF WindowInv, HeldInv
    <3>2. QED
      BY <2>1, <2>3, <3>1
  <2>4. CASE Pygame!Stop \notin held /\ Pygame!Plus(a) \in held
    <3>1. key_vel[a] = MaxPlus[a]
      BY <2>1, <2>2, <2>4 DEF WindowInv, HeldInv
    <3>2. QED
      BY <2>1, <2>4, <3>1
  <2>5. CASE Pygame!Stop \notin held /\ Pygame!Plus(a) \notin held
             /\ Pygame!Minus(a) \in held
    <3>1. key_vel[a] = -MaxMinus[a]
      BY <2>1, <2>2, <2>5 DEF WindowInv, HeldInv
    <3>2. QED
      BY <2>1, <2>5, <3>1
  <2>6. CASE Pygame!Stop \notin held /\ Pygame!Plus(a) \notin held
             /\ Pygame!Minus(a) \notin held
    BY <2>1, <2>6
  <2>7. QED
    BY <2>3, <2>4, <2>5, <2>6
<1>2. QED
  BY WindowInvariant, <1>1, PTL

-----------------------------------------------------------------------------
(* The gamepad: the curve.                                                 *)

\* What an AxisConfig is made of.
LEMMA Axis ==
    ASSUME NEW c \in Configs
    PROVE  /\ Full \in Nat /\ Full >= 1 /\ c.deadband \in Nat
           /\ c.deadband >= 1 /\ c.deadband < Full
           /\ c.inverted \in BOOLEAN
           /\ c.min_forward_dir \in Nat /\ c.max_forward_dir \in Nat
           /\ c.min_forward_dir <= c.max_forward_dir
           /\ c.min_reverse_dir \in Nat /\ c.max_reverse_dir \in Nat
           /\ c.min_reverse_dir <= c.max_reverse_dir
<1>1. Full \in Nat /\ Full # 0
  BY PadAssumption DEF Pad!Assumptions
<1>2. /\ c.max_forward_dir \in Nat /\ c.max_reverse_dir \in Nat
      /\ c.inverted \in BOOLEAN /\ c.deadband \in 1..Full - 1
      /\ c.min_forward_dir \in 0..c.max_forward_dir
      /\ c.min_reverse_dir \in 0..c.max_reverse_dir
  BY PadAssumption DEF Pad!Assumptions
<1>3. QED
  BY <1>1, <1>2

\* A multiple that isn't negative keeps the order.
LEMMA ProductUp ==
    ASSUME NEW d \in Nat, NEW v \in Int, NEW w \in Int, v <= w
    PROVE  d * v \in Int /\ d * w \in Int /\ d * v <= d * w
OBVIOUS

\* A line goes up.
LEMMA LineUp ==
    ASSUME NEW c \in Configs, NEW min \in Nat, NEW max \in Nat, min <= max,
           NEW v \in Int, NEW w \in Int, v <= w
    PROVE  /\ Pad!Line(v, min, max, c) \in Int /\ Pad!Line(w, min, max, c) \in Int
           /\ Pad!Line(v, min, max, c) <= Pad!Line(w, min, max, c)
<1> DEFINE d == max - min
           a == d * v
           b == d * w
           e == max * (Full - c.deadband) - d * Full
<1>1. d \in Nat
  OBVIOUS
<1>2. a \in Int /\ b \in Int /\ a <= b
  BY <1>1, ProductUp
<1>3. e \in Int
  <2>1. Full - c.deadband \in Int /\ Full \in Int
    BY Axis
  <2>2. max * (Full - c.deadband) \in Int /\ d * Full \in Int
    BY <2>1, <1>1
  <2>3. QED
    BY <2>2
<1>4. /\ Pad!Line(v, min, max, c) = 2 * (a + max * (Full - c.deadband) - d * Full)
      /\ Pad!Line(w, min, max, c) = 2 * (b + max * (Full - c.deadband) - d * Full)
  BY DEF Pad!Line
<1>5. /\ a + max * (Full - c.deadband) - d * Full = a + e
      /\ b + max * (Full - c.deadband) - d * Full = b + e
  <2>1. Full - c.deadband \in Int /\ Full \in Int
    BY Axis
  <2>2. max * (Full - c.deadband) \in Int /\ d * Full \in Int
    BY <2>1, <1>1
  <2> DEFINE x == max * (Full - c.deadband)
             y == d * Full
  <2>3. x \in Int /\ y \in Int /\ e = x - y
    BY <2>2
  <2> HIDE DEF x, y, a, b, e
  <2>4. a + x - y = a + e /\ b + x - y = b + e
    BY <1>2, <2>3
  <2>5. QED
    BY <2>4 DEF x, y
<1> HIDE DEF a, b, d, e
<1>6. 2 * (a + e) \in Int /\ 2 * (b + e) \in Int /\ 2 * (a + e) <= 2 * (b + e)
  BY <1>2, <1>3
<1>7. QED
  BY <1>4, <1>5, <1>6

\* np.clip keeps the order.
LEMMA ClipUp ==
    ASSUME NEW low \in Int, NEW high \in Int, low <= high,
           NEW x \in Int, NEW y \in Int, x <= y
    PROVE  /\ Pad!Clip(x, low, high) \in low..high
           /\ Pad!Clip(y, low, high) \in low..high
           /\ Pad!Clip(x, low, high) <= Pad!Clip(y, low, high)
BY DEF Pad!Clip

\* The two branches go up, one above zero, the other below it.
LEMMA Branches ==
    ASSUME NEW c \in Configs, NEW v \in Int, NEW w \in Int, v <= w
    PROVE  /\ Pad!Scale(c) \in Nat
           /\ c.max_forward_dir * Pad!Scale(c) \in Nat
           /\ c.max_reverse_dir * Pad!Scale(c) \in Nat
           /\ Pad!ForwardCurve(v, c) \in 0..c.max_forward_dir * Pad!Scale(c)
           /\ Pad!ForwardCurve(v, c) <= Pad!ForwardCurve(w, c)
           /\ Pad!ReverseCurve(v, c) \in -(c.max_reverse_dir * Pad!Scale(c))..0
           /\ Pad!ReverseCurve(v, c) <= Pad!ReverseCurve(w, c)
<1> DEFINE s == Pad!Scale(c)
           fl == c.min_forward_dir * s
           fh == c.max_forward_dir * s
           rl == c.min_reverse_dir * s
           rh == c.max_reverse_dir * s
<1>1. s \in Nat
  BY Axis DEF Pad!Scale
<1> HIDE DEF s
<1>2. fl \in Nat /\ fh \in Nat /\ fl <= fh
  <2>1. s * c.min_forward_dir <= s * c.max_forward_dir
    BY <1>1, Axis, ProductUp
  <2>2. s * c.min_forward_dir = fl /\ s * c.max_forward_dir = fh /\ fl \in Nat /\ fh \in Nat
    BY <1>1, Axis
  <2>3. QED
    BY <2>1, <2>2
<1>3. rl \in Nat /\ rh \in Nat /\ rl <= rh
  <2>1. s * c.min_reverse_dir <= s * c.max_reverse_dir
    BY <1>1, Axis, ProductUp
  <2>2. s * c.min_reverse_dir = rl /\ s * c.max_reverse_dir = rh /\ rl \in Nat /\ rh \in Nat
    BY <1>1, Axis
  <2>3. QED
    BY <2>1, <2>2
<1> DEFINE fv == Pad!Line(v, c.min_forward_dir, c.max_forward_dir, c)
           fw == Pad!Line(w, c.min_forward_dir, c.max_forward_dir, c)
           rv == Pad!Line(v, c.min_reverse_dir, c.max_reverse_dir, c)
           rw == Pad!Line(w, c.min_reverse_dir, c.max_reverse_dir, c)
<1>4. /\ fv \in Int /\ fw \in Int /\ fv <= fw
      /\ rv \in Int /\ rw \in Int /\ rv <= rw
  BY Axis, LineUp
<1>5. /\ Pad!ForwardCurve(v, c) = Pad!Clip(fv, fl, fh)
      /\ Pad!ForwardCurve(w, c) = Pad!Clip(fw, fl, fh)
  BY DEF Pad!ForwardCurve, s
<1>6. (-c.max_reverse_dir) * s = -rh /\ (-c.min_reverse_dir) * s = -rl
  BY <1>1, Axis
<1>7. /\ Pad!ReverseCurve(v, c) = Pad!Clip(rv, -rh, -rl)
      /\ Pad!ReverseCurve(w, c) = Pad!Clip(rw, -rh, -rl)
  BY <1>6 DEF Pad!ReverseCurve, s
<1> HIDE DEF fl, fh, rl, rh, fv, fw, rv, rw
<1>8. /\ Pad!Clip(fv, fl, fh) \in fl..fh /\ Pad!Clip(fv, fl, fh) <= Pad!Clip(fw, fl, fh)
  <2>1. fl \in Int /\ fh \in Int
    BY <1>2
  <2>2. QED
    BY <1>2, <1>4, <2>1, ClipUp
<1>9. /\ Pad!Clip(rv, -rh, -rl) \in -rh..-rl
      /\ Pad!Clip(rv, -rh, -rl) <= Pad!Clip(rw, -rh, -rl)
  <2> DEFINE nh == -rh
             nl == -rl
  <2>1. nh \in Int /\ nl \in Int /\ nh <= nl
    BY <1>3
  <2> HIDE DEF nh, nl
  <2>2. /\ Pad!Clip(rv, nh, nl) \in nh..nl
        /\ Pad!Clip(rv, nh, nl) <= Pad!Clip(rw, nh, nl)
    BY <1>4, <2>1, ClipUp
  <2>3. QED
    BY <2>2 DEF nh, nl
<1>10. /\ Pad!ForwardCurve(v, c) \in 0..fh /\ Pad!ForwardCurve(v, c) <= Pad!ForwardCurve(w, c)
       /\ Pad!ReverseCurve(v, c) \in -rh..0
       /\ Pad!ReverseCurve(v, c) <= Pad!ReverseCurve(w, c)
  BY <1>2, <1>3, <1>5, <1>7, <1>8, <1>9
<1>11. QED
  BY <1>1, <1>2, <1>3, <1>10 DEF fh, rh, s

\* Which way the stick means.
Turned(p, c) == IF c.inverted THEN -p ELSE p

\* _apply_curve without its CASE.
LEMMA CurveIs ==
    ASSUME NEW c \in Configs, NEW p \in Int
    PROVE  /\ Turned(p, c) \in Int
           /\ Pad!ApplyCurve(p, c) =
                 IF Turned(p, c) >= c.deadband THEN Pad!ForwardCurve(Turned(p, c), c)
                 ELSE IF Turned(p, c) <= -c.deadband
                 THEN Pad!ReverseCurve(Turned(p, c), c)
                 ELSE 0
<1> DEFINE v == Turned(p, c)
<1>1. v \in Int /\ c.deadband \in Nat /\ c.deadband >= 1
  BY Axis DEF Turned
<1>2. Pad!ApplyCurve(p, c) =
          CASE Pad!Abs(v) < c.deadband -> 0
            [] v >= c.deadband -> Pad!ForwardCurve(v, c)
            [] OTHER -> Pad!ReverseCurve(v, c)
  BY DEF Pad!ApplyCurve, Turned
<1> HIDE DEF v
<1>3. CASE v >= c.deadband
  <2>1. ~(Pad!Abs(v) < c.deadband)
    BY <1>1, <1>3 DEF Pad!Abs
  <2>2. QED
    BY <1>1, <1>2, <1>3, <2>1 DEF v
<1>4. CASE v <= -c.deadband
  <2>1. ~(Pad!Abs(v) < c.deadband) /\ ~(v >= c.deadband)
    BY <1>1, <1>4 DEF Pad!Abs
  <2>2. QED
    BY <1>1, <1>2, <1>4, <2>1 DEF v
<1>5. CASE ~(v >= c.deadband) /\ ~(v <= -c.deadband)
  <2>1. Pad!Abs(v) < c.deadband
    BY <1>1, <1>5 DEF Pad!Abs
  <2>2. QED
    BY <1>1, <1>2, <1>5, <2>1 DEF v
<1>6. QED
  BY <1>3, <1>4, <1>5

\* Further means faster: the curve keeps the stick's order, bounds and sign.
LEMMA CurveUp ==
    ASSUME NEW c \in Configs, NEW p \in Int, NEW q \in Int,
           Turned(p, c) <= Turned(q, c)
    PROVE  /\ Pad!ApplyCurve(p, c) <= Pad!ApplyCurve(q, c)
           /\ Pad!ApplyCurve(p, c) \in
                 -(c.max_reverse_dir * Pad!Scale(c))..c.max_forward_dir * Pad!Scale(c)
           /\ Turned(p, c) * Pad!ApplyCurve(p, c) >= 0
<1> DEFINE v == Turned(p, c)
           w == Turned(q, c)
           fh == c.max_forward_dir * Pad!Scale(c)
           rh == c.max_reverse_dir * Pad!Scale(c)
           fv == Pad!ForwardCurve(v, c)
           fw == Pad!ForwardCurve(w, c)
           rv == Pad!ReverseCurve(v, c)
           rw == Pad!ReverseCurve(w, c)
           x == Pad!ApplyCurve(p, c)
           y == Pad!ApplyCurve(q, c)
           db == c.deadband
<1>1. v \in Int /\ w \in Int /\ v <= w /\ db \in Nat /\ db >= 1
  BY Axis DEF Turned
<1>2. /\ x = IF v >= db THEN fv ELSE IF v <= -db THEN rv ELSE 0
      /\ y = IF w >= db THEN fw ELSE IF w <= -db THEN rw ELSE 0
  BY CurveIs
<1> HIDE DEF v, w
<1>3. /\ fh \in Nat /\ rh \in Nat /\ fv \in 0..fh /\ rv \in -rh..0
      /\ fv <= fw /\ rv <= rw
  BY <1>1, Branches
<1>4. fw \in 0..fh /\ rw \in -rh..0
  <2>1. w <= w
    BY <1>1
  <2>2. QED
    BY <1>1, <2>1, Branches
<1> HIDE DEF fh, rh, fv, fw, rv, rw, x, y, db
<1>5. x <= y
  BY <1>1, <1>2, <1>3, <1>4
<1>6. x \in -rh..fh
  BY <1>1, <1>2, <1>3
<1>7. v * x >= 0
  <2>1. x \in Int /\ ((v >= 0 /\ x >= 0) \/ (v <= 0 /\ x <= 0))
    BY <1>1, <1>2, <1>3
  <2>2. \A a, b \in Int : (a >= 0 /\ b >= 0) \/ (a <= 0 /\ b <= 0) => a * b >= 0
    OBVIOUS
  <2>3. QED
    BY <1>1, <2>1, <2>2
<1>8. QED
  BY <1>5, <1>6, <1>7 DEF v, w, x, y, fh, rh

\* The forward line meets the configured magnitudes at both ends of its travel.
LEMMA LineEnds ==
    ASSUME NEW c \in Configs, NEW min \in Nat, NEW max \in Nat
    PROVE  /\ Pad!Line(c.deadband, min, max, c) = min * Pad!Scale(c)
           /\ Pad!Line(Full, min, max, c) = max * Pad!Scale(c)
<1> DEFINE u == Full - c.deadband
           b == c.deadband
<1>1. u \in Nat /\ b \in Nat /\ Full = u + b
  BY Axis
<1>2. Pad!Scale(c) = 2 * u
  BY DEF Pad!Scale
<1>3. \A x : Pad!Line(x, min, max, c) = 2 * ((max - min) * x + max * u - (max - min) * Full)
  BY DEF Pad!Line
<1> HIDE DEF u, b
<1>4. (max - min) * b + max * u - (max - min) * (u + b) = min * u
  BY <1>1
<1>5. (max - min) * (u + b) + max * u - (max - min) * (u + b) = max * u
  BY <1>1
<1>6. 2 * (min * u) = min * (2 * u) /\ 2 * (max * u) = max * (2 * u)
  BY <1>1
<1>7. Pad!Line(b, min, max, c) = min * Pad!Scale(c)
  BY <1>1, <1>2, <1>3, <1>4, <1>6
<1>8. Pad!Line(Full, min, max, c) = max * Pad!Scale(c)
  BY <1>1, <1>2, <1>3, <1>5, <1>6
<1>9. QED
  BY <1>7, <1>8 DEF b

\* And so does the curve: the clip changes neither end.
LEMMA ForwardEnds ==
    ASSUME NEW c \in Configs, NEW p \in Int
    PROVE  /\ Turned(p, c) = c.deadband =>
                 Pad!ApplyCurve(p, c) = c.min_forward_dir * Pad!Scale(c)
           /\ Turned(p, c) = Full =>
                 Pad!ApplyCurve(p, c) = c.max_forward_dir * Pad!Scale(c)
<1> DEFINE s == Pad!Scale(c)
           l == c.min_forward_dir * s
           h == c.max_forward_dir * s
<1>1. l \in Int /\ h \in Int /\ l <= h
  <2>1. s \in Nat
    BY Axis DEF Pad!Scale
  <2> HIDE DEF s
  <2>2. s * c.min_forward_dir <= s * c.max_forward_dir
    BY <2>1, Axis, ProductUp
  <2>3. s * c.min_forward_dir = l /\ s * c.max_forward_dir = h /\ l \in Int /\ h \in Int
    BY <2>1, Axis
  <2>4. QED
    BY <2>2, <2>3
<1>2. /\ Pad!Line(c.deadband, c.min_forward_dir, c.max_forward_dir, c) = l
      /\ Pad!Line(Full, c.min_forward_dir, c.max_forward_dir, c) = h
  BY Axis, LineEnds
<1>3. /\ Pad!ForwardCurve(c.deadband, c) = Pad!Clip(l, l, h)
      /\ Pad!ForwardCurve(Full, c) = Pad!Clip(h, l, h)
  BY <1>2 DEF Pad!ForwardCurve
<1> HIDE DEF l, h
<1>4. Pad!Clip(l, l, h) = l /\ Pad!Clip(h, l, h) = h
  BY <1>1 DEF Pad!Clip
<1>5. Full >= c.deadband /\ c.deadband >= c.deadband
  BY Axis
<1>6. Turned(p, c) = c.deadband => Pad!ApplyCurve(p, c) = Pad!ForwardCurve(c.deadband, c)
  BY <1>5, CurveIs
<1>7. Turned(p, c) = Full => Pad!ApplyCurve(p, c) = Pad!ForwardCurve(Full, c)
  BY <1>5, CurveIs
<1>8. QED
  BY <1>3, <1>4, <1>6, <1>7 DEF l, h, s

-----------------------------------------------------------------------------
(* The gamepad: the median.                                                *)

\* The counts in Gamepad are those of the library's theorems.
LEMMA Count == \A S : Pad!Cardinality(S) = Cardinality(S)
BY DEF Pad!Cardinality, Cardinality

\* n samples.
Samples(s, n) == DOMAIN s = 1..n /\ Len(s) = n /\ \A i \in 1..n : s[i] \in Int

\* The places of the samples that are x.
Equal(s, x) == {i \in DOMAIN s : s[i] = x}

\* Places are finitely many.
LEMMA Places ==
    ASSUME NEW n \in Nat, NEW S \in SUBSET (1..n)
    PROVE  IsFiniteSet(S) /\ Cardinality(S) \in Nat /\ Cardinality(S) <= n
<1>1. IsFiniteSet(1..n) /\ Cardinality(1..n) = n
  BY FS_Interval
<1>2. IsFiniteSet(S) /\ Cardinality(S) <= n
  BY <1>1, FS_Subset
<1>3. QED
  BY <1>2, FS_CardinalityType

\* Fewer places of the same samples are fewer in number.
LEMMA PlacesIn ==
    ASSUME NEW n \in Nat, NEW S \in SUBSET (1..n), NEW T \in SUBSET S
    PROVE  Cardinality(T) <= Cardinality(S) /\ (Cardinality(S) = Cardinality(T) => S = T)
BY Places, FS_Subset

\* Places that are not shared add up to no more than there are.
LEMMA PlacesApart ==
    ASSUME NEW n \in Nat, NEW S \in SUBSET (1..n), NEW T \in SUBSET (1..n),
           S \cap T = {}
    PROVE  Cardinality(S) + Cardinality(T) <= n
<1>1. IsFiniteSet(S) /\ IsFiniteSet(T) /\ Cardinality(S) \in Nat /\ Cardinality(T) \in Nat
  BY Places
<1>2. Cardinality(S \cup T) = Cardinality(S) + Cardinality(T) - Cardinality(S \cap T)
  BY <1>1, FS_Union
<1>3. Cardinality(S \cap T) = 0
  BY FS_EmptySet
<1>4. S \cup T \in SUBSET (1..n)
  OBVIOUS
<1>5. Cardinality(S \cup T) <= n
  BY <1>4, Places
<1>6. QED
  BY <1>1, <1>2, <1>3, <1>5

\* Where np.median looks: fewer than half don't get there, more than half do.
LEMMA Middle ==
    ASSUME NEW n \in Nat, n >= 1
    PROVE  /\ (n + 1) \div 2 \in 1..n /\ n \div 2 + 1 \in 1..n
           /\ \A m \in Nat : 2 * m < n => m < (n + 1) \div 2
           /\ \A m \in Nat : 2 * m > n => m >= n \div 2 + 1
           /\ (n + 1) \div 2 <= n \div 2 + 1
OBVIOUS

\* What more than half of the samples are is in the middle when they are sorted:
\* the smaller ones are too few to reach it, and so are the larger.
LEMMA MajoritySorted ==
    ASSUME NEW n \in Nat, n >= 1, NEW s, Samples(s, n),
           NEW x \in Int, 2 * Cardinality(Equal(s, x)) > n,
           NEW k \in Nat, k >= (n + 1) \div 2, k <= n \div 2 + 1
    PROVE  Pad!Sorted(s, k) = x
<1> DEFINE E == Equal(s, x)
           OK(y) == Pad!Cardinality(Pad!Below(s, y)) < k
                    /\ k <= Pad!Cardinality(Pad!UpTo(s, y))
<1>1. E \in SUBSET (1..n) /\ Cardinality(E) \in Nat
  BY Places DEF Equal, Samples
<1>2. \A y : Pad!Below(s, y) \in SUBSET (1..n) /\ Pad!UpTo(s, y) \in SUBSET (1..n)
  BY DEF Pad!Below, Pad!UpTo, Samples
<1>3. x \in Pad!ToSet(s)
  <2>1. E # {}
    BY FS_EmptySet DEF Equal
  <2>2. QED
    BY <2>1 DEF Equal, Pad!ToSet
<1>4. ASSUME NEW S \in SUBSET (1..n), S \cap E = {} PROVE Cardinality(S) < k
  <2>1. Cardinality(S) + Cardinality(E) <= n /\ Cardinality(S) \in Nat
    BY <1>1, <1>4, PlacesApart, Places
  <2>2. 2 * Cardinality(S) < n
    BY <1>1, <2>1
  <2>3. QED
    BY <2>1, <2>2, Middle
<1>5. ASSUME NEW S \in SUBSET (1..n), E \subseteq S PROVE k <= Cardinality(S)
  <2>1. Cardinality(E) <= Cardinality(S) /\ Cardinality(S) \in Nat
    BY <1>5, PlacesIn, Places
  <2>2. Cardinality(E) >= n \div 2 + 1
    BY <1>1, Middle
  <2>3. QED
    BY <1>1, <2>1, <2>2, Middle
<1>6. OK(x)
  <2>1. Pad!Below(s, x) \cap E = {}
    BY DEF Pad!Below, Equal, Samples
  <2>2. E \subseteq Pad!UpTo(s, x)
    BY DEF Pad!UpTo, Equal, Samples
  <2>3. QED
    BY <1>2, <1>4, <1>5, <2>1, <2>2, Count
<1>7. ASSUME NEW y \in Pad!ToSet(s), OK(y) PROVE y = x
  <2>1. y \in Int
    BY DEF Pad!ToSet, Samples
  <2>2. CASE y < x
    <3>1. Pad!UpTo(s, y) \cap E = {}
      BY <2>1, <2>2 DEF Pad!UpTo, Equal, Samples
    <3>2. Cardinality(Pad!UpTo(s, y)) < k /\ Cardinality(Pad!UpTo(s, y)) \in Nat
      BY <1>2, <1>4, <3>1, Places
    <3>3. QED
      BY <1>7, <3>2, Count
  <2>3. CASE y > x
    <3>1. E \subseteq Pad!Below(s, y)
      BY <2>1, <2>3 DEF Pad!Below, Equal, Samples
    <3>2. Cardinality(Pad!Below(s, y)) >= k /\ Cardinality(Pad!Below(s, y)) \in Nat
      BY <1>2, <1>5, <3>1, Places
    <3>3. QED
      BY <1>7, <3>2, Count
  <2>4. QED
    BY <2>1, <2>2, <2>3
<1> HIDE DEF OK
<1>8. Pad!Sorted(s, k) = CHOOSE y \in Pad!ToSet(s) : OK(y)
  BY DEF Pad!Sorted, OK
<1>9. QED
  BY <1>3, <1>6, <1>7, <1>8

\* The median of samples more than half of which are x is x.
LEMMA Majority ==
    ASSUME NEW n \in Nat, n >= 1, NEW s, Samples(s, n),
           NEW x \in Int, 2 * Cardinality(Equal(s, x)) > n
    PROVE  Pad!Median(s) = x
<1>1. (n + 1) \div 2 \in Nat /\ n \div 2 + 1 \in Nat /\ (n + 1) \div 2 <= n \div 2 + 1
  BY Middle
<1>2. Pad!Sorted(s, (n + 1) \div 2) = x /\ Pad!Sorted(s, n \div 2 + 1) = x
  BY <1>1, MajoritySorted
<1>3. Len(s) = n
  BY DEF Samples
<1>4. (x + x) \div 2 = x
  OBVIOUS
<1>5. QED
  BY <1>2, <1>3, <1>4 DEF Pad!Median

\* A set of bounded integers that isn't empty has a largest element.
LEMMA Largest ==
    ASSUME NEW high \in Int, NEW T \in SUBSET Int, T # {}, \A x \in T : x <= high
    PROVE  \E x \in T : \A y \in T : y <= x
<1> DEFINE D == {high - x : x \in T}
<1>1. D \subseteq Nat /\ D # {}
  <2>1. \A x \in T : high - x \in Nat
    OBVIOUS
  <2>2. QED
    BY <2>1
<1>2. PICK d \in D : \A e \in D : ~(<<e, d>> \in OpToRel(<, Nat))
  BY <1>1, NatLessThanWellFounded, WFMin, Zenon
<1>3. \A e \in D : ~(e < d)
  BY <1>1, <1>2, Zenon DEF OpToRel
<1>4. PICK x \in T : d = high - x
  BY <1>2
<1>5. \A y \in T : y <= x
  BY <1>3, <1>4
<1>6. QED
  BY <1>4, <1>5

\* And a smallest.
LEMMA Smallest ==
    ASSUME NEW low \in Int, NEW T \in SUBSET Int, T # {}, \A x \in T : low <= x
    PROVE  \E x \in T : \A y \in T : x <= y
<1> DEFINE N == {-x : x \in T}
           high == -low
<1>1. N \in SUBSET Int /\ N # {} /\ high \in Int
  <2>1. \A x \in T : -x \in Int
    OBVIOUS
  <2>2. -low \in Int
    OBVIOUS
  <2>3. N \in SUBSET Int
    BY <2>1
  <2>4. N # {}
    OBVIOUS
  <2>5. QED
    BY <2>2, <2>3, <2>4
<1>2. \A x \in N : x <= high
  OBVIOUS
<1> HIDE DEF high
<1>3. PICK m \in N : \A y \in N : y <= m
  BY <1>1, <1>2, Largest
<1>4. PICK x \in T : m = -x
  BY <1>3
<1>5. \A y \in T : x <= y
  BY <1>3, <1>4
<1>6. QED
  BY <1>5

\* Whatever the samples are, one of them is the k-th.
LEMMA SortedIsSample ==
    ASSUME NEW n \in Nat, n >= 1, NEW s, Samples(s, n),
           NEW low \in Int, NEW high \in Int, \A i \in 1..n : s[i] \in low..high,
           NEW k \in 1..n
    PROVE  Pad!Sorted(s, k) \in low..high
<1> DEFINE V == {s[i] : i \in 1..n}
           U(x) == Pad!UpTo(s, x)
           B(x) == Pad!Below(s, x)
           Cand == {x \in V : k <= Cardinality(U(x))}
<1>1. /\ V \in SUBSET Int /\ V # {} /\ \A x \in V : x <= high /\ low <= x
      /\ Pad!ToSet(s) = V
  BY DEF Samples, Pad!ToSet
<1>2. \A x : U(x) \in SUBSET (1..n) /\ B(x) \in SUBSET (1..n)
  BY DEF Pad!UpTo, Pad!Below, Samples
<1>3. \A x \in V : \A i \in 1..n : /\ i \in U(x) <=> s[i] <= x
                                   /\ i \in B(x) <=> s[i] < x
  BY DEF Pad!UpTo, Pad!Below, Samples
<1>4. \A i \in 1..n : s[i] \in V
  OBVIOUS
<1> HIDE DEF V, U, B
<1>5. Cand # {}
  <2>1. PICK m \in V : \A y \in V : y <= m
    BY <1>1, Largest
  <2>2. U(m) = 1..n
    BY <1>2, <1>3, <1>4, <2>1
  <2>3. Cardinality(1..n) = n
    BY FS_Interval
  <2>4. QED
    BY <2>1, <2>2, <2>3
<1>6. PICK x \in Cand : \A y \in Cand : x <= y
  <2>1. Cand \in SUBSET Int /\ \A y \in Cand : low <= y
    BY <1>1
  <2> HIDE DEF Cand
  <2>2. QED
    BY <1>5, <2>1, Smallest
<1>7. Cardinality(B(x)) < k
  <2> SUFFICES ASSUME ~(Cardinality(B(x)) < k) PROVE FALSE
    OBVIOUS
  <2>1. Cardinality(B(x)) \in Nat
    BY <1>2, Places
  <2>2. k <= Cardinality(B(x)) /\ B(x) # {}
    BY <2>1, FS_EmptySet
  <2> DEFINE T == {y \in V : y < x}
  <2>3. PICK i \in 1..n : i \in B(x)
    BY <1>2, <2>2
  <2>4. T \in SUBSET Int /\ T # {} /\ \A y \in T : y <= high
    BY <1>1, <1>3, <1>4, <2>3
  <2>5. PICK z \in T : \A y \in T : y <= z
    <3> HIDE DEF T
    <3>1. QED
      BY <2>4, Largest
  <2>6. U(z) = B(x)
    <3>1. \A j \in 1..n : s[j] <= z <=> s[j] < x
      BY <1>1, <1>4, <2>5
    <3>2. QED
      BY <1>2, <1>3, <2>5, <3>1
  <2>7. z \in Cand /\ z < x /\ z \in Int /\ x \in Int
    BY <1>1, <2>2, <2>5, <2>6
  <2>8. QED
    BY <1>6, <2>7
<1>8. \E y \in V : Cardinality(B(y)) < k /\ k <= Cardinality(U(y))
  BY <1>6, <1>7
<1>9. Pad!Sorted(s, k) =
          CHOOSE y \in V : Cardinality(B(y)) < k /\ k <= Cardinality(U(y))
  BY <1>1, Count DEF Pad!Sorted, U, B
<1>10. Pad!Sorted(s, k) \in V
  BY <1>8, <1>9
<1>11. QED
  BY <1>1, <1>10 DEF V

\* The median is in every interval that the samples are in.
LEMMA MedianWithin ==
    ASSUME NEW n \in Nat, n >= 1, NEW s, Samples(s, n),
           NEW low \in Int, NEW high \in Int, \A i \in 1..n : s[i] \in low..high
    PROVE  Pad!Median(s) \in low..high
<1> DEFINE a == Pad!Sorted(s, (n + 1) \div 2)
           b == Pad!Sorted(s, n \div 2 + 1)
<1>1. a \in low..high /\ b \in low..high
  BY Middle, SortedIsSample
<1>2. Pad!Median(s) = (a + b) \div 2
  BY DEF Pad!Median, Samples
<1> HIDE DEF a, b
<1>3. (a + b) \div 2 \in low..high
  BY <1>1
<1>4. QED
  BY <1>2, <1>3

-----------------------------------------------------------------------------
(* The gamepad: its invariant, and what follows.                           *)

\* The bounds of the velocity of an axis.
Slowest(c) == -(c.max_reverse_dir * Pad!Scale(c))

Fastest(c) == c.max_forward_dir * Pad!Scale(c)

\* The inductive invariant of the gamepad: the newest samples, as many as were
\* taken since the stick was moved, are of where it is now.
StickInv ==
    /\ Pad!TypeOK
    /\ buffer \in Seq(Int)
    /\ \A i \in 1..Window : buffer[i] \in Slowest(cfg)..Fastest(cfg)
    /\ \A i \in 1..Window : i > Window - still => buffer[i] = Pad!ApplyCurve(stick, cfg)
    /\ x_vel = Pad!Median(buffer)

\* The constants of the gamepad.
LEMMA Stick ==
    /\ Window \in Nat /\ Window >= 1 /\ Full \in Nat
    /\ Positions \subseteq Int /\ 0 \in Int
<1>1. Window \in Nat \ {0} /\ Full \in Nat \ {0} /\ Positions \subseteq -Full..Full
  BY PadAssumption DEF Pad!Assumptions
<1>2. QED
  BY <1>1

\* A buffer is Window samples.
LEMMA BufferSamples ==
    ASSUME NEW b \in Seq(Int), Len(b) = Window
    PROVE  Samples(b, Window)
BY DEF Samples

\* What a round of listen makes of the buffer.
LEMMA Pushed ==
    ASSUME NEW b \in Seq(Int), NEW n \in Nat, n >= 1, Len(b) = n, NEW x \in Int
    PROVE  /\ Append(Tail(b), x) \in Seq(Int) /\ Len(Append(Tail(b), x)) = n
           /\ \A i \in 1..n : Append(Tail(b), x)[i] = IF i < n THEN b[i + 1] ELSE x
<1> DEFINE t == Tail(b)
<1>1. t \in Seq(Int) /\ Len(t) = n - 1 /\ \A i \in 1..n - 1 : t[i] = b[i + 1]
  BY b # <<>>
<1> HIDE DEF t
<1>2. /\ Append(t, x) \in Seq(Int) /\ Len(Append(t, x)) = n
      /\ \A i \in 1..n : Append(t, x)[i] = IF i < n THEN t[i] ELSE x
  BY <1>1
<1>3. QED
  BY <1>1, <1>2 DEF t

\* The curve stays within the bounds.
LEMMA CurveWithin ==
    ASSUME NEW c \in Configs, NEW p \in Int
    PROVE  /\ Slowest(c) \in Int /\ Fastest(c) \in Int
           /\ 0 \in Slowest(c)..Fastest(c)
           /\ Pad!ApplyCurve(p, c) \in Slowest(c)..Fastest(c)
<1>1. Turned(p, c) \in Int /\ Turned(p, c) <= Turned(p, c)
  BY CurveIs
<1>2. Fastest(c) \in Nat /\ c.max_reverse_dir * Pad!Scale(c) \in Nat
  BY <1>1, Branches DEF Fastest
<1>3. Slowest(c) \in Int /\ Slowest(c) <= 0
  BY <1>2 DEF Slowest
<1>4. Pad!ApplyCurve(p, c) \in Slowest(c)..Fastest(c)
  BY <1>1, CurveUp DEF Slowest, Fastest
<1>5. QED
  BY <1>2, <1>3, <1>4

\* More than half the window of one sample is the median.
LEMMA Steady ==
    ASSUME NEW s, Samples(s, Window), NEW x \in Int, NEW k \in Nat, k <= Window,
           k > Window \div 2, \A i \in 1..Window : i > Window - k => s[i] = x
    PROVE  Pad!Median(s) = x
<1> DEFINE T == Window - k + 1..Window
<1>1. /\ Window \in Nat /\ Window >= 1 /\ Window - k + 1 \in Int /\ Window - k + 1 >= 1
      /\ Window \in Int
  BY Stick
<1>2. Cardinality(T) = k
  <2> DEFINE a == Window - k + 1
  <2>1. a \in Int /\ ~(a > Window) /\ Window - a + 1 = k
    BY <1>1
  <2> HIDE DEF a
  <2>2. Cardinality(a..Window) = k
    BY <1>1, <2>1, FS_Interval
  <2>3. QED
    BY <2>2 DEF a
<1>3. T \subseteq Equal(s, x)
  BY <1>1 DEF Equal, Samples
<1>4. Equal(s, x) \in SUBSET (1..Window)
  BY DEF Equal, Samples
<1>5. Cardinality(T) <= Cardinality(Equal(s, x)) /\ Cardinality(Equal(s, x)) \in Nat
  BY <1>1, <1>3, <1>4, PlacesIn, Places
<1>6. 2 * k > Window
  BY <1>1
<1>7. 2 * Cardinality(Equal(s, x)) > Window
  BY <1>1, <1>2, <1>5, <1>6
<1>8. QED
  BY <1>1, <1>7, Majority

\* The stick and all the samples are zero, inside the deadband.
LEMMA StickInit == Pad!Init => StickInv
<1> SUFFICES ASSUME Pad!Init PROVE StickInv
  OBVIOUS
<1>1. /\ cfg \in Configs /\ stick = 0 /\ buffer = [i \in 1..Window |-> 0]
      /\ x_vel = 0 /\ still = Window /\ pad_stopping = FALSE
  BY DEF Pad!Init
<1>2. Window \in Nat /\ Window >= 1
  BY Stick
<1>3. buffer \in Seq(Int) /\ Len(buffer) = Window /\ \A i \in 1..Window : buffer[i] = 0
  BY <1>1, <1>2
<1>4. Pad!ApplyCurve(0, cfg) = 0
  <2>1. Turned(0, cfg) = 0
    <3>1. (\A z \in Int : -z = 0 - z) /\ 0 \in Int /\ 0 - 0 = 0
      OBVIOUS
    <3>2. -0 = 0
      BY <3>1, Zenon
    <3>3. QED
      BY <3>2, Zenon DEF Turned
  <2>2. cfg.deadband \in Nat /\ cfg.deadband >= 1
    BY <1>1, Axis
  <2>3. ~(0 >= cfg.deadband) /\ ~(0 <= -cfg.deadband)
    BY <2>2
  <2>4. QED
    BY <1>1, <2>1, <2>3, CurveIs
<1>5. x_vel = Pad!Median(buffer)
  <2>1. Samples(buffer, Window)
    BY <1>3, BufferSamples
  <2>2. \A i \in 1..Window : i > Window - Window => buffer[i] = 0
    BY <1>3
  <2>3. Window > Window \div 2
    BY <1>2
  <2>4. Pad!Median(buffer) = 0
    BY <1>2, <2>1, <2>2, <2>3, Steady
  <2>5. QED
    BY <1>1, <2>4
<1>6. Pad!TypeOK
  <2>1. still \in 0..Window /\ \A i \in 1..Len(buffer) : buffer[i] \in Int
    BY <1>1, <1>2, <1>3
  <2>2. cfg \in Configs /\ stick \in Positions \cup {0} /\ pad_stopping \in BOOLEAN
    BY <1>1
  <2>3. QED
    BY <1>3, <2>1, <2>2 DEF Pad!TypeOK
<1>7. \A i \in 1..Window : buffer[i] \in Slowest(cfg)..Fastest(cfg)
  BY <1>1, <1>3, CurveWithin
<1>8. \A i \in 1..Window : buffer[i] = Pad!ApplyCurve(stick, cfg)
  BY <1>1, <1>3, <1>4
<1>9. QED
  BY <1>3, <1>5, <1>6, <1>7, <1>8 DEF StickInv

\* The oldest sample goes, one of the stick's position comes.
LEMMA ListenKeeps == StickInv /\ Pad!Listen => StickInv'
<1> SUFFICES ASSUME StickInv, Pad!Listen PROVE StickInv'
  OBVIOUS
<1> DEFINE x == Pad!ApplyCurve(stick, cfg)
<1>1. /\ buffer' = Append(Tail(buffer), x) /\ x_vel' = Pad!Median(buffer')
      /\ still' = IF still < Window THEN still + 1 ELSE still
      /\ cfg' = cfg /\ stick' = stick /\ pad_stopping' = pad_stopping
  BY DEF Pad!Listen, Pad!Push, Pad!Filter
<1>2. Window \in Nat /\ Window >= 1
  BY Stick
<1>3. /\ cfg \in Configs /\ stick \in Int /\ still \in 0..Window /\ Len(buffer) = Window
      /\ buffer \in Seq(Int)
  BY Stick DEF StickInv, Pad!TypeOK
<1>4. x \in Slowest(cfg)..Fastest(cfg) /\ x \in Int
  <2>1. /\ Slowest(cfg) \in Int /\ Fastest(cfg) \in Int
        /\ x \in Slowest(cfg)..Fastest(cfg)
    BY <1>3, CurveWithin
  <2> HIDE DEF x
  <2>2. QED
    BY <2>1
<1>5. Pad!ApplyCurve(stick, cfg)' = x
  BY <1>1
<1> HIDE DEF x
<1>6. /\ buffer' \in Seq(Int) /\ Len(buffer') = Window
      /\ \A i \in 1..Window : buffer'[i] = IF i < Window THEN buffer[i + 1] ELSE x
  BY <1>1, <1>2, <1>3, <1>4, Pushed
<1>7. Pad!TypeOK'
  <2>1. still' \in 0..Window
    BY <1>1, <1>2, <1>3
  <2>2. \A i \in 1..Window : buffer'[i] \in Int
    BY <1>6
  <2>3. QED
    BY <1>1, <1>6, <2>1, <2>2 DEF StickInv, Pad!TypeOK
<1>8. \A i \in 1..Window : buffer'[i] \in Slowest(cfg)..Fastest(cfg)
  <2> TAKE i \in 1..Window
  <2>1. CASE i < Window
    <3>1. i + 1 \in 1..Window
      BY <1>2, <2>1
    <3>2. QED
      BY <1>6, <2>1, <3>1 DEF StickInv
  <2>2. CASE ~(i < Window)
    BY <1>4, <1>6, <2>2
  <2>3. QED
    BY <2>1, <2>2
<1>9. \A i \in 1..Window : i > Window - still' => buffer'[i] = x
  <2> SUFFICES ASSUME NEW i \in 1..Window, i > Window - still', i < Window
               PROVE  buffer'[i] = x
    BY <1>6
  <2>1. i + 1 \in 1..Window /\ i + 1 > Window - still
    BY <1>1, <1>2, <1>3
  <2>2. buffer[i + 1] = x
    BY <2>1 DEF StickInv, x
  <2>3. QED
    BY <1>6, <2>2
<1>10. QED
  BY <1>1, <1>5, <1>6, <1>7, <1>8, <1>9 DEF StickInv, Slowest, Fastest

\* However the stick is moved between the samples.
THEOREM StickInvariant == Pad!Spec => []StickInv
<1>1. StickInv /\ [Pad!Next]_(Pad!vars) => StickInv'
  <2> SUFFICES ASSUME StickInv, [Pad!Next]_(Pad!vars) PROVE StickInv'
    OBVIOUS
  <2>1. CASE Pad!Move
    <3>1. /\ UNCHANGED <<cfg, buffer, x_vel, pad_stopping>>
          /\ stick' \in Positions /\ still' = 0
      BY <2>1 DEF Pad!Move
    <3>2. Window \in Nat /\ 0 \in 0..Window
      BY Stick
    <3>3. \A i \in 1..Window : ~(i > Window - 0)
      BY <3>2
    <3>4. QED
      BY <3>1, <3>2, <3>3 DEF StickInv, Pad!TypeOK, Slowest, Fastest
  <2>2. CASE Pad!Listen
    BY <2>2, ListenKeeps
  <2>3. CASE Pad!StopListening
    BY <2>3 DEF Pad!StopListening, StickInv, Pad!TypeOK, Slowest, Fastest
  <2>4. CASE UNCHANGED Pad!vars
    BY <2>4 DEF Pad!vars, StickInv, Pad!TypeOK, Slowest, Fastest
  <2>5. QED
    BY <2>1, <2>2, <2>3, <2>4 DEF Pad!Next
<1>2. QED
  BY StickInit, <1>1, PTL DEF Pad!Spec

\* A minority of wrong samples never shows in the velocity.
THEOREM WrongSamplesFiltered == Pad!Spec => []StickFiltered
<1>1. StickInv => StickFiltered
  <2> SUFFICES ASSUME StickInv PROVE Pad!MinorityFiltered
    BY DEF StickFiltered
  <2>1. /\ Samples(buffer, Window) /\ x_vel = Pad!Median(buffer) /\ Len(buffer) = Window
        /\ cfg \in Configs /\ stick \in Int /\ still \in Nat /\ still <= Window
    BY BufferSamples, Stick DEF StickInv, Pad!TypeOK
  <2>2. ASSUME NEW x \in Pad!ToSet(buffer),
               2 * Pad!Cardinality({i \in 1..Len(buffer) : buffer[i] = x}) > Len(buffer)
        PROVE  x_vel = x
    <3>1. x \in Int
      BY <2>1 DEF Pad!ToSet, Samples
    <3>2. Equal(buffer, x) = {i \in 1..Len(buffer) : buffer[i] = x}
      BY <2>1 DEF Equal, Samples
    <3>3. 2 * Cardinality(Equal(buffer, x)) > Window
      BY <2>1, <2>2, <3>2, Count
    <3>4. QED
      BY <2>1, <3>1, <3>3, Majority, Stick
  <2>3. ASSUME still > Window \div 2 PROVE x_vel = Pad!ApplyCurve(stick, cfg)
    <3> DEFINE x == Pad!ApplyCurve(stick, cfg)
    <3>1. x \in Int
      BY <2>1, CurveWithin
    <3>2. \A i \in 1..Window : i > Window - still => buffer[i] = x
      BY DEF StickInv
    <3> HIDE DEF x
    <3>3. Pad!Median(buffer) = x
      BY <2>1, <2>3, <3>1, <3>2, Steady
    <3>4. QED
      BY <2>1, <3>3 DEF x
  <2>4. QED
    BY <2>2, <2>3 DEF Pad!MinorityFiltered
<1>2. QED
  BY StickInvariant, <1>1, PTL

\* For every AxisConfig the curve keeps the order and the sign of the stick, the
\* velocity stays between the configured magnitudes, and forward it is the one
\* configured at either end, once the filter has followed.
THEOREM CurveAsConfigured == Pad!Spec => []StickCurve
<1>1. StickInv /\ StickFiltered => StickCurve
  <2> SUFFICES ASSUME StickInv, StickFiltered
               PROVE  Pad!TypeOK /\ Pad!CurveMonotone /\ Pad!ForwardMagnitudes
    BY DEF StickCurve
  <2>1. cfg \in Configs /\ Pad!TypeOK
    BY DEF StickInv, Pad!TypeOK
  <2>2. ASSUME NEW p \in Positions, NEW q \in Positions
        PROVE  LET sign == IF cfg.inverted THEN -1 ELSE 1
               IN  /\ sign * p <= sign * q => Pad!ApplyCurve(p, cfg) <= Pad!ApplyCurve(q, cfg)
                   /\ sign * p * Pad!ApplyCurve(p, cfg) >= 0
    <3> DEFINE sign == IF cfg.inverted THEN -1 ELSE 1
    <3>1. p \in Int /\ q \in Int
      BY Stick
    <3>2. sign * p = Turned(p, cfg) /\ sign * q = Turned(q, cfg)
      BY <3>1 DEF Turned
    <3> HIDE DEF sign
    <3>3. Turned(p, cfg) <= Turned(q, cfg) => Pad!ApplyCurve(p, cfg) <= Pad!ApplyCurve(q, cfg)
      BY <2>1, <3>1, CurveUp
    <3>4. Turned(p, cfg) \in Int /\ Turned(p, cfg) <= Turned(p, cfg)
      BY <2>1, <3>1, CurveIs
    <3>5. Turned(p, cfg) * Pad!ApplyCurve(p, cfg) >= 0
      BY <2>1, <3>1, <3>4, CurveUp
    <3>6. QED
      BY <3>2, <3>3, <3>5 DEF sign
  <2>3. x_vel \in Slowest(cfg)..Fastest(cfg)
    <3>1. Samples(buffer, Window)
      BY BufferSamples DEF StickInv, Pad!TypeOK
    <3>2. Slowest(cfg) \in Int /\ Fastest(cfg) \in Int
      BY <2>1, CurveWithin, Stick
    <3>3. QED
      BY <3>1, <3>2, MedianWithin, Stick DEF StickInv
  <2>4. Pad!CurveMonotone
    BY <2>2, <2>3 DEF Pad!CurveMonotone, Slowest, Fastest
  <2>5. ASSUME NEW v \in Int, Pad!Settled(v)
        PROVE  x_vel = Pad!ApplyCurve(stick, cfg) /\ stick \in Int /\ Turned(stick, cfg) = v
    <3>1. x_vel = Pad!ApplyCurve(stick, cfg)
      BY <2>5 DEF Pad!Settled, StickFiltered, Pad!MinorityFiltered
    <3>2. stick = IF cfg.inverted THEN -v ELSE v
      BY <2>5 DEF Pad!Settled
    <3>3. -v \in Int /\ -(-v) = v
      OBVIOUS
    <3>4. stick \in Int /\ Turned(stick, cfg) = v
      BY <3>2, <3>3, Zenon DEF Turned
    <3>5. QED
      BY <3>1, <3>4
  <2>6. cfg.deadband \in Int /\ Full \in Int
    BY <2>1, Axis
  <2>7. Pad!ForwardMagnitudes
    BY <2>1, <2>5, <2>6, ForwardEnds DEF Pad!ForwardMagnitudes
  <2>8. QED
    BY <2>1, <2>4, <2>7
<1>2. QED
  BY StickInvariant, WrongSamplesFiltered, <1>1, PTL
=============================================================================
