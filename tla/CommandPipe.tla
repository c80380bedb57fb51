---------------------------- MODULE CommandPipe ----------------------------
(***************************************************************************)
(* What the control loop promises whoever reads its command stream, with   *)
(* no thread, event or counter in it: states are published one after the   *)
(* other, and now and then a command comes out that acts on one of them.   *)
(* A command never acts on a state that is not published, the k-th acts on *)
(* none before state Factor * k, and successive commands act on states     *)
(* that are at least Factor - 2 apart.  ControlLoop implements this.       *)
(***************************************************************************)
EXTENDS Integers, Sequences

CONSTANT Factor

VARIABLES
    published,  \* number of states the controller has been given
    pipe        \* for each command that came out, the state it acts on

Init ==
    /\ published = 0
    /\ pipe = <<>>

Publish ==
    /\ published' = published + 1
    /\ UNCHANGED pipe

Emit ==
    \E s \in Factor * (Len(pipe) + 1) .. published :
        /\ pipe # <<>> => s >= pipe[Len(pipe)] + Factor - 2
        /\ pipe' = Append(pipe, s)
        /\ UNCHANGED published

Next == Publish \/ Emit

Spec == Init /\ [][Next]_<<published, pipe>>
=============================================================================
