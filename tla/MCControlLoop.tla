--------------------------- MODULE MCControlLoop ---------------------------
(***************************************************************************)
(* ControlLoop for TLC: its implementation of CommandPipe, with the states *)
(* stored as what is published and the states that the sent commands act   *)
(* on as the pipe.                                                         *)
(***************************************************************************)
EXTENDS ControlLoop

Pipe == INSTANCE CommandPipe WITH
            published <- latest_state,
            pipe <- [k \in 1..Len(sent) |-> sent[k].state]

\* What the robot is sent is a behaviour of CommandPipe: each step of the
\* three actors publishes a state, emits a command or changes neither.
ImplementsPipe == Pipe!Spec
=============================================================================
