----------------------------- MODULE IsaacLoop -----------------------------
(***************************************************************************)
(* spot_rl_isaac.py: one thread steps the simulated robot, hands its state *)
(* to the controller through IsaacMockSpot, asks the controller for the    *)
(* next action, and lets the keyboard publish its velocities; a second     *)
(* thread reads the keys.  The simulation's recorders keep what went into  *)
(* a step and what came out of it.  The log is written only after the last *)
(* step: nothing catches what ends the loop before.                        *)
(*                                                                         *)
(* replay_and_compare_sim_real.py makes the same start, but hands over the *)
(* other group of observations.                                            *)
(*                                                                         *)
(* A state is known by the steps since the reset and by its sim_time, an   *)
(* action by the row it was logged in, a velocity by how many keys were    *)
(* pressed for it.                                                         *)
(***************************************************************************)
EXTENDS Integers, Sequences

CONSTANTS
    Programs,       \* "demo" and "replay"
    Steps,          \* of the loop, 20000 in the code
    Decimation,     \* of the environment: 10 physics steps in a step
    Dt,             \* sim.dt, the time of a physics step
    MaxKeys         \* bound: keys that are pressed

\* What is assumed of them.
Assumptions == MaxKeys \in Nat /\ {Steps, Decimation, Dt} \subseteq Nat \ {0}

\* The terms of the groups of SpotObservationsCfg.
Terms ==
    [spot |-> {"sim_time", "root_lin_vel_w", "root_ang_vel_w", "root_quat_w",
               "joint_pos", "joint_vel", "joint_effort"},
     debug |-> {"base_lin_vel", "base_ang_vel", "projected_gravity",
                "joint_pos_rel", "joint_vel_rel", "default_joint_pos", "joint_ids"}]

\* The terms set_state reads.
StateTerms == {"joint_pos", "joint_vel", "root_lin_vel_w", "root_ang_vel_w",
               "root_quat_w", "joint_effort", "sim_time"}

None == [step |-> -1, sim_time |-> 0]

VARIABLES
    program,    \* which of the scripts is running
    pc,         \* where its main thread is
    resets,     \* how often the environment was reset
    simSteps,   \* env._sim_step_counter
    step,       \* history: the steps since the last reset
    obs,        \* obs_dict: the state the observations are of
    latest,     \* context.latest_state
    action,     \* the action that was computed last, by its row
    rows,       \* of the logger: the state and the velocity of each row
    recorded,   \* of the recorders: the state, the action, and the state after
    keys,       \* the keys pressed, whose sum are the keyboard's velocities
    velocity,   \* context.velocity_cmd
    heard,      \* history: the keys that were pressed when a step ended
    saved       \* logger.save() has been called

envVars == <<resets, simSteps, step, obs, recorded>>
policyVars == <<latest, action, rows>>
keyVars == <<keys, velocity, heard>>
vars == <<program, pc, envVars, policyVars, keyVars, saved>>

Init ==
    /\ program \in Programs
    /\ pc = (IF program = "demo" THEN "first_reset" ELSE "reset")
    /\ resets = 0 /\ simSteps = 0 /\ step = 0 /\ obs = None
    /\ recorded = << >>
    /\ latest = None /\ action = 0 /\ rows = << >>
    /\ keys = 0 /\ velocity = 0 /\ heard = <<0>>
    /\ saved = FALSE

Goes(from, to) == pc = from /\ pc' = to /\ UNCHANGED program

-----------------------------------------------------------------------------
(* The environment.                                                        *)

\* time_: the counter of the physics steps, times the time of a step.
time_ == simSteps' * (Decimation * Dt)

Observe == obs' = [step |-> step', sim_time |-> time_]

Reset(from, to) ==
    /\ Goes(from, to)
    /\ resets' = resets + 1
    /\ step' = 0
    /\ UNCHANGED <<simSteps, recorded, policyVars, keyVars, saved>>
    /\ Observe

\* obs, _ = env.reset(), before there is a controller ...
FirstReset == Reset("first_reset", "reset")

\* ... and again before the loop.
SecondReset == Reset("reset", "first_state")

\* A bug to look for: the observations are recorded after the step.
RecordPostStep == Append(recorded, [obs |-> obs'.step, action |-> action, state |-> step'])

\* The recorders: observations and action before the step, state after it.
Record == Append(recorded, [obs |-> obs.step, action |-> action, state |-> step'])

\* env.step(actions)
EnvStep ==
    /\ Goes("step", "set_state")
    /\ simSteps' = simSteps + Decimation
    /\ step' = step + 1
    /\ Observe
    /\ recorded' = Record
    /\ UNCHANGED <<resets, policyVars, keyVars, saved>>

-----------------------------------------------------------------------------
(* IsaacMockSpot and the controller.                                       *)

\* A term that is not in the group raises.
Readable(group) == StateTerms \subseteq Terms[group]

\* A bug to look for: the state is handed over only at the start.
HandOverOnce(group) ==
    /\ Readable(group)
    /\ latest' = IF latest = None THEN obs ELSE latest

\* set_state makes a message of the observations and calls the state handler.
HandOver(group) == Readable(group) /\ latest' = obs

SetState(from, to, group) ==
    /\ Goes(from, to)
    /\ HandOver(group)
    /\ UNCHANGED <<envVars, action, rows, keyVars, saved>>

FirstState ==
    SetState("first_state", "command", IF program = "demo" THEN "spot" ELSE "debug")

StateOfStep == SetState("set_state", "listen", "spot")

SetStateRaises ==
    /\ program = "replay"
    /\ ~Readable("debug")
    /\ Goes("first_state", "KeyError")
    /\ UNCHANGED <<envVars, policyVars, keyVars, saved>>

\* command_update: the controller computes and logs.
CommandUpdate ==
    /\ Goes("command", "step")
    /\ rows' = Append(rows, [state |-> latest.step, velocity |-> velocity])
    /\ action' = Len(rows')
    /\ UNCHANGED <<envVars, latest, keyVars, saved>>

-----------------------------------------------------------------------------
(* The keyboard.                                                           *)

\* Its thread was started with it, before the second reset.
PressKey ==
    /\ pc \notin {"first_reset", "done", "KeyError", "killed"}
    /\ program = "demo"
    /\ keys < MaxKeys
    /\ keys' = keys + 1
    /\ UNCHANGED <<program, pc, envVars, policyVars, velocity, heard, saved>>

\* listen_loop: the context gets the velocities.
Publish == keys

LastStep == step = Steps

ListenLoop ==
    /\ Goes("listen", IF LastStep THEN "close" ELSE "command")
    /\ velocity' = Publish
    /\ heard' = Append(heard, keys)
    /\ UNCHANGED <<envVars, policyVars, keys, saved>>

-----------------------------------------------------------------------------

CloseEnv ==
    /\ Goes("close", "save")
    /\ UNCHANGED <<envVars, policyVars, keyVars, saved>>

Save ==
    /\ Goes("save", "done")
    /\ saved' = TRUE
    /\ UNCHANGED <<envVars, policyVars, keyVars>>

\* Ctrl-C, or an exception of the environment or the controller.
Interrupt ==
    /\ pc \notin {"done", "KeyError", "killed"}
    /\ pc' = "killed"
    /\ UNCHANGED <<program, envVars, policyVars, keyVars, saved>>

Env == FirstReset \/ SecondReset \/ EnvStep

Controller == FirstState \/ StateOfStep \/ SetStateRaises \/ CommandUpdate

Main == Env \/ Controller \/ ListenLoop \/ CloseEnv \/ Save

Next == Main \/ PressKey \/ Interrupt

Spec == Init /\ [][Next]_vars

-----------------------------------------------------------------------------

\* The program is at one of its statements, and its counters are in range.
TypeOK ==
    /\ program \in Programs
    /\ pc \in {"first_reset", "reset", "first_state", "command", "step",
               "set_state", "listen", "close", "save", "done", "killed", "KeyError"}
    /\ resets \in 0..2
    /\ step \in 0..Steps
    /\ simSteps \in 0..Steps * Decimation
    /\ obs.step \in -1..Steps /\ latest.step \in -1..Steps
    /\ action \in 0..Steps /\ Len(rows) <= Steps /\ Len(recorded) <= Steps
    /\ keys \in 0..MaxKeys /\ velocity \in 0..MaxKeys
    /\ saved \in BOOLEAN

\* Nothing comes between: the i-th row acts on the state the step before has
\* left, and the i-th step is made with its action.
LockStep ==
    /\ \A i \in 1..Len(rows) : rows[i].state = i - 1
    /\ \A i \in 1..Len(recorded) : recorded[i].action = i

\* The recorders' columns belong together as their names say: the observation
\* is the one the action was computed from, the state the one it has led to.
RecordsBelongTogether ==
    \A i \in 1..Len(recorded) :
        /\ recorded[i].obs = rows[recorded[i].action].state
        /\ recorded[i].state = recorded[i].obs + 1

\* A key that was pressed when a step ended is in the command of the next.
KeysReachNextCommand ==
    \A i \in 1..Len(rows) : rows[i].velocity = heard[i]

\* A log that was saved has a row of every step.
SavedIsWhole == saved => Len(rows) = Steps /\ Len(recorded) = Steps

-----------------------------------------------------------------------------
(* What the README says, and the code doesn't do.                          *)

\* README.md: "You can replay the exact velocity commands recorded in the HDF5
\* log through the IsaacLab simulation".
ReplayRuns == pc # "KeyError"
=============================================================================
