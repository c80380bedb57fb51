# A TLA+ model of spot-rl-example

This directory specifies the programs of the repository: the control program,
which streams a robot's states into a neural policy and streams the policy's
joint commands back (`rl_deploy/spot_rl_demo.py` and what it uses), the same
with a mock in the place of the robot, the simulation and the training
environment that stand beside it, the input devices, and the log with its
diagnostics. The modules are model-checked with TLC; the theorems about them are
checked with TLAPS. Paths below are relative to `src/rl_deploy/` unless they say
otherwise.

## 1. The system

### How a run works

`spot_rl_demo.main` takes the robot's lease, powers it on, lets it stand, and
starts two streams. Four threads then run, and none of them locks anything:

| thread | code | what it does |
| --- | --- | --- |
| main | `spot_rl_demo.main`, `TerminalKeyboard.listen` | publishes the velocity command every 20 ms; on its way out stops the streams and saves the log |
| state thread | `Spot._handle_state_stream`, `StateHandler` | stores each state (333 a second) in the context, sets `event` |
| command thread | `Spot._run_command_stream` | sits in the gRPC call; then powers the robot off |
| generator | `Spot._command_stream_loop`, `EventDivider`, `OnnxCommandGenerator` | run by gRPC, which pulls requests from it: waits for six events, computes a command, yields it; activates joint control after the first |

and, for the keyboard, an input thread (`TerminalKeyboard._read_loop`).

    robot --states--> state thread --latest_state, event--> generator --commands--> robot
    keys --> input thread --x_vel, y_vel, yaw--> main --velocity_cmd--> generator
    generator --rows--> HDF5Logger --save--> file        (saved by main)
    main --stop flags, join--> state thread, command thread

### Components

| component | state it keeps | operations | what makes it correct |
| --- | --- | --- | --- |
| `spot/spot.py` Spot | two threads, two stop flags, lease, power | start/stop of each stream, power on, stand, power off, activation | commands stop before states do; a stop ends the thread; the robot ends up without power; the lease outlives the commands |
| `spot_rl_demo.py` | position in try/finally | one run, Ctrl-C anywhere | cleanup ends; the log is saved when nobody writes to it |
| `utils/event_divider.py` | count; the shared event | one call = Factor events or a timeout | a command for at least Factor states; a timeout is reported |
| context, `StateHandler` | `latest_state`, `event`, `velocity_cmd`, all attributes of the class | store, set | an event is set after its state is stored |
| `orbit/onnx_command_generator.py` | `_init_pos`, `_last_action`, `_count` | one call = one command, one row | never runs without a state; uses its own last output; keys count without a gap; gains come first |
| `utils/hdf5_logger.py` | 25 lists | `log_state`, `save` | rows are whole, in order and complete |
| `hid/terminal_keyboard.py` | three velocities, `_stopping` | keys, listen | caps; the stop key stops |
| `spot/mock_spot.py` | timer thread, `run_time`, command thread | as Spot, without a robot | calls on a grid of slots; the policy has a state; stops in order and without waiting for a timeout; the log is not lost |
| `spot_rl_isaac.py`, `isaaclab_spot/isaac_spot.py` | state message, policy, recorders | simulation step | state i leads to action i + 1 and nothing comes between; recorded columns belong together |
| `isaaclab_spot/spot_knee_actuator.py` | delay buffers, lags, tables | `compute`, reset | effort within the limits of position and speed at once; setpoints arrive in order |
| `hid/gamepad.py` | median buffers | curve, filter | monotone, of the stick's sign, with the configured magnitudes; outliers don't show |
| `hid/keyboard.py` | three velocities, keys held | pygame loop | keys held settle the velocity at a limit, or at 0 |
| `orbit/orbit_configuration.py`, `utils/dict_tools.py`, constants | gains and offsets by joint | find files, match joint groups, reorder | every joint gets its gains and no other's position |
| `orbit/observations.py` | none | fields of a state | right field, right frame |
| `relic/interlimb_env_cfg.py` | goals, sub-goals and timers per environment | resample, interpolate, joint action, reset events | goals feasible and on schedule; what is done to one environment leaves the others alone |
| `isaaclab_spot/spot_env.py` | joints of each environment, pose cache | reset event, step, recorders | starts within the limits, arm folded |
| `scripts/print_timing_diagnostics.py` | none | statistics, key checks | gets through a torn log; raises no false alarm |
| other scripts, `isaac_model.py`, meshes, Docker | none | plots, declarations | no behaviour of their own |

### What is hard

* `latest_state` is read up to four times for one command
  (`onnx_command_generator.py` 221, 228, 233, 264/421 and 275), while the state
  thread replaces it.
* `Event.clear` forgets what was set since `wait` returned, and an event set
  during the inference is left over for the next command.
* The generator can end in five ways: stop flag, timeout of the divider,
  exception of the policy, exception of the activation, and a call that ends and
  never resumes it. The command thread powers off in three of them.
* Cleanup waits on threads that wait for the robot.
* Ctrl-C can come between any two statements of `main`, the finally clause
  included.
* Keys change the velocities in several steps that another thread reads between.
* The log is lists that grow one after another and are saved one after another,
  by threads that need not have ended.
* The mock has no robot to wait for: that its policy finds a state is a matter of
  time, and its timer can be late.
* The simulation's code works on tensors with a row per environment; resampling or
  resetting some rows writes some tensors for all.
* Positions are matched to joints by regular expressions whose order counts, and
  then by their place in a list.

`PROJECT.json` lists each hazard at its line with the properties aimed at it.

## 2. The modules

| module | models | extends or instantiates |
| --- | --- | --- |
| `StreamThreads` | control of the state thread and the generator | |
| `ControlLoop` | the same with the data that flows through it, and the robot | instantiates `StreamThreads` |
| `CommandPipe` | what a reader of the command stream is promised (abstract) | |
| `MCControlLoop` | the refinement mapping from `ControlLoop` to `CommandPipe` | extends `ControlLoop` |
| `SpotDemo` | main, command thread, lease, power, around both threads | instantiates `StreamThreads` |
| `MockSpot` | the demo with `--mock`: timer, command thread, main, on a clock | |
| `TerminalKeyboard` | input thread and listener | |
| `Gamepad` | curve and median filter of one axis | |
| `PygameKeyboard` | the loop over held keys | |
| `InputDevices` | one of the three devices | extends `TerminalKeyboard`, instantiates the two others |
| `KneeActuator` | delay, controller and limits of a simulated knee | |
| `GoalCommand` | goals, sub-goals and joint targets of the training environment | |
| `ResetJoints` | how both environments put joints back | |
| `IsaacLoop` | the loop of `spot_rl_isaac.py` and of the replay script | |
| `Simulation` | one of the four parts of the simulation | extends `KneeActuator`, instantiates the three others |
| `JointCommand` | configuration, joint orders, the lists of a command | |
| `RobotLog` | appending, saving and diagnosing a log | |
| `ConfigAndLog` | configuration or log | extends `RobotLog`, instantiates `JointCommand` |
| `MCInputDevices`, `MCSimulation`, `MCConfigAndLog` | the constants of the three composites in the runs | extend their composite |
| `StreamThreads_proof`, `ControlLoop_proof`, `CommandProtocol_proof`, `SpotDemo_proof`, `MockSpot_proof`, `InputDevices_proof`, `Simulation_proof`, `ConfigAndLog_proof` | theorems (section 4) | extend their module; `CommandProtocol_proof` goes on from `ControlLoop_proof` |

Operators commented "a bug to look for" are not part of a specification: each is
a definition changed as a bug would change it. `PROJECT.json` names for every
property one of them under which the run fails.

### The control program

**StreamThreads** has a program counter per thread (`stPc`, `genPc`), the event,
the divider's `count`, `activated`, and the two stop flags. The grain is the
shared access: `StoreState` and `SetEvent` are two steps because the policy may
run in between; `WaitReturns`, `ClearEvent` and `SleepReturns` are three because
events may be set in between; the policy has a step for each of its reads. The
actions carry the names of the functions and statements they stand for.

**ControlLoop** conjoins to each action of `StreamThreads` what it does to the
data. A state is its number in the stream (0 stands for `None`), an action of the
network is the key of the command it went into, a command is a record of its key,
the state it was computed from (`state`), the action it was fed (`last`), the
state its `end_time` is counted from (`deadline`) and whether it carries gains.
The robot is external: it samples a state, which names the last command
received, and receives commands in order, both at any time. `_safety_pos` is left
out, because `_triggered_safety` is assigned `False` just before it is tested.

**SpotDemo** adds the main thread statement by statement, so that Ctrl-C
(`LeaveTry`) and a second one (`CleanupInterrupted`) can come anywhere, the
command thread with the ways in which its call can end, the lease and the motor
power. `join` is a guard; `join` of a thread that was never started raises
(`JoinRaises`). `cutShort` is a history variable: the call was over before the
generator was. A `power_on` that is broken off leaves the robot powered or not.

**CommandPipe** has no thread and no event: states are published, commands come
out. `MCControlLoop` maps `published` to `latest_state` and the pipe to the states
of the commands sent, and `ImplementsPipe` says that every step of `ControlLoop`
publishes, emits or stutters. The emitting step is `SendCommand`; that its guard
holds needs everything `RateBound` and `FreshInputs` say.

**MockSpot** has the same policy, divider and main, but `RepeatedTimer` in the place
of the robot, and a command thread that calls the policy whatever the divider
has answered. Whether there is a state is then a matter of time. Each thread has a
time at which it takes its next step at the latest (`timerDue`, `cmdDue`), `Tick`
waits for nobody beyond it, and `late`, drawn once, is how late a step may be.
`NextSlot` is the arithmetic of `run()`: `run_time` advances by whole slots, the
sleep is until then. Main goes statement by statement as in `SpotDemo`, with the
mock's methods: each thread is created and started in two steps (`NewTimer`,
`RunTimer`, `NewCommandThread`, `RunCommandThread`), Ctrl-C (`LeaveTry`) can come
between them, a thread that was never started cannot be joined (`JoinRaises`), a
timer that was never created cannot even be looked for (`NoStateStream`), and a
second Ctrl-C can come anywhere in the cleanup (`CleanupInterrupted`, remembered in
the history variable `interrupted`). Threads live on when main has left, as
non-daemon threads do.

### Input devices

**TerminalKeyboard** numbers the axes in the order of the code. The input
thread changes one axis a step, the listener reads one axis a step, and the
list is put in the context as a whole. `lastKey` and `stale` are history
variables. Key repeat, echo and terminal modes are left out.

**Gamepad** has one axis, since the three differ in their `AxisConfig` only, and
scales velocities so that the slope of the curve and the median of an even
number of samples are whole. The stick moves anywhere between two samples.
**PygameKeyboard** has all axes, and any keys held at each pass of its loop; the stop
key, the order in which the keys of an axis are looked at, and the closing of the
window are the code's.

### Simulation and training

**KneeActuator** computes, in the order of the code: the delayed setpoint, the PD
effort clipped to `effort_limit`, the clamp to the torque the linkage has at the
angle, the clamp to what the motor has at the speed. Angle and speed are any of
those given, since physics is not modelled, so that every pair of limits occurs.
A reset draws the lag and empties the buffer of the environment.

**GoalCommand** goes through `phase` in the order in which the environment steps its
managers: actions are processed, environments whose episode is over are reset,
the command term moves its sub-goals on and resamples where it is time. The
placeholder for "no leg", the zeroing of legs and the writing of whole tensors
are as in the code; a goal is drawn from those that were sampled beforehand.

**ResetJoints** has both programs' events: the deployment's draws around the
defaults, clips, caches and writes the arm's pose; the training's writes defaults,
then, as a second event, the arm (`arm_pending` is in between).

**IsaacLoop** has a program counter at the statements of `spot_rl_isaac.main` or of
the replay script. A state is known by the steps since the reset and its
`sim_time`, so that a stale one is told from a fresh one. The step of the
environment fills the recorders in the order of the code.

### Configuration and log

**JointCommand** reads a configuration group by group; a regular expression is the
set of the joints it matches, with the value it gives them; then it makes the lists
of commands. A position is a pair of the joint it was computed for and a number,
which the robot does not see: `EachToItsJoint` compares it with its place.

**RobotLog** appends a row a column at a time in the order of `log_state`, and saves a
column at a time in the order of the dictionary. The generator may be left behind,
as `SpotDemo` shows it can; saving may fail at a column, or at an entry of the
bytes. `Diagnose` reads what is in the file.

### Composite modules

The number of runs is kept small by checking parts of a program that share no
state in one run: a behaviour of `InputDevices`, `Simulation` or `ConfigAndLog`
is a behaviour of one part, drawn in `Init`, and the other parts stay at a fixed
initial state. So the states add up and don't multiply, and an invariant of the
composite that names a part is checked on all of that part's states. A property
of a composite conjoins what the part's module says under several names; its
comment says what it is about. The composites have constants like any module, and
assume of them the `Assumptions` of the parts; the MC modules only give them
values, so that theorems and runs are about the same specification.

## 3. What is checked

### Runs that pass

**stream_threads** (Factor 6, the demo's). `CountInv`: the divider's count stays
below Factor until it lets go at exactly Factor. `StopEndsGenerator`: a stop ends
the generator, states or none.

**control_loop** (Factor 3, gains in 1 command, 7 states).
`PolicyHasState`: `latest_state` is never `None` in the policy. `RateBound`: the k-th
command acts on state Factor * k or later, so a burst of events never makes
commands faster than the states. `FreshInputs`: successive commands act on states
at least Factor - 2 apart. The 2 is tight and has two causes: one event left
over from before the last observation was read, and one state stored and not yet
announced. `ReadsInOrder`: the reads of one command, and of successive commands,
never go back. `KeysInSequence`: keys count without a gap, rows and commands agree,
the action fed is the one before. `ActivationProtocol`: joint control is asked for
once, after a command with gains was sent and before the second. `AckCausal`: a
logged state acknowledges an older command than its row's, and acknowledgements
never go back. `ImplementsPipe` is the refinement.

**spot_demo** (Factor 6; the robot may fall silent, calls may fail, Ctrl-C may come
anywhere). `LeaseCoversStream`, `CommandsStopFirst`: order of the shutdown.
`SavedLogComplete`: nobody is left to write to the log when it is saved, unless the
robot cut the call short: joining the command thread does not wait for gRPC's own
thread. `ExitLeavesRobotOff`: a run that started the command thread and came to its
end has the robot without power, or its call failed. `StateLossPowersOff`: when the
state stream is gone, the divider's timeout ends the commands and the command
thread powers off. `CleanupEnds`: cleanup terminates if the robot streams.

**mock_spot** (slots of 2 ticks, 2 events a command, 7 ticks of patience, threads 1
or 3 ticks late, 14 ticks). `PolicyHasState`: if threads are late by at most a third
of what the patience exceeds a slot by, the policy has a state; with threads 3 late
the same run contains the `AttributeError` that the condition excludes.
`CleanupInOrder`: the command thread that is joined gets its event from the timer
instead of sitting out its timeout; the timer is not told to stop before the command
thread is down, even by a cleanup that is broken off; the log is saved with both
threads down; and a single Ctrl-C loses the log in two places only, before the
timer is started (`NewTimer` and `RunTimer` not yet done) and between the creation
of the command thread and its start. In the second, `join` raises (mock_spot.py:93),
`stop_state_stream` and `logger.save` are skipped, and the timer keeps the process
alive; a second Ctrl-C loses the log wherever it breaks off the cleanup.
`KeepsToSlots`: the
timer never sleeps for a negative time or past a slot, and never calls twice in a
slot, however late.

**input_devices**. Terminal: `KeysCapped` (the caps hold whenever a key is waited
for, and what is published is at most one key press over them), `StaleOnce` (after
the last change of the velocities at most one list that differs from them is
published), `StopKeyHeard` (after the stop key the command becomes zero, or another
key follows). Gamepad: `StickCurve` (pushing further never slows down nor turns
round, on either side, and forward the velocity is the configured one at both ends
of the travel; in reverse it is not, see `reverse_as_documented` below),
`StickFiltered` (a minority of the samples doesn't show). Pygame: `HeldKeysSettle`
(keys held settle every axis, whatever they and the velocity were).

**simulation**. Knee: `BothLimits` (the effort is within the limits of the angle
and of the speed at once, and of the controller's direction), `SetpointLands` (a
setpoint arrives before the policy's next). Goals: `GoalsFeasible` (arm, leg and
torso come from one cached command; legs without a goal are silent), `OnSchedule`
(sub-goals and arm targets are where the environment's own timer says),
`OthersUndisturbed`, `GoalsChange` (liveness). Resets: `StartsWithinLimits`,
`OthersGoOn`. Loop: `LockStep` (a row acts on the state the step before has left, a
step is made with that row's action, keys are in the next command, what is saved
is whole), `RecordsBelongTogether`.

**config_and_log**. `LastMatchWins`: a joint's gains are those of the last group whose
first expression matches it. `NoCommandWithoutGains`: a configuration with a hole
stops the stream at the first call. `EachToItsJoint`. `WholeOrTorn`: a saved log is
whole, or torn in its last row by a generator left behind. `Diagnosable`: the
diagnostics get through it, but for one case that the property names, and find
fault with the keys of a healthy run only if entries were never written.

### Runs that are violated

Each checks one thing that the repository says and the code does not do.

* **reverts_to_standing**: `stop_command_stream` (spot.py:139) promises a robot in the
  standing controller; the command thread has powered it off by then.
* **stop_state_stream**: `stop_state_stream` (spot.py:113) waits for ever when the
  robot has fallen silent, since the flag is looked at after a state only.
* **ack_matches**: the diagnostics (README.md:63 of the repository) expect row i to
  acknowledge command i - 1; a state can be older than that command's arrival.
* **replay_runs**: the replay script (replay_and_compare_sim_real.py:85-86) hands over
  the group `debug`, which has no `joint_pos`: it raises before its first step, where
  README.md:91 of the repository says that commands can be replayed.
* **reverse_as_documented**: `AxisConfig` (gamepad.py:22-23) documents the magnitudes of
  the output at the reverse edge of the deadband and with the joystick fully
  reversed. The reverse branch shifts by the forward formula (gamepad.py:139): with
  the default axes, x and y give 0.875 and not 1 when fully reversed, and yaw gives
  0.5 and not 0 at the edge. What does hold in reverse, order, sign and bounds, is
  in `StickCurve`.

### Bounds

* `Factor`: 6 where no data makes the state space grow. 3 in `control_loop`: the
  smallest value for which `FreshInputs` requires progress (Factor - 2 = 1), and
  the proofs are for every Factor.
* `MaxStates` 7: two commands, with a state to spare to be coalesced, left over or
  logged late. It is the only bound on behaviours there, a guard of `RobotSamples`:
  the robot falls silent after it.
* `GainSteps` 1 in place of 3 in `control_loop`: so that there is a command with and
  one without. 3 in `config_and_log`, with `MaxCount` 4 for the same reason.
* `MaxTime` 14 in `mock_spot`: twice the patience, so that a timeout and what follows it
  fit, and several slots. Rounding of floating-point quotients is not modelled.
* `Axes`, `Max`, `Delta`: two axes are enough for a mixed list, and a cap of 1 for a
  press to go over it on either side.
* Gamepad: the axes' real configurations in twentieths of the travel, with
  positions on either side of both ends of the deadband; a window of 4, in which
  half and more than half differ.
* Knee: rows of the code's table at its ends and at its largest torque, slopes of the
  two speed tables as in the code, and the real `MaxDelay` 4 and `Decimation` 10.
* Goals: two environments, two legs, ways of 2 and of 3 steps so that environments
  get out of step; a goal with no leg and one beyond the arm's limits.
* Loop: 3 steps of 2 physics steps, 2 keys. Each step has its predecessor and its
  successor; nothing else is remembered from step to step.
* Configuration: overlapping groups in both orders, a second expression in a group,
  a missing default, a default given twice. Log: 8 of the columns, among them those
  whose places differ in the two orders, 4 rows, and diagnostics that skip 1, 2 or 3.

Deadlock is not checked: every program here is meant to stop, and the bounded
robot stops too.

### Fairness

Weak fairness of what a thread does by itself, and of nothing else. The
interpreter schedules every thread; `event.wait(1)` returns, by its timeout at
the latest; gRPC sends a request it was given or gives the call up;
`power_off(timeout_sec=20)` returns or raises; and a gRPC call whose requests are
over is answered or fails. No fairness is assumed of the robot's states, of the
operator or of Ctrl-C. `CleanupEnds` alone assumes, as `Streaming`, that the robot
streams on or ends its stream; it needs it, as **stop_state_stream** shows. `GoalsChange`
assumes that the environments are stepped: the player's loop runs as long as its app.

## 4. What is proved

**StreamThreads_proof**, assuming Factor is a positive integer.
`ThreadsInvariant`: `TypeOK /\ CountInv` is inductive. `CountInv` is needed for the type
of `count`, which a clear increments. `NeedsStates`: without a state thread the
divider can only time out.

**ControlLoop_proof**, assuming besides that GainSteps is positive and MaxStates a
natural number, which no proof uses. `ImplementsThreads`: hiding the data leaves a
behaviour of `StreamThreads`, so the lemmas above hold here. `TypeCorrect`.
`LoopInvariant`, and from it `PacedByStates` (RateBound), `InputsAreFresh`
(FreshInputs), `ReadsAreOrdered` (ReadsInOrder), `PolicyFindsState` (PolicyHasState).
The argument counts events. `Sets` is how often the event was set, `Events` is 1
while it is set, `Pending` is what the divider has counted for a command that is
not logged yet. Lemma `SlackStep`: no step increases `Pending + Events` by more than
it increases `Sets`. A set event raises both sides, a coalesced one the right side
only, a clear moves 1 from `Events` to `Pending`. Hence

* `RateInv`: Factor * rows + Pending + Events <= Sets, since logging a row turns
  the Factor pending events into a row;
* `FreshInv`: from the state read last, the sets since then pay for the events
  counted since, save one left over and one state not announced, which is where
  Factor - 2 comes from;
* `ReadsInv`: `latest_state` only grows, so each read is at or after the one before,
  also across the steps between the observation and the row.

`RateBound`, `FreshInputs` and `ReadsInOrder` speak of the rows only, and a row is not
inductive by itself: the three invariants say what holds of a row while it is
being made.

**CommandProtocol_proof** goes on from `IInv` with three more parts. `KeyInv` says where
the key, the action and the command in the generator's hands stand between two
rows; `ActivationInv` ties `activated` to the number of commands sent; `AckInv` says that
no state acknowledges more than was received when it was sampled, and none less
than an older one. Six actions deal with a command, and any other step is "quiet"
(`QuietMove`), which is proved once. Hence `KeysHaveNoGap` (KeysInSequence),
`ActivatedOnce` (ActivationProtocol), `AcknowledgedInOrder` (AckCausal), and
`Refinement`: the loop implements `CommandPipe` (ImplementsPipe) for every Factor and
any number of states.

**SpotDemo_proof**: `ShutdownInv` says of each place of main which threads live
(`StartupInv`, `OrderInv`), who holds the lease, when a generator can outlive its call, and
what power goes with the command thread's end. Each of the four invariants of the
run is a consequence: `LeaseHeld`, `CommandsStop`, `LogSavedComplete`, `RobotLeftOff`.
`ImplementsThreads`: the threads in a run behave as `StreamThreads` says.

**MockSpot_proof**, assuming positive period, factor, patience and delays. `Deadline` is
the core: as long as the event was not set since the command thread began to wait,
the timer's next step is due a bounded time after that beginning, by how many
steps it has taken. From it the thresholds: (Timeout - Dt) / 3 for the first state
(`StateBeforePolicy`), (Timeout - Dt) / 4 for any event (`PromptCleanup`). `OnGrid`,
`run_time` is a whole number of slots after the start, with a lemma on the ceiling,
gives `TimerKeepsToSlots` (KeepsToSlots). `InOrder` says of each statement of main,
and of a main that an exception has taken away, which threads exist, are started
and are over; nine of main's thirteen actions leave the threads where they are
(`QuietStep`). From it comes the rest of `PromptCleanup` (CleanupInOrder), with Ctrl-C
between any two statements and again in the cleanup.

**InputDevices_proof**. `DevicesApart`: each device behaves as its own module says.
The terminal, for any number of axes, cap and step: `CapsHold` (KeysCapped) and
`StaleAtMostOnce` (StaleOnce). The invariant bounds each velocity by whether its axis
was capped yet, and says that a list begun after a stale one was published agrees
with the velocities as far as it goes. The window, for any axes and ends:
`KeysSettle` (HeldKeysSettle), because each loop with the same keys takes an axis a
step nearer (`HeldInv`), and no axis is longer than `Span`. The gamepad, for any
`AxisConfig`, travel and window: `CurveAsConfigured` (StickCurve), from the slope,
which isn't negative, the clip to the branch's own side (`CurveUp`), and the line's
values at the ends of the forward travel (`LineEnds`, `ForwardEnds`);
`WrongSamplesFiltered` (StickFiltered). For the latter two the median is defined by
counting the samples below and up to a value. What more than half of the samples are
is counted at both middle places (`MajoritySorted`); that there is a k-th sample at
all is the least of those up to which there are k (`SortedIsSample`).

**Simulation_proof**. `PartsAlone`: each part behaves as its own module says.

* The knee, for any tables whose speed limits have the right sign, any gains, and a
  delay shorter than a step of the policy: `LimitsHold` (BothLimits),
  `DirectionHolds`, `SetpointsLand` (SetpointLands), `SetpointsInOrder`,
  `KneeTypeCorrect`. `BufferHolds` describes the delay buffer while the newest setpoint
  travels through.
* The goals, for any number of environments, legs, commands and lengths of the way:
  `GoalsAreFeasible`, `GoalsOnSchedule`, and the action property `GoalsUndisturbed`. Their
  conjunction is inductive (`GoalInv`). A resampling does one of two things to an
  environment, `Drawn` or `Kept`, which is proved once (`ResampleEach`); that a rounded
  interpolation stays between its ends and moves by no more than its share is
  arithmetic of its own (`LerpBetween`, `OnMoves`).
* The resets, for any joints and ranges whose defaults lie within the limits:
  `RobotsStartWithinLimits`, `OtherRobotsGoOn`. The invariant adds that a robot between
  the training's two events stands as by default.
* The loop, for any number of steps, of physics steps in one, and of keys:
  `LoopInStep` (LockStep), `RecordsTogether`. `LoopAtPc` counts the rows, records and keys
  at every statement, which the rows by themselves don't say.

**ConfigAndLog_proof**. `FilesApart`: log and commands behave as their modules say. The log,
for any columns, number of rows and margins of the diagnostics: `LogIsWholeOrTorn`
(WholeOrTorn), `LogIsDiagnosable` (Diagnosable). The core of the invariant is `Seen`: every
length that main has saved, or is about to, is one that the list can have had since
main began to save, and so lacks at most the row a generator that was left behind
may still append. The keys of the valid rows then have no gap, since the valid rows
are an interval. What is assumed of the two orders of the columns
(`ColumnsAssumption`: each column once, the commands last in one of them) follows
from the lists in the code, but by recursion over them: TLC evaluates it. The
commands, for any groups, expressions and joints whose two orders agree, as the
code's do: `GainsOfLastMatch` (LastMatchWins), `HolesStopCommands`
(NoCommandWithoutGains), `PositionsAreOfTheirJoints` (EachToItsJoint). `Stiffest` says of
every prefix of the groups what `LastMatchWins` says of all.

Each of these invariants was checked by TLC on the small instance before it was
proved. Only model-checked: liveness, which is out of the prover's reach
(`StopEndsGenerator`, `CleanupEnds`, `StateLossPowersOff`, `StopKeyHeard`, `GoalsChange`),
and the violated properties, which are refuted by one behaviour.

## 5. What is not modelled

* Real numbers: the network, quaternions and rotated observations, gains, times in
  seconds. A timeout is a step that may be taken while the event is not set,
  except in `MockSpot`, which has a clock.
* Physics, rendering and IsaacLab's managers, but for the order in which the code
  relies on them; the scene, terrain, noise and observation terms that the
  configurations declare.
* The values in the dt columns and the timing dictionary: they feed plots only.
* Connection, authentication, E-Stop check, wording, terminal modes, drawing.
* Messages lost or reordered between robot and program: a gRPC stream is
  ordered and reliable until it ends; ending is modelled.
* The safety check of the policy: its call is commented out
  (`onnx_command_generator.py` 238), so no behaviour of it is left to check.
* File lookup (`detect_config_file`, `detect_policy_file`), the YAML constructors, the
  URDF reader, `history.py`, `env_convert.py`: single functions over files.
* Plotting and printing scripts, and two scripts written for an older version of the
  classes they import.

Differences met while modelling that have no run, because nothing in the
repository says otherwise or because a property takes them into account:

* Raw and preprocessed columns of a row may be of two states (`ReadsInOrder` says in
  which order); a command can exceed the caps by one key press (`KeysCapped`).
* A command may still be computed by a generator that gRPC has left behind, and be
  logged (`SavedLogComplete`, `WholeOrTorn`).
* A stop key tapped between two passes of the pygame loop is not seen.
* In the training environment the commanded leg is sent the policy's action and not
  its sub-goal; only the arm follows its sub-goals.
* `env_convert.py` writes `env_cfg.json`, which `detect_config_file` does not take for a
  configuration: it looks for names that end in `env.json`.

And two that contradict a docstring or a comment:

* `get_joint_velocity` (observations.py:113), documented as returning velocities,
  returns the positions, so the column `raw_joint_velocities`
  (onnx_command_generator.py:283) holds positions. It is not modelled, since it only
  feeds that column; the policy's own input is computed elsewhere.
* `time_` (spot_env.py:202) multiplies a counter of physics steps by the length of an
  environment step, although spot_env.py:659 gives that step as 50 Hz, so the simulated
  robot's clock is `decimation` times too fast. `IsaacLoop` has it so (`time_`); it is
  one product, and has no run of its own.

## 6. Plan

Done: all of section 2, and the proofs of section 4, which cover every safety
property of the runs. What is left, in the order in which it would add most:

1. One specification of divider and policy that `StreamThreads` and `MockSpot` both
   implement; the mock's command thread ignores the divider's answer, so it doesn't
   implement `StreamThreads` itself.
2. That the log of `ControlLoop` and the rows of `RobotLog` are the same list: an
   abstract log with one append per row, which both implement while no generator is
   left behind.
3. Gravity and velocity observations over the rotations by quarter turns, for which
   quaternions are whole.
