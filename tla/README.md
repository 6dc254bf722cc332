# Veloxity: a TLA+ verification project

Veloxity is flight-control firmware in Rust (the repository's `src/`; all paths
below are relative to it, and `core/` stands for
`crates/veloxity_core/src/`).  One generic `World` owns the state of the flight
loop and runs its stages in a single thread.  Board crates give it sensors, a
serial link, parameter storage and PWM outputs: on STM32 through tasks of an
interrupt executor, on RP2350 through a second core, in simulation through a C
interface and a worker thread.

This directory models that program from its source, checks the models with TLC
on small instances, and proves the main results with TLAPS for every instance.

| run | subject | distinct states |
|---|---|---|
| `link` | is a lost link noticed, flown in failsafe and left again? | 9,264 |
| `arming` | which calibration arms, which lifts the interlock; can a vehicle be armed past an error or past the throttle checks? | 154,520 |
| `realtime` | does this survive a service step that is cut anywhere? | 456,304 |
| `loop` | the rest of the flight loop: time, telemetry, calibration, commands, gestures; the simulated firmware's hand-off | 254,128 |
| `outputs` | enabled channels, also where one fails, kill switch, rates, mixers, battery scale | 1,294,636 |
| `parameters` | the SD card, the companion's requests, the simulator's file | 183,072 |
| `rp2350` | the mailbox and the rings between the cores, both parsers | 673,600 |
| `stm32` | sensor tasks, RC line, serial pipes, GNSS receiver | 301,469 |
| `realtime_gyro` | does arming wait for the gyro calibration under the realtime scheduler? | violated |
| `realtime_imu` | is an IMU that falls silent reported under the realtime scheduler? | violated |
| `pwm_aux` | do the auxiliary motors of a disarmed vehicle stand still? | violated |
| `ubx_stm` | is every position the STM32 platform publishes a NAV-PVT frame? | violated |

## The system

| component | source | state | what is hard about it |
|---|---|---|---|
| Arming state machine | `core/state_machine.rs` | mode, error flags, arming-safety inputs | transitions on exact events; flags and mode must agree whoever raises them |
| World, schedulers | `core/world.rs`, `core/world/` | deadlines, accumulated samples, leftovers of stages | stages read what others wrote earlier; a realtime step may be cut between any two |
| RC | `core/rc.rs`, `core/rc/` | last packet, switches, hold timer | health without packets, timers over an outage |
| Command manager | `core/command.rs` | RC, offboard, failsafe and combined command, lockout | timeouts, overrides, estimator lockout |
| Command requests | `core/command/service.rs` | request queues | refused while armed; order by kind |
| Parameters | `core/params*`, `core/events.rs` | table, change queue, list cursor, responses | bounded queues that drop; reactions that must not be missed |
| Parameter storage | `core/params/storage.rs`, the SD task | signals, image on the card | late answers, failures and power loss between two blocks |
| Sensors | `core/sensors*` | raw and processed packets, windows | requests that overtake each other, stale samples |
| Control pipeline, mixer, PWM | `core/control.rs`, `core/mixer*`, `core/pwm*` | enabled mask, mixer, rates | channels that fail half way, two sources of output types |
| Telemetry | `core/comm*`, `core/world/telemetry.rs` | stream periods, freshness | rates that change in flight, slack |
| Companion link, log | `core/companion.rs`, `core/log*` | connection, hard error, log queue | one-shot reports against full queues |
| MAVLink link and parser | `comms/veloxity_mavlink/src` | receive buffer | resynchronisation |
| Simulated firmware | `sim/firmware/src/ffi.rs` | snapshots, progress, worker, file | two threads, condition variable, panic, destruction |
| RP2350 platform | `platforms/rp2350/`, `boards/pico2w/` | mailbox, rings | two cores, full queues, counters of their own |
| STM32 platform and boards | `platforms/stm_32/`, `boards/pixracerpro/`, `boards/nucleo/` | signals, pipes, driver tasks | tasks preempt the flight loop; errors, lateness, short reads |
| Estimator, controller | `core/estimator*`, `core/controller*` | filters, gains | floating point |

`World` calls the components one after the other and hands each a context of
references.  Nothing runs concurrently with a stage but interrupts and the
tasks in them, the other core, and in simulation the thread that feeds sensors.
Components talk to later ones by what they leave behind: flags, queued events,
the last processed packet, the combined command, a signal that keeps the last
value only.  The hard behaviour is therefore one of order: which stage runs
next, with whose leftovers, after which loss.  `PROJECT.json` lists the hazards,
each at its line, and the properties aimed at it.

## How the modules are put together

`StateMachine` and `FlightCore` are the centre: the arming state machine as
operators, and the loop with everything that decides about arming and the link.
`FlightContract` is what they promise, and `LatestValue` what a sensor ring
promises its reader.  Every other module is one component with its own
variables and the environment it meets.  Where one of them computes what
`FlightCore` leaves open (the pilot's gestures and the hold timer), it is shown
to keep the same contract: `RcArming` implements `FlightContract` too.

A run needs the bounds of one question, so components that share no state are
checked side by side by one MC module: `MCFlightLoop`, `MCOutputs`,
`MCParameters`, `MCRp2350`, `MCStm32`.  A variable `subject` is chosen at the
start; the component it names, instantiated with the constants of that subject,
makes its steps, and the others stand still.  The number of states is the sum
of the subjects', not their product.  Each property of such a run is the
conjunction of what the subjects promise on one theme, the type invariants
among them, each under `subject = ...` where it depends on the instance.  The
schedulers and command managers of `MCFlightLoop` are instances of their proof
modules, so what is proved of them for all constants can be used of the suite.

| MC module | subjects |
|---|---|
| `MCFlightCore` | the sets of disturbances and of changing parameters for `FlightCore` |
| `MCFlightArming` | `calibrations`, `errors`: two instances of `FlightCore`, as all their disturbances at once are too many |
| `MCFlightLoop` | `timing`, `late`, `rc` (Scheduler); `rates`, `staged`, `busy`, `drain` (Telemetry); `once`, `split`, `ends` (Sensors); `mux`, `lock`, `unlock` (CommandMux); `gesture`, `hold` (RcArming); `handoff` (SimHandoff) |
| `MCOutputs` | `pwm` (PwmOutput), `mixer` (Mixer), `battery` (BatteryMonitor) |
| `MCParameters` | `storage`, `in_time` (ParamStorage), `sync`, `answers`, `fault` (Requests), `sim` (SimParams) |
| `MCRp2350` | `producers` (RpProducers), `down`, `served`, `up` (Mailbox), `parse`, `resync` (MavlinkRx), `ubx`, `ubx_returns` (UbxRx) |
| `MCStm32` | `drivers` (SensorDrivers), `sbus` (SbusReceiver), `pipe` (SerialPipe), `m8`, `m9` (UbxConfig), `time` (GnssTime), `date` (GnssDate) |

Definitions named "Mutated form" state, next to an operator, how a plausible
mistake would change it; they take part in no specification.

## The modules

`PROJECT.json` maps each definition to its lines; here is how to read the modules.

### StateMachine, FlightCore, FlightContract

A `StateManager` is `[mode, flags, throttleLow, overrideSwitch]`: the typestate
variant, its `error_flags`, and `ArmingSafety`.  `Mark` is the flag update at the
head of `StateMachine::update`, `Transition` the per-mode `on_event`, one
operator each; `ManagerUpdate` is `StateManager::update` with the check that
drops an unsafe arm request, `SetErrorFlag` sends an event only when the flag
changes, `ManagerRun` re-raises what is set.

One action of `FlightCore` is one stage, complete with everything it calls:

| action | code |
|---|---|
| `Comm` | `run_communication_and_parameter_service_stage`: commands, parameter sets, `request_gyro_calibration_if_needed`, reactions |
| `Sensors` | `run_sensor_ingestion_and_health_stage` (run_once): IMU sample or none, windows, health, end of an arming calibration, RC packet |
| `ServiceSensors` | `run_service_sensor_stage`: the IMU sample processed last is restored |
| `RcCommandState` | `run_rc_command_state`: `Rc::receive` and `run`, `CommandManager::run`, `StateManager::run` |
| `Control` | `run_control_and_mixing_stage_if_new_imu` |
| `ImuControlTick`, `ControlUpdateTick` | `run_imu_control_tick`, `run_control_update_tick` |
| `BeginService`, `ServiceClosed` | a realtime service step starts; `realtime_service_can_continue` turns false and skips the rest |
| `RcAges`, `ImuAges`, `ImuInterrupt`, `Restart` | time passes a timeout, the data-ready interrupt, a reboot |

Time is the answer to the comparisons made with it; sticks and hold timer are
any gesture; a calibration window ends at any sample, well or not; the
estimator's health, the clock's direction and the mixer's validity are any
Boolean where the instance allows.  `Sources` names the disturbances an instance
allows, `MutableParams` the parameters the ground station changes.

`FlightContract` has `phase` (disarmed, calibrating, flying, failsafe), `alive`,
`reported` and `command`.  Only an RC stage on a live link lets the pilot arm or
disarm and ends failsafe; an RC stage on a dead one puts a flying vehicle into
failsafe on the failsafe command.  `SafeSpec` is that, `Spec` adds `LossNoticed`:
a dead link is noticed without another packet.

### The rest of the flight loop

* `Scheduler`: the main loop's choice (`NextStep`), IMU and control ticks, the
  stages of a service step with the look at IMU and deadline before each.  Time is
  counted in ticks since the last deadline; the work under way takes any time up
  to `ImuCost` or `StageCost`, and an IMU interrupt comes at any moment not closer
  than `ImuGap` to the last.  `phase` is the ideal clock that drift is measured
  against.
* `Telemetry`: each stream's interval and the age of its period, which samples
  are there and sent, and both ways to send.  `slack` is what fits before the next
  tick, `debt` and `copies` are histories for rate and duplication.
* `Sensors`: flags, windows and biases of four calibrations, the processed sample
  of each kind, the stages of both schedulers, commands at any time, a vehicle
  that is moved and put down again.  Of a sample only its stillness is kept.
* `CommandMux`: `CommandManager::run` with offboard timeout, override by sticks
  and switches with its lag, minimum throttle, and the lockout of angle mode with
  its two ways out.  Ages replace times, sticks are deviated or not.
* `RcArming`: packets with any gesture, outages, the arming switch, a remapped
  channel, the hold timer in the code's arithmetic, and the state machine of
  `StateMachine` behind it.

### Parameters and requests

* `Requests`: the companion's messages, the controller's queues and the
  companion's own table in three records.  `Stage` takes all that arrived and
  runs commands, sets, reads, the list and the reactions in the code's order;
  `SendResponses` drains one or all; resets by a hard fault keep the error.
* `ParamStorage`: the main loop's requests, the three signals, the SD task block
  by block, `Timeout`, card errors, and `Restart` at any point, so a card holds a
  mixture of two images.  A CRC stands for the image it was computed from.
* `SimParams`: `write_params_to_path` as truncation, lines and rename, with kills
  and refused writes; `veloxity_sim_create` parses what it finds, possibly
  written when a parameter had another kind.

### Outputs

* `PwmOutput`: `PwmOutputStage` is the kill switch, the mask and
  `sync_pwm_output_state`, in which the first channel that fails ends the loop;
  `ControlUpdate` composes and writes; the STM32 driver's rates go timer by timer
  and stop at the first refusal.
* `Mixer`: parameter sets, reflection of canned mixers, the change queue and its
  overflow, full refresh, and `Mix` with row selection and scaling in integers.
* `BatteryMonitor`: the ADC task, its 5 ms limit and the signal with the pair of
  multipliers.

### RP2350

* `Mailbox`: both directions of `comms.rs`, one critical section per action; the
  counters are separate steps (`Count0`, `Count1`) as in the code.
* `RpProducers`: the IMU's start with retries, three rings that drop the oldest,
  and the drains of both schedulers; implements `LatestValue`.
* `MavlinkRx`, `UbxRx`: the parsers byte by byte, with scaled sizes, real
  checksum comparisons, and bytes that are changed, lost or doubled.

### STM32

* `SensorDrivers`: eight drivers, each as the steps between its awaits, the
  devices' conversions, and the flight loop's takes, preempted between any two.
  `conv` is what a device's data registers hold: a measurement not read out yet, or
  one that was.  A driver decides by what it looks at (`Accepts`): its status, or,
  for the lidar, nothing; a reading is labelled by the registers.  `Boards` lists
  what a board fits, whether its loop is the realtime one, and whether the build
  counts; a behaviour is about one of them (`fitted`, `realtime`, `counting`).
  The diagnostics count what five of the drivers publish (`Recorders`) and what the
  PixRacer Pro takes, but not an IMU that is drained with the rest (`Counts`); the
  IIS2MDC, ADIS16500 and DLHR drivers and the Nucleo board count nothing.  No board
  spawns the ADIS16500 and DLHR tasks; they are modelled as the drivers stand.
* `SbusReceiver`: reads of any length into one buffer, header and footer checks,
  the time limit, the queue.
* `SerialPipe`: a frame is written by partial writes while the task empties the
  pipe; USB ports open and close.  `Ports` lists the ports by their sizes and kind,
  and whether rejected frames are counted, which only a USB port built with the
  diagnostics does; a behaviour is about one of them (`port`).
* `UbxConfig`, `GnssTime`, `GnssDate`: the search for the receiver's rate with
  lost acknowledgements; pulse, frame and stamp in any order; the day number
  against a calendar that is counted day by day.

### Simulated firmware

* `SimHandoff`: the worker's loop step by step between its locks, the
  simulator's calls, the wait on the condition variable with its timeout, a
  panic at any point of the worker and destruction at any point of the caller.

## What the runs check

* `link`, `arming`, `realtime`: on `FlightCore`, with the disturbances
  their `Sources` name: flags and mode agree, failsafe begins and ends with the
  link, arming passes the checks, only an accelerometer calibration lifts the
  startup interlock, and the refinements of `FlightContract` (with its leads-to
  under run_once, its safety part under the realtime scheduler).
* `loop`: `RealtimeKeepsTime` (no drift, once per interval, lateness bounded by
  what was running), `TelemetryKeepsRates` (nothing twice, nothing too fast,
  nothing starved, no fresh sample lost when there is slack), `CalibrationSound`
  (a request is answered by its own samples; an arming fails only for a failure
  of its own window; nothing older than the latest reading is shown),
  `CommandSound` (offboard only fresh, overrides only by the pilot, throttle cap,
  lockout), `ArmingByPilot` (an uninterrupted gesture, low throttle, the
  contract), `SyncedIsProcessed` and `OutputsOfItsSample` (what a wait of the
  simulator is worth), `NobodyIsLeftWaiting` (all leads-to).
* `outputs`: `RecordIsDriven` (the record of enabled channels names none that is not
  driven, and is exact where all can be enabled), `OutputsObey` (kill switch, rates),
  `MixerSound` (the mixer is the one a restart would build, the parameters show what
  flies, motors stay in range), `BatteryScales`, `OutputsComeRound` (kill and disarming
  are obeyed in the end, the battery is reported although no conversion ends).
  `UnsupportedSets` has the run start with a board whose channels can all be enabled and
  with one whose last channel cannot; on the latter `KillObeyed` and
  `DisarmReachesMotors` are not asked for, see the divergences.
* `parameters`: `AcknowledgedIsOnCard`, `TableIsOneImage`, `KeptOverRestarts`,
  `TablesAgree` (in force, in the table, told to the companion), `Answered`.
* `rp2350`: `ImplementsLatestValue`, `LinkKeeps` (nothing forgotten, doubled or
  uncounted, critical messages first and in order; a frame is one piece of what was
  received), `PositionsAreSent` (a position that is
  published is a NAV-PVT frame received whole, its checksum included),
  `LinesRecover` (streams are served, lines resynchronise).
* `stm32`: `DriversTellTheTruth` (what a driver that looks at a status publishes
  as good is a measurement not published before, and failed starts are heard),
  `SamplesAccounted` (where publishes and takes are counted, each result is waiting,
  replaced or consumed), `SerialInOrder`, `ReceiverConfigured`, `PositionsKeepTime`,
  `TasksComeRound`.

Deadlock is checked everywhere: these loops and tasks never stop.  Modules whose
bounds end a run say so by an action of their own (`Sent`, `Stop`, `Gone`) that
is enabled only when everything has come through.

### Bounds, and why they are enough

`FlightCore` has no counter and no bound: its state is finite by abstraction.
Elsewhere, bounds are constants whose declaration says "bound".

* Queues and rings have the smallest capacity at which full, wrapped and
  overflowing all occur (1 to 3), with more messages than fit; counters wrap at 2
  or 4, so they do wrap.  Nothing in the code depends on the capacity beyond
  "full", which the proofs for the rings confirm for every capacity.
* Times are ratios: an interval of 5 to 12 ticks, work of 1 to 14, so work is
  shorter than, equal to and longer than slack and interval; `late` has stages
  that overrun two intervals.
* Ages are kept up to the limit they are compared with, so they bound nothing.
* Storage: two parameters and three requests let an answer to a request arrive
  in the next one's wait, and a power failure mix two images; more of the same
  adds nothing new to the CRC's view, and the proof covers every length.
* Parsers: a byte has 5 or 6 values, payloads up to 4 bytes and one or two
  disturbances, so that start bytes occur inside payloads, lengths lie and
  checksums collide.
* Frames on pipes are longer than a packet and than what is left in the pipe, so
  every cut happens.  The calendar covers 1999 to 2100, with both kinds of
  century years.
* Restarts, versions, frames and generations: two or three, enough for one to be
  in flight, one waiting, and one that replaces it.

### Fairness, and why the code justifies it

Weak fairness only of what the firmware runs by itself: the main loop is `loop {
... }` and goes on, executor tasks and core 1 run when they can, timers fire.
Nothing is assumed of the pilot, the ground station, the companion, the sensors,
the card, the link or the clock, so `Timeout` and the sampling timer must rescue
every wait for them.  Exceptions, each stated where it is used: the parsers'
recovery assumes that the far end keeps sending frames; a calibration ends if
samples keep coming and stages see them (strong fairness of a sample in
`Sensors`, as a sensor that never has one when the stage looks gives nothing to
calibrate on); `RcServed` assumes the timing of subject `rc`, where slack comes
back; outputs follow a disarm if control updates go on.  In a suite one
conjunct of fairness stands for several actions where each excludes the others
until it is taken, which keeps the check small.  `LossNoticed` is checked without
`restart`: a board that reboots for ever before its RC stage notices nothing.

### What the violations show

* `realtime_gyro`: with CALIBRATE_GYRO_ON_ARM set, run_once requests the gyro
  calibration in the communication stage that follows the RC stage, before the
  next health check.  In the realtime scheduler the health check comes first: it
  finds `Calibrating` with no GYRO flag, which is also what a finished calibration
  looks like, and arms.  The test `test_wait_for_calibration_to_arm`
  (`core/state_machine/tests.rs:224`) states the intent for the machine alone.
* `realtime_imu`: the service sensor stage drains no IMU, restores the sample
  processed last, and the health check of the same stage takes whatever is there for
  a sample just seen.  The run assumes that no IMU interrupt comes any more and that
  the stage checks again and again past the timeout, and still finds no
  IMU_NOT_RESPONDING.  Where checks are closer together than the 100 ms of the
  timeout, last_imu_seen moves before it passes; the model abstracts from when, the
  result is the same.  A unit test keeps a poll without the IMU from raising the
  error (`core/world/tests.rs:914`), with a sample that is not too old yet; past
  that, `core/sensors/health.rs:126` says what should happen.  run_once does it
  (`SilentImuReported`).
* `pwm_aux`: while disarmed, an auxiliary motor is composed as 0.0, as a test
  demands, but the disarmed command goes by the mixer's type of the channel,
  which is Aux, and is half throttle.
* `ubx_stm`: the STM32 parser joins class and id of NAV-PVT by "or" and ignores
  the length, so another NAV frame becomes a position.  The RP2350 parser asks
  for all three.

### Divergences seen while modelling

Met when reading and modelled as the code has them; the properties of the runs
are stated so as not to depend on them, and no run refutes the quoted words.

* An offboard rate command that holds roll and pitch lets a deviating stick put
  an angle command in force although the estimator is unhealthy
  (`core/command.rs:811` against the log line at 185).
* The lockout of the angle switch ends on a recovery of one stage, although the
  estimator is lost again (`core/command.rs:190` against 158); the parameter's
  lockout misses an angle setting that arrives before the manager saw the
  recovery (`core/command.rs:168` against 203).
* When `enable_all` fails halfway, nothing is recorded as enabled
  (`core/pwm/output_sync.rs:74`): a kill or a mask finds nothing to turn off, and the
  channels before the failing one stay driven.  All channels of the boards exist, so
  that none of them meets it.
* Element writes under a canned mixer never fly, and one overridden axis moves
  all attitude rows to the primary mixer, against
  `docs/tutorials/quadx-firmware-parameter-incident.md:39` and `:52`.
* At rate 0, OUTPUT_RAW is never due (`core/comm.rs:699` against
  `plane_startup.md:693`), and a heartbeat at rate 0 starves the samples at rate 0
  (`core/comm.rs:349`).
* More than eight parameter changes in one stage lose reactions
  (`core/events.rs:168`); a completed barometer calibration is not reported to
  the companion as the comment at `core/world/service.rs:597` says.
* A newer firmware rejects the image on the card (`core/params/storage.rs:191`),
  whatever the engineering notes say of compatible versions.
* Telemetry comes first in a service step, not after responses
  (`core/world/service.rs:175` against `docs/architecture-guide.md:365`).
* The MAVLink receive buffer can run out of space
  (`comms/veloxity_mavlink/src/parser.rs:202` against the comment at 40).
* A multiplier set to nonzero and back to zero within a battery sample is never
  applied (`core/battery.rs:24`).
* A short SBUS read is completed with the remains of earlier frames and passes
  for a valid one (`platforms/stm_32/src/peripherals/sbus.rs:145`), so "last
  known good values" may be a mixture.

### Further hazards

`PROJECT.json` holds those that matter most; where no property covers one, a note
says why.  Known besides: RC_NUM_CHN and
RC_F_AXIS are not watched by the reactions that depend on them; an estimator
that is unhealthy but allowed can never arm by RC with CALIBRATE_GYRO_ON_ARM; a
slow card at the start makes the start overwrite a good image; a receiver that
restarts in flight stays at its factory rate; pulses that stop leave the last
edge in use; the BMI08x driver publishes blank readings after bus errors and the
LLV3HP the old distance.  The models keep these behaviours, no document says
what should happen instead.

## Proofs

Eight modules, checked from nothing by TLAPS.  A theorem of `Spec` is about one
component for all values of its constants, from the assumption of that component
(`FlightCoreAssumption`, `RcArmingAssumption`, `SensorsAssumption`,
`TelemetryAssumption`, `PwmOutputAssumption`, `RpProducersAssumption`,
`DriversAssumption`, `SimHandoffAssumption`, `StorageAssumption`,
`CommandMuxAssumption`, `ImuLeavesTime`, and `RcAssumption`, `PortsAssumption`,
`UbxAssumption`, `TimeAssumption`, `DateAssumption` of `MCStm32`), which says what
the constants are. A theorem of `SuiteSpec` is about a property of a run as the
run states it, with the component beside the others; its constants are those that
the MC module leaves open.

* `FlightCoreProofs` has the state machine's operators first, then one lemma per
  stage.  The inductive invariant `IInv` is the conjunction of `TypeOK`,
  `ModeTellsErrors`, `LinkFlagCurrent` and both halves of the failsafe command:
  that failsafe implies RC_LOST is what makes the clearing of RC_LOST leave it,
  that the flag is current what makes a live link clear it.  The argument runs
  along `Told(m)`, the mode tells the truth about the flags (with `HalfTold` in
  the middle of the RC stage, repaired by `RunTold`), and `KeepsLink(m, n)`, which
  every stage but the RC stage satisfies.
  - `Typing`, `ModeTruth`, `LinkFlagTruth`, `FailsafeCommand`, `LiveLink`,
    `RealtimeSafe`: the invariant and what it implies, under both schedulers.
  - `Interlock`, `ArmsOnSafeInputs`: what lifts the startup interlock and on which
    inputs arming starts, under both schedulers.
  - `ArmsClean`, `ArmsCalibrated`: no blocking error at the end of a stage that
    arms, and no arming before the gyro calibration ended well.  Both assume
    run_once.  The second is refuted for the realtime scheduler by the run
    `realtime_gyro`; the first is not asked of it, as one IMU tick may end the
    calibration, arm, and raise an error in the health check after.
    `GyroRequestedInTime` is the strengthening: run_once requests the calibration
    before the sensor stage looks for its end.
  - `FailsafeThrottle`: assumes that no burst of sets overflows the queue of
    changes, which does lose a reaction (see the divergences).
    `FailsafeThrottleJudged` is the strengthening.
  - `Implementation`: the refinement of the safe contract, by the phase before and
    after each call of the RC stage.
* `SchedulerProofs`: `TypeCorrect`, `OnTheGrid`, `OneUpdate`, `OnTime`.  They assume that
  an IMU tick is over before the next sample (`ImuCost < ImuGap`): without that
  service never runs and lateness has no bound.  `OnGrid` says that the time since
  the last update is whole intervals ahead of the ideal clock, `RanEarly` that
  after an update the next deadline is in the next interval.  The bound on
  lateness needs what holds in a service stage (`InStage`: it started with nothing
  late), in an IMU tick or update (`InWork`) and between them (`InLoop`).  The case
  that decides it is a sample that is an error: the update then waits for the next
  sample, and the gap between samples is what ends the wait.
* `CommandMuxProofs`: `OffboardFresh`, `OverrideByPilot`, `PilotCaps`, `LockedOutRate`,
  `AngleAfterReset`, `AngleDenied`.  `Interpreted` and `DeniedLocked` tie the command in
  force to the packet and the lockout that gave it, `AgesOrdered` the overrides to
  their sticks.  `AngleDenied` assumes `AngleKept`: the choice of angle mode is
  mapped to a switch, or its parameter does not change.  The code needs it too:
  `interpret_rc` runs on new packets only, so if RC_ATT_MODE is set to rate
  between two packets and the estimator fails, the angle command of the last
  packet is flown until the next one.
* `FlightLoopProofs`: the handshake of the simulator, then the suite of the run
  `loop`.
  - `TypeCorrect`, `Synced`, `SyncedReads`: a generation travels from pending to consumed,
    processed and published; `Ordered` bounds each by the one before, `WorkerPlace`
    says what the worker's place in its loop implies, `OutputsFollow` that outputs
    belong to no later sample than reported, `ResultTrue` what a returned wait
    means.
  - `Outputs`: with `SlowInv`, what is on the bus is no newer than what was handed
    over, no slow sample is lost either.
  - `InTime`, `Commanded`: `RealtimeKeepsTime` and `CommandSound`, from the lemmas of
    `SchedulerProofs` and `CommandMuxProofs` about each instance.
  - `PilotArms`: `ArmingByPilot` for every hold time, timeout, set of arming channels
    and setting of the parameters.  The lemmas about the state machine are those of
    `FlightCoreProofs` (`SameMachine`: both instances have the same operators).
    `GestureInv` adds to them that the hold timer is behind the clock: a gesture
    that makes its request has then lasted (`StageUninterrupted`).  `GestureImplements`
    maps each step to the contract: a good packet, or none on a live link, is the
    pilot's stage; a bad one, or none on a dead link, the stage of a loss.
  - `CalibrationIsSound`: `CalibrationSound` for every set of fitted sensors and commands,
    every delay and length of a window.  `SensorsInv` says that a window is open only
    under its flag, and one that was restarted has no sample from before
    (`WindowsAnswer`); that a gyro failure still flagged has failed no arming yet; and,
    under the realtime scheduler, that what is shown is what was read last.  `Takes` is
    what any sample does: it changes one window, so that the other calibrations
    need no argument.
  - `RatesAreKept`: `TelemetryKeepsRates` for every set of streams and sensors, all rates,
    orders and capacities (for the rate: streams that no board sends out of turn).  `StreamsInv` says that what a stream sent ahead of its rate
    and the time since its period began come to two intervals at most, and that a
    stream knows which sample it sent.  `BusyInv` counts, for a stream that is late, the
    streams `After` it: the wait beyond the interval is no longer than that, so
    each tick that it waits another stream has had its turn for good.  `DrainInv` says that
    the slack is enough for all that is due.  `BusyAssumed` and `DrainAssumed` say what the
    statements need: heartbeat and status have a positive rate (with rate 0 they are due
    all the time, and before the first tick there is no slack), the cap `MaxAge` is beyond
    any wait, and there is slack for every stream where nothing may be lost.
* `OutputsProofs`: `RecordExact`, `KilledSafe` (for any channels that fail) about
  `PwmOutput`, `Obeyed`, `MixerIsSound`, `BatteryIsScaled` about the suite of the run
  `outputs`.  `Record` says that the record names no channel that is not driven, and
  needs `MasksInRange`; a lemma about the loop that stops at the first channel that
  fails (`UpToFailureWithin`) carries it.  `Exact`, inductive next to `Record`, is its
  other half where no channel fails; where one does, a channel may be driven unrecorded.
  `Obeyed` assumes `OneRate`: the channels of one timer are
  asked for the same rate, as the code gives a timer the rate of its last channel.
  `BatteryInv` says that a signal that is gone was taken into the scale, and one
  that waits is the parameters.  `MixerInv` says which tables are up to date by the
  changes that still wait, unless one was lost.
* `ParametersProofs`: `TypeCorrect`, `Acknowledged`, `OneImage` about `ParamStorage`, `Kept`
  about the suite of the run `parameters`.  `OwnRequest` says that the id of an
  answer is that of the request waited for or older, `Progress` which blocks of
  the image under way are on the card, `Saved` that nothing writes while an image
  is acknowledged, `AllKnown` that every image anywhere was asked for.  `Restored`
  follows what a start finds on the card into the table; `SimInv` says that the
  simulator's file is always the lines of one whole table, whatever the temporary
  file holds.
* `RpProducersProofs`: `TypeCorrect`, `Refinement`, from `HoldsNewest`: a ring that is not
  empty holds in its newest slot the packet put last, for every capacity,
  wrap-around and drop.  `LinkIsKept`, `BufferWhole` about the suite of the run
  `rp2350`, from `SuiteInv`, one invariant per subject:
  - `Numbered` ties the number seen last to the packet taken last; counting gaps
    modulo `Wrap` then rests on `CountGoesOn`, a lemma on remainders proved for every
    `Wrap` (from `Euclid` and `UniqueRemainder`).
  - `DownInv`: the ready queue lists the streams with a message, each once
    (`DownReady`), critical messages lie between the one sent last and the one on the
    wire (`DownOrder`), and the counters balance with what the cores have still to
    add (`DownBalance`).
  - `UpInv`: without crowding, at most two frames wait, in their order, and newer
    than what was stored (`UpOrder`); the critical ones are counted slot by slot.
  - `ParseInv`: the buffer is an end of what was heard (`EndOf`), byte by byte, for
    bytes of any kind, so that no checksum enters the argument.
* `SensorDriversProofs`: `GivenUpHeard` about `SensorDrivers`; `Accounted`, `TellTruth`,
  `InOrder`, `Configured`, `TimeKept` about the suite of the run `stm32`, from
  `PartsInv`, one invariant per subject:
  - `IInv`: the balance of a signal is inductive together with `TakenOnce`, what a
    drain took is not tried again before it is counted, and `BothCount`, a board that
    counts what it takes fits only drivers that count what they publish; that what
    is published is new needs `SumsFresh`, the pitot's sums hold no reading twice.
    `TaskStep` is what any step of any driver does, so that each driver is one lemma.
    It holds for every set of boards and both loops.
  - `RcInv`: the timestamps rise from the packet taken last over the queue to the one
    in hand (`RcOrder`), and the front of the buffer, of the queue's packets and of the
    one in hand is never of an older frame than the rest (`RcFront`).
  - `PipeInv`: the bytes on the wire, in hand and in the pipe rise (`Rising`), none is
    beyond what was begun, no byte of an accepted frame is missing, nor of the frame
    under way (`PipeOrder`); where frames are counted, what was cut is what was counted
    (`PipeCuts`), and what
    is received is numbered without a gap (`PipeRx`).  For every size of pipe, packet
    and frame; that the frame under way is whole so far is what makes the counter of
    a frame given up right.
  - `SetUpInv(n)`: which rates the ends use at each try and which messages are still
    sent after each setting (`Left`), for every `Factory` and any number of `Retries`.
  - `TimeInv`: edges are on the second and no older than one, epochs on the grid of
    the navigation period or a tick before the second (`Grid`), for every `Period` that
    divides `Second`.  `DateInv` is the closed form of the day number, from
    `YearDaysNext` and `MonthEnd`, for every year.

Only model-checked:

* liveness (`NobodyIsLeftWaiting`, `ImplementsContract` of `link`, `OutputsComeRound`,
  `TasksComeRound`, `LinesRecover` and the leads-to parts of others), which needs
  fairness and ENABLED;
* `TablesAgree`: what the parameter set does to the queues is a fold over the
  messages, and its result for every sequence is an induction over data;
* `PositionsAreSent`: it rests on checksums, folds over the bytes of a frame.

## Not modelled

* Estimator and controller, and the arithmetic of sensor corrections, mixing
  matrices, battery voltage and barometric compensation: floating point, beyond
  TLC and TLAPS.  The models take their verdicts as nondeterministic.
* The layout of messages (`conversions.rs`, the construction of each stream's
  message) and of the parameter image: data without control.
* DShot frames, DMA, pins, clocks, PIO programs and interrupts' set-up: registers
  of the hardware.
* The paths of the RP2350 link that lose a message on the way out: a frame that does
  not encode and a UART write that fails (`boards/pico2w/src/bin/veloxity.rs:325-339`)
  drop what was taken from the mailbox.  `Mailbox` takes both to succeed, so
  `LinkKeeps` is about the mailbox, not the wire.
* The ESP-NOW bridge (another program on another processor), the ROS 2 shim (the
  models let the simulator call in any order), the build tool, scripts, examples
  and the vendored IMU driver.

`PROJECT.json` says for each component what is modelled and what is left out.
