---------------------------- MODULE MCFlightLoop ----------------------------
(* The flight loop, one component at a time: its realtime scheduler,        *)
(* telemetry, sensors, the command manager, arming by the pilot, and the    *)
(* simulated firmware that runs it in a thread of its own. The components   *)
(* share no state here.                                                     *)
EXTENDS SimHandoff

CONSTANT Subjects   \* the subjects that a run looks at

\* the constants of the components
CONSTANTS
  ArmHold, RcTimeout, ArmChannels, CalibrateGyro, TakeMin, CalDelay,
  CalWindow, SensorsFitted, CalCommands, ArmCalibrates, TelePlace,
  TeleSource, TeleStreams, RatedIntervals, StagedIntervals, TeleDefaults,
  TeleCapacity, TelePriorities, TeleAge, BusyStreams, BusyRates,
  BusyCapacity, BusyAge, DrainStreams, DrainRates, DrainCapacity, DrainAge

VARIABLE subject    \* the one that moves, chosen at the start

\* the realtime scheduler
VARIABLES
  sched_elapsed, sched_phase, sched_acc, sched_pending, sched_gap, sched_pc,
  sched_busy, sched_wait, sched_active, sched_hist
schedVars ==
  <<sched_elapsed, sched_phase, sched_acc, sched_pending, sched_gap,
    sched_pc, sched_busy, sched_wait, sched_active, sched_hist>>

\* telemetry, with rates that change
VARIABLES
  tele_interval, tele_age, tele_present, tele_sent, tele_slack, tele_copies,
  tele_debt
teleVars ==
  <<tele_interval, tele_age, tele_present, tele_sent, tele_slack,
    tele_copies, tele_debt>>

\* telemetry at fixed rates, with slack for all of it
VARIABLES
  feed_interval, feed_age, feed_present, feed_sent, feed_slack, feed_copies,
  feed_debt
feedVars ==
  <<feed_interval, feed_age, feed_present, feed_sent, feed_slack,
    feed_copies, feed_debt>>

\* sensor ingestion and calibration
VARIABLES
  sens_flags, sens_win, sens_bias, sens_proc, sens_stage, sens_calm,
  sens_mode, sens_hist
sensVars ==
  <<sens_flags, sens_win, sens_bias, sens_proc, sens_stage, sens_calm,
    sens_mode, sens_hist>>

\* the command manager, offboard and overrides
VARIABLES
  mux_params, mux_rc, mux_newCommand, mux_unhealthy, mux_offboard,
  mux_offboardAge, mux_overrideAge, mux_rcCommand, mux_combined,
  mux_lockout, mux_sinceDeviated, mux_denied
muxVars ==
  <<mux_params, mux_rc, mux_newCommand, mux_unhealthy, mux_offboard,
    mux_offboardAge, mux_overrideAge, mux_rcCommand, mux_combined,
    mux_lockout, mux_sinceDeviated, mux_denied>>

\* the command manager, the lockout of angle mode
VARIABLES
  lock_params, lock_rc, lock_newCommand, lock_unhealthy, lock_offboard,
  lock_offboardAge, lock_overrideAge, lock_rcCommand, lock_combined,
  lock_lockout, lock_sinceDeviated, lock_denied
lockVars ==
  <<lock_params, lock_rc, lock_newCommand, lock_unhealthy, lock_offboard,
    lock_offboardAge, lock_overrideAge, lock_rcCommand, lock_combined,
    lock_lockout, lock_sinceDeviated, lock_denied>>

\* arming by gesture and switch
VARIABLES
  gest_state, gest_armMapped, gest_inOrder, gest_packetAge, gest_lookAge,
  gest_holdTime, gest_combined, gest_sinceContrary, gest_holding
gestVars ==
  <<gest_state, gest_armMapped, gest_inOrder, gest_packetAge, gest_lookAge,
    gest_holdTime, gest_combined, gest_sinceContrary, gest_holding>>

\* arming by a gesture that is held
VARIABLES
  hold_state, hold_armMapped, hold_inOrder, hold_packetAge, hold_lookAge,
  hold_holdTime, hold_combined, hold_sinceContrary, hold_holding
holdVars ==
  <<hold_state, hold_armMapped, hold_inOrder, hold_packetAge, hold_lookAge,
    hold_holdTime, hold_combined, hold_sinceContrary, hold_holding>>

suiteVars == <<subject, vars, schedVars, teleVars, feedVars, sensVars, muxVars, lockVars, gestVars, holdVars>>

-----------------------------------------------------------------------------
MCPlace  == [Heartbeat |-> 1, Status |-> 2, Imu |-> 3, OutputRaw |-> 5, Mag |-> 10]
MCSource == [Heartbeat |-> "none", Status |-> "none", Imu |-> "imu", OutputRaw |-> "imu",
             Mag |-> "mag"]

(* Rates that parameters change, and rates that stay; the busy ones leave    *)
(* few turns to the streams of every sample.                                 *)
MCSamples      == {"Imu", "OutputRaw", "Mag"}
MCIntervals    == [Imu |-> {0, 2}, OutputRaw |-> {0, 2}, Mag |-> {-1, 1}]
MCRatedIntervals  == [MCIntervals EXCEPT !["OutputRaw"] = {2}]
MCStagedIntervals == [MCIntervals EXCEPT !["Imu"] = {0}]
MCDefaults     == [Imu |-> 0, OutputRaw |-> 2, Mag |-> 1]
MCStreams      == {"Heartbeat", "Imu", "OutputRaw", "Mag"}
MCRated        == [Heartbeat |-> 3, Imu |-> 0, OutputRaw |-> 2, Mag |-> 0]
MCBusyStreams  == {"Heartbeat", "Status", "Imu", "OutputRaw"}
MCBusy         == [Heartbeat |-> 4, Status |-> 3, Imu |-> 0, OutputRaw |-> 3]
Only(defaults) == [s \in DOMAIN defaults |-> {defaults[s]}]

(* What the pilot and the companion send to the command manager. *)
MCOverrides     == {"AttOverride", "ThrottleOverride"}
MCAttSwitches   == {"AttType", "AttOverride"}
MCMuxPilot      == [deviated: SUBSET {"x"}, on: {{}} \cup {{s} : s \in MCOverrides}, throttle: 0..1]
MCMuxCompanion  == [active: {{"z"}, {"x", "z", "f"}}, mode: {"Rate"}, throttle: {1}]
MCLockPilot     == [deviated: SUBSET {"x"}, on: SUBSET MCAttSwitches, throttle: {0}]
MCUnlockPilot   == [deviated: {{}}, on: {{}, {"AttType"}}, throttle: {0}]
MCLockCompanion == [active: {{"z"}, {"x"}}, mode: {"Rate", "Angle"}, throttle: {0}]

Timing == INSTANCE SchedulerProofs WITH
  Interval <- 6, Slack <- 2, MinSpacing <- 0, ContinueWhenIdle <- TRUE,
  ImuGap <- 2, ImuCost <- 1, StageCost <- 2, MaxAcc <- 2,
  elapsed <- sched_elapsed, phase <- sched_phase, acc <- sched_acc,
  pending <- sched_pending, gap <- sched_gap, pc <- sched_pc,
  busy <- sched_busy, wait <- sched_wait, active <- sched_active,
  hist <- sched_hist

Late == INSTANCE SchedulerProofs WITH
  Interval <- 5, Slack <- 2, MinSpacing <- 2, ContinueWhenIdle <- FALSE,
  ImuGap <- 2, ImuCost <- 1, StageCost <- 14, MaxAcc <- 1,
  elapsed <- sched_elapsed, phase <- sched_phase, acc <- sched_acc,
  pending <- sched_pending, gap <- sched_gap, pc <- sched_pc,
  busy <- sched_busy, wait <- sched_wait, active <- sched_active,
  hist <- sched_hist

Rc == INSTANCE SchedulerProofs WITH
  Interval <- 12, Slack <- 2, MinSpacing <- 0, ContinueWhenIdle <- TRUE,
  ImuGap <- 14, ImuCost <- 1, StageCost <- 1, MaxAcc <- 1,
  elapsed <- sched_elapsed, phase <- sched_phase, acc <- sched_acc,
  pending <- sched_pending, gap <- sched_gap, pc <- sched_pc,
  busy <- sched_busy, wait <- sched_wait, active <- sched_active,
  hist <- sched_hist

Rates == INSTANCE Telemetry WITH
  Streams <- TeleStreams, Place <- TelePlace, Source <- TeleSource,
  Intervals <- RatedIntervals, Defaults <- TeleDefaults,
  Capacity <- TeleCapacity, Realtime <- TRUE, Refreshes <- TRUE,
  Priorities <- TelePriorities, MaxAge <- TeleAge,
  interval <- tele_interval, age <- tele_age, present <- tele_present,
  sent <- tele_sent, slack <- tele_slack, copies <- tele_copies,
  debt <- tele_debt

Staged == INSTANCE Telemetry WITH
  Streams <- TeleStreams, Place <- TelePlace, Source <- TeleSource,
  Intervals <- StagedIntervals, Defaults <- TeleDefaults,
  Capacity <- TeleCapacity, Realtime <- FALSE, Refreshes <- TRUE,
  Priorities <- {}, MaxAge <- TeleAge, interval <- tele_interval,
  age <- tele_age, present <- tele_present, sent <- tele_sent,
  slack <- tele_slack, copies <- tele_copies, debt <- tele_debt

Busy == INSTANCE Telemetry WITH
  Streams <- BusyStreams, Place <- TelePlace, Source <- TeleSource,
  Intervals <- Only(BusyRates), Defaults <- BusyRates,
  Capacity <- BusyCapacity, Realtime <- TRUE, Refreshes <- FALSE,
  Priorities <- {}, MaxAge <- BusyAge, interval <- tele_interval,
  age <- tele_age, present <- tele_present, sent <- tele_sent,
  slack <- tele_slack, copies <- tele_copies, debt <- tele_debt

Drain == INSTANCE Telemetry WITH
  Streams <- DrainStreams, Place <- TelePlace, Source <- TeleSource,
  Intervals <- Only(DrainRates), Defaults <- DrainRates,
  Capacity <- DrainCapacity, Realtime <- TRUE, Refreshes <- FALSE,
  Priorities <- {}, MaxAge <- DrainAge, interval <- feed_interval,
  age <- feed_age, present <- feed_present, sent <- feed_sent,
  slack <- feed_slack, copies <- feed_copies, debt <- feed_debt

Once == INSTANCE Sensors WITH
  Realtime <- FALSE, Fitted <- {"imu", "baro"},
  Commands <- {"GYRO", "BARO"}, Arms <- FALSE, Delay <- CalDelay,
  Window <- CalWindow, flags <- sens_flags, win <- sens_win,
  bias <- sens_bias, proc <- sens_proc, stage <- sens_stage,
  calm <- sens_calm, mode <- sens_mode, hist <- sens_hist

Split == INSTANCE Sensors WITH
  Realtime <- TRUE, Fitted <- SensorsFitted, Commands <- CalCommands,
  Arms <- ArmCalibrates, Delay <- CalDelay, Window <- CalWindow,
  flags <- sens_flags, win <- sens_win, bias <- sens_bias,
  proc <- sens_proc, stage <- sens_stage, calm <- sens_calm,
  mode <- sens_mode, hist <- sens_hist

Ends == INSTANCE Sensors WITH
  Realtime <- TRUE, Fitted <- {"baro"}, Commands <- {"BARO"}, Arms <- FALSE,
  Delay <- CalDelay, Window <- CalWindow, flags <- sens_flags,
  win <- sens_win, bias <- sens_bias, proc <- sens_proc,
  stage <- sens_stage, calm <- sens_calm, mode <- sens_mode,
  hist <- sens_hist

Mux == INSTANCE CommandMuxProofs WITH
  TiltAxes <- {"x"}, MappedSwitches <- MCOverrides, OffboardTimeout <- 0,
  OverrideLag <- 2, MutableParams <- {"takeMinThrottle"},
  PilotInputs <- MCMuxPilot, CompanionInputs <- MCMuxCompanion,
  params <- mux_params, rc <- mux_rc, newCommand <- mux_newCommand,
  unhealthy <- mux_unhealthy, offboard <- mux_offboard,
  offboardAge <- mux_offboardAge, overrideAge <- mux_overrideAge,
  rcCommand <- mux_rcCommand, combined <- mux_combined,
  lockout <- mux_lockout, sinceDeviated <- mux_sinceDeviated,
  denied <- mux_denied

Lock == INSTANCE CommandMuxProofs WITH
  TiltAxes <- {"x"}, MappedSwitches <- MCAttSwitches, OffboardTimeout <- 0,
  OverrideLag <- 1, MutableParams <- {"angleLockout"},
  PilotInputs <- MCLockPilot, CompanionInputs <- MCLockCompanion,
  params <- lock_params, rc <- lock_rc, newCommand <- lock_newCommand,
  unhealthy <- lock_unhealthy, offboard <- lock_offboard,
  offboardAge <- lock_offboardAge, overrideAge <- lock_overrideAge,
  rcCommand <- lock_rcCommand, combined <- lock_combined,
  lockout <- lock_lockout, sinceDeviated <- lock_sinceDeviated,
  denied <- lock_denied

Unlock == INSTANCE CommandMuxProofs WITH
  TiltAxes <- {"x"}, MappedSwitches <- MCAttSwitches, OffboardTimeout <- 0,
  OverrideLag <- 1, MutableParams <- {"fixedWing"},
  PilotInputs <- MCUnlockPilot, CompanionInputs <- MCLockCompanion,
  params <- lock_params, rc <- lock_rc, newCommand <- lock_newCommand,
  unhealthy <- lock_unhealthy, offboard <- lock_offboard,
  offboardAge <- lock_offboardAge, overrideAge <- lock_overrideAge,
  rcCommand <- lock_rcCommand, combined <- lock_combined,
  lockout <- lock_lockout, sinceDeviated <- lock_sinceDeviated,
  denied <- lock_denied

Gesture == INSTANCE RcArming WITH
  ArmHold <- ArmHold, RcTimeout <- RcTimeout, ArmChannels <- ArmChannels,
  CalibrateGyro <- CalibrateGyro, TakeMin <- TakeMin, state <- gest_state,
  armMapped <- gest_armMapped, inOrder <- gest_inOrder,
  packetAge <- gest_packetAge, lookAge <- gest_lookAge,
  holdTime <- gest_holdTime, combined <- gest_combined,
  sinceContrary <- gest_sinceContrary, holding <- gest_holding

Hold == INSTANCE RcArming WITH
  ArmHold <- ArmHold, RcTimeout <- RcTimeout, ArmChannels <- {"none"},
  CalibrateGyro <- TRUE, TakeMin <- TRUE, state <- hold_state,
  armMapped <- hold_armMapped, inOrder <- hold_inOrder,
  packetAge <- hold_packetAge, lookAge <- hold_lookAge,
  holdTime <- hold_holdTime, combined <- hold_combined,
  sinceContrary <- hold_sinceContrary, holding <- hold_holding

-----------------------------------------------------------------------------
(* Every other component stands still. *)
Still(me) ==
  /\ subject' = subject
  /\ IF me = "handoff" THEN TRUE ELSE UNCHANGED vars
  /\ IF me = "sched" THEN TRUE ELSE UNCHANGED schedVars
  /\ IF me = "tele" THEN TRUE ELSE UNCHANGED teleVars
  /\ IF me = "feed" THEN TRUE ELSE UNCHANGED feedVars
  /\ IF me = "sens" THEN TRUE ELSE UNCHANGED sensVars
  /\ IF me = "mux" THEN TRUE ELSE UNCHANGED muxVars
  /\ IF me = "lock" THEN TRUE ELSE UNCHANGED lockVars
  /\ IF me = "gest" THEN TRUE ELSE UNCHANGED gestVars
  /\ IF me = "hold" THEN TRUE ELSE UNCHANGED holdVars

ASSUME SchedulersAssumed == Timing!ImuLeavesTime /\ Late!ImuLeavesTime /\ Rc!ImuLeavesTime
ASSUME RatesAssumed == Rates!TelemetryAssumption /\ Staged!TelemetryAssumption

(* Heartbeat and status have a rate, and none has waited for MaxAge when it  *)
(* is its turn.                                                              *)
ASSUME BusyAssumed ==
  /\ Busy!TelemetryAssumption
  /\ \A s \in Busy!Fixed : BusyRates[s] > 0 /\ BusyRates[s] + Cardinality(BusyStreams) <= BusyAge

(* There is slack for every stream, so none may be due at all times.         *)
ASSUME DrainAssumed ==
  /\ Drain!TelemetryAssumption /\ Cardinality(DrainStreams) <= DrainCapacity
  /\ \A s \in Drain!Fixed : DrainRates[s] # 0

ASSUME SensorsAssumed ==
  Once!SensorsAssumption /\ Split!SensorsAssumption /\ Ends!SensorsAssumption
ASSUME CommandsAssumed ==
  Mux!CommandMuxAssumption /\ Lock!CommandMuxAssumption /\ Unlock!CommandMuxAssumption
ASSUME ArmingAssumed == Gesture!RcArmingAssumption /\ Hold!RcArmingAssumption

SuiteInit ==
  /\ subject \in Subjects
  /\ Init
  /\ Timing!Init /\ Drain!Init /\ Once!Init
  /\ CASE subject = "staged" -> Staged!Init
       [] subject = "busy"   -> Busy!Init
       [] OTHER              -> Rates!Init
  /\ Mux!Init /\ Lock!Init /\ Gesture!Init /\ Hold!Init
  /\ subject \notin {"once", "split", "ends"} => sens_calm
  /\ subject # "mux" => mux_params = Mux!DefaultParams
  /\ subject # "lock" => lock_params = Lock!DefaultParams
  /\ subject # "gesture" => ~ gest_armMapped

SuiteNext ==
  \/ subject = "handoff" /\ Next /\ Still("handoff")
  \/ subject = "timing" /\ Timing!Next /\ Still("sched")
  \/ subject = "late" /\ Late!Next /\ Still("sched")
  \/ subject = "rc" /\ Rc!Next /\ Still("sched")
  \/ subject = "rates" /\ Rates!Next /\ Still("tele")
  \/ subject = "staged" /\ Staged!Next /\ Still("tele")
  \/ subject = "busy" /\ Busy!Next /\ Still("tele")
  \/ subject = "drain" /\ Drain!NextScheduler /\ Still("feed")
  \/ subject = "once" /\ Once!Next /\ Still("sens")
  \/ subject = "split" /\ Split!Next /\ Still("sens")
  \/ subject = "ends" /\ Ends!Next /\ Still("sens")
  \/ subject = "mux" /\ Mux!Next /\ Still("mux")
  \/ subject = "lock" /\ Lock!Next /\ Still("lock")
  \/ subject = "unlock" /\ Unlock!Next /\ Still("lock")
  \/ subject = "gesture" /\ Gesture!Next /\ Still("gest")
  \/ subject = "hold" /\ Hold!Next /\ Still("hold")

(* The loops, and the thread of the simulated firmware, go on. *)
LoopGoesOn ==
  \/ subject = "handoff" /\ Worker /\ Still("handoff")
  \/ subject = "rc" /\ Rc!MainLoop /\ Still("sched")
  \/ subject = "ends" /\ Still("sens") /\ (Ends!ServiceSensorStage \/ Ends!CommStage \/ Ends!RcStage)
  \/ subject = "unlock" /\ Unlock!RcStage /\ Still("lock")
  \/ subject = "hold" /\ Hold!NoPacket /\ Still("hold")

(* Time goes on, and so does the simulator inside a call. *)
TimeGoesOn ==
  \/ subject = "handoff" /\ (Look \/ Join) /\ Still("handoff")
  \/ subject = "rc" /\ Rc!Tick /\ Still("sched")
  \/ subject = "ends" /\ Ends!TimePasses /\ Still("sens")
  \/ subject = "hold" /\ Hold!Tick /\ Still("hold")

SuiteSpec ==
  /\ SuiteInit /\ [][SuiteNext]_suiteVars
  /\ WF_suiteVars(LoopGoesOn) /\ WF_suiteVars(TimeGoesOn)
  /\ SF_suiteVars(subject = "ends" /\ Ends!Sampled("BARO") /\ Still("sens"))

-----------------------------------------------------------------------------
(* SyncedIsProcessed is SimHandoff's own. *)

(* The outputs read after a wait are no older than those written for its     *)
(* sample, and no sample of a slow sensor is lost (sim/firmware/src/ffi.rs). *)
OutputsOfItsSample ==
  /\ [](subject = "handoff" => TypeOK /\ SlowNotLost)
  /\ SyncedOutputs

(* The control loop does not drift, updates once in an interval and in time  *)
(* (world/control.rs, world/service.rs).                                     *)
RealtimeKeepsTime ==
  /\ [](subject = "timing" => Timing!TypeOK /\ Timing!DeadlinesDoNotDrift /\ Timing!ControlOnTime)
  /\ [](subject = "late" => Late!TypeOK /\ Late!DeadlinesDoNotDrift /\ Late!ControlOnTime)
  /\ Timing!OncePerInterval
  /\ Late!OncePerInterval

(* Telemetry (comm.rs): no sample twice, no faster than its rate, no stream  *)
(* later than a turn of the others, and with slack nothing fresh is lost.    *)
TelemetryKeepsRates ==
  /\ [](subject = "rates" => Rates!TypeOK /\ Rates!NoSampleTwice /\ Rates!RateKept)
  /\ [](subject = "staged" => Staged!TypeOK /\ Staged!NoSampleTwice /\ Staged!RateKept)
  /\ [](subject = "busy" => Busy!TypeOK /\ Busy!LatenessBounded)
  /\ Drain!NoFreshSampleLost

(* Sensors (world/service.rs, sensors/processors.rs): nothing older than the *)
(* latest reading is shown, an arming fails for a reason of its own, and a   *)
(* calibration that was asked for is answered by its own samples.            *)
CalibrationSound ==
  /\ [](subject = "once" => Once!TypeOK)
  /\ [](subject = "split" =>
          Split!TypeOK /\ Split!ShownIsLatestReading /\ Split!ArmingFailureHasCause)
  /\ Split!RequestAnsweredByItsSamples

(* The command manager (command.rs): whose command is flown, and when the    *)
(* pilot is locked out of angle mode.                                        *)
CommandSound ==
  /\ [](subject = "mux" => Mux!TypeOK)
  /\ [](subject = "lock" => Lock!TypeOK /\ Lock!LockedOutFliesRate)
  /\ Mux!OffboardFlownOnlyFresh
  /\ Mux!OverrideOnlyByPilot
  /\ Mux!PilotCapsThrottle
  /\ Lock!AngleDeniedUnlessStickOverride
  /\ Lock!AngleAfterSwitchReset

(* Arming by the pilot (rc.rs): after a gesture that nothing interrupted, on *)
(* a low throttle; and with gestures and clock computed the RC stage keeps   *)
(* the contract that FlightCore implements with both left open.              *)
ArmingByPilot ==
  /\ [](subject = "gesture" => Gesture!TypeOK /\ Gesture!TimerBehindClock)
  /\ Gesture!GestureUninterrupted
  /\ Gesture!ArmsWithThrottleLow
  /\ Gesture!Contract!SafeSpec

(* Nobody is left waiting: the simulator for its sample and for the worker's *)
(* end (ffi.rs), the RC stage for slack (world/control.rs), a calibration    *)
(* for its end (processors.rs), the pilot for angle mode (command.rs), for   *)
(* arming (rc.rs) and for the reaction to a lost link (FlightContract).      *)
NobodyIsLeftWaiting ==
  /\ subject = "handoff" => SyncReturns /\ DestroyReturns
  /\ subject = "rc" => Rc!RcServed
  /\ subject = "ends" => Ends!CalibrationEnds
  /\ subject = "unlock" => Unlock!SwitchUnlocks
  /\ subject = "hold" => Hold!HoldArms /\ Hold!Contract!LossNoticed
=============================================================================
