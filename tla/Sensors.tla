------------------------------ MODULE Sensors ------------------------------
(***************************************************************************)
(* Sensor ingestion and calibration (sensors/ingestion.rs, processors.rs,  *)
(* world/service.rs): raw readings become processed samples, and on their  *)
(* way feed the calibration windows of the gyro, the accelerometer, the    *)
(* barometer and the airspeed sensor. A window of the IMU is a sum that    *)
(* starts with the flag of the request; the barometer and the airspeed     *)
(* sensor calibrate on their own after power up and again on request, take *)
(* at most one sample in 20 ms and start over after a window with too much *)
(* movement.                                                               *)
(*                                                                         *)
(* Of a sample only its stillness is kept: a moving one spoils the window  *)
(* it falls into. The arming calibration is driven by the same flags.      *)
(***************************************************************************)
EXTENDS Integers, FiniteSets

CONSTANTS
  Realtime,   \* realtime scheduler: service stages and IMU ticks; else run_once
  Fitted,     \* sensors on the board: a subset of Kinds
  Commands,   \* calibration commands the companion sends
  Arms,       \* the pilot arms with CALIBRATE_GYRO_ON_ARM
  Delay,      \* SENSOR_CAL_DELAY_CYCLES
  Window      \* SENSOR_CAL_CYCLES, and the 1000 samples of an IMU window

Kinds == {"imu", "baro", "pitot", "battery", "other"}
Windowed == {"BARO", "PITOT"}       \* calibrations over SENSOR_CAL_CYCLES
Fast == {"GYRO", "ACCEL"}           \* calibrations over 1000 IMU samples
Cals == Windowed \cup Fast
Failed == [c \in Cals |-> CASE c = "BARO" -> "BARO_FAILED" [] c = "PITOT" -> "PITOT_FAILED"
                            [] c = "GYRO" -> "GYRO_FAILED" [] OTHER -> "ACCEL_FAILED"]
Source == [c \in Cals |-> CASE c = "BARO" -> "baro" [] c = "PITOT" -> "pitot" [] OTHER -> "imu"]

SensorsAssumption ==
  /\ {Realtime, Arms} \subseteq BOOLEAN
  /\ Fitted \subseteq Kinds /\ Commands \subseteq {"IMU", "GYRO", "BARO", "PITOT"}
  /\ Delay \in Nat /\ Window \in Nat \ {0}

VARIABLES
  flags,     \* cal_flags
  win,       \* calibration_state of each processor
  bias,      \* bias parameters: "zero" or "measured"
  proc,      \* processed_sensors: "none", "still" or "moving"
  stage,     \* the stage of the loop that runs next
  calm,      \* the vehicle stands still
  mode,      \* "idle", "calibrating" or "armed" of the state machine
  hist       \* history: latest readings, failed gyro windows and armings

vars == <<flags, win, bias, proc, stage, calm, mode, hist>>

\* moved and waits belong to the window; early: it holds a sample taken
\* before the request that is pending was made.
NewWindow == [n |-> 0, moved |-> FALSE, waits |-> FALSE, early |-> FALSE,
              done |-> FALSE, active |-> FALSE]

Init ==
  /\ flags = {} /\ win = [c \in Cals |-> NewWindow] /\ bias = [c \in Cals |-> "zero"]
  /\ proc = [k \in Kinds |-> "none"] /\ stage = "comm" /\ calm \in BOOLEAN
  /\ mode = "idle"
  /\ hist = [last |-> [k \in Kinds |-> "none"], blame |-> FALSE, unfounded |-> FALSE]

-----------------------------------------------------------------------------
(* Calibration. A state of it is [flags, win, bias].                       *)

\* A request raises its flag; from then on older samples are early.
Raised(s, c) ==
  [s EXCEPT !.flags = (@ \ {Failed[c]}) \cup {c},
            !.win[c].early = @ \/ (c \notin s.flags /\ s.win[c].n > 0),
            !.bias[c] = IF c = "BARO" THEN @ ELSE "zero"]

\* apply_command_events, calibration requests: refused when armed.
Commanded(s, command) ==
  IF mode = "armed" THEN s
  ELSE CASE command = "none" -> s
         [] command = "IMU"  -> Raised(Raised(s, "GYRO"), "ACCEL")
         [] OTHER            -> Raised(s, command)

\* request_gyro_calibration_if_needed
GyroRequested(s) ==
  IF mode = "calibrating" /\ "GYRO" \notin s.flags THEN Raised(s, "GYRO") ELSE s

\* ImuProcessor::process_packet for one of GYRO and ACCEL: the sample that
\* makes it more than Window ends the window, well or not.
FastStep(s, c, reading) ==
  IF c \notin s.flags THEN s
  ELSE LET w == [s.win[c] EXCEPT !.n = @ + 1, !.moved = @ \/ reading = "moving"]
       IN  IF w.n <= Window THEN [s EXCEPT !.win[c] = w]
           ELSE [flags |-> (s.flags \ {c}) \cup (IF w.moved THEN {Failed[c]} ELSE {}),
                 win   |-> [s.win EXCEPT ![c] = NewWindow],
                 bias  |-> IF w.moved THEN s.bias ELSE [s.bias EXCEPT ![c] = "measured"]]

\* BaroProcessor::calibrate, PitotProcessor::calibrate
SlowWindow(s, c, reading) ==
  LET w == [s.win[c] EXCEPT !.n = @ + 1, !.waits = TRUE]
  IN  IF w.n <= Delay + Window
      THEN [s EXCEPT !.win[c] = [w EXCEPT !.moved = @ \/ (w.n > Delay /\ reading = "moving")]]
      ELSE IF w.moved
           THEN [s EXCEPT !.flags = @ \cup {Failed[c]},
                          !.win[c] = [w EXCEPT !.n = 0, !.moved = FALSE, !.early = FALSE]]
           ELSE [flags |-> s.flags \ {c},
                 win   |-> [s.win EXCEPT ![c] = [NewWindow EXCEPT !.waits = TRUE, !.done = TRUE]],
                 bias  |-> [s.bias EXCEPT ![c] = "measured"]]

(* Mutated form: a request goes on with the window that is open. *)
SlowStepUnrestarted(s, c, reading) ==
  LET t == IF c \in s.flags THEN [s EXCEPT !.win[c].done = FALSE, !.win[c].active = TRUE] ELSE s
  IN  IF t.win[c].done \/ t.win[c].waits THEN t ELSE SlowWindow(t, c, reading)

\* process_packet of both: a new request starts a new window.
SlowStep(s, c, reading) ==
  LET t == IF c \in s.flags /\ ~s.win[c].active
           THEN [s EXCEPT !.win[c] = [NewWindow EXCEPT !.active = TRUE]] ELSE s
  IN  IF t.win[c].done \/ t.win[c].waits THEN t ELSE SlowWindow(t, c, reading)

IsSample(reading) == reading \in {"still", "moving"}

Step(s, c, reading) ==
  IF ~IsSample(reading) THEN s
  ELSE IF c \in Windowed THEN SlowStep(s, c, reading) ELSE FastStep(s, c, reading)

\* process_sensor_bus: the IMU first, then barometer and airspeed sensor.
Calibrated(s, r) ==
  LET g == Step(s, "GYRO", r["imu"])
      a == Step(g, "ACCEL", r["imu"])
      b == Step(a, "BARO", r["baro"])
  IN  Step(b, "PITOT", r["pitot"])

\* BatteryProcessor returns its latest packet for a failed reading; the
\* others return nothing for a failed or an absent one.
Processed(k, reading) ==
  IF IsSample(reading) THEN reading
  ELSE IF k = "battery" THEN hist.last[k] ELSE "none"

State == [flags |-> flags, win |-> win, bias |-> bias]

-----------------------------------------------------------------------------
(* Actions. *)
NextStage == CASE stage = "comm" -> IF Realtime THEN "rc" ELSE "sensors"
               [] stage = "sensors" -> IF Realtime THEN "comm" ELSE "rc"
               [] OTHER -> IF Realtime THEN "sensors" ELSE "comm"

\* update_sensor_health_and_calibration, the part that follows an arming
\* calibration, after the windows took their samples. blame: a gyro window
\* failed and no arming has failed since.
Health(s, last) ==
  LET failing == mode = "calibrating" /\ Failed["GYRO"] \in s.flags
      blame   == hist.blame \/ Failed["GYRO"] \in s.flags \ flags
  IN  /\ mode' = IF failing THEN "idle"
                 ELSE IF mode = "calibrating" /\ "GYRO" \notin s.flags THEN "armed" ELSE mode
      /\ flags' = IF failing THEN s.flags \ {Failed["GYRO"]} ELSE s.flags
      /\ hist' = [last |-> last, blame |-> blame /\ ~failing, unfounded |-> failing /\ ~blame]

\* What the sensors of kinds give: nothing or an error at any time, samples
\* that are still while the vehicle is.
Readings(kinds) ==
  LET given == [kinds \cap Fitted -> {"absent", "error", "still"} \cup (IF calm THEN {} ELSE {"moving"})]
  IN  {[k \in Kinds |-> IF k \in DOMAIN g THEN g[k] ELSE "absent"] : g \in given}

\* What was read last of each sensor; a battery that fails still has its
\* latest packet.
LastRead(r) ==
  [k \in Kinds |-> CASE IsSample(r[k]) -> r[k]
                     [] r[k] = "error" /\ k # "battery" -> "none"
                     [] OTHER -> hist.last[k]]

Ingest(r, shown) ==
  LET s == Calibrated(State, r)
  IN  /\ Health(s, LastRead(r))
      /\ win' = s.win /\ bias' = s.bias /\ proc' = shown

\* run_service_sensor_stage puts back what no raw reading replaced.
Restored(r) == [k \in Kinds |-> IF r[k] = "absent" THEN proc[k] ELSE Processed(k, r[k])]

\* run_sensor_ingestion_and_health_stage of run_once: only the battery
\* outlives a pass without a reading.
SensorStage ==
  /\ ~Realtime /\ stage = "sensors" /\ stage' = NextStage
  /\ \E r \in Readings(Kinds) :
       Ingest(r, [k \in Kinds |-> IF r[k] = "absent" /\ k = "battery" THEN proc[k] ELSE Processed(k, r[k])])
  /\ UNCHANGED calm

ServiceSensorStage ==
  /\ Realtime /\ stage = "sensors" /\ stage' = NextStage
  /\ \E r \in Readings(Kinds \ {"imu"}) : Ingest(r, Restored(r))
  /\ UNCHANGED calm

\* run_imu_control_tick, up to the control update: between any two stages,
\* when imu_pending says that there is a reading.
ImuTick ==
  /\ Realtime
  /\ \E r \in Readings({"imu"}) :
       /\ r["imu"] # "absent"
       /\ Ingest(r, [proc EXCEPT !["imu"] = Processed("imu", r["imu"])])
  /\ UNCHANGED <<stage, calm>>

\* run_communication_and_parameter_service_stage
CommStage ==
  /\ stage = "comm" /\ stage' = NextStage
  /\ \E command \in Commands \cup {"none"} :
       LET s == GyroRequested(Commanded(State, command))
       IN  flags' = s.flags /\ win' = s.win /\ bias' = s.bias
  /\ UNCHANGED <<proc, calm, mode, hist>>

\* run_rc_command_state_stages: the pilot arms or disarms, or does neither.
RcStage ==
  /\ stage = "rc" /\ stage' = NextStage
  /\ mode' \in {mode} \cup (IF Arms THEN {IF mode = "idle" THEN "calibrating" ELSE "idle"} ELSE {})
  /\ UNCHANGED <<flags, win, bias, proc, calm, hist>>

\* More than 20 ms since the last sample of a slow window.
TimePasses ==
  /\ \E c \in Windowed : win[c].waits
  /\ win' = [c \in Cals |-> [win[c] EXCEPT !.waits = FALSE]]
  /\ UNCHANGED <<flags, bias, proc, stage, calm, mode, hist>>

Vehicle ==
  /\ calm' = ~calm
  /\ UNCHANGED <<flags, win, bias, proc, stage, mode, hist>>

Next == SensorStage \/ ServiceSensorStage \/ ImuTick \/ CommStage \/ RcStage \/ TimePasses \/ Vehicle

\* The main loop runs and the clock goes on; a sensor that keeps sampling
\* gives a sample that is taken, though not in every stage.
Sampled(c) == (SensorStage \/ ServiceSensorStage \/ ImuTick) /\ win'[c] # win[c]

Fairness ==
  /\ WF_vars(SensorStage) /\ WF_vars(ServiceSensorStage) /\ WF_vars(CommStage) /\ WF_vars(RcStage)
  /\ WF_vars(TimePasses) /\ \A c \in Cals : SF_vars(Sampled(c))

Spec == Init /\ [][Next]_vars
LiveSpec == Spec /\ Fairness

-----------------------------------------------------------------------------
(* Types of the flags, the windows and the processed samples. *)
TypeOK ==
  /\ flags \subseteq Cals \cup {Failed[c] : c \in Cals}
  /\ \A c \in Cals : win[c].n \in 0 .. Delay + Window
  /\ bias \in [Cals -> {"zero", "measured"}]
  /\ proc \in [Kinds -> {"none", "still", "moving"}]
  /\ mode \in {"idle", "calibrating", "armed"}

(* A calibration that was asked for is answered by samples taken after it  *)
(* was asked for, also when it overtakes the calibration at power up or    *)
(* follows one that ended or failed.                                       *)
RequestAnsweredByItsSamples ==
  [][\A c \in Cals : c \in flags \ flags' => ~win[c].early]_vars

(* Under the realtime scheduler a processed sample is what the sensor gave *)
(* last: nothing older reappears after an error, and service stages and    *)
(* IMU ticks do not undo each other's.                                     *)
ShownIsLatestReading ==
  Realtime => proc = hist.last

(* An arming fails only for a gyro window that failed, and a failed window *)
(* fails one arming at most.                                               *)
ArmingFailureHasCause == ~hist.unfounded

(* A vehicle that at last stands still ends every calibration it was asked *)
(* for, after however many windows failed, and knows its ground pressure.  *)
CalibrationEnds ==
  <>[]calm => \A c \in Cals : Source[c] \in Fitted =>
                /\ c \in flags ~> c \notin flags
                /\ c \in Windowed => <>(bias[c] = "measured" \/ c \in flags)
=============================================================================
