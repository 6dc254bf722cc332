CONSTANTS
  Subjects = {"handoff", "timing", "late", "rc", "rates", "staged", "busy", "drain",
              "once", "split", "ends", "mux", "lock", "unlock", "gesture", "hold"}
  Slow = {"rc"}
  MaxGen = 3
  MaxClock = 1
  ArmHold = 3
  RcTimeout = 2
  ArmChannels = {"none", "switch"}
  CalibrateGyro = TRUE
  TakeMin = FALSE
  CalDelay = 1
  CalWindow = 1
  SensorsFitted = {"imu", "battery", "other"}
  CalCommands = {"IMU"}
  ArmCalibrates = TRUE
  TelePlace <- MCPlace
  TeleSource <- MCSource
  TeleStreams <- MCSamples
  RatedIntervals <- MCRatedIntervals
  StagedIntervals <- MCStagedIntervals
  TeleDefaults <- MCDefaults
  TeleCapacity = 2
  TelePriorities = {"Imu"}
  TeleAge = 4
  BusyStreams <- MCBusyStreams
  BusyRates <- MCBusy
  BusyCapacity = 1
  BusyAge = 10
  DrainStreams <- MCStreams
  DrainRates <- MCRated
  DrainCapacity = 4
  DrainAge = 6
SPECIFICATION SuiteSpec
INVARIANTS SyncedIsProcessed
PROPERTIES OutputsOfItsSample RealtimeKeepsTime TelemetryKeepsRates CalibrationSound
           CommandSound ArmingByPilot NobodyIsLeftWaiting
