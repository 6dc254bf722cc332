CONSTANTS
  Scheduler = "realtime"
  Sources <- MCRealtimeSources
  MutableParams <- MCGyroParams
SPECIFICATION Spec
PROPERTIES ArmWaitsForGyroCalibration
