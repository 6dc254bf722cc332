CONSTANTS
  Scheduler = "run_once"
  Sources <- MCArmingSources
  MutableParams <- MCArmingParams
SPECIFICATION SuiteSpec
INVARIANTS ModeTellsErrors
PROPERTIES ArmsWithoutBlockingErrors ArmingStartsSafely ArmWaitsForGyroCalibration
  InterlockLiftedOnlyByAccel
