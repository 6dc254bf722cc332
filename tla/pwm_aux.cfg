CONSTANTS
  Subjects = {"pwm"}
  None = None
  Error = Error
  Channels <- MCChannels
  Mixed <- MCMixed
  TimerOf <- MCTimerOf
  UnsupportedSets = {{}}
  DisarmsAll = TRUE
  Masks <- MCMasks
  Configs <- MCConfigs
  AuxMessages <- MCAux
  Canned = {"wing"}
  FixedWing = {"wing"}
  Capacity = 1
  Outputs = {"a", "b"}
  Raw <- MCRaw
  Overrides <- MCOverrides
SPECIFICATION SuiteSpec
PROPERTIES AuxMotorsLowWhenDisarmed
