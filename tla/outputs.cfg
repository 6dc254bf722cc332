CONSTANTS
  Subjects = {"pwm", "mixer", "battery"}
  None = None
  Error = Error
  Channels <- MCChannels
  Mixed <- MCMixed
  TimerOf <- MCTimerOf
  UnsupportedSets <- MCUnsupportedSets
  DisarmsAll = FALSE
  Masks <- MCMasks
  Configs <- MCConfigs
  AuxMessages <- MCAux
  Canned = {"wing"}
  FixedWing = {"wing"}
  Capacity = 1
  Outputs = {"a", "b"}
  Raw <- MCRaw
  Overrides <- MCOverrides
SPECIFICATION SuiteSpec
INVARIANTS RecordIsDriven MixerSound
PROPERTIES OutputsObey BatteryScales OutputsComeRound
