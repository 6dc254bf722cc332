CONSTANTS
  Subjects = {"ubx"}
  UbxPlatform = "stm32"
  UbxFaults = 0
  Cap <- MCCap
  Faults <- MCFaults
  Wrap = 4
  MaxPackets = 5
SPECIFICATION SuiteSpec
PROPERTIES PublishedIsPvt
