CONSTANTS
  Subjects = {"producers", "down", "served", "up", "parse", "resync", "ubx", "ubx_returns"}
  UbxPlatform = "rp2350"
  UbxFaults = 1
  Cap <- MCCap
  Faults <- MCFaults
  Wrap = 4
  MaxPackets = 5
SPECIFICATION SuiteSpec
PROPERTIES ImplementsLatestValue LinkKeeps PositionsAreSent LinesRecover
