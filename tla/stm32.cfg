CONSTANTS
  Subjects = {"drivers", "sbus", "pipe", "m8", "m9", "time", "date"}
  Boards <- MCBoards
  Capacity = 2
  MaxRcFrames = 2
  Ports <- MCPorts
  Retries = 3
  Factory <- MCFactory
  Second = 12
  Period = 4
  Late = 3
  Typical = 2
  Preempted = 2
  MaxSecs = 4
  FirstYear = 1999
  FirstDay = 10592
  LastYear = 2100
SPECIFICATION SuiteSpec
INVARIANTS DriversTellTheTruth SamplesAccounted ReceiverConfigured PositionsKeepTime
PROPERTIES SerialInOrder TasksComeRound
