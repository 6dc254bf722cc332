CONSTANTS
  Subjects = {"storage", "in_time", "sync", "answers", "fault", "sim"}
  Stored = 2
  MaxValue = 1
  CardFails = TRUE
  Slow = TRUE
  Upgrades = FALSE
  MaxRequests = 3
  MaxVersion = 1
  MaxRestarts = 1
  Names <- MCNames
  Kind <- MCKind
  OldKind <- MCOldKind
  Values = {10, 15, 20}
  SimDefault <- MCDefault
SPECIFICATION SuiteSpec
INVARIANTS AcknowledgedIsOnCard TablesAgree KeptOverRestarts
PROPERTIES TableIsOneImage Answered
