CONSTANTS
  Scheduler = "realtime"
  Sources <- MCRealtimeSources
  MutableParams <- MCGyroParams
SPECIFICATION Spec
PROPERTIES SafeUnderRealtime ImplementsContractSafely
