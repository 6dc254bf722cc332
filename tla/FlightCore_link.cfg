CONSTANTS
  Scheduler = "run_once"
  Sources <- MCLinkSources
  MutableParams <- MCLinkParams
SPECIFICATION Spec
INVARIANTS FailsafeInOrder FailsafeCommandInForce
PROPERTIES ArmedOnlyOnLiveLink SilentImuReported ImplementsContract
