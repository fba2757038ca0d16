CONSTANTS
  ConfigNumbers <- MCConfigNumbers
  Requests <- MCRequests
  Pending = Pending
SPECIFICATION Spec
CHECK_DEADLOCK FALSE
INVARIANTS SecretsScrubbed NewestKept OutputWithinLimits ObjectionsStand
PROPERTIES Implements
