CONSTANTS
  GhostCalls <- AcceptedCalls
SPECIFICATION GhostSpec
INVARIANT
  GhostsSound
CHECK_DEADLOCK FALSE
