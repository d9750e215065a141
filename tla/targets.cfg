SPECIFICATION TargetSpec
CONSTANTS
  IterCalls <- MCMoveCalls
INVARIANTS
  EachTargetOnce
CHECK_DEADLOCK FALSE
