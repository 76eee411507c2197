SPECIFICATION Spec
CONSTANTS
  MaxFailures = 2
  MaxPings = 1
INVARIANT ReconnectsAfterClose
CHECK_DEADLOCK FALSE
