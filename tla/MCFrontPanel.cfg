SPECIFICATION Spec
CONSTANTS
  Ops = {o1, o2}
  NoOp = NoOp
  Kinds = {"powerHold", "powerPress"}
  MaxDepth = 1
  Retries = 1
  ReconnectEnabled = TRUE
  MaxAttempts = 1
  MaxFaults = 1
  MaxClosers = 1
  MaxShown = 2
SYMMETRY Symmetry
INVARIANTS TypeOK NothingForgotten ViewIsTrue
