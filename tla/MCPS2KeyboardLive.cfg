SPECIFICATION LiveSpec
CONSTANTS
  Ops = {o1, o2}
  NoOp = NoOp
  Devices = {d1}
  NoDevice = NoDevice
  ReconnectEnabled = TRUE
  MaxAttempts = 0
  MaxFaults = 1
  MaxClosers = 1
PROPERTIES OpsSettle BecomesReady
