SPECIFICATION MCSpec
CONSTANTS
  None = None
  Children = {c1, c2}
  Recorders = {r1}
  MaxAttempts = 2
  MaxFaults = 3
  PrinterPorts = {p1, p2}
  MaxQueued = 1
  MaxJobs = 3
  MaxPrinterFaults = 2
  AtlonaPorts = {p1, p2, p3}
  Switches = {1, 2}
  MaxWrites = 2
  MaxAtlonaFaults = 2
INVARIANTS TimersAccounted OperatorIsToldTrue
PROPERTIES DevicesReturn
CHECK_DEADLOCK FALSE
