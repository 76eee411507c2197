SPECIFICATION MCSpec
CONSTANTS
  Clients = {c1}
  Names = {a, b}
  Images = {i, j}
  Nothing = Nothing
  Root = Root
  MaxCommands = 2
  MaxFaults = 1
  Processes = {p1, p2}
  None = None
  MaxPolls = 2
  MaxProbes = 1
  MaxPending = 1
  MaxChanges = 2
  MaxRequests = 1
  
PROPERTIES  CfSettles
CHECK_DEADLOCK FALSE
