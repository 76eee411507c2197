SPECIFICATION MCSpec
CONSTANTS
  MaxFailures = 5
  MaxPings = 3
  Processes = {p1, p2}
  Clients = {v1, v2}
  None = None
  MaxClients = 1
  HighWater = 2
  MaxFrames = 3
  Recordings = {r1, r2, r3}
  Paths = {f1, f2}
  MaxRecordings = 2
  Buttons = {"left"}
  Modifiers = {"ShiftLeft"}
  Panel = {"power"}
  MaxDelta = 1
  MaxPending = 2
  MaxQueue = 2
INVARIANTS TypeOK RetryOnlyWhenClosed OpenSocketIsProbed SidecarSound PaneSound
PROPERTIES FramesInOrder WebRecovers
CHECK_DEADLOCK FALSE
