SPECIFICATION FairSpec
CONSTANTS
  Scans = {s1, s2}
  Boards = {b}
  Statics = {c}
  Retries = 2
  None = None
  Service = Service
  Leak = Leak
  Stop = Stop
  MaxPlugs = 1
  MaxFaults = 1
  MaxOverlaps = 1
INVARIANTS TypeOK ClaimsAreAnnounced IdentifiedOnce QuietHoldsNothing
PROPERTY DevicesAreNoticed
CHECK_DEADLOCK FALSE
