SPECIFICATION MCSpec
CONSTANTS
  Clients = {c1}
  Values = {0, 1}
  InitialValue = 0
  NoCall = NoCall
  MaxVersion = 4
  MaxRestarts = 1
  MaxWire = 1
  Requests = {r1, r2}
  Ids = {i1, i2}
  Names = {n1, n2}
  None = None
  MaxCrashes = 1
INVARIANTS TypeOK MirrorIsAPastState LayoutsSound
PROPERTY MirrorCatchesUp
CHECK_DEADLOCK FALSE
