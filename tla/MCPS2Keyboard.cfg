SPECIFICATION Spec
CONSTANTS
  Ops = {o1, o2, o3}
  NoOp = NoOp
  Devices = {d1}
  NoDevice = NoDevice
  ReconnectEnabled = TRUE
  MaxAttempts = 1
  MaxFaults = 1
  MaxClosers = 1
SYMMETRY Symmetry
INVARIANTS TypeOK Accounted HostOffDrainsKeys WorkGetsPickedUp NeverStranded ViewIsTrue
PROPERTY ServesInOrder
