SPECIFICATION Spec
CONSTANTS
  Buttons = {left}
  NoOp = NoOp
  NoTarget = NoTarget
  NoMove = NoMove
  Edge = 1
  Gain = 2
  MaxStep = 1
  MaxAttempts = 1
  ResetsOnOpen = TRUE
  MaxOps = 2
  MaxMoves = 1
  MaxFaults = 1
  MaxClosers = 1
INVARIANTS TypeOK ButtonsKnown NeverStranded
PROPERTY NothingSentWhileOff
