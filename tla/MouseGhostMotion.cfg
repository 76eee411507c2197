SPECIFICATION Spec
CONSTANTS
  Buttons = {left}
  NoOp = NoOp
  NoTarget = NoTarget
  NoMove = NoMove
  Edge = 1
  Gain = 1
  MaxStep = 1
  MaxAttempts = 1
  ResetsOnOpen = TRUE
  MaxOps = 0
  MaxMoves = 1
  MaxFaults = 0
  MaxClosers = 1
PROPERTY TicksConsume
