SPECIFICATION Spec
CONSTANTS
  Attempts = 2
  Frames = 3
  ReadMax = 3
INVARIANTS
  TypeOK
  PushesNextFrame
  PlayedToTheEnd
  BarrenBudget
PROPERTIES
  KeepsContract
  DeadSourceGivenUp
