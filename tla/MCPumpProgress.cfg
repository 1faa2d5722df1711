SPECIFICATION Spec
CONSTANTS
  Attempts = 2
  Frames = 2
  ReadMax = 3
INVARIANT GivenUpWithoutProgress
