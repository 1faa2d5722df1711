SPECIFICATION Spec
CONSTANTS
  Life = 7
  Lead = 3
  CmdMax = 2
  MaxQueue = 2
INVARIANTS
  TypeOK
  OneLateJobAtMost
PROPERTIES
  NoExpiryWithoutCause
  WarningIsAnswered
