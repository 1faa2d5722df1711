SPECIFICATION Spec
CONSTANTS
  PipeSize = 1
  MaxSpawns = 2
INVARIANTS
  TypeOK
  UsedIsAlive
  NoStrayChild
PROPERTIES
  ExitIsClean
  StopFreesTheTracks
  ChildIsAttended
