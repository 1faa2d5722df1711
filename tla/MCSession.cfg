SPECIFICATION Spec
CONSTANT MaxEvents = 2
INVARIANTS
  TypeOK
  NoOrphans
  ConnOutlivesItsUsers
  FirstDecisiveEventWins
  NoStopWhileWaiting
  AllReleased
PROPERTIES
  DecisiveEventExits
  WaitEnds
