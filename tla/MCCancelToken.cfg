SPECIFICATION Spec
CONSTANTS
  video = video
  audio = audio
  renew = renew
  Waiters <- MCWaiters
INVARIANTS
  TypeOK
  NoLostWakeup
PROPERTY LatchSpec
