SPECIFICATION Spec
CONSTANTS
  Full <- MCFull
  G711Need <- MCG711Need
  ReadMax = 4
  Sources <- MCSources
INVARIANTS
  TypeOK
  FramesAreTheSource
  NothingHeldBack
  TailIsTheLastFrame
  OneGoIsRight
PROPERTIES
  ReadsDoNotMatter
