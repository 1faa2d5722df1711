SPECIFICATION Spec
CONSTANTS
  Unit = 5
  Den = 4
  Nums <- MCNums
  Horizon = 20
  MaxOutages = 4
INVARIANTS
  TypeOK
  NeverAhead
  KeepsUp
