\* 3 slots of 2 bytes, IDs that wrap after 5, negative and oversized charges.
CONSTANTS
  NumGens = 3
  CapBytes = 6
  Deltas <- MCDeltas
  MaxDelta = 2
  IdMod = 5
  Nil = Nil
  MaxDebt = 2
  MaxNow = 2
SPECIFICATION Spec
INVARIANTS
  TypeOK
  RingIsQueue
  IdsDistinct
  BudgetsKept
PROPERTIES
  OldestFreed
