\* The policy by itself: no reader races, no weight changes, no ghost removed.
CONSTANTS
  Entries = {e1, e2, e3}
  Readers = {}
  Gens = {1, 2}
  Capacity = 2
  MaxWeight = 3
  Reweigh = {}
  MayRemoveGhosts = FALSE
  MaxDebt = 1
  None = None
SPECIFICATION FairSpec
INVARIANTS
  TypeOK
  SizeExact
  ResidentsFit
PROPERTIES
  UsesHandList
  AdmittedIfFits
  EvictionTerminates
