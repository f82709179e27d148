\* Two readers race with the policy; weights grow, ghosts are removed.
CONSTANTS
  Entries = {e1, e2}
  Readers = {r1, r2}
  Gens = {1}
  Capacity = 1
  MaxWeight = 1
  Reweigh = {"grow"}
  MayRemoveGhosts = TRUE
  MaxDebt = 1
  None = None
SPECIFICATION FairSpec
INVARIANTS
  
  SweepHasVictim
PROPERTIES
  EvictionTerminates
