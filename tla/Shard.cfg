\* Two writers of keys with one hash; one of them also reads and deletes.
CONSTANTS
  p1 = p1
  p2 = p2
  k1 = k1
  k2 = k2
  h1 = h1
  v1 = v1
  v2 = v2
  v3 = v3
  e1 = e1
  e2 = e2
  e3 = e3
  Procs = {p1, p2}
  Keys <- MCKeys
  Hashes = {h1}
  HashOf <- Colliding
  Vals = {v1, v2, v3}
  Entries = {e1, e2, e3}
  CallsOf <- TwoWriters
  Handovers = {"pointer"}
  CapBytes = 1
  PutWeights <- MCPutWeights
  MaxPutWeight = 2
  WeightMod = 2
  NumGens = 2
  IdMod = 3
  MaxDebt = 2
  None = None
SPECIFICATION Spec
INVARIANTS
  TypeOK
  GetIsCurrent
  OwnedByGeneration
PROPERTIES
  OnlyHitsStrand
  ImplementsKeyValue
  
  
SYMMETRY EntriesAreAlike
