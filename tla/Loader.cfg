\* Two callers that mix the ways to load.
CONSTANTS
  c1 = c1
  c2 = c2
  k1 = k1
  k2 = k2
  x1 = x1
  x2 = x2
  Callers = {c1, c2}
  Keys = {k1, k2}
  HashOf <- MCHash
  CallsOf <- Mixed
  None = None
SPECIFICATION FairSpec
INVARIANTS
  TypeOK
  
  CancelIsOwn
PROPERTIES
  CallsAnswered
