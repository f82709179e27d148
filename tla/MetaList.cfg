\* Lists of up to three nodes, with one node to spare.
CONSTANTS
  Nodes = {n1, n2, n3, n4}
  Entries = {e1, e2, e3}
  Nil = Nil
SYMMETRY NodesAreAlike
SPECIFICATION Spec
INVARIANTS
  TypeOK
  WellLinked
PROPERTIES
  ImplementsHandList
