CONSTANTS
  Nodes = {n1, n2, n3}
  Data = {d1, d2, d3}
  NULL = NULL
SPECIFICATION Spec
INVARIANTS TypeOK WellLinked
PROPERTY ImplementsSequence
