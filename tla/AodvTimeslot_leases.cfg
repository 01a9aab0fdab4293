SPECIFICATION TsSpec
CONSTANTS
  Object = {o1, o2, o3, o4}
  NULL = NULL
  Lifetime = {1, 3}
  MaxTime = 6
SYMMETRY Symmetry
INVARIANT Linked
PROPERTY ImplementsLeases
