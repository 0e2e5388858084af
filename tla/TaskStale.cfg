SPECIFICATION Spec
INVARIANTS NoStale
CHECK_DEADLOCK FALSE
SYMMETRY Symmetry
CONSTANTS
  Task = {t1, t2, t3}
  MaxDeps = 2
  MaxEdges = 3
