SPECIFICATION Spec
INVARIANTS FillExact CopyReached
CHECK_DEADLOCK FALSE
CONSTANTS
  p = p
  q = q
  BS = {p, q}
  Length <- MCLength
  MaxCalls = 1
