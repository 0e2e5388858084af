SPECIFICATION Spec
INVARIANTS TypeOK IndexExact ListedFreed
CHECK_DEADLOCK FALSE
CONSTANTS
  Id = {i, j}
  Datum = {d, e}
  Value <- MCValue
  Hasher <- MCHasher
