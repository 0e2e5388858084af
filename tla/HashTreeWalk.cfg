SPECIFICATION ForeachSpec
INVARIANTS StackValidated
CHECK_DEADLOCK FALSE
CONSTANTS
  Byte = {1, 2}
  Hashes <- MCHashes
  Data = {d, e}
  NULL = NULL
  Thread = {t1, t2}
