SPECIFICATION Spec
INVARIANTS TypeOK TaskOwned ExecClosed QueueMutex
PROPERTIES PoolSpec QueueOnlyShrinks
CHECK_DEADLOCK FALSE
CONSTANTS
  a = a
  b = b
  c = c
  Task = {a, b, c}
  Worker = {w1, w2}
  Main = Main
  None = None
  Graphs <- WorkersGraphs
  Preloads <- WorkersPreloads
  Priority <- MCPriority
  MaxWorkers = 2
  MaxStarts = 1
  MaxQueue = 3
  CreateFails = TRUE
  CallbackStops = TRUE
  Added = {a}
  Batches <- NoBatches
SYMMETRY Symmetry
