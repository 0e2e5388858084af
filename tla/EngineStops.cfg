SPECIFICATION FairSpec
PROPERTIES EngineStops
CHECK_DEADLOCK FALSE
CONSTANTS
  a = a
  b = b
  c = c
  Task = {a, b, c}
  Worker = {w1}
  Main = Main
  None = None
  Graphs <- MCGraphs
  Preloads <- ClientPreloads
  Priority <- MCPriority
  MaxWorkers = 1
  MaxStarts = 1
  MaxQueue = 0
  CreateFails = FALSE
  CallbackStops = FALSE
  Added = {}
  Batches <- NoBatches
