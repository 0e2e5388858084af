SPECIFICATION FairSpec
INVARIANTS NothingEverQueued AliveListed
PROPERTIES EngineStops CallsEnd
CHECK_DEADLOCK FALSE
CONSTANTS
  a = a
  b = b
  c = c
  Task = {a, b, c}
  Worker = {w1, w2, w3}
  Main = Main
  None = None
  Graphs <- MCGraphs
  Preloads <- ApiPreloads
  Priority <- MCPriority
  MaxWorkers = 2
  MaxStarts = 3
  MaxQueue = 1
  CreateFails = FALSE
  CallbackStops = FALSE
  Added = {a}
  Batches <- ABatch
