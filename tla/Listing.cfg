SPECIFICATION FairForeachSpec
INVARIANTS TypeOK OneSlot SelectExact OnlyFirstGiven
PROPERTIES StaysEmpty ShapeKept SequenceExact CacheKept EmptyReturns
CHECK_DEADLOCK FALSE
CONSTANTS
  List = {la, lb}
  Node = {1, 2, 3, 4}
  NULL = NULL
  Wild = Wild
  Data = {1, 2}
  CacheSize = 3
  Uint = 256
  Garbage <- MCGarbage
  MaxLinked = 4
  Contents <- MCContents
  MaxCalls <- MCMaxCalls
  la = la
  lb = lb
  Thread = {Main, t}
  Main = Main
  MaxBefore = 0
