SPECIFICATION FairSpec
INVARIANTS TypeOK DelExact AsOften
PROPERTIES NeverReclaimed RunComplete
CHECK_DEADLOCK FALSE
CONSTANTS
  Addr <- MCAddr
  a1 = a1
  a2 = a2
  a3 = a3
  Func = {f, g}
  Datum = {d}
  Thread = {Main, t}
  Main = Main
  None = None
  MaxListed = 3
