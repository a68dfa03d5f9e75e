CONSTANTS
  TOPOLOGY = "HEXAGON"
  SizeI = 4
  SizeJ = 2
  t1 = t1
  t2 = t2
  Threads <- TwoThreads
  Values = {0, 1}
  InitArray <- OneAlive
  CellTransition <- Parity
  Calls = 2
  Unset = Unset
SPECIFICATION FairSpec
INVARIANTS TypeOK SuccessReported
PROPERTIES GlobalSpec CallsReturn
