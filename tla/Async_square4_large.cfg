CONSTANTS
  TOPOLOGY = "SQUARE4"
  SizeI = 5
  SizeJ = 5
  t1 = t1
  t2 = t2
  Threads <- TwoThreads
  NoThread = NoThread
  Values = {0}
  InitArray <- Uniform
  Trips = 2
  CellTransition <- MayFail
SPECIFICATION FairSpec
INVARIANT UnanimousReported
PROPERTY IterateReturns
