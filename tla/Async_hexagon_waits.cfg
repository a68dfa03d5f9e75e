CONSTANTS
  TOPOLOGY = "HEXAGON"
  SizeI = 4
  SizeJ = 3
  t1 = t1
  t2 = t2
  Threads <- TwoThreads
  NoThread = NoThread
  Values = {0}
  InitArray <- Uniform
  Trips = 2
  CellTransition <- Keep
SPECIFICATION FairSpec
PROPERTY IterateReturns
CHECK_DEADLOCK FALSE
