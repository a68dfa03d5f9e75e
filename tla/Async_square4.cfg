CONSTANTS
  TOPOLOGY = "SQUARE4"
  SizeI = 4
  SizeJ = 3
  t1 = t1
  t2 = t2
  Threads <- TwoThreads
  NoThread = NoThread
  Values = {0, 1}
  InitArray <- OneParticle
  Trips = 2
  CellTransition <- Diffusion
SPECIFICATION Spec
INVARIANTS TypeOK Exclusive LocksFree Conserved
PROPERTY SerialSpec
CHECK_DEADLOCK FALSE
SYMMETRY Symmetry
