CONSTANTS
  ProcSize = 2
  SizeI = 5
  PeriodI = 1
  BorderI = 1
  BoundSize = 2
  Calls = 1
  Junk = Junk
SPECIFICATION Spec
INVARIANT TransfersInside
