CONSTANTS
  ProcSize = 2
  SizeI = 8
  PeriodI = 1
  BorderI = 2
  BoundSize = 2
  Calls = 2
  Junk = Junk
SPECIFICATION Spec
INVARIANT RowsCorrect
