CONSTANTS
  ProcSize = 3
  SizeI = 10
  PeriodI = 1
  RowSize = 1
  Borders = {1, 2}
  Files <- AllFiles
  Junk = Junk
SPECIFICATION FairSpec
INVARIANTS TypeOK PartsInPlace NoneLeftOver OnlyWholeFiles
PROPERTY AllReturn
CHECK_DEADLOCK FALSE
