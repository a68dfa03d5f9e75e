CONSTANTS
  ProcSize = 3
  SizeI = 7
  PeriodI = 1
  RowSize = 1
  Borders = {1}
  Files <- FilesWithoutDigest
  Junk = Junk
SPECIFICATION Spec
INVARIANTS SimulatesLoaded
