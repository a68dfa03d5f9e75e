CONSTANTS
  ProcSize = 2
  SizeI = 9
  PeriodI = 1
  BorderI = 2
  BoundSize = 2
  Calls = 3
  Junk = Junk
SPECIFICATION FairSpec
INVARIANTS TypeOK GhostsLoaded FirstRowsCorrect SaveGathers InStep
PROPERTY AllFinish
