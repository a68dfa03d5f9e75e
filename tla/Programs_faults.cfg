CONSTANTS
  FragmentSize = 4
  Requests <- SmallRequests
  OldFiles <- BothOldForms
  MaxCreated = 2
  MaxIterations = 1
  MaxSide = 4
  MaxChanged = 1
  Damaged = Damaged
SPECIFICATION FairSpec
INVARIANTS TypeOK LoadedIsLast WholeFilesLoad SavedWhole OnlyLoadedUsed SizeFits NeighborsMutual
PROPERTY ProgramsEnd
