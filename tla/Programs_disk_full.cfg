CONSTANTS
  FragmentSize = 4
  Requests <- HexagonRequests
  OldFiles <- NoOldFiles
  MaxCreated = 1
  MaxIterations = 1
  MaxSide = 4
  MaxChanged = 2
  Damaged = Damaged
SPECIFICATION Spec
INVARIANT SaveReported
