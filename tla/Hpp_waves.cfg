CONSTANTS
  Width = 4
  Height = 4
  Radius = 0
  MaxIterations = 6
SPECIFICATION Spec
INVARIANTS TypeOK NoneLeaves
PROPERTIES Conserved MomentumKept Reversible SignsChangeAtFreeWalls
