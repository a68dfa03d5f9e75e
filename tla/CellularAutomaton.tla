------------------------- MODULE CellularAutomaton -------------------------
(***************************************************************************)
(* What every mode of iteration works with: the cellular array, the user's *)
(* cellTransition and the copies of a neighbourhood that GetNeighbors and  *)
(* PutNeighbors make between the two.                                      *)
(***************************************************************************)
EXTENDS Topology

CONSTANTS
  Values,             \* cell values
  InitArray,          \* the cellular array CAT_InitSimulator loaded
  CellTransition(_)   \* the results <<buffer, flag>> cellTransition may give

ASSUME ArrayAssumption == InitArray \in [Cells -> Values]

\* The contents a neighbours buffer may have when cellTransition sees it.
Buffers == [Slots -> Values]

\* cellTransition always returns; its flag only matters as zero or not.
ASSUME TransitionAssumption ==
  \A b \in Buffers :
    /\ CellTransition(b) # {}
    /\ CellTransition(b) \subseteq Buffers \X {0, 1}

\* What GetNeighbors copies out of the array a around cell c.
Gather(a, c) == [n \in Slots |-> a[Neighbors[c][n]]]

\* The slot PutNeighbors writes last into cell d, when c is the centre.
LastSlot ==
  [c \in Cells |-> [d \in Hood[c] |->
     CHOOSE n \in Slots :
       /\ Neighbors[c][n] = d
       /\ \A m \in Slots : Neighbors[c][m] = d => m <= n]]

\* The array a after PutNeighbors has copied buffer b back around cell c.
Scatter(a, c, b) ==
  [d \in Cells |-> IF d \in Hood[c] THEN b[LastSlot[c][d]] ELSE a[d]]

\* v may be the value of cell c in the generation that follows the array a.
Successor(a, c, v) ==
  \E result \in CellTransition(Gather(a, c)) : v = result[1][1]

=============================================================================
