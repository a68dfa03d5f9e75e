---------------------------- MODULE Generations ----------------------------
(***************************************************************************)
(* What the synchronous mode of catlib promises: a CAT_Iterate replaces    *)
(* the whole cellular array by its next generation, in which every cell is *)
(* what cellTransition makes of its neighbourhood in the last generation.  *)
(***************************************************************************)
EXTENDS CellularAutomaton

VARIABLES
  array,        \* the cellular array
  generation    \* calls of CAT_Iterate so far

vars == <<array, generation>>

Init == array = InitArray /\ generation = 0

Generation ==
  /\ array' \in [Cells -> Values]
  /\ \A c \in Cells : Successor(array, c, array'[c])
  /\ generation' = generation + 1

Spec == Init /\ [][Generation]_vars

=============================================================================
