--------------------------- MODULE SerialUpdates ---------------------------
(***************************************************************************)
(* What the asynchronous mode of catlib promises: one CAT_Iterate performs *)
(* Trips updates of randomly drawn cells, each of them as if it were alone *)
(* (asynchronous cellular automata are defined by such sequences), and     *)
(* counts the transitions that reported an error.  AsyncIterate implements *)
(* it when the topology locks the neighbourhood it touches.                *)
(***************************************************************************)
EXTENDS CellularAutomaton

CONSTANT Trips   \* iterations of the loop: SizeI * SizeJ in the code

VARIABLES
  array,      \* the cellular array
  updates,    \* cells updated so far
  failures    \* transitions that returned a nonzero flag

vars == <<array, updates, failures>>

Init ==
  /\ array = InitArray
  /\ updates = 0
  /\ failures = 0

Update ==
  /\ updates < Trips
  /\ updates' = updates + 1
  /\ \E c \in Cells : \E result \in CellTransition(Gather(array, c)) :
       /\ failures' = failures + result[2]
       /\ array' = Scatter(array, c, result[1])

Spec == Init /\ [][Update]_vars

=============================================================================
