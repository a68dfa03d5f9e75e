---------------------------- MODULE SyncIterate ----------------------------
(***************************************************************************)
(* A program that calls CAT_Iterate in the synchronous mode Calls times    *)
(* (CAT_Iterate_Sync of catlib.c).  A team of OpenMP threads shares the    *)
(* rows of the array; for each cell a thread copies the neighbourhood from *)
(* cellularArray into its own buffer, runs cellTransition on it, counts    *)
(* the flag and writes the buffer's first slot into cellularArraySwap.     *)
(* When all rows are done the two arrays change places.                    *)
(*                                                                         *)
(* The schedule of the loop over the rows is left to the OpenMP            *)
(* implementation: any idle thread may take any remaining row.             *)
(***************************************************************************)
EXTENDS CellularAutomaton, FiniteSets

CONSTANTS
  Threads,   \* the team of the parallel region
  Calls,     \* how often the program calls CAT_Iterate
  Unset      \* what the malloc'ed swap array holds

ASSUME ThreadsAssumption == IsFiniteSet(Threads)
ASSUME CallsAssumption == Calls \in Nat
ASSUME UnsetAssumption == Unset \notin Values

\* Mutant: the loop ends a row early.
RowsButLast == 0 .. SizeI - 2

\* The rows of the loop over i.
Rows == 0 .. SizeI - 1

VARIABLES
  arrays,          \* the two arrays of the double buffer
  current,         \* which of them cellularArray points to
  iterationsDone,  \* header->iterationsDone
  running,         \* the parallel region is open
  rowsLeft,        \* rows of the loop no thread has taken yet
  flag,            \* the flag shared by the team: nonzero reports an error
  errSum,          \* the reduction variable (the sum of the private copies)
  pc,              \* where each thread is in the loop body
  cell,            \* the cell it is at
  neighbors,       \* neighborsThread[t]
  returned,        \* what cellTransition last returned to each thread
  failures         \* history: transitions of this call that returned nonzero

vars == <<arrays, current, iterationsDone, running, rowsLeft, flag, errSum,
          pc, cell, neighbors, returned, failures>>

Phases == {"idle", "get", "transition", "count", "put"}

\* cellularArraySwap
Other == 1 - current

\* Stands for a buffer whose content no one will read.
Blank == [n \in Slots |-> InitArray[<<0, 0>>]]

Init ==
  /\ arrays = [x \in {0, 1} |->
                 IF x = 0 THEN InitArray ELSE [c \in Cells |-> Unset]]
  /\ current = 0
  /\ iterationsDone = 0
  /\ running = FALSE
  /\ rowsLeft = {}
  /\ flag = 0
  /\ errSum = 0
  /\ pc = [t \in Threads |-> "idle"]
  /\ cell = [t \in Threads |-> <<0, 0>>]
  /\ neighbors = [t \in Threads |-> Blank]
  /\ returned = [t \in Threads |-> 0]
  /\ failures = 0

\* The program calls CAT_Iterate.
Call ==
  /\ ~running
  /\ iterationsDone < Calls
  /\ running' = TRUE
  /\ rowsLeft' = Rows
  /\ flag' = 0
  /\ errSum' = SizeI * SizeJ
  /\ failures' = 0
  /\ UNCHANGED <<arrays, current, iterationsDone, pc, cell, neighbors,
                 returned>>

\* The next iteration of the work-sharing loop over i.
TakeRow(t) ==
  /\ pc[t] = "idle"
  /\ \E i \in rowsLeft :
       /\ rowsLeft' = rowsLeft \ {i}
       /\ cell' = [cell EXCEPT ![t] = <<i, 0>>]
  /\ pc' = [pc EXCEPT ![t] = "get"]
  /\ UNCHANGED <<arrays, current, iterationsDone, running, flag, errSum,
                 neighbors, returned, failures>>

\* CAT_Topology.GetNeighbors.  No one writes cellularArray inside the region,
\* so that it does not matter when its cells are read.
GetNeighbors(t) ==
  /\ pc[t] = "get"
  /\ neighbors' = [neighbors EXCEPT ![t] = Gather(arrays[current], cell[t])]
  /\ pc' = [pc EXCEPT ![t] = "transition"]
  /\ UNCHANGED <<arrays, current, iterationsDone, running, rowsLeft, flag,
                 errSum, cell, returned, failures>>

\* flag = (*cellTransition)(neighbors): flag belongs to the whole team.
Transition(t) ==
  /\ pc[t] = "transition"
  /\ \E result \in CellTransition(neighbors[t]) :
       /\ neighbors' = [neighbors EXCEPT ![t] = result[1]]
       /\ flag' = result[2]
       /\ returned' = [returned EXCEPT ![t] = result[2]]
       /\ failures' = failures + result[2]
  /\ pc' = [pc EXCEPT ![t] = "count"]
  /\ UNCHANGED <<arrays, current, iterationsDone, running, rowsLeft, errSum,
                 cell>>

\* errSum -= !flag.  The accesses to flag are a data race: the compiled code may
\* use the value t has just stored or load the shared flag again.
Count(t) ==
  /\ pc[t] = "count"
  /\ \E f \in {returned[t], flag} : errSum' = errSum - (1 - f)
  /\ pc' = [pc EXCEPT ![t] = "put"]
  /\ UNCHANGED <<arrays, current, iterationsDone, running, rowsLeft, flag,
                 cell, neighbors, returned, failures>>

\* Mutant: the loop over j runs while j <= J.
PutPastRow(t) ==
  /\ pc[t] = "put"
  /\ arrays' = [arrays EXCEPT ![Other][cell[t]] = neighbors[t][1]]
  /\ cell' = [cell EXCEPT ![t] = <<cell[t][1], cell[t][2] + 1>>]
  /\ pc' = [pc EXCEPT ![t] = IF cell[t][2] < SizeJ THEN "get" ELSE "idle"]
  /\ UNCHANGED <<current, iterationsDone, running, rowsLeft, flag, errSum,
                 neighbors, returned, failures>>

\* Mutant: the result is written in place, as CAT_PutCell2D would.
PutInPlace(t) ==
  /\ pc[t] = "put"
  /\ arrays' = [arrays EXCEPT ![0][cell[t]] = neighbors[t][1],
                              ![1][cell[t]] = neighbors[t][1]]
  /\ IF cell[t][2] + 1 < SizeJ
       THEN /\ cell' = [cell EXCEPT ![t] = <<cell[t][1], cell[t][2] + 1>>]
            /\ pc' = [pc EXCEPT ![t] = "get"]
       ELSE /\ pc' = [pc EXCEPT ![t] = "idle"]
            /\ UNCHANGED cell
  /\ UNCHANGED <<current, iterationsDone, running, rowsLeft, flag, errSum,
                 neighbors, returned, failures>>

\* CAT_PutResult2D, and the next cell of the row.
PutResult(t) ==
  LET i == cell[t][1]
      j == cell[t][2]
  IN /\ pc[t] = "put"
     /\ arrays' = [arrays EXCEPT ![Other][cell[t]] = neighbors[t][1]]
     /\ IF j + 1 < SizeJ
          THEN /\ cell' = [cell EXCEPT ![t] = <<i, j + 1>>]
               /\ pc' = [pc EXCEPT ![t] = "get"]
          ELSE /\ pc' = [pc EXCEPT ![t] = "idle"]
               /\ UNCHANGED cell
     /\ UNCHANGED <<current, iterationsDone, running, rowsLeft, flag, errSum,
                    neighbors, returned, failures>>

\* Mutant: the call is not counted.
ReturnUncounted ==
  /\ running
  /\ rowsLeft = {}
  /\ \A t \in Threads : pc[t] = "idle"
  /\ current' = Other
  /\ running' = FALSE
  /\ UNCHANGED <<arrays, iterationsDone, rowsLeft, flag, errSum, pc, cell,
                 neighbors, returned, failures>>

\* The barrier that ends the loop, the join, the exchange of the arrays,
\* iterationsDone++ and the return of errSum.
Return ==
  /\ running
  /\ rowsLeft = {}
  /\ \A t \in Threads : pc[t] = "idle"
  /\ current' = Other
  /\ iterationsDone' = iterationsDone + 1
  /\ running' = FALSE
  /\ UNCHANGED <<arrays, rowsLeft, flag, errSum, pc, cell, neighbors,
                 returned, failures>>

\* The program has made its calls.
Finished ==
  /\ ~running
  /\ iterationsDone = Calls
  /\ UNCHANGED vars

ThreadStep(t) ==
  \/ TakeRow(t) \/ GetNeighbors(t) \/ Transition(t) \/ Count(t)
  \/ PutResult(t)

Next == Call \/ (\E t \in Threads : ThreadStep(t)) \/ Return \/ Finished

Spec == Init /\ [][Next]_vars

\* The operating system keeps running every thread of the team, and the program
\* makes its calls.
FairSpec ==
  /\ Spec
  /\ \A t \in Threads : WF_vars(ThreadStep(t))
  /\ WF_vars(Call)
  /\ WF_vars(Return)

-----------------------------------------------------------------------------

TypeOK ==
  /\ arrays \in [{0, 1} -> [Cells -> Values \union {Unset}]]
  /\ current \in {0, 1}
  /\ iterationsDone \in 0 .. Calls
  /\ running \in BOOLEAN
  /\ rowsLeft \subseteq Rows
  /\ flag \in {0, 1}
  /\ errSum \in Int
  /\ pc \in [Threads -> Phases]
  /\ cell \in [Threads -> Cells]
  /\ neighbors \in [Threads -> Buffers]
  /\ returned \in [Threads -> {0, 1}]
  /\ failures \in Nat

\* A call in which no transition reports an error returns 0: errSum begins at
\* the number of cells, and every cell is subtracted once, whoever has it.
SuccessReported == ~running /\ failures = 0 => errSum = 0

\* Every call of CAT_Iterate returns.
CallsReturn == <>(iterationsDone = Calls)

Global == INSTANCE Generations
            WITH array <- arrays[current], generation <- iterationsDone

\* A call of CAT_Iterate computes the next generation in one step: no cell sees
\* a value of the new generation, none is left out and none is computed twice
\* from different neighbourhoods.
GlobalSpec == Global!Spec

-----------------------------------------------------------------------------
(* The inductive invariant behind GlobalSpec.                              *)

Busy(t) == pc[t] # "idle"

\* Every row in progress has one thread, and the team only works inside the
\* parallel region.
RowsDisjoint ==
  /\ rowsLeft # {} => running
  /\ \A t \in Threads : Busy(t) => running /\ cell[t][1] \notin rowsLeft
  /\ \A t, u \in Threads :
       t # u /\ Busy(t) /\ Busy(u) => cell[t][1] # cell[u][1]

\* A thread's buffer holds the neighbourhood of its cell, then a result for it.
BuffersFresh ==
  \A t \in Threads :
    /\ pc[t] = "transition" =>
         neighbors[t] = Gather(arrays[current], cell[t])
    /\ pc[t] \in {"count", "put"} =>
         Successor(arrays[current], cell[t], neighbors[t][1])

\* The cells whose result this call has written.
Done ==
  {c \in Cells : /\ c[1] \notin rowsLeft
                 /\ \A t \in Threads :
                      Busy(t) /\ cell[t][1] = c[1] => c[2] < cell[t][2]}

Written ==
  running => \A c \in Done :
               Successor(arrays[current], c, arrays[Other][c])

\* The call in progress is one of the program's calls.
CallCounted == running => iterationsDone < Calls

IInv ==
  /\ TypeOK /\ CallCounted /\ RowsDisjoint /\ BuffersFresh /\ Written
  /\ arrays[current] \in [Cells -> Values]

-----------------------------------------------------------------------------
(* The inductive invariant behind SuccessReported.                         *)

\* The cells of this call whose flag has been counted.
Counted == Done \union {cell[t] : t \in {u \in Threads : pc[u] = "put"}}

\* While no transition of a call has failed, every counted cell is taken off
\* errSum once: the shared flag and the value a thread has just stored agree.
SuccessCounted ==
  failures = 0 =>
    /\ flag = 0
    /\ \A t \in Threads : pc[t] = "count" => returned[t] = 0
    /\ running => errSum = SizeI * SizeJ - Cardinality(Counted)
    /\ ~running => errSum = 0

=============================================================================
