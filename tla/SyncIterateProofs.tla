------------------------- MODULE SyncIterateProofs -------------------------
(***************************************************************************)
(* Proof that SyncIterate implements Generations for every lattice, team,  *)
(* transition and number of calls, and that it reports no error where no   *)
(* transition has one.                                                     *)
(***************************************************************************)
EXTENDS SyncIterate, CellularAutomatonProofs, FiniteSetTheorems, TLAPS

\* The next value of a cell is a value.
LEMMA SuccessorType ==
  ASSUME NEW a \in [Cells -> Values], NEW c \in Cells, NEW v,
         Successor(a, c, v)
  PROVE  v \in Values
<1>1. PICK result \in CellTransition(Gather(a, c)) : v = result[1][1]
  BY DEF Successor
<1>2. result \in Buffers \X {0, 1}
  BY GatherType, TransitionAssumption
<1>3. result[1] \in Buffers
  BY <1>2
<1> QED BY <1>1, <1>3, Counts DEF Buffers, Slots

LEMMA IInvInit == Init => IInv
<1> SUFFICES ASSUME Init PROVE IInv
  OBVIOUS
<1>1. <<0, 0>> \in Cells
  BY SizeAssumption DEF Cells
<1>2. arrays \in [{0, 1} -> [Cells -> Values \union {Unset}]]
      /\ arrays[current] \in [Cells -> Values]
  BY ArrayAssumption DEF Init
<1>3. TypeOK
  <2>1. Blank \in Buffers
    BY <1>1, ArrayAssumption DEF Blank, Buffers
  <2>2. neighbors \in [Threads -> Buffers]
    BY <2>1 DEF Init
  <2>3. iterationsDone \in 0 .. Calls
    BY CallsAssumption DEF Init
  <2>4. cell \in [Threads -> Cells] /\ pc \in [Threads -> Phases]
    BY <1>1 DEF Init, Phases
  <2>5. returned \in [Threads -> {0, 1}]
    BY DEF Init
  <2>6. /\ current \in {0, 1} /\ rowsLeft \subseteq Rows
        /\ flag \in {0, 1} /\ errSum \in Int /\ failures \in Nat
    BY DEF Init
  <2>7. running \in BOOLEAN
    BY Zenon DEF Init
  <2> QED BY <1>2, <2>2, <2>3, <2>4, <2>5, <2>6, <2>7 DEF TypeOK
<1>4. CallCounted /\ RowsDisjoint /\ BuffersFresh /\ Written
  BY DEF Init, CallCounted, RowsDisjoint, Busy, BuffersFresh, Written
<1> QED BY <1>2, <1>3, <1>4 DEF IInv

LEMMA CallStep ==
  ASSUME IInv, Call
  PROVE  IInv'
<1>1. TypeOK'
  BY SizeAssumption DEF IInv, TypeOK, Call, Rows
<1>2. \A t \in Threads : ~Busy(t)
  BY DEF IInv, RowsDisjoint, Call
<1>3. RowsDisjoint' /\ BuffersFresh'
  BY <1>2 DEF IInv, RowsDisjoint, BuffersFresh, Busy, Call
<1>4. Done' = {}
  BY DEF Done, Call, Rows, Cells
<1>5. Written'
  BY <1>4 DEF Written
<1> QED BY <1>1, <1>3, <1>5 DEF IInv, Call, CallCounted

LEMMA TakeRowStep ==
  ASSUME IInv, NEW t \in Threads, TakeRow(t)
  PROVE  IInv'
<1>1. PICK i \in rowsLeft : /\ rowsLeft' = rowsLeft \ {i}
                            /\ cell' = [cell EXCEPT ![t] = <<i, 0>>]
  BY DEF TakeRow
<1>2. <<i, 0>> \in Cells
  BY <1>1, SizeAssumption DEF IInv, TypeOK, Rows, Cells
<1>3. pc' = [pc EXCEPT ![t] = "get"] /\ pc[t] = "idle"
  BY DEF TakeRow
<1>4. TypeOK'
  BY <1>1, <1>2, <1>3 DEF IInv, TypeOK, TakeRow, Phases
<1>5. \A u \in Threads \ {t} : pc'[u] = pc[u] /\ cell'[u] = cell[u]
  BY <1>1, <1>3 DEF IInv, TypeOK
<1>6. pc'[t] = "get" /\ cell'[t] = <<i, 0>>
  BY <1>1, <1>3 DEF IInv, TypeOK
<1>7. running
  BY <1>1 DEF IInv, RowsDisjoint
<1>8. UNCHANGED <<arrays, current, running, neighbors>>
  BY DEF TakeRow
<1>9. RowsDisjoint'
  BY <1>1, <1>5, <1>6, <1>7, <1>8 DEF IInv, RowsDisjoint, Busy
<1>10. BuffersFresh'
  BY <1>5, <1>6, <1>8 DEF IInv, BuffersFresh, Successor
<1>11. \A c \in Done' : c \in Done
  <2> SUFFICES ASSUME NEW c \in Done' PROVE c \in Done
    OBVIOUS
  <2>1. c \in Cells /\ c[1] \notin rowsLeft \ {i}
    BY <1>1 DEF Done
  <2>2. c[1] # i
    BY <1>6, <2>1 DEF Done, Busy, Cells
  <2>3. \A u \in Threads : Busy(u) /\ cell[u][1] = c[1] => c[2] < cell[u][2]
    BY <1>3, <1>5 DEF Done, Busy
  <2> QED BY <2>1, <2>2, <2>3 DEF Done
<1>12. Written'
  BY <1>8, <1>11 DEF IInv, Written, Other, Successor
<1> QED BY <1>4, <1>8, <1>9, <1>10, <1>12 DEF IInv, CallCounted, TakeRow

\* A step of t that only moves t along within its cell, and leaves the arrays
\* and the rows alone, keeps RowsDisjoint and Written.
LEMMA SameCell ==
  ASSUME IInv, NEW t \in Threads,
         UNCHANGED <<arrays, current, running, rowsLeft, cell>>,
         Busy(t), Busy(t)',
         \A u \in Threads \ {t} : pc'[u] = pc[u]
  PROVE  RowsDisjoint' /\ Written' /\ (arrays[current] \in [Cells -> Values])'
<1>1. \A u \in Threads : Busy(u)' <=> Busy(u)
  BY DEF Busy
<1>2. RowsDisjoint'
  BY <1>1 DEF IInv, RowsDisjoint
<1>3. Done' = Done
  BY <1>1 DEF Done
<1>4. Written'
  BY <1>3 DEF IInv, Written, Other, Successor
<1> QED BY <1>2, <1>4 DEF IInv

LEMMA GetNeighborsStep ==
  ASSUME IInv, NEW t \in Threads, GetNeighbors(t)
  PROVE  IInv'
<1>1. /\ pc[t] = "get" /\ pc' = [pc EXCEPT ![t] = "transition"]
      /\ neighbors' = [neighbors EXCEPT ![t] = Gather(arrays[current], cell[t])]
  BY DEF GetNeighbors
<1>2. Gather(arrays[current], cell[t]) \in Buffers
  BY GatherType DEF IInv, TypeOK
<1>3. TypeOK'
  BY <1>1, <1>2 DEF IInv, TypeOK, GetNeighbors, Phases
<1>4. \A u \in Threads \ {t} : pc'[u] = pc[u] /\ neighbors'[u] = neighbors[u]
  BY <1>1 DEF IInv, TypeOK
<1>5. /\ pc'[t] = "transition"
      /\ neighbors'[t] = Gather(arrays[current], cell[t])
  BY <1>1 DEF IInv, TypeOK
<1>6. UNCHANGED <<arrays, current, running, rowsLeft, cell>>
  BY DEF GetNeighbors
<1>7. BuffersFresh'
  BY <1>4, <1>5, <1>6 DEF IInv, BuffersFresh, Gather, Successor
<1> QED BY <1>1, <1>3, <1>4, <1>5, <1>6, <1>7, SameCell DEF IInv, Busy, CallCounted, GetNeighbors

LEMMA TransitionStep ==
  ASSUME IInv, NEW t \in Threads, Transition(t)
  PROVE  IInv'
<1>1. PICK result \in CellTransition(neighbors[t]) :
        /\ neighbors' = [neighbors EXCEPT ![t] = result[1]]
        /\ flag' = result[2]
        /\ returned' = [returned EXCEPT ![t] = result[2]]
        /\ failures' = failures + result[2]
  BY DEF Transition
<1>2. result[1] \in Buffers /\ result[2] \in {0, 1}
  <2>1. neighbors[t] \in Buffers
    BY DEF IInv, TypeOK
  <2> QED BY <2>1, TransitionAssumption
<1>3. pc[t] = "transition" /\ pc' = [pc EXCEPT ![t] = "count"]
  BY DEF Transition
<1>4. TypeOK'
  <2>1. neighbors' \in [Threads -> Buffers] /\ returned' \in [Threads -> {0, 1}]
    BY <1>1, <1>2 DEF IInv, TypeOK
  <2>2. failures' \in Nat /\ flag' \in {0, 1}
    BY <1>1, <1>2 DEF IInv, TypeOK
  <2>3. pc' \in [Threads -> Phases]
    BY <1>3 DEF IInv, TypeOK, Phases
  <2> QED BY <2>1, <2>2, <2>3 DEF IInv, TypeOK, Transition
<1>5. \A u \in Threads \ {t} : pc'[u] = pc[u] /\ neighbors'[u] = neighbors[u]
  BY <1>1, <1>3 DEF IInv, TypeOK
<1>6. pc'[t] = "count" /\ neighbors'[t] = result[1]
  BY <1>1, <1>3 DEF IInv, TypeOK
<1>7. UNCHANGED <<arrays, current, running, rowsLeft, cell>>
  BY DEF Transition
<1>8. Successor(arrays[current], cell[t], result[1][1])
  BY <1>1, <1>3 DEF IInv, BuffersFresh, Successor
<1>9. BuffersFresh'
  BY <1>5, <1>6, <1>7, <1>8 DEF IInv, BuffersFresh, Successor
<1> QED BY <1>3, <1>4, <1>5, <1>6, <1>7, <1>9, SameCell DEF IInv, Busy, CallCounted, Transition

LEMMA CountStep ==
  ASSUME IInv, NEW t \in Threads, Count(t)
  PROVE  IInv'
<1>1. pc[t] = "count" /\ pc' = [pc EXCEPT ![t] = "put"]
  BY DEF Count
<1>2. errSum' \in Int
  BY DEF IInv, TypeOK, Count
<1>3. TypeOK'
  BY <1>1, <1>2 DEF IInv, TypeOK, Count, Phases
<1>4. \A u \in Threads \ {t} : pc'[u] = pc[u]
  BY <1>1 DEF IInv, TypeOK
<1>5. pc'[t] = "put"
  BY <1>1 DEF IInv, TypeOK
<1>6. UNCHANGED <<arrays, current, running, rowsLeft, cell, neighbors>>
  BY DEF Count
<1>7. BuffersFresh'
  BY <1>1, <1>4, <1>5, <1>6 DEF IInv, BuffersFresh, Successor
<1> QED BY <1>1, <1>3, <1>4, <1>5, <1>6, <1>7, SameCell DEF IInv, Busy, CallCounted, Count

LEMMA PutResultStep ==
  ASSUME IInv, NEW t \in Threads, PutResult(t)
  PROVE  IInv'
<1> DEFINE i == cell[t][1]
           j == cell[t][2]
<1>1. /\ pc[t] = "put" /\ cell[t] \in Cells /\ cell[t] = <<i, j>>
      /\ i \in Rows /\ j \in 0 .. SizeJ - 1
  BY DEF IInv, TypeOK, PutResult, Cells, Rows
<1>2. /\ arrays' = [arrays EXCEPT ![Other][cell[t]] = neighbors[t][1]]
      /\ UNCHANGED <<current, running, rowsLeft, neighbors>>
  BY DEF PutResult
<1>3. Other \in {0, 1} /\ Other # current
  BY DEF IInv, TypeOK, Other
<1>4. neighbors[t][1] \in Values
  BY Counts DEF IInv, TypeOK, Buffers, Slots
<1>5. \/ /\ j + 1 < SizeJ
         /\ cell' = [cell EXCEPT ![t] = <<i, j + 1>>]
         /\ pc' = [pc EXCEPT ![t] = "get"]
      \/ /\ ~(j + 1 < SizeJ)
         /\ cell' = cell
         /\ pc' = [pc EXCEPT ![t] = "idle"]
  BY DEF PutResult
<1>6. \A u \in Threads \ {t} : pc'[u] = pc[u] /\ cell'[u] = cell[u]
  BY <1>5 DEF IInv, TypeOK
<1>7. \/ j + 1 < SizeJ /\ pc'[t] = "get" /\ cell'[t] = <<i, j + 1>>
      \/ ~(j + 1 < SizeJ) /\ pc'[t] = "idle" /\ cell'[t] = cell[t]
  BY <1>5 DEF IInv, TypeOK
<1>8. TypeOK'
  <2>1. arrays' \in [{0, 1} -> [Cells -> Values \union {Unset}]]
    BY <1>1, <1>2, <1>3, <1>4 DEF IInv, TypeOK
  <2>2. pc' \in [Threads -> Phases]
    BY <1>5 DEF IInv, TypeOK, Phases
  <2>3. cell' \in [Threads -> Cells]
    <3>1. j + 1 < SizeJ => <<i, j + 1>> \in Cells
      BY <1>1, SizeAssumption DEF Cells, Rows
    <3> QED BY <1>5, <3>1 DEF IInv, TypeOK
  <2> QED BY <2>1, <2>2, <2>3 DEF IInv, TypeOK, PutResult
<1>9. /\ arrays'[current] = arrays[current]
      /\ arrays'[Other][cell[t]] = neighbors[t][1]
      /\ \A c \in Cells \ {cell[t]} : arrays'[Other][c] = arrays[Other][c]
  BY <1>1, <1>2, <1>3 DEF IInv, TypeOK
<1>10. Other' = Other
  BY <1>2 DEF Other
<1>11. RowsDisjoint'
  <2>1. \A u \in Threads : Busy(u)' => Busy(u) /\ cell'[u][1] = cell[u][1]
    BY <1>1, <1>6, <1>7 DEF Busy
  <2> QED BY <1>2, <2>1 DEF IInv, RowsDisjoint
<1>12. BuffersFresh'
  <2> SUFFICES ASSUME NEW u \in Threads, pc'[u] \in {"transition", "count", "put"}
               PROVE  /\ pc'[u] = "transition" =>
                           neighbors'[u] = Gather(arrays'[current'], cell'[u])
                      /\ pc'[u] \in {"count", "put"} =>
                           Successor(arrays'[current'], cell'[u], neighbors'[u][1])
    BY DEF BuffersFresh, Successor, Gather
  <2>1. u # t
    BY <1>7
  <2>2. pc'[u] = pc[u] /\ cell'[u] = cell[u] /\ neighbors'[u] = neighbors[u]
    BY <1>2, <1>6, <2>1
  <2>3. arrays'[current'] = arrays[current]
    BY <1>2, <1>9
  <2>4. /\ pc[u] = "transition" => neighbors[u] = Gather(arrays[current], cell[u])
        /\ pc[u] \in {"count", "put"} =>
             Successor(arrays[current], cell[u], neighbors[u][1])
    BY DEF IInv, BuffersFresh
  <2> QED BY ONLY <2>2, <2>3, <2>4
<1>13. \A c \in Done' : c = cell[t] \/ c \in Done
  <2> SUFFICES ASSUME NEW c \in Done', c # cell[t] PROVE c \in Done
    OBVIOUS
  <2>1. c \in Cells /\ c[1] \notin rowsLeft
    BY <1>2 DEF Done
  <2>2. \A u \in Threads \ {t} : Busy(u) /\ cell[u][1] = c[1] => c[2] < cell[u][2]
    BY <1>6 DEF Done, Busy
  <2>3. c[1] = i => c[2] < j
    <3> SUFFICES ASSUME c[1] = i PROVE c[2] < j
      OBVIOUS
    <3>1. c[2] \in 0 .. SizeJ - 1 /\ c[2] # j
      BY <1>1, <2>1 DEF Cells
    <3>2. CASE j + 1 < SizeJ
      <4>1. Busy(t)' /\ cell'[t][1] = c[1] /\ cell'[t][2] = j + 1
        BY <1>7, <3>2 DEF Busy
      <4>2. c[2] < j + 1
        BY <4>1 DEF Done
      <4> QED BY <1>1, <3>1, <4>2
    <3>3. CASE ~(j + 1 < SizeJ)
      BY <1>1, <3>1, <3>3, SizeAssumption
    <3> QED BY <3>2, <3>3
  <2> QED BY <2>1, <2>2, <2>3 DEF Done
<1>14. Written'
  <2> SUFFICES ASSUME running, NEW c \in Done'
               PROVE  Successor(arrays[current], c, arrays'[Other][c])
    BY <1>2, <1>9, <1>10 DEF Written, Successor, Gather
  <2>1. CASE c = cell[t]
    BY <1>1, <1>9, <2>1 DEF IInv, BuffersFresh
  <2>2. CASE c # cell[t]
    <3>1. c \in Done /\ c \in Cells
      BY <1>13, <2>2 DEF Done
    <3> QED BY <1>9, <2>2, <3>1 DEF IInv, Written
  <2> QED BY <2>1, <2>2
<1>15. CallCounted'
  BY DEF IInv, CallCounted, PutResult
<1>16. (arrays[current] \in [Cells -> Values])'
  BY <1>2, <1>9 DEF IInv
<1> QED BY <1>8, <1>11, <1>12, <1>14, <1>15, <1>16 DEF IInv

\* When the barrier is passed every cell of the next generation is written.
LEMMA AllDone ==
  ASSUME IInv, Return
  PROVE  /\ \A c \in Cells : Successor(arrays[current], c, arrays[Other][c])
         /\ arrays[Other] \in [Cells -> Values]
<1>1. Done = Cells
  BY DEF Return, Done, Busy
<1>2. \A c \in Cells : Successor(arrays[current], c, arrays[Other][c])
  BY <1>1 DEF IInv, Written, Return
<1>3. \A c \in Cells : arrays[Other][c] \in Values
  BY <1>2, SuccessorType DEF IInv
<1>4. arrays[Other] \in [Cells -> Values \union {Unset}]
  BY DEF IInv, TypeOK, Other
<1> QED BY <1>2, <1>3, <1>4

LEMMA ReturnStep ==
  ASSUME IInv, Return
  PROVE  IInv'
<1>1. arrays[Other] \in [Cells -> Values] /\ Other \in {0, 1}
  BY AllDone DEF IInv, TypeOK, Other
<1>2. iterationsDone' \in 0 .. Calls
  BY CallsAssumption DEF IInv, TypeOK, CallCounted, Return
<1>3. TypeOK'
  BY <1>1, <1>2 DEF IInv, TypeOK, Return
<1>4. RowsDisjoint' /\ BuffersFresh' /\ Written'
  BY DEF IInv, RowsDisjoint, BuffersFresh, Written, Busy, Return
<1> QED BY <1>1, <1>3, <1>4 DEF IInv, CallCounted, Return

LEMMA IInvStep == IInv /\ [Next]_vars => IInv'
<1> SUFFICES ASSUME IInv, [Next]_vars PROVE IInv'
  OBVIOUS
<1>1. ASSUME NEW t \in Threads, ThreadStep(t) PROVE IInv'
  BY <1>1, TakeRowStep, GetNeighborsStep, TransitionStep, CountStep,
     PutResultStep DEF ThreadStep
<1>2. CASE UNCHANGED vars
  <2>1. TypeOK' /\ CallCounted' /\ (arrays[current] \in [Cells -> Values])'
    BY <1>2 DEF vars, IInv, TypeOK, CallCounted
  <2>2. RowsDisjoint'
    BY <1>2 DEF vars, IInv, RowsDisjoint, Busy
  <2>3. BuffersFresh'
    BY <1>2 DEF vars, IInv, BuffersFresh, Successor, Gather
  <2>4. Done' = Done /\ Other' = Other
    BY <1>2 DEF vars, Done, Busy, Other
  <2>5. Written'
    BY <1>2, <2>4 DEF vars, IInv, Written, Successor, Gather
  <2> QED BY <2>1, <2>2, <2>3, <2>5 DEF IInv
<1> QED BY <1>1, <1>2, CallStep, ReturnStep DEF Next, Finished

\* Every variable keeps its type: no thread leaves the lattice, and the array
\* the program sees never shows an unset cell.
THEOREM TypeCorrect == Spec => []TypeOK
<1>1. IInv => TypeOK
  BY DEF IInv
<1> QED BY IInvInit, IInvStep, <1>1, PTL DEF Spec

\* The copy of Successor that the instance of Generations brings along.
LEMMA SameSuccessor ==
  ASSUME NEW a, NEW c, NEW v
  PROVE  Global!Successor(a, c, v) <=> Successor(a, c, v)
BY DEF Global!Successor, Successor, Global!Gather, Gather, Global!Neighbors,
       Neighbors, Global!Slots, Slots, Global!SlotCount, SlotCount,
       Global!Cells, Cells, Global!Shift, Shift, Global!NeighborOffsets,
       NeighborOffsets, Global!Square4Offsets, Square4Offsets,
       Global!Square8Offsets, Square8Offsets, Global!Square24Offsets,
       Square24Offsets, Global!HexagonOffsets, HexagonOffsets,
       Global!Window, Window

\* Only the return of CAT_Iterate changes the array the program sees or
\* iterationsDone.
LEMMA VisibleUnchanged ==
  ASSUME IInv, Next, ~Return
  PROVE  UNCHANGED <<arrays[current], iterationsDone>>
<1>1. ASSUME NEW t \in Threads, PutResult(t)
      PROVE  UNCHANGED <<arrays[current], iterationsDone>>
  <2>1. Other # current
    BY DEF IInv, TypeOK, Other
  <2> QED BY <1>1, <2>1 DEF IInv, TypeOK, PutResult
<1>2. ASSUME NEW t \in Threads, ThreadStep(t)
      PROVE  UNCHANGED <<arrays[current], iterationsDone>>
  BY <1>1, <1>2 DEF ThreadStep, TakeRow, GetNeighbors, Transition, Count
<1> QED BY <1>2 DEF Next, Call, Finished, vars

\* With any team, schedule, lattice and transition a call of CAT_Iterate has
\* the effect of one global step.
THEOREM ImplementsGenerations == Spec => GlobalSpec
<1>1. Init => Global!Init
  BY DEF Init, Global!Init
<1>2. IInv /\ [Next]_vars => [Global!Generation]_(Global!vars)
  <2> SUFFICES ASSUME IInv, [Next]_vars
               PROVE  Global!Generation \/ UNCHANGED Global!vars
    OBVIOUS
  <2>1. CASE Return
    <3>1. arrays'[current'] = arrays[Other] /\ iterationsDone' = iterationsDone + 1
      BY <2>1 DEF Return
    <3>2. Global!Cells = Cells
      BY DEF Global!Cells, Cells
    <3>3. arrays'[current'] \in [Global!Cells -> Values]
      BY <2>1, <3>1, <3>2, AllDone
    <3>4. \A c \in Global!Cells :
            Global!Successor(arrays[current], c, arrays'[current'][c])
      BY <2>1, <3>1, <3>2, AllDone, SameSuccessor
    <3> QED BY <3>1, <3>3, <3>4 DEF Global!Generation
  <2>2. CASE Next /\ ~Return
    BY <2>2, VisibleUnchanged DEF Global!vars
  <2>3. CASE UNCHANGED vars
    BY <2>3 DEF vars, Global!vars
  <2> QED BY <2>1, <2>2, <2>3
<1> QED BY IInvInit, IInvStep, <1>1, <1>2, PTL DEF Spec, GlobalSpec, Global!Spec

-----------------------------------------------------------------------------
(* What a call reports when nothing fails.                                 *)

\* The lattice has SizeI * SizeJ cells.
LEMMA CellCount ==
  /\ IsFiniteSet(Cells) /\ Cardinality(Cells) = SizeI * SizeJ
<1> DEFINE I == 0 .. SizeI - 1
           J == 0 .. SizeJ - 1
<1>1. SizeI \in Nat \ {0} /\ SizeJ \in Nat \ {0}
  BY SizeAssumption
<1>2. IsFiniteSet(I) /\ Cardinality(I) = SizeI
  BY <1>1, FS_Interval, 0 \in Int, SizeI - 1 \in Int
<1>3. IsFiniteSet(J) /\ Cardinality(J) = SizeJ
  BY <1>1, FS_Interval, 0 \in Int, SizeJ - 1 \in Int
<1>4. Cells = I \X J
  BY DEF Cells
<1> HIDE DEF I, J
<1> QED BY <1>2, <1>3, <1>4, FS_Product

\* How many cells have been counted is a number.
LEMMA CountedFinite == IsFiniteSet(Counted) /\ Cardinality(Counted) \in Nat
<1>1. Done \in SUBSET Cells
  BY DEF Done
<1>2. IsFiniteSet(Done)
  BY <1>1, CellCount, FS_Subset
<1> DEFINE T == {u \in Threads : pc[u] = "put"}
           C == {cell[t] : t \in T}
<1>3. T \in SUBSET Threads
  OBVIOUS
<1>4. IsFiniteSet(T)
  <2> HIDE DEF T
  <2> QED BY <1>3, ThreadsAssumption, FS_Subset
<1>5. IsFiniteSet(C)
  <2> HIDE DEF T
  <2> DEFINE f == [t \in T |-> cell[t]]
  <2>1. f \in Surjection(T, C)
    BY DEF Surjection
  <2> HIDE DEF f, C
  <2> QED BY <2>1, <1>4, FS_Surjection
<1>6. Counted = Done \cup C
  BY DEF Counted
<1> HIDE DEF C
<1>7. IsFiniteSet(Counted)
  BY <1>2, <1>5, <1>6, FS_Union
<1> QED BY <1>7, FS_CardinalityType

\* A step that moves t along within its cell, and not past the count, counts
\* nothing.
LEMMA CountedSame ==
  ASSUME IInv, NEW t \in Threads,
         UNCHANGED <<rowsLeft, cell>>,
         Busy(t), Busy(t)', pc[t] # "put", pc'[t] # "put",
         \A u \in Threads \ {t} : pc'[u] = pc[u]
  PROVE  Counted' = Counted
<1>1. \A u \in Threads : (Busy(u)' <=> Busy(u)) /\ (pc'[u] = "put" <=> pc[u] = "put")
  BY DEF Busy
<1>2. Done' = Done
  BY <1>1 DEF Done
<1> QED BY <1>1, <1>2 DEF Counted

LEMMA CountedTakeRow ==
  ASSUME IInv, NEW t \in Threads, TakeRow(t)
  PROVE  Counted' = Counted
<1>1. PICK i \in rowsLeft : /\ rowsLeft' = rowsLeft \ {i}
                            /\ cell' = [cell EXCEPT ![t] = <<i, 0>>]
  BY DEF TakeRow
<1>2. pc' = [pc EXCEPT ![t] = "get"] /\ pc[t] = "idle"
  BY DEF TakeRow
<1>3. \A u \in Threads \ {t} : pc'[u] = pc[u] /\ cell'[u] = cell[u]
  BY <1>1, <1>2 DEF IInv, TypeOK
<1>4. pc'[t] = "get" /\ cell'[t] = <<i, 0>>
  BY <1>1, <1>2 DEF IInv, TypeOK
<1>5. ASSUME NEW c \in Cells PROVE c \in Done' <=> c \in Done
  <2>1. c \in Done' <=>
          /\ c[1] \notin rowsLeft \ {i}
          /\ \A u \in Threads \ {t} : Busy(u) /\ cell[u][1] = c[1] => c[2] < cell[u][2]
          /\ i = c[1] => c[2] < 0
    BY <1>1, <1>3, <1>4 DEF Done, Busy
  <2>2. c \in Done <=>
          /\ c[1] \notin rowsLeft
          /\ \A u \in Threads \ {t} : Busy(u) /\ cell[u][1] = c[1] => c[2] < cell[u][2]
    BY <1>2 DEF Done, Busy
  <2>3. ~(c[2] < 0)
    BY DEF Cells
  <2> QED BY <1>1, <2>1, <2>2, <2>3
<1>6. Done' = Done
  BY <1>5 DEF Done
<1>7. {cell'[u] : u \in {v \in Threads : pc'[v] = "put"}} =
        {cell[u] : u \in {v \in Threads : pc[v] = "put"}}
  BY <1>2, <1>3, <1>4
<1> QED BY <1>6, <1>7 DEF Counted

\* Counting the flag of t adds its cell, which had not been counted.
LEMMA CountedCount ==
  ASSUME IInv, NEW t \in Threads, Count(t)
  PROVE  Cardinality(Counted') = Cardinality(Counted) + 1
<1>1. pc[t] = "count" /\ cell[t] \in Cells
  BY DEF IInv, TypeOK, Count
<1>2. pc'[t] = "put" /\ \A u \in Threads \ {t} : pc'[u] = pc[u]
  BY DEF IInv, TypeOK, Count
<1>3. rowsLeft' = rowsLeft /\ cell' = cell
  BY DEF Count
<1>4. \A u \in Threads : Busy(u)' <=> Busy(u)
  BY <1>1, <1>2 DEF Busy
<1>5. Done' = Done
  BY <1>3, <1>4 DEF Done
<1>6. Counted' = Counted \cup {cell[t]}
  BY <1>1, <1>2, <1>3, <1>5 DEF Counted
<1>7. cell[t] \notin Counted
  <2>1. cell[t] \notin Done
    BY <1>1 DEF Done, Busy, Cells
  <2>2. \A u \in Threads : pc[u] = "put" => cell[u] # cell[t]
    BY <1>1 DEF IInv, RowsDisjoint, Busy
  <2> QED BY <2>1, <2>2 DEF Counted
<1> QED BY <1>6, <1>7, CountedFinite, FS_AddElement

\* The cell t has finished was already counted.
LEMMA CountedPut ==
  ASSUME IInv, NEW t \in Threads, PutResult(t)
  PROVE  Counted' = Counted
<1> DEFINE i == cell[t][1]
           j == cell[t][2]
<1>1. /\ pc[t] = "put" /\ cell[t] \in Cells /\ cell[t] = <<i, j>>
      /\ i \in Rows /\ j \in 0 .. SizeJ - 1
  BY DEF IInv, TypeOK, PutResult, Cells, Rows
<1>2. rowsLeft' = rowsLeft
  BY DEF PutResult
<1>3. \A u \in Threads \ {t} : pc'[u] = pc[u] /\ cell'[u] = cell[u]
  BY DEF IInv, TypeOK, PutResult
<1>4. \/ j + 1 < SizeJ /\ pc'[t] = "get" /\ cell'[t] = <<i, j + 1>>
      \/ ~(j + 1 < SizeJ) /\ pc'[t] = "idle" /\ cell'[t] = cell[t]
  BY DEF IInv, TypeOK, PutResult
<1>5. i \notin rowsLeft /\ \A u \in Threads \ {t} : Busy(u) => cell[u][1] # i
  BY <1>1 DEF IInv, RowsDisjoint, Busy
<1>6. ASSUME NEW c \in Cells PROVE c \in Done' <=> c \in Done \/ c = cell[t]
  <2>1. c[1] \in 0 .. SizeI - 1 /\ c[2] \in 0 .. SizeJ - 1 /\ c = <<c[1], c[2]>>
    BY DEF Cells
  <2>2. CASE c[1] # i
    <3>1. c \in Done' <=>
            /\ c[1] \notin rowsLeft
            /\ \A u \in Threads \ {t} : Busy(u) /\ cell[u][1] = c[1] => c[2] < cell[u][2]
      BY <1>2, <1>3, <1>4, <2>2 DEF Done, Busy
    <3>2. c \in Done <=>
            /\ c[1] \notin rowsLeft
            /\ \A u \in Threads \ {t} : Busy(u) /\ cell[u][1] = c[1] => c[2] < cell[u][2]
      BY <2>2 DEF Done, Busy
    <3>3. c # cell[t]
      BY <2>2
    <3> QED BY <3>1, <3>2, <3>3
  <2>3. CASE c[1] = i
    <3>1. c \in Done <=> c[2] < j
      BY <1>1, <1>5, <2>3 DEF Done, Busy
    <3>2. c \in Done' <=> (j + 1 < SizeJ => c[2] < j + 1)
      BY <1>2, <1>3, <1>4, <1>5, <2>3 DEF Done, Busy
    <3>3. c = cell[t] <=> c[2] = j
      BY <1>1, <2>1, <2>3
    <3> QED BY <1>1, <2>1, <3>1, <3>2, <3>3, SizeAssumption
  <2> QED BY <2>2, <2>3
<1>7. Done' = Done \cup {cell[t]}
  BY <1>1, <1>6 DEF Done
<1>8. {cell[u] : u \in {v \in Threads : pc[v] = "put"}} =
        {cell'[u] : u \in {v \in Threads : pc'[v] = "put"}} \cup {cell[t]}
  BY <1>1, <1>3, <1>4
<1> QED BY <1>7, <1>8 DEF Counted

LEMMA SuccessStep == IInv /\ SuccessCounted /\ [Next]_vars => SuccessCounted'
<1> SUFFICES ASSUME IInv, SuccessCounted, [Next]_vars PROVE SuccessCounted'
  OBVIOUS
<1>1. CASE Call
  <2>1. \A t \in Threads : pc[t] = "idle"
    BY <1>1 DEF IInv, RowsDisjoint, Busy, Call
  <2>2. Counted' = {}
    BY <1>1, <2>1 DEF Counted, Done, Call, Rows, Cells
  <2>3. Cardinality(Counted') = 0
    BY <2>2, FS_EmptySet
  <2>4. SizeI * SizeJ \in Int
    BY SizeAssumption
  <2> QED BY <1>1, <2>1, <2>3, <2>4 DEF SuccessCounted, Call
<1>2. ASSUME NEW t \in Threads, TakeRow(t) PROVE SuccessCounted'
  <2>1. \A u \in Threads : pc'[u] = "count" => pc[u] = "count"
    BY <1>2 DEF IInv, TypeOK, TakeRow
  <2> QED BY <1>2, <2>1, CountedTakeRow DEF SuccessCounted, TakeRow
<1>3. ASSUME NEW t \in Threads, GetNeighbors(t) PROVE SuccessCounted'
  <2>1. /\ pc[t] = "get" /\ pc'[t] = "transition"
        /\ \A u \in Threads \ {t} : pc'[u] = pc[u]
    BY <1>3 DEF IInv, TypeOK, GetNeighbors
  <2>2. Counted' = Counted
    BY <1>3, <2>1, CountedSame DEF Busy, GetNeighbors
  <2> QED BY <1>3, <2>1, <2>2 DEF SuccessCounted, GetNeighbors
<1>4. ASSUME NEW t \in Threads, Transition(t) PROVE SuccessCounted'
  <2>1. /\ pc[t] = "transition" /\ pc'[t] = "count"
        /\ \A u \in Threads \ {t} : pc'[u] = pc[u]
    BY <1>4 DEF IInv, TypeOK, Transition
  <2>2. Counted' = Counted
    BY <1>4, <2>1, CountedSame DEF Busy, Transition
  <2>3. PICK result \in CellTransition(neighbors[t]) :
          /\ flag' = result[2]
          /\ returned' = [returned EXCEPT ![t] = result[2]]
          /\ failures' = failures + result[2]
    BY <1>4 DEF Transition
  <2>4. result[2] \in {0, 1}
    BY <2>3, TransitionAssumption DEF IInv, TypeOK
  <2>5. failures' = 0 => failures = 0 /\ result[2] = 0
    BY <2>3, <2>4 DEF IInv, TypeOK
  <2>6. /\ returned'[t] = result[2]
        /\ \A u \in Threads \ {t} : returned'[u] = returned[u]
    BY <2>3 DEF IInv, TypeOK
  <2>7. running' = running /\ errSum' = errSum
    BY <1>4 DEF Transition
  <2> QED BY <2>1, <2>2, <2>3, <2>5, <2>6, <2>7 DEF SuccessCounted
<1>5. ASSUME NEW t \in Threads, Count(t) PROVE SuccessCounted'
  <2>1. /\ pc[t] = "count" /\ pc'[t] = "put"
        /\ \A u \in Threads \ {t} : pc'[u] = pc[u]
    BY <1>5 DEF IInv, TypeOK, Count
  <2>2. UNCHANGED <<flag, returned, failures, running>> /\ running
    BY <1>5, <2>1 DEF Count, IInv, RowsDisjoint, Busy
  <2>3. ASSUME failures = 0 PROVE errSum' = SizeI * SizeJ - Cardinality(Counted')
    <3>1. errSum' = errSum - 1
      BY <1>5, <2>1, <2>3 DEF Count, SuccessCounted, IInv, TypeOK
    <3>2. errSum = SizeI * SizeJ - Cardinality(Counted)
      BY <2>2, <2>3 DEF SuccessCounted
    <3>3. Cardinality(Counted') = Cardinality(Counted) + 1
      BY <1>5, CountedCount
    <3>4. Cardinality(Counted) \in Nat /\ SizeI * SizeJ \in Int
      BY CountedFinite, SizeAssumption
    <3> QED BY ONLY <3>1, <3>2, <3>3, <3>4
  <2> QED BY <2>1, <2>2, <2>3 DEF SuccessCounted
<1>6. ASSUME NEW t \in Threads, PutResult(t) PROVE SuccessCounted'
  <2>1. \A u \in Threads : pc'[u] = "count" => pc[u] = "count"
    BY <1>6 DEF IInv, TypeOK, PutResult
  <2> QED BY <1>6, <2>1, CountedPut DEF SuccessCounted, PutResult
<1>7. CASE Return
  <2>1. Counted = Cells
    BY <1>7 DEF Return, Counted, Done, Busy
  <2>2. failures = 0 => errSum = 0
    BY <1>7, <2>1, CellCount, SizeAssumption DEF SuccessCounted, Return
  <2>3. UNCHANGED <<flag, returned, failures, errSum, pc>> /\ ~running'
    BY <1>7 DEF Return
  <2> QED BY <2>2, <2>3 DEF SuccessCounted
<1>8. CASE UNCHANGED vars
  BY <1>8 DEF vars, SuccessCounted, Counted, Done, Busy
<1> QED BY <1>1, <1>2, <1>3, <1>4, <1>5, <1>6, <1>7, <1>8
        DEF Next, ThreadStep, Finished

\* On any lattice, with any team and any schedule, a call in which no transition
\* reports an error returns 0.
THEOREM NoFalseAlarm == Spec => []SuccessReported
<1>1. SuccessCounted => SuccessReported
  BY DEF SuccessCounted, SuccessReported
<1>2. Init => IInv /\ SuccessCounted
  BY IInvInit DEF Init, SuccessCounted
<1>3. IInv /\ SuccessCounted /\ [Next]_vars => (IInv /\ SuccessCounted)'
  BY IInvStep, SuccessStep
<1> QED BY <1>1, <1>2, <1>3, PTL DEF Spec

=============================================================================
