---------------------- MODULE CellularAutomatonProofs ----------------------
(***************************************************************************)
(* What the proofs of every mode of iteration need to know about the       *)
(* topologies and about the copies of a neighbourhood.                     *)
(***************************************************************************)
EXTENDS CellularAutomaton, TLAPS

\* A torus index is in range: what Shift returns is a cell.
LEMMA ShiftInCells ==
  ASSUME NEW c \in Cells, NEW d \in Int \X Int
  PROVE  Shift(c, d) \in Cells
<1>1. SizeI \in Nat \ {0} /\ SizeJ \in Nat \ {0}
  BY SizeAssumption
<1>2. c[1] + d[1] \in Int /\ c[2] + d[2] \in Int
  BY DEF Cells
<1>3. (c[1] + d[1]) % SizeI \in 0 .. SizeI - 1
  BY <1>1, <1>2
<1>4. (c[2] + d[2]) % SizeJ \in 0 .. SizeJ - 1
  BY <1>1, <1>2
<1> QED BY <1>3, <1>4 DEF Shift, Cells

\* Each topology's buffer and each list of locks has at least one entry or none.
LEMMA Counts ==
  /\ SlotCount \in Nat \ {0}
  /\ LockCount \in Nat
  /\ TOPOLOGY = "SQUARE8" => LockCount = 0
  /\ TOPOLOGY # "SQUARE8" => LockCount = SlotCount
BY TopologyAssumption DEF PlaneTopologies, SlotCount, LockCount

\* The 5 x 5 window is made of offsets.
LEMMA WindowType == Window \in [1 .. 25 -> Int \X Int]
BY DEF Window

\* Every slot of a neighbours buffer belongs to a cell of the lattice.
LEMMA NeighborsInCells ==
  ASSUME NEW c \in Cells, NEW n \in Slots
  PROVE  Neighbors[c][n] \in Cells
<1>1. NeighborOffsets(c)[n] \in Int \X Int
  <2>1. CASE TOPOLOGY = "SQUARE4"
    BY <2>1 DEF Slots, SlotCount, NeighborOffsets, Square4Offsets
  <2>2. CASE TOPOLOGY = "SQUARE8"
    BY <2>2 DEF Slots, SlotCount, NeighborOffsets, Square8Offsets
  <2>3. CASE TOPOLOGY = "SQUARE24"
    BY <2>3, WindowType DEF Slots, SlotCount, NeighborOffsets, Square24Offsets
  <2>4. CASE TOPOLOGY = "HEXAGON"
    <3>1. c[1] % 2 \in Int
      BY DEF Cells
    <3> QED BY <2>4, <3>1 DEF Slots, SlotCount, NeighborOffsets, HexagonOffsets
  <2> QED BY <2>1, <2>2, <2>3, <2>4, TopologyAssumption DEF PlaneTopologies
<1> QED BY <1>1, ShiftInCells DEF Neighbors

\* Every lock is the lock of a cell of the lattice.
LEMMA LocksInCells ==
  ASSUME NEW c \in Cells, NEW n \in 1 .. LockCount
  PROVE  LockSeq[c][n] \in Cells
<1>1. LockOffsets(c)[n] \in Int \X Int
  <2>1. CASE TOPOLOGY = "SQUARE4"
    BY <2>1 DEF LockCount, SlotCount, LockOffsets, Square4LockOffsets
  <2>2. CASE TOPOLOGY = "SQUARE8"
    BY <2>2 DEF LockCount
  <2>3. CASE TOPOLOGY = "SQUARE24"
    BY <2>3, WindowType DEF LockCount, SlotCount, LockOffsets, Square24LockOffsets
  <2>4. CASE TOPOLOGY = "HEXAGON"
    <3>1. c[1] % 2 \in Int
      BY DEF Cells
    <3> QED BY <2>4, <3>1
            DEF LockCount, SlotCount, LockOffsets, HexagonLockOffsets, HexagonOffsets
  <2> QED BY <2>1, <2>2, <2>3, <2>4, TopologyAssumption DEF PlaneTopologies
<1> QED BY <1>1, ShiftInCells DEF LockSeq

\* Except in SQUARE8 every slot of the buffer has a lock of its own among those of
\* the neighbourhood, that of its cell.
LEMMA LocksOfSlots ==
  ASSUME TOPOLOGY # "SQUARE8", NEW c \in Cells
  PROVE  \E f \in [Slots -> 1 .. LockCount] :
           /\ \A n \in Slots : LockSeq[c][f[n]] = Neighbors[c][n]
           /\ \A m, n \in Slots : f[m] = f[n] => m = n
<1>1. SUFFICES \E f \in [Slots -> 1 .. LockCount] :
                 /\ \A n \in Slots : LockOffsets(c)[f[n]] = NeighborOffsets(c)[n]
                 /\ \A m, n \in Slots : f[m] = f[n] => m = n
  BY DEF LockSeq, Neighbors
<1>2. CASE TOPOLOGY = "SQUARE4"
  <2> DEFINE f == [n \in Slots |-> <<3, 1, 4, 5, 2>>[n]]
  <2>1. f \in [Slots -> 1 .. LockCount]
    BY <1>2 DEF LockCount, Slots, SlotCount
  <2>2. \A n \in Slots : LockOffsets(c)[f[n]] = NeighborOffsets(c)[n]
    BY <1>2 DEF Slots, SlotCount, LockOffsets, NeighborOffsets,
                Square4LockOffsets, Square4Offsets
  <2>3. \A m, n \in Slots : f[m] = f[n] => m = n
    BY <1>2 DEF Slots, SlotCount
  <2> QED BY <2>1, <2>2, <2>3
<1>3. CASE TOPOLOGY = "SQUARE24"
  <2> DEFINE f == [n \in Slots |-> IF n = 1 THEN 13 ELSE IF n <= 13 THEN n - 1 ELSE n]
  <2>1. f \in [Slots -> 1 .. LockCount]
    BY <1>3 DEF LockCount, Slots, SlotCount
  <2>2. \A n \in Slots : LockOffsets(c)[f[n]] = NeighborOffsets(c)[n]
    BY <1>3 DEF Slots, SlotCount, LockOffsets, NeighborOffsets,
                Square24LockOffsets, Square24Offsets
  <2>3. \A m, n \in Slots : f[m] = f[n] => m = n
    BY <1>3 DEF Slots, SlotCount
  <2> QED BY <2>1, <2>2, <2>3
<1>4. CASE TOPOLOGY = "HEXAGON"
  <2> DEFINE f == [n \in Slots |-> n]
  <2>1. f \in [Slots -> 1 .. LockCount]
    BY <1>4 DEF LockCount, Slots
  <2>2. \A n \in Slots : LockOffsets(c)[f[n]] = NeighborOffsets(c)[n]
    BY <1>4 DEF LockOffsets, NeighborOffsets, HexagonLockOffsets
  <2> QED BY <2>1, <2>2
<1> QED BY <1>2, <1>3, <1>4, TopologyAssumption DEF PlaneTopologies

\* So the locks of a neighbourhood cover its buffer.
LEMMA LocksCoverHood ==
  ASSUME TOPOLOGY # "SQUARE8", NEW c \in Cells, NEW n \in Slots
  PROVE  \E m \in 1 .. LockCount : LockSeq[c][m] = Neighbors[c][n]
BY LocksOfSlots

\* What GetNeighbors copies out of an array of values is a buffer of values.
LEMMA GatherType ==
  ASSUME NEW a \in [Cells -> Values], NEW c \in Cells
  PROVE  Gather(a, c) \in Buffers
BY NeighborsInCells DEF Gather, Buffers

=============================================================================
