------------------------------ MODULE Topology ------------------------------
(***************************************************************************)
(* The plane topologies of catlib (src/topologies/square4.c, square8.c,    *)
(* square24.c, hexagon.c): which cells a transition reads and writes, in   *)
(* the order of the slots of its neighbours buffer, and which per-cell     *)
(* locks are taken around it, in the order they are taken.                 *)
(*                                                                         *)
(* A cell is the pair <<i, j>>; the code's locks[i * J + j] is the lock of *)
(* that cell.  The lattice is a torus of SizeI rows and SizeJ columns (the *)
(* header's arraySizeI and arraySizeJ).                                    *)
(***************************************************************************)
EXTENDS Integers, Sequences

CONSTANTS
  TOPOLOGY,   \* the topology the library is compiled for
  SizeI,      \* header->arraySizeI
  SizeJ       \* header->arraySizeJ

PlaneTopologies == {"SQUARE4", "SQUARE8", "SQUARE24", "HEXAGON"}

\* latticePeriod.i: the row count is rounded up to a multiple of it when the
\* lattice is created.
LatticePeriodI == IF TOPOLOGY = "HEXAGON" THEN 2 ELSE 1

\* borderWidth.i: the rows a neighbourhood reaches above and below its centre.
BorderWidthI == IF TOPOLOGY = "SQUARE24" THEN 2 ELSE 1

ASSUME TopologyAssumption == TOPOLOGY \in PlaneTopologies

\* The 5 x 5 window of SQUARE24 skips every slot that falls on the centre; on
\* fewer than 5 rows or columns it would skip more than one, which is excluded.
ASSUME SizeAssumption ==
  /\ SizeI \in Nat \ {0} /\ SizeJ \in Nat \ {0}
  /\ SizeI % LatticePeriodI = 0
  /\ TOPOLOGY = "SQUARE24" => SizeI >= 5 /\ SizeJ >= 5

Cells == (0 .. SizeI - 1) \X (0 .. SizeJ - 1)

\* Every (i + d + SizeI) % SizeI of the code, for each offset it uses.
Shift(c, d) == <<(c[1] + d[1]) % SizeI, (c[2] + d[2]) % SizeJ>>

Square4Offsets == << <<0, 0>>, <<-1, 0>>, <<0, 1>>, <<1, 0>>, <<0, -1>> >>

Square8Offsets ==
  << <<0, 0>>, <<-1, 0>>, <<-1, 1>>, <<0, 1>>, <<1, 1>>,
     <<1, 0>>, <<1, -1>>, <<0, -1>>, <<-1, -1>> >>

\* Odd rows are shifted by half a cell: p is i & 1.
HexagonOffsets(p) ==
  << <<0, 0>>, <<-1, p>>, <<0, 1>>, <<1, p>>,
     <<1, p - 1>>, <<0, -1>>, <<-1, p - 1>> >>

\* The 5 x 5 window row by row; its 13th entry is the centre.
Window == [n \in 1 .. 25 |-> <<((n - 1) \div 5) - 2, ((n - 1) % 5) - 2>>]

\* The centre first, then the window without it.
Square24Offsets ==
  [n \in 1 .. 25 |-> IF n = 1 THEN Window[13]
                     ELSE IF n <= 13 THEN Window[n - 1] ELSE Window[n]]

NeighborOffsets(c) ==
  CASE TOPOLOGY = "SQUARE4"  -> Square4Offsets
    [] TOPOLOGY = "SQUARE8"  -> Square8Offsets
    [] TOPOLOGY = "SQUARE24" -> Square24Offsets
    [] TOPOLOGY = "HEXAGON"  -> HexagonOffsets(c[1] % 2)

\* CAT_TOP_NEIGHBORS_NUMBER + 1: the centre has a slot too.
SlotCount ==
  CASE TOPOLOGY = "SQUARE4"  -> 5
    [] TOPOLOGY = "SQUARE8"  -> 9
    [] TOPOLOGY = "SQUARE24" -> 25
    [] TOPOLOGY = "HEXAGON"  -> 7

Slots == 1 .. SlotCount

\* GetNeighbors and PutNeighbors: slot n of the buffer of cell c is the value
\* of cell Neighbors[c][n]; slot 1 is c itself.
Neighbors ==
  [c \in Cells |-> [n \in Slots |-> Shift(c, NeighborOffsets(c)[n])]]

Hood == [c \in Cells |-> {Neighbors[c][n] : n \in Slots}]

Square4LockOffsets == << <<-1, 0>>, <<0, -1>>, <<0, 0>>, <<0, 1>>, <<1, 0>> >>

\* The body of square8_lock_neigh is commented out: it takes no lock.
Square8LockOffsets == << >>

Square24LockOffsets == Window

HexagonLockOffsets(p) == HexagonOffsets(p)

\* Mutant: every topology locks its own cell first, as the hexagonal one does.
CentreFirst(c) == NeighborOffsets(c)

\* Mutant: the last lock of SQUARE4 is taken one column off.
ColumnOff(c) == << <<-1, 0>>, <<0, -1>>, <<0, 0>>, <<0, 1>>, <<1, 1>> >>

LockOffsets(c) ==
  CASE TOPOLOGY = "SQUARE4"  -> Square4LockOffsets
    [] TOPOLOGY = "SQUARE8"  -> Square8LockOffsets
    [] TOPOLOGY = "SQUARE24" -> Square24LockOffsets
    [] TOPOLOGY = "HEXAGON"  -> HexagonLockOffsets(c[1] % 2)

\* Mutant: no topology takes locks, as SQUARE8 does not.
NoLocks == 0

\* Mutant: the last lock of every neighbourhood is not taken.
LastLockMissing == IF TOPOLOGY = "SQUARE8" THEN 0 ELSE SlotCount - 1

LockCount == IF TOPOLOGY = "SQUARE8" THEN 0 ELSE SlotCount

\* LockNeighbors takes, and UnlockNeighbors releases, the locks of these cells
\* in this order.
LockSeq ==
  [c \in Cells |-> [n \in 1 .. LockCount |-> Shift(c, LockOffsets(c)[n])]]

=============================================================================
