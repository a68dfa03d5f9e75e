------------------------------- MODULE Shapes -------------------------------
(***************************************************************************)
(* The lattices the simulators of Programs iterate over, with the          *)
(* neighbourhoods of their topologies: those of Topology in the plane and  *)
(* CUBE12 (cube12.c) in space.                                             *)
(***************************************************************************)
EXTENDS Programs

CONSTANT MaxSide   \* the longest side of a lattice

\* A size as GetLatticeSize makes it for a topology; SQUARE24 is given lattices its
\* window fits in.
Fits(topology, size) ==
  /\ size \in [1 .. 3 -> 1 .. MaxSide]
  /\ \A n \in 1 .. 3 :
       IF n > Dimension(topology) THEN size[n] = 1
       ELSE size[n] % Period(topology)[n] = 0
  /\ topology = "SQUARE24" => size[1] >= 5 /\ size[2] >= 5

\* The topologies are those in the plane and CUBE12, and no lattice is longer than
\* MaxSide; old files were made for their topology.
ASSUME ShapesAssumption ==
  /\ MaxSide \in Nat
  /\ Topologies \subseteq {"SQUARE4", "SQUARE8", "SQUARE24", "HEXAGON", "CUBE12"}
  /\ \A r \in Requests :
       /\ \A n \in 1 .. 3 : LatticeSize(r)[n] <= MaxSide
       /\ r.topology = "SQUARE24" => LatticeSize(r)[1] >= 5 /\ LatticeSize(r)[2] >= 5
  /\ \A d \in OldFiles : Fits(d.header.topology, d.header.size)

Plane(topology, sizeI, sizeJ) ==
  INSTANCE Topology WITH TOPOLOGY <- topology, SizeI <- sizeI, SizeJ <- sizeJ

CellsOf(size) == (0 .. size[1] - 1) \X (0 .. size[2] - 1) \X (0 .. size[3] - 1)

\* The neighbours of a cell in the plane i, j or k is constant in: four each.
\* The third index has steps of two half cells, and odd columns start half a
\* cell higher.
Cube12Offsets(c) ==
  LET p == (c[1] + c[2]) % 2
  IN ({-1, 1} \X {-1, 1} \X {0})
     \union ({0} \X {-1, 1} \X {p, p - 1})
     \union ({-1, 1} \X {0} \X {p, p - 1})

Cube12Hood(c, size) ==
  {[n \in 1 .. 3 |-> (c[n] + d[n]) % size[n]] : d \in Cube12Offsets(c)}

\* The cells that a cell and its neighbours lie on.
Near(topology, size, c) ==
  IF topology = "CUBE12" THEN {c} \union Cube12Hood(c, size)
  ELSE {<<b[1], b[2], 0>> :
          b \in Plane(topology, size[1], size[2])!Hood[<<c[1], c[2]>>]}

\* The sizes on which a topology's neighbourhoods are mutual.
MutualShapes ==
  {shape \in Topologies \X [1 .. 3 -> 1 .. MaxSide] :
     \A b, c \in CellsOf(shape[2]) :
       b \in Near(shape[1], shape[2], c) => c \in Near(shape[1], shape[2], b)}

\* In a lattice that is simulated a cell sees those cells that see it: the
\* simulator's topology is the one the lattice was made for, and its size a
\* multiple of the period, so that nothing is torn where the torus closes.
NeighborsMutual == At("iterate") => <<build, header.size>> \in MutualShapes

-----------------------------------------------------------------------------

\* Behind NeighborsMutual: what is saved has the shape of its topology, and what is
\* simulated is of the simulator's.
ShapesInv ==
  /\ given = NoLattice \/ Fits(given.header.topology, given.header.size)
  /\ At("iterate") \/ At("save") => Fits(header.topology, header.size)
  /\ At("iterate") => build = header.topology

=============================================================================
