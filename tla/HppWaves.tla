------------------------------ MODULE HppWaves ------------------------------
(***************************************************************************)
(* The lattice gas of models/HPP_seismic_waves: positive and negative      *)
(* particles that move one cell per iteration, collide in the medium and   *)
(* are turned back by the walls around it.  An iteration is CAT_Iterate    *)
(* with the function collision, which changes every cell by itself, and    *)
(* propagation_step, which moves all particles.                            *)
(*                                                                         *)
(* A particle is its sign and its direction; bits, the byte of a cell, is  *)
(* the set of its particles.  A cell is <<i, j>>, and j grows downwards.   *)
(***************************************************************************)
EXTENDS Integers, FiniteSets

CONSTANTS
  Width, Height,      \* I and J of the lattice
  Radius,             \* radius of the source around the centre
  MaxIterations       \* itersNumber

ASSUME LatticeAssumption ==
  /\ Width \in Nat /\ Height \in Nat
  /\ Width > 2 /\ Height > 2
ASSUME BoundsAssumption == Radius \in Nat /\ MaxIterations \in Nat

Signs == {"P", "N"}
Directions == {"RIGHT", "UP", "LEFT", "DOWN"}
Particles == Signs \X Directions

Cells == (0 .. Width - 1) \X (0 .. Height - 1)

VARIABLES
  type,             \* the type of every cell
  bits,             \* the particles in every cell
  is_oscillation,   \* the source emits particles
  iterations,       \* iterations made
  pc                \* the next part of an iteration

vars == <<type, bits, is_oscillation, iterations, pc>>

-----------------------------------------------------------------------------
(* The initial state, made by seismic_waves_prep *)

OnFrame(c) == c[1] \in {0, Width - 1} \/ c[2] \in {0, Height - 1}

\* The walls at the sides are put last and have the corners.
FrameType(c) == IF c[2] = 0 /\ c[1] \notin {0, Width - 1} THEN "WALL_FREE"
                                                          ELSE "WALL_SOLID"

InSource(c) ==
  LET dx == c[1] - Width \div 2
      dy == c[2] - Height \div 2
  IN dx * dx + dy * dy <= Radius * Radius

InitialType(c) ==
  IF OnFrame(c) THEN FrameType(c) ELSE IF InSource(c) THEN "SOURCE" ELSE "MEDIUM"

\* A wall is empty, the source has all positive particles, the medium pairs of
\* a positive and a negative one in the random directions D.
InitialBits(c, D) ==
  CASE InitialType(c) = "MEDIUM" -> Signs \X D
    [] InitialType(c) = "SOURCE" -> {"P"} \X Directions
    [] OTHER                     -> {}

Medium == {c \in Cells : InitialType(c) = "MEDIUM"}

-----------------------------------------------------------------------------
(* Collisions: where a particle goes in a cell that holds the particles b *)

Opposite ==
  [d \in Directions |-> CASE d = "RIGHT" -> "LEFT" [] d = "LEFT" -> "RIGHT"
                          [] d = "UP" -> "DOWN"    [] d = "DOWN" -> "UP"]

Turned ==
  [d \in Directions |-> CASE d = "RIGHT" -> "UP" [] d = "UP" -> "RIGHT"
                          [] d = "LEFT" -> "DOWN" [] d = "DOWN" -> "LEFT"]

\* The directions in which the particles of a sign leave a cell.
Heading(b, sign) == {d \in Directions : <<sign, d>> \in b}

HeadOn == {{"RIGHT", "LEFT"}, {"UP", "DOWN"}}

\* Mutant: a pair that meets turns whatever else is in the cell.
CollisionMediumOfAny(b, p) ==
  IF p[1] = "P" /\ {p[2], Opposite[p[2]]} \subseteq Heading(b, "P")
    THEN <<"P", Turned[p[2]]>> ELSE p

\* collision_medium: two particles of a sign that meet head-on, alone, leave at
\* right angles.
CollisionMedium(b, p) ==
  IF Heading(b, p[1]) \in HeadOn THEN <<p[1], Turned[p[2]]>> ELSE p

CollisionWallSolid(p) == <<p[1], Opposite[p[2]]>>

\* Mutant: a free wall changes the sign of positive particles only.
CollisionWallFreeOneWay(p) == <<"N", Opposite[p[2]]>>

CollisionWallFree(p) == <<IF p[1] = "P" THEN "N" ELSE "P", Opposite[p[2]]>>

\* Where the particle p of the particles b in a cell of type t goes.
Collided(t, b, p) ==
  CASE t = "WALL_SOLID" -> CollisionWallSolid(p)
    [] t = "WALL_FREE"  -> CollisionWallFree(p)
    [] t = "SOURCE"     -> p
    [] OTHER            -> CollisionMedium(b, p)

\* The function collision: a source that oscillates replaces its particles.
Collision(t, b) ==
  IF t = "SOURCE" /\ is_oscillation THEN {"P"} \X Directions
  ELSE {Collided(t, b, p) : p \in b}

-----------------------------------------------------------------------------
(* Propagation *)

Delta == [d \in Directions |-> CASE d = "RIGHT" -> <<1, 0>> [] d = "LEFT" -> <<-1, 0>>
                                 [] d = "DOWN" -> <<0, 1>>  [] d = "UP" -> <<0, -1>>]

\* The cell from which a particle that goes in direction d comes to c.
Behind(c, d) == <<c[1] - Delta[d][1], c[2] - Delta[d][2]>>
Ahead(c, d) == <<c[1] + Delta[d][1], c[2] + Delta[d][2]>>

\* Mutant: the last column takes no particle.
ArrivingButInLast(b, c) ==
  {p \in Particles : /\ Behind(c, p[2]) \in Cells
                     /\ p \in b[Behind(c, p[2])]
                     /\ p[2] = "RIGHT" => c[1] < Width - 1}

\* What next_grid has for a cell: a particle that would leave the grid is not
\* put anywhere.
Arriving(b, c) ==
  {p \in Particles : Behind(c, p[2]) \in Cells /\ p \in b[Behind(c, p[2])]}

-----------------------------------------------------------------------------

Init ==
  /\ type = [c \in Cells |-> InitialType(c)]
  /\ \E D \in [Medium -> SUBSET Directions] :
       bits = [c \in Cells |-> InitialBits(c, IF c \in Medium THEN D[c] ELSE {})]
  /\ is_oscillation \in BOOLEAN
  /\ iterations = 0
  /\ pc = "collide"

\* Mutant: <= for < in the loop of main.
CollideOnceMore ==
  /\ pc = "collide"
  /\ iterations <= MaxIterations
  /\ bits' = [c \in Cells |-> Collision(type[c], bits[c])]
  /\ pc' = "propagate"
  /\ UNCHANGED <<type, is_oscillation, iterations>>

\* CAT_Iterate(collision).
Collide ==
  /\ pc = "collide"
  /\ iterations < MaxIterations
  /\ bits' = [c \in Cells |-> Collision(type[c], bits[c])]
  /\ pc' = "propagate"
  /\ UNCHANGED <<type, is_oscillation, iterations>>

\* Mutant: the type is copied after the test for an empty cell, so that an empty
\* cell becomes one of the medium.
PropagateNoEmptyType ==
  /\ pc = "propagate"
  /\ bits' = [c \in Cells |-> Arriving(bits, c)]
  /\ type' = [c \in Cells |-> IF bits[c] = {} THEN "MEDIUM" ELSE type[c]]
  /\ iterations' = iterations + 1
  /\ pc' = "collide"
  /\ UNCHANGED is_oscillation

\* propagation_step.
Propagate ==
  /\ pc = "propagate"
  /\ bits' = [c \in Cells |-> Arriving(bits, c)]
  /\ type' = type
  /\ iterations' = iterations + 1
  /\ pc' = "collide"
  /\ UNCHANGED is_oscillation

Done == pc = "collide" /\ iterations = MaxIterations /\ UNCHANGED vars

Next == Collide \/ Propagate \/ Done

Spec == Init /\ [][Next]_vars

-----------------------------------------------------------------------------

TypeOK ==
  /\ type \in [Cells -> {"MEDIUM", "WALL_SOLID", "WALL_FREE", "SOURCE"}]
  /\ bits \in [Cells -> SUBSET Particles]
  /\ is_oscillation \in BOOLEAN
  /\ iterations \in 0 .. MaxIterations
  /\ pc \in {"collide", "propagate"}

\* Particles with the cells they are in.
Placed(b) == {x \in Cells \X Particles : x[2] \in b[x[1]]}

\* Unless the source emits particles their number never changes: collisions merge
\* none, and propagation_step, which drops what would leave the grid, drops none.
Conserved ==
  [][~is_oscillation => Cardinality(Placed(bits')) = Cardinality(Placed(bits))]_vars

\* No particle heads out of the grid when it is moved: one that went into a wall
\* has been turned around, and none goes along the walls.
NoneLeaves ==
  pc = "propagate" => \A x \in Placed(bits) : Ahead(x[1], x[2][2]) \in Cells

\* Why: what is on a wall has come from inside, and goes back there.
Inner == {c \in Cells : ~OnFrame(c)}

WallsTurn ==
  \A c \in Cells : OnFrame(c) =>
    \A p \in bits[c] :
      (IF pc = "collide" THEN Behind(c, p[2]) ELSE Ahead(c, p[2])) \in Inner

IInv ==
  /\ TypeOK
  /\ pc = "propagate" => iterations < MaxIterations
  /\ type = [c \in Cells |-> InitialType(c)]
  /\ WallsTurn

\* Collisions in the medium keep the momentum of the particles of either sign: how
\* many more go in a direction than against it.
Balance(b, C, sign, d) ==
  Cardinality({c \in C : <<sign, d>> \in b[c]})
    - Cardinality({c \in C : <<sign, Opposite[d]>> \in b[c]})

MomentumKept ==
  [][pc = "collide" => \A sign \in Signs, d \in Directions :
       Balance(bits', Medium, sign, d) = Balance(bits, Medium, sign, d)]_vars

\* All particles turned around.
Reversed(b) == [c \in Cells |-> {<<p[1], Opposite[p[2]]>> : p \in b[c]}]

Undone(b) ==
  LET turned == Reversed(b)
      back == [c \in Cells |-> Arriving(turned, c)]
  IN Reversed(back)

\* Moving can be undone by moving back: no two particles are put in one place,
\* and none is lost, so that no two states become one.
Reversible ==
  [][pc = "propagate" => Undone(bits') = bits]_vars

\* Signs change at free walls only: the surplus of positive particles changes by
\* twice what those walls turn.
Surplus(b, C) ==
  Cardinality({x \in C \X Directions : <<"P", x[2]>> \in b[x[1]]})
    - Cardinality({x \in C \X Directions : <<"N", x[2]>> \in b[x[1]]})

FreeWalls == {c \in Cells : InitialType(c) = "WALL_FREE"}

SignsChangeAtFreeWalls ==
  [][~is_oscillation =>
       Surplus(bits', Cells) - Surplus(bits, Cells) =
         IF pc = "collide" THEN -2 * Surplus(bits, FreeWalls) ELSE 0]_vars

=============================================================================
