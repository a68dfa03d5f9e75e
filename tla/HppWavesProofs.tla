--------------------------- MODULE HppWavesProofs ---------------------------
(***************************************************************************)
(* The lattice gas keeps its particles, for grids of any size: none leaves *)
(* the grid, their number never changes unless the source emits some,      *)
(* moving them can be undone, collisions in the medium keep the momentum,  *)
(* and only free walls change the signs.                                   *)
(***************************************************************************)
EXTENDS HppWaves, FiniteSetTheorems, FunctionTheorems, TLAPS

-----------------------------------------------------------------------------
(* Directions, cells and collisions *)

\* Opposites and turns are directions, and each undoes itself.
LEMMA DirectionFacts ==
  ASSUME NEW d \in Directions
  PROVE  /\ Opposite[d] \in Directions
         /\ Opposite[Opposite[d]] = d
         /\ Turned[d] \in Directions
         /\ Turned[Turned[d]] = d
PROOF
  BY DEF Directions, Opposite, Turned

\* Where the cells around a cell are; a cell inside the walls has all four.
LEMMA StepFacts ==
  ASSUME NEW c \in Cells, NEW d \in Directions
  PROVE  /\ Behind(Ahead(c, d), d) = c
         /\ Ahead(Behind(c, d), d) = c
         /\ Ahead(c, Opposite[d]) = Behind(c, d)
         /\ Behind(c, Opposite[d]) = Ahead(c, d)
         /\ c \in Inner => Ahead(c, d) \in Cells /\ Behind(c, d) \in Cells
PROOF
<1>1. PICK i \in 0 .. Width - 1, j \in 0 .. Height - 1 : c = <<i, j>>
  BY DEF Cells
<1>2. Width \in Nat /\ Height \in Nat /\ Width > 2 /\ Height > 2
  BY LatticeAssumption
<1>3. CASE d = "RIGHT"
  BY <1>1, <1>2, <1>3 DEF Directions, Opposite, Delta, Ahead, Behind, Inner, OnFrame, Cells
<1>4. CASE d = "UP"
  BY <1>1, <1>2, <1>4 DEF Directions, Opposite, Delta, Ahead, Behind, Inner, OnFrame, Cells
<1>5. CASE d = "LEFT"
  BY <1>1, <1>2, <1>5 DEF Directions, Opposite, Delta, Ahead, Behind, Inner, OnFrame, Cells
<1>6. CASE d = "DOWN"
  BY <1>1, <1>2, <1>6 DEF Directions, Opposite, Delta, Ahead, Behind, Inner, OnFrame, Cells
<1> QED
  BY <1>3, <1>4, <1>5, <1>6 DEF Directions

\* Collisions give no two particles of a cell the same place.
LEMMA CollisionsOneToOne ==
  ASSUME NEW t, NEW b \in SUBSET Particles, NEW p \in b
  PROVE  /\ Collided(t, b, p) \in Particles
         /\ \A q \in b : Collided(t, b, p) = Collided(t, b, q) => p = q
PROOF
<1>1. ASSUME NEW q \in b
      PROVE  /\ q = <<q[1], q[2]>>
             /\ q[1] \in Signs /\ q[2] \in Directions
             /\ q \in Particles
  BY DEF Particles
<1>2. /\ CollisionMedium(b, p) \in Particles
      /\ \A q \in b : CollisionMedium(b, p) = CollisionMedium(b, q) => p = q
  <2>1. CollisionMedium(b, p) \in Particles
    BY <1>1, DirectionFacts DEF CollisionMedium, Particles
  <2>2. ASSUME NEW q \in b, CollisionMedium(b, p) = CollisionMedium(b, q)
        PROVE  p = q
    <3>1. p[1] = q[1]
      BY <1>1, <2>2 DEF CollisionMedium
    <3>2. CASE Heading(b, p[1]) \in HeadOn
      <4>1. Turned[p[2]] = Turned[q[2]]
        BY <2>2, <3>1, <3>2 DEF CollisionMedium
      <4>2. Turned[Turned[p[2]]] = p[2] /\ Turned[Turned[q[2]]] = q[2]
        BY <1>1, DirectionFacts
      <4> QED
        BY <1>1, <3>1, <4>1, <4>2
    <3>3. CASE Heading(b, p[1]) \notin HeadOn
      BY <2>2, <3>1, <3>3 DEF CollisionMedium
    <3> QED
      BY <3>2, <3>3
  <2> QED
    BY <2>1, <2>2
<1>3. /\ CollisionWallSolid(p) \in Particles
      /\ \A q \in b : CollisionWallSolid(p) = CollisionWallSolid(q) => p = q
  <2>1. CollisionWallSolid(p) \in Particles
    BY <1>1, DirectionFacts DEF CollisionWallSolid, Particles
  <2>2. ASSUME NEW q \in b, CollisionWallSolid(p) = CollisionWallSolid(q)
        PROVE  p = q
    <3>1. p[1] = q[1] /\ Opposite[p[2]] = Opposite[q[2]]
      BY <2>2 DEF CollisionWallSolid
    <3>2. Opposite[Opposite[p[2]]] = p[2] /\ Opposite[Opposite[q[2]]] = q[2]
      BY <1>1, DirectionFacts
    <3> QED
      BY <1>1, <3>1, <3>2
  <2> QED
    BY <2>1, <2>2
<1>4. /\ CollisionWallFree(p) \in Particles
      /\ \A q \in b : CollisionWallFree(p) = CollisionWallFree(q) => p = q
  <2>1. CollisionWallFree(p) \in Particles
    BY <1>1, DirectionFacts DEF CollisionWallFree, Particles, Signs
  <2>2. ASSUME NEW q \in b, CollisionWallFree(p) = CollisionWallFree(q)
        PROVE  p = q
    <3>1. p[1] = q[1] /\ Opposite[p[2]] = Opposite[q[2]]
      BY <1>1, <2>2 DEF CollisionWallFree, Signs
    <3>2. Opposite[Opposite[p[2]]] = p[2] /\ Opposite[Opposite[q[2]]] = q[2]
      BY <1>1, DirectionFacts
    <3> QED
      BY <1>1, <3>1, <3>2
  <2> QED
    BY <2>1, <2>2
<1>5. CASE t = "WALL_SOLID"
  BY <1>3, <1>5 DEF Collided
<1>6. CASE t = "WALL_FREE"
  BY <1>4, <1>6 DEF Collided
<1>7. CASE t = "SOURCE"
  BY <1>1, <1>7 DEF Collided
<1>8. CASE t \notin {"WALL_SOLID", "WALL_FREE", "SOURCE"}
  BY <1>2, <1>8 DEF Collided
<1> QED
  BY <1>5, <1>6, <1>7, <1>8

-----------------------------------------------------------------------------
(* The inductive invariant *)

\* Every cell has one of the types of the model.
LEMMA TypesOfCells ==
  ASSUME NEW c \in Cells
  PROVE  /\ InitialType(c) \in {"MEDIUM", "WALL_SOLID", "WALL_FREE", "SOURCE"}
         /\ OnFrame(c) => InitialType(c) \in {"WALL_SOLID", "WALL_FREE"}
PROOF
  BY DEF InitialType, FrameType

\* The invariant holds when the lattice has been prepared.
LEMMA InitEstablishes == Init => IInv
PROOF
<1> SUFFICES ASSUME Init PROVE IInv
  OBVIOUS
<1>1. PICK D \in [Medium -> SUBSET Directions] :
        bits = [c \in Cells |-> InitialBits(c, IF c \in Medium THEN D[c] ELSE {})]
  BY DEF Init
<1>2. ASSUME NEW c \in Cells
      PROVE  /\ bits[c] \in SUBSET Particles
             /\ OnFrame(c) => bits[c] = {}
  <2> DEFINE e == IF c \in Medium THEN D[c] ELSE {}
  <2>1. e \in SUBSET Directions
    BY <1>1
  <2>2. bits[c] = InitialBits(c, e)
    BY <1>1
  <2>3. InitialBits(c, e) \in SUBSET Particles
    BY <2>1 DEF InitialBits, Particles, Signs
  <2>4. OnFrame(c) => InitialBits(c, e) = {}
    BY TypesOfCells DEF InitialBits
  <2> QED
    BY <2>2, <2>3, <2>4
<1>3. bits \in [Cells -> SUBSET Particles]
  BY <1>1, <1>2
<1>4. /\ type = [c \in Cells |-> InitialType(c)]
      /\ is_oscillation \in BOOLEAN /\ iterations = 0 /\ pc = "collide"
  BY DEF Init
<1>5. type \in [Cells -> {"MEDIUM", "WALL_SOLID", "WALL_FREE", "SOURCE"}]
  BY <1>4, TypesOfCells
<1>6. WallsTurn
  BY <1>2 DEF WallsTurn
<1> QED
  BY <1>3, <1>4, <1>5, <1>6, BoundsAssumption DEF IInv, TypeOK

\* In a collision every particle stays in its cell.
LEMMA CollideKeeps ==
  ASSUME IInv, Collide
  PROVE  IInv'
PROOF
<1>1. /\ bits' = [c \in Cells |-> Collision(type[c], bits[c])]
      /\ pc = "collide" /\ pc' = "propagate"
      /\ iterations < MaxIterations
      /\ UNCHANGED <<type, is_oscillation, iterations>>
  BY DEF Collide
<1>2. ASSUME NEW c \in Cells
      PROVE  Collision(type[c], bits[c]) \in SUBSET Particles
  <2>1. bits[c] \in SUBSET Particles
    BY DEF IInv, TypeOK
  <2>2. {Collided(type[c], bits[c], p) : p \in bits[c]} \in SUBSET Particles
    BY <2>1, CollisionsOneToOne
  <2> QED
    BY <2>2 DEF Collision, Particles, Signs
<1>3. TypeOK'
  BY <1>1, <1>2 DEF IInv, TypeOK
<1>4. ASSUME NEW c \in Cells, OnFrame(c), NEW p \in bits'[c]
      PROVE  Ahead(c, p[2]) \in Inner
  <2>1. type[c] \in {"WALL_SOLID", "WALL_FREE"}
    BY <1>4, TypesOfCells DEF IInv
  <2>2. PICK q \in bits[c] : p = Collided(type[c], bits[c], q)
    BY <1>1, <2>1 DEF Collision
  <2>3. p[2] = Opposite[q[2]]
    BY <2>1, <2>2 DEF Collided, CollisionWallSolid, CollisionWallFree
  <2>4. q[2] \in Directions
    BY <2>2 DEF IInv, TypeOK, Particles
  <2>5. Behind(c, q[2]) \in Inner
    BY <1>1, <1>4, <2>2 DEF IInv, WallsTurn
  <2> QED
    BY <2>3, <2>4, <2>5, StepFacts
<1>5. WallsTurn'
  BY <1>1, <1>4 DEF WallsTurn
<1> QED
  BY <1>1, <1>3, <1>5 DEF IInv

\* When they are moved, particles on the walls go inside and others come.
LEMMA PropagateKeeps ==
  ASSUME IInv, Propagate
  PROVE  IInv'
PROOF
<1>1. /\ bits' = [c \in Cells |-> Arriving(bits, c)]
      /\ pc = "propagate" /\ pc' = "collide"
      /\ type' = type /\ iterations' = iterations + 1
      /\ is_oscillation' = is_oscillation
  BY DEF Propagate
<1>2. bits' \in [Cells -> SUBSET Particles]
  BY <1>1 DEF Arriving
<1>3. iterations' \in 0 .. MaxIterations
  BY <1>1, BoundsAssumption DEF IInv, TypeOK
<1>4. ASSUME NEW c \in Cells, OnFrame(c), NEW p \in bits'[c]
      PROVE  Behind(c, p[2]) \in Inner
  <2>1. /\ p \in Particles /\ p[2] \in Directions
        /\ Behind(c, p[2]) \in Cells
        /\ p \in bits[Behind(c, p[2])]
    BY <1>1 DEF Arriving, Particles
  <2>2. OnFrame(Behind(c, p[2])) => Ahead(Behind(c, p[2]), p[2]) \in Inner
    BY <1>1, <2>1 DEF IInv, WallsTurn
  <2>3. Ahead(Behind(c, p[2]), p[2]) = c
    BY <2>1, StepFacts
  <2> QED
    BY <1>4, <2>1, <2>2, <2>3 DEF Inner
<1>5. WallsTurn'
  BY <1>1, <1>4 DEF WallsTurn
<1> QED
  BY <1>1, <1>2, <1>3, <1>5 DEF IInv, TypeOK

\* Collisions and propagation keep it.
LEMMA Inductive == Spec => []IInv
PROOF
<1>1. IInv /\ [Next]_vars => IInv'
  <2> SUFFICES ASSUME IInv, [Next]_vars PROVE IInv'
    OBVIOUS
  <2>1. CASE Collide
    BY <2>1, CollideKeeps
  <2>2. CASE Propagate
    BY <2>2, PropagateKeeps
  <2>3. CASE Done \/ UNCHANGED vars
    BY <2>3 DEF Done, vars, IInv, TypeOK, WallsTurn
  <2> QED
    BY <2>1, <2>2, <2>3 DEF Next
<1> QED
  BY <1>1, InitEstablishes, PTL DEF Spec

\* The variables of the lattice gas keep their types, for every grid.
THEOREM TypeCorrect == Spec => []TypeOK
PROOF
<1>1. IInv => TypeOK
  BY DEF IInv
<1> QED
  BY <1>1, Inductive, PTL

\* It keeps the particles inside: those on a wall go back where they have come from.
LEMMA InvariantKeepsInside == IInv => NoneLeaves
PROOF
<1> SUFFICES ASSUME IInv, pc = "propagate", NEW x \in Placed(bits)
             PROVE  Ahead(x[1], x[2][2]) \in Cells
  BY DEF NoneLeaves
<1>1. x[1] \in Cells /\ x[2] \in bits[x[1]] /\ x[2][2] \in Directions
  BY DEF Placed, Particles
<1>2. CASE OnFrame(x[1])
  BY <1>1, <1>2 DEF IInv, WallsTurn, Inner
<1>3. CASE ~OnFrame(x[1])
  BY <1>1, <1>3, StepFacts DEF Inner
<1> QED
  BY <1>2, <1>3

\* propagation_step, which drops a particle that would leave the grid, has none
\* to drop: what goes into a wall is turned around before it is moved again.
THEOREM ParticlesStayInside == Spec => []NoneLeaves
PROOF
  BY Inductive, InvariantKeepsInside, PTL

-----------------------------------------------------------------------------
(* The number of particles *)

\* There are finitely many cells and directions.
LEMMA FinitelyManyCells ==
  /\ IsFiniteSet(Cells) /\ IsFiniteSet(Directions)
  /\ \A C \in SUBSET Cells : IsFiniteSet(C) /\ IsFiniteSet(C \X Directions)
PROOF
<1>1. IsFiniteSet(Cells)
  <2>1. IsFiniteSet(0 .. Width - 1) /\ IsFiniteSet(0 .. Height - 1)
    BY FS_Interval, LatticeAssumption
  <2> QED
    BY <2>1, FS_Product DEF Cells
<1>2. IsFiniteSet(Directions)
  <2>1. IsFiniteSet({"RIGHT"} \union {"UP"} \union {"LEFT"} \union {"DOWN"})
    BY FS_Singleton, FS_Union
  <2>2. {"RIGHT"} \union {"UP"} \union {"LEFT"} \union {"DOWN"} = Directions
    BY DEF Directions
  <2> QED
    BY <2>1, <2>2
<1>3. \A C \in SUBSET Cells : IsFiniteSet(C)
  BY <1>1, FS_Subset
<1> QED
  BY <1>1, <1>2, <1>3, FS_Product

\* So there are finitely many places for particles.
LEMMA FinitelyManyPlaces ==
  ASSUME IInv
  PROVE  IsFiniteSet(Placed(bits))
PROOF
<1>1. IsFiniteSet(Cells)
  BY FinitelyManyCells
<1>2. IsFiniteSet(Particles)
  <2>1. IsFiniteSet({"P"}) /\ IsFiniteSet({"N"})
    BY FS_Singleton
  <2>2. IsFiniteSet({"P"} \union {"N"})
    BY <2>1, FS_Union
  <2>3. {"P"} \union {"N"} = Signs
    BY DEF Signs
  <2>4. IsFiniteSet(Directions)
    BY FinitelyManyCells
  <2> QED
    BY <2>2, <2>3, <2>4, FS_Product DEF Particles
<1>3. IsFiniteSet(Cells \X Particles)
  BY <1>1, <1>2, FS_Product
<1> QED
  BY <1>3, FS_Subset DEF Placed

\* Collisions take the places of particles one-to-one to other places.
LEMMA CollideConserves ==
  ASSUME IInv, Collide, ~is_oscillation
  PROVE  Cardinality(Placed(bits')) = Cardinality(Placed(bits))
PROOF
<1> DEFINE moved(x) == <<x[1], Collided(type[x[1]], bits[x[1]], x[2])>>
           f == [x \in Placed(bits) |-> moved(x)]
<1>1. \A c \in Cells : bits'[c] = {Collided(type[c], bits[c], p) : p \in bits[c]}
  BY DEF Collide, Collision
<1>2. ASSUME NEW x \in Placed(bits)
      PROVE  /\ x[1] \in Cells /\ x[2] \in bits[x[1]] /\ x = <<x[1], x[2]>>
             /\ bits[x[1]] \in SUBSET Particles
  BY DEF Placed, IInv, TypeOK
<1>3. f \in [Placed(bits) -> Placed(bits')]
  <2>1. ASSUME NEW x \in Placed(bits)
        PROVE  moved(x) \in Placed(bits')
    <3>1. Collided(type[x[1]], bits[x[1]], x[2]) \in Particles
      BY <1>2, CollisionsOneToOne
    <3>2. Collided(type[x[1]], bits[x[1]], x[2]) \in bits'[x[1]]
      BY <1>1, <1>2
    <3> QED
      BY <1>2, <3>1, <3>2 DEF Placed
  <2> QED
    BY <2>1
<1>4. ASSUME NEW x \in Placed(bits), NEW y \in Placed(bits), f[x] = f[y]
      PROVE  x = y
  <2>1. moved(x) = moved(y)
    BY <1>4
  <2>2. x[1] = y[1]
    BY <2>1
  <2>3. Collided(type[x[1]], bits[x[1]], x[2]) = Collided(type[x[1]], bits[x[1]], y[2])
    BY <2>1, <2>2
  <2>4. x[2] = y[2]
    BY <1>2, <2>2, <2>3, CollisionsOneToOne
  <2> QED
    BY <1>2, <2>2, <2>4
<1>5. ASSUME NEW y \in Placed(bits')
      PROVE  \E x \in Placed(bits) : f[x] = y
  <2>1. y[1] \in Cells /\ y[2] \in bits'[y[1]] /\ y = <<y[1], y[2]>>
    BY DEF Placed
  <2>2. PICK p \in bits[y[1]] : y[2] = Collided(type[y[1]], bits[y[1]], p)
    BY <1>1, <2>1
  <2>3. <<y[1], p>> \in Placed(bits)
    BY <2>1, <2>2 DEF Placed, IInv, TypeOK
  <2>4. f[<<y[1], p>>] = y
    BY <2>1, <2>2, <2>3
  <2> QED
    BY <2>3, <2>4
<1>6. ExistsBijection(Placed(bits), Placed(bits'))
  <2> HIDE DEF f
  <2> QED
    BY <1>3, <1>4, <1>5, Fun_IsBij DEF ExistsBijection, Surjection
<1> QED
  BY <1>6, FinitelyManyPlaces, FS_Bijection

\* So does moving them, as none is dropped.
LEMMA PropagateConserves ==
  ASSUME IInv, Propagate
  PROVE  Cardinality(Placed(bits')) = Cardinality(Placed(bits))
PROOF
<1> DEFINE moved(x) == <<Ahead(x[1], x[2][2]), x[2]>>
           f == [x \in Placed(bits) |-> moved(x)]
<1>1. \A c \in Cells : bits'[c] = Arriving(bits, c)
  BY DEF Propagate
<1>2. ASSUME NEW x \in Placed(bits)
      PROVE  /\ x[1] \in Cells /\ x[2] \in bits[x[1]] /\ x = <<x[1], x[2]>>
             /\ x[2] \in Particles /\ x[2][2] \in Directions
             /\ Ahead(x[1], x[2][2]) \in Cells
  BY InvariantKeepsInside DEF Placed, Particles, NoneLeaves, Propagate
<1>3. f \in [Placed(bits) -> Placed(bits')]
  <2>1. ASSUME NEW x \in Placed(bits)
        PROVE  moved(x) \in Placed(bits')
    <3>1. Behind(Ahead(x[1], x[2][2]), x[2][2]) = x[1]
      BY <1>2, StepFacts
    <3>2. x[2] \in Arriving(bits, Ahead(x[1], x[2][2]))
      BY <1>2, <3>1 DEF Arriving
    <3> QED
      BY <1>1, <1>2, <3>2 DEF Placed
  <2> QED
    BY <2>1
<1>4. ASSUME NEW x \in Placed(bits), NEW y \in Placed(bits), f[x] = f[y]
      PROVE  x = y
  <2>1. Ahead(x[1], x[2][2]) = Ahead(y[1], x[2][2]) /\ x[2] = y[2]
    BY <1>4
  <2>2. /\ Behind(Ahead(x[1], x[2][2]), x[2][2]) = x[1]
        /\ Behind(Ahead(y[1], x[2][2]), x[2][2]) = y[1]
    BY <1>2, StepFacts
  <2> QED
    BY <1>2, <2>1, <2>2
<1>5. ASSUME NEW y \in Placed(bits')
      PROVE  \E x \in Placed(bits) : f[x] = y
  <2>1. y[1] \in Cells /\ y[2] \in bits'[y[1]] /\ y = <<y[1], y[2]>>
    BY DEF Placed
  <2>2. /\ y[2] \in Particles /\ y[2][2] \in Directions
        /\ Behind(y[1], y[2][2]) \in Cells
        /\ y[2] \in bits[Behind(y[1], y[2][2])]
    BY <1>1, <2>1 DEF Arriving, Particles
  <2>3. <<Behind(y[1], y[2][2]), y[2]>> \in Placed(bits)
    BY <2>2 DEF Placed
  <2>4. Ahead(Behind(y[1], y[2][2]), y[2][2]) = y[1]
    BY <2>1, <2>2, StepFacts
  <2>5. f[<<Behind(y[1], y[2][2]), y[2]>>] = y
    BY <2>1, <2>3, <2>4
  <2> QED
    BY <2>3, <2>5
<1>6. ExistsBijection(Placed(bits), Placed(bits'))
  <2> HIDE DEF f
  <2> QED
    BY <1>3, <1>4, <1>5, Fun_IsBij DEF ExistsBijection, Surjection
<1> QED
  BY <1>6, FinitelyManyPlaces, FS_Bijection

\* Unless the source emits particles, an iteration neither loses nor makes any.
THEOREM ParticlesConserved == Spec => Conserved
PROOF
<1>1. IInv /\ [Next]_vars =>
        [~is_oscillation => Cardinality(Placed(bits')) = Cardinality(Placed(bits))]_vars
  <2> SUFFICES ASSUME IInv, Next, ~is_oscillation
               PROVE  Cardinality(Placed(bits')) = Cardinality(Placed(bits))
    OBVIOUS
  <2>1. CASE Done
    BY <2>1 DEF Done, vars
  <2> QED
    BY <2>1, CollideConserves, PropagateConserves DEF Next
<1> QED
  BY <1>1, Inductive, PTL DEF Spec, Conserved

-----------------------------------------------------------------------------

\* To move particles, turn them around, move them and turn them again is to do
\* nothing: propagation_step puts no two particles in one place.
THEOREM MovingCanBeUndone == Spec => Reversible
PROOF
<1>1. IInv /\ [Next]_vars => [pc = "propagate" => Undone(bits') = bits]_vars
  <2> SUFFICES ASSUME IInv, Next, pc = "propagate", ~UNCHANGED vars
               PROVE  Undone(bits') = bits
    OBVIOUS
  <2>1. Propagate
    BY DEF Next, Collide, Done
  <2>2. \A c \in Cells : bits'[c] = Arriving(bits, c)
    BY <2>1 DEF Propagate
  <2> DEFINE turned == Reversed(bits')
             back == [c \in Cells |-> Arriving(turned, c)]
  <2>3. ASSUME NEW c \in Cells, NEW p \in Particles
        PROVE  p \in turned[c] <=> <<p[1], Opposite[p[2]]>> \in bits'[c]
    <3>1. turned[c] = {<<q[1], Opposite[q[2]]>> : q \in bits'[c]}
      BY DEF Reversed
    <3>2. \A q \in bits'[c] : q \in Particles
      BY <2>2 DEF Arriving
    <3>3. \A q \in Particles : /\ q = <<q[1], q[2]>> /\ q[2] \in Directions
                               /\ Opposite[Opposite[q[2]]] = q[2]
      BY DirectionFacts DEF Particles
    <3> QED
      BY <3>1, <3>2, <3>3
  <2>4. ASSUME NEW c \in Cells, NEW s \in Signs, NEW d \in Directions
        PROVE  <<s, Opposite[d]>> \in back[c] <=> <<s, d>> \in bits[c]
    <3> DEFINE e == Opposite[d]
    <3>1. /\ e \in Directions /\ Opposite[e] = d /\ <<s, e>> \in Particles
          /\ Behind(c, e) = Ahead(c, d)
      BY <2>4, DirectionFacts, StepFacts DEF Particles
    <3>2. <<s, e>> \in back[c] <=>
            Ahead(c, d) \in Cells /\ <<s, e>> \in turned[Ahead(c, d)]
      BY <3>1 DEF Arriving
    <3>3. ASSUME Ahead(c, d) \in Cells
          PROVE  <<s, e>> \in turned[Ahead(c, d)] <=> <<s, d>> \in bits[c]
      <4>1. <<s, e>> \in turned[Ahead(c, d)] <=> <<s, d>> \in bits'[Ahead(c, d)]
        BY <2>3, <3>1, <3>3
      <4>2. Behind(Ahead(c, d), d) = c
        BY <2>4, StepFacts
      <4>3. <<s, d>> \in Arriving(bits, Ahead(c, d)) <=> <<s, d>> \in bits[c]
        BY <2>4, <4>2 DEF Arriving, Particles
      <4> QED
        BY <2>2, <3>3, <4>1, <4>3
    <3>4. <<s, d>> \in bits[c] => Ahead(c, d) \in Cells
      <4>1. <<s, d>> \in bits[c] => <<c, <<s, d>> >> \in Placed(bits)
        BY <2>4 DEF Placed, Particles
      <4> QED
        BY <4>1, InvariantKeepsInside DEF NoneLeaves
    <3> QED
      BY <3>2, <3>3, <3>4
  <2>5. ASSUME NEW c \in Cells
        PROVE  {<<p[1], Opposite[p[2]]>> : p \in back[c]} = bits[c]
    <3>1. back[c] \in SUBSET Particles /\ bits[c] \in SUBSET Particles
      BY DEF Arriving, IInv, TypeOK
    <3>2. ASSUME NEW q \in Particles
          PROVE  q \in bits[c] <=> <<q[1], Opposite[q[2]]>> \in back[c]
      BY <2>4 DEF Particles
    <3>3. \A q \in Particles :
            /\ <<q[1], Opposite[q[2]]>> \in Particles
            /\ <<q[1], Opposite[Opposite[q[2]]]>> = q
      BY DirectionFacts DEF Particles
    <3> HIDE DEF back
    <3>4. ASSUME NEW p \in back[c]
          PROVE  <<p[1], Opposite[p[2]]>> \in bits[c]
      <4> DEFINE q == <<p[1], Opposite[p[2]]>>
      <4>1. q \in Particles /\ <<q[1], Opposite[q[2]]>> = p
        BY <3>1, <3>3
      <4> QED
        BY <3>2, <4>1
    <3>5. ASSUME NEW q \in bits[c]
          PROVE  \E p \in back[c] : q = <<p[1], Opposite[p[2]]>>
      <4> DEFINE p == <<q[1], Opposite[q[2]]>>
      <4>1. q \in Particles
        BY <3>1
      <4>2. p \in back[c]
        BY <3>2, <4>1
      <4>3. <<p[1], Opposite[p[2]]>> = q
        BY <3>3, <4>1
      <4> QED
        BY <4>2, <4>3
    <3> QED
      BY <3>4, <3>5
  <2>6. bits = [c \in Cells |-> bits[c]]
    BY DEF IInv, TypeOK
  <2>7. Undone(bits') = Reversed(back)
    BY DEF Undone
  <2>8. Reversed(back) = [c \in Cells |-> {<<p[1], Opposite[p[2]]>> : p \in back[c]}]
    BY DEF Reversed
  <2> HIDE DEF back
  <2> QED
    BY <2>5, <2>6, <2>7, <2>8
<1> QED
  BY <1>1, Inductive, PTL DEF Spec, Reversible

-----------------------------------------------------------------------------
(* Momentum *)

\* The cells of the medium in which a particle of a sign goes in a direction, and
\* those in which the two that meet along it are the only ones of their sign.
Going(b, sign, d) == {c \in Medium : <<sign, d>> \in b[c]}
Meeting(b, sign, d) == {c \in Medium : Heading(b[c], sign) = {d, Opposite[d]}}

\* When the particles of a sign turn, they leave the cells where they have met along
\* a direction, and come to go along it where they have met across.
LEMMA GoingAfterwards ==
  ASSUME IInv, Collide, NEW sign \in Signs, NEW d \in Directions
  PROVE  Going(bits', sign, d) =
           (Going(bits, sign, d) \ Meeting(bits, sign, d)) \union Meeting(bits, sign, Turned[d])
PROOF
<1>1. ASSUME NEW c \in Medium
      PROVE  <<sign, d>> \in bits'[c] <=>
               \/ /\ <<sign, d>> \in bits[c]
                  /\ Heading(bits[c], sign) # {d, Opposite[d]}
               \/ Heading(bits[c], sign) = {Turned[d], Opposite[Turned[d]]}
  <2> DEFINE b == bits[c]
             h == Heading(b, sign)
  <2>1. c \in Cells /\ type[c] = "MEDIUM" /\ b \in SUBSET Particles
    BY DEF Medium, IInv, TypeOK
  <2>2. bits'[c] = {CollisionMedium(b, p) : p \in b}
    BY <2>1 DEF Collide, Collision, Collided
  <2>3. \A e \in Directions : e \in h <=> <<sign, e>> \in b
    BY DEF Heading
  <2>4. h \in SUBSET Directions
    BY DEF Heading
  <2> HIDE DEF h
  <2>5. ASSUME NEW p \in b
        PROVE  CollisionMedium(b, p) = <<sign, d>> <=>
                 /\ p[1] = sign
                 /\ p[2] = IF h \in HeadOn THEN Turned[d] ELSE d
    <3>1. p = <<p[1], p[2]>> /\ p[2] \in Directions
      BY <2>1 DEF Particles
    <3>2. Turned[p[2]] = d <=> p[2] = Turned[d]
      BY <3>1, DirectionFacts
    <3>3. CASE p[1] = sign
      <4>1. CollisionMedium(b, p) = IF h \in HeadOn THEN <<sign, Turned[p[2]]>> ELSE p
        BY <3>3 DEF CollisionMedium, h
      <4> QED
        BY <3>1, <3>2, <3>3, <4>1
    <3>4. CASE p[1] # sign
      BY <3>1, <3>4 DEF CollisionMedium
    <3> QED
      BY <3>3, <3>4
  <2>6. <<sign, d>> \in bits'[c] <=>
          <<sign, IF h \in HeadOn THEN Turned[d] ELSE d>> \in b
    <3> DEFINE e == IF h \in HeadOn THEN Turned[d] ELSE d
    <3>1. <<sign, d>> \in bits'[c] <=> \E p \in b : p[1] = sign /\ p[2] = e
      BY <2>2, <2>5
    <3>2. \A p \in b : p = <<p[1], p[2]>>
      BY <2>1 DEF Particles
    <3> HIDE DEF e
    <3>3. (\E p \in b : p[1] = sign /\ p[2] = e) <=> <<sign, e>> \in b
      BY <3>2
    <3> QED
      BY <3>1, <3>3 DEF e
  <2>7. <<sign, d>> \in bits'[c] <=> (IF h \in HeadOn THEN Turned[d] ELSE d) \in h
    BY <2>3, <2>6, DirectionFacts
  <2>8. /\ h \in HeadOn <=> h = {d, Opposite[d]} \/ h = {Turned[d], Opposite[Turned[d]]}
        /\ Turned[d] \notin {d, Opposite[d]}
        /\ d \notin {Turned[d], Opposite[Turned[d]]}
    <3>1. CASE d = "RIGHT"
      BY <3>1 DEF HeadOn, Turned, Opposite, Directions
    <3>2. CASE d = "LEFT"
      BY <3>2 DEF HeadOn, Turned, Opposite, Directions
    <3>3. CASE d = "UP"
      BY <3>3 DEF HeadOn, Turned, Opposite, Directions
    <3>4. CASE d = "DOWN"
      BY <3>4 DEF HeadOn, Turned, Opposite, Directions
    <3> QED
      BY <3>1, <3>2, <3>3, <3>4 DEF Directions
  <2>9. <<sign, d>> \in bits'[c] <=>
          (d \in h /\ h # {d, Opposite[d]}) \/ h = {Turned[d], Opposite[Turned[d]]}
    BY <2>7, <2>8
  <2> QED
    BY <2>3, <2>9 DEF h
<1> QED
  BY <1>1 DEF Going, Meeting

\* So along both ways of a direction as many come as go.
LEMMA GoingNumber ==
  ASSUME IInv, Collide, NEW sign \in Signs, NEW d \in Directions
  PROVE  /\ Cardinality(Going(bits, sign, d)) \in Nat
         /\ Cardinality(Meeting(bits, sign, d)) \in Nat
         /\ Cardinality(Meeting(bits, sign, Turned[d])) \in Nat
         /\ Cardinality(Going(bits', sign, d)) =
              Cardinality(Going(bits, sign, d)) - Cardinality(Meeting(bits, sign, d))
                + Cardinality(Meeting(bits, sign, Turned[d]))
PROOF
<1> DEFINE g == Going(bits, sign, d)
           x == Meeting(bits, sign, d)
           y == Meeting(bits, sign, Turned[d])
<1>1. IsFiniteSet(g) /\ IsFiniteSet(x) /\ IsFiniteSet(y)
  <2>1. g \in SUBSET Cells /\ x \in SUBSET Cells /\ y \in SUBSET Cells
    BY DEF Going, Meeting, Medium
  <2> QED
    BY <2>1, FinitelyManyCells
<1>2. ASSUME NEW c \in Medium
      PROVE  /\ c \in x => c \in g
             /\ ~(c \in g /\ c \in y)
  <2>1. \A e \in Directions : e \in Heading(bits[c], sign) <=> <<sign, e>> \in bits[c]
    BY DEF Heading
  <2>2. d \notin {Turned[d], Opposite[Turned[d]]}
    BY DEF Directions, Turned, Opposite
  <2> QED
    BY <2>1, <2>2 DEF Going, Meeting
<1>3. g \intersect x = x /\ (g \ x) \intersect y = {}
  BY <1>2 DEF Going, Meeting
<1>4. Going(bits', sign, d) = (g \ x) \union y
  BY GoingAfterwards
<1> HIDE DEF g, x, y
<1>5. IsFiniteSet(g \ x) /\ Cardinality(g \ x) = Cardinality(g) - Cardinality(x)
  BY <1>1, <1>3, FS_Difference
<1>6. Cardinality((g \ x) \union y) = Cardinality(g \ x) + Cardinality(y) - Cardinality({})
  BY <1>1, <1>3, <1>5, FS_Union
<1>7. /\ Cardinality(g) \in Nat /\ Cardinality(x) \in Nat /\ Cardinality(y) \in Nat
      /\ Cardinality({}) = 0
  BY <1>1, FS_CardinalityType, FS_EmptySet
<1>8. Cardinality((g \ x) \union y) = Cardinality(g) - Cardinality(x) + Cardinality(y)
  BY <1>5, <1>6, <1>7
<1> QED
  BY <1>4, <1>7, <1>8 DEF g, x, y

\* Collisions in the medium keep the momentum of either sign, on a grid of any size.
THEOREM MomentumConserved == Spec => MomentumKept
PROOF
<1>1. IInv /\ [Next]_vars =>
        [pc = "collide" => \A sign \in Signs, d \in Directions :
           Balance(bits', Medium, sign, d) = Balance(bits, Medium, sign, d)]_vars
  <2> SUFFICES ASSUME IInv, Next, pc = "collide", ~UNCHANGED vars,
                      NEW sign \in Signs, NEW d \in Directions
               PROVE  Balance(bits', Medium, sign, d) = Balance(bits, Medium, sign, d)
    OBVIOUS
  <2>1. Collide
    BY DEF Next, Propagate, Done
  <2> DEFINE e == Opposite[d]
  <2>2. e \in Directions
    BY DirectionFacts
  <2>3. /\ Meeting(bits, sign, e) = Meeting(bits, sign, d)
        /\ Meeting(bits, sign, Turned[e]) = Meeting(bits, sign, Turned[d])
    <3>1. /\ {e, Opposite[e]} = {d, Opposite[d]}
          /\ {Turned[e], Opposite[Turned[e]]} = {Turned[d], Opposite[Turned[d]]}
      BY DEF Directions, Turned, Opposite
    <3> QED
      BY <3>1 DEF Meeting
  <2> HIDE DEF e
  <2>4. PICK g \in Nat, x \in Nat, y \in Nat :
          /\ g = Cardinality(Going(bits, sign, d))
          /\ x = Cardinality(Meeting(bits, sign, d))
          /\ y = Cardinality(Meeting(bits, sign, Turned[d]))
          /\ Cardinality(Going(bits', sign, d)) = g - x + y
    BY <2>1, GoingNumber
  <2>5. PICK k \in Nat :
          /\ k = Cardinality(Going(bits, sign, e))
          /\ Cardinality(Going(bits', sign, e)) = k - x + y
    BY <2>1, <2>2, <2>3, <2>4, GoingNumber
  <2>6. (g - x + y) - (k - x + y) = g - k
    OBVIOUS
  <2>7. \A b : Balance(b, Medium, sign, d) =
                 Cardinality(Going(b, sign, d)) - Cardinality(Going(b, sign, e))
    BY DEF Balance, Going, e
  <2> QED
    BY <2>4, <2>5, <2>6, <2>7
<1> QED
  BY <1>1, Inductive, PTL DEF Spec, MomentumKept

-----------------------------------------------------------------------------
(* Signs *)

\* The particles of a sign in some cells, by their cells and directions.
Ways(b, sign, C) == {x \in C \X Directions : <<sign, x[2]>> \in b[x[1]]}

\* They are finitely many.
LEMMA FinitelyManyWays ==
  ASSUME NEW b, NEW sign, NEW C \in SUBSET Cells
  PROVE  IsFiniteSet(Ways(b, sign, C)) /\ Cardinality(Ways(b, sign, C)) \in Nat
PROOF
<1>1. IsFiniteSet(C \X Directions)
  BY FinitelyManyCells
<1>2. Ways(b, sign, C) \in SUBSET (C \X Directions)
  BY DEF Ways
<1> QED
  BY <1>1, <1>2, FS_Subset, FS_CardinalityType

\* Cells of which the collisions make particles of the sign t of those of the sign s,
\* and of no others, have as many afterwards.
LEMMA CollidedSigns ==
  ASSUME IInv, Collide, ~is_oscillation, NEW C \in SUBSET Cells,
         NEW s \in Signs, NEW t \in Signs,
         \A c \in C : \A p \in bits[c] :
           p[1] = s <=> Collided(type[c], bits[c], p)[1] = t
  PROVE  Cardinality(Ways(bits', t, C)) = Cardinality(Ways(bits, s, C))
PROOF
<1> DEFINE A == Ways(bits, s, C)
           B == Ways(bits', t, C)
           to(x) == Collided(type[x[1]], bits[x[1]], <<s, x[2]>>)
           f == [x \in A |-> <<x[1], to(x)[2]>>]
<1>1. ASSUME NEW c \in C
      PROVE  /\ bits'[c] = {Collided(type[c], bits[c], p) : p \in bits[c]}
             /\ bits[c] \in SUBSET Particles
  BY DEF Collide, Collision, IInv, TypeOK
<1>2. ASSUME NEW x \in A
      PROVE  /\ x[1] \in C /\ x[2] \in Directions /\ x = <<x[1], x[2]>>
             /\ <<s, x[2]>> \in bits[x[1]]
             /\ to(x) \in bits'[x[1]] /\ to(x)[2] \in Directions
             /\ to(x) = <<t, to(x)[2]>>
  <2>1. /\ x[1] \in C /\ x[2] \in Directions /\ x = <<x[1], x[2]>>
        /\ <<s, x[2]>> \in bits[x[1]]
    BY DEF Ways
  <2>2. to(x) \in Particles
    BY <1>1, <2>1, CollisionsOneToOne
  <2>3. to(x)[1] = t
    <3>1. <<s, x[2]>>[1] = s
      OBVIOUS
    <3> QED
      BY <2>1, <3>1
  <2>4. to(x) \in bits'[x[1]]
    BY <1>1, <2>1
  <2> HIDE DEF to
  <2>5. to(x) = <<to(x)[1], to(x)[2]>> /\ to(x)[2] \in Directions
    BY <2>2 DEF Particles
  <2> QED
    BY <2>1, <2>3, <2>4, <2>5
<1>3. f \in [A -> B]
  <2>1. ASSUME NEW x \in A
        PROVE  <<x[1], to(x)[2]>> \in B
    <3>1. <<t, to(x)[2]>> \in bits'[x[1]]
      BY <1>2
    <3> QED
      BY <1>2, <3>1 DEF Ways
  <2> HIDE DEF A, B, to
  <2> QED
    BY <2>1
<1>4. ASSUME NEW x \in A, NEW y \in A, f[x] = f[y]
      PROVE  x = y
  <2>1. x[1] = y[1] /\ to(x)[2] = to(y)[2]
    <3>1. f[x] = <<x[1], to(x)[2]>> /\ f[y] = <<y[1], to(y)[2]>>
      <4> HIDE DEF A, to
      <4> QED
        OBVIOUS
    <3> QED
      BY <1>4, <3>1
  <2>2. to(x) = to(y)
    BY <1>2, <2>1
  <2>3. <<s, x[2]>> \in bits[x[1]] /\ <<s, y[2]>> \in bits[x[1]] /\ bits[x[1]] \in SUBSET Particles
    BY <1>1, <1>2, <2>1
  <2>4. Collided(type[x[1]], bits[x[1]], <<s, x[2]>>) = Collided(type[x[1]], bits[x[1]], <<s, y[2]>>)
    BY <2>1, <2>2
  <2>5. <<s, x[2]>> = <<s, y[2]>>
    BY <2>3, <2>4, CollisionsOneToOne
  <2> QED
    BY <1>2, <2>1, <2>5
<1>5. ASSUME NEW y \in B
      PROVE  \E x \in A : f[x] = y
  <2>1. y[1] \in C /\ y[2] \in Directions /\ y = <<y[1], y[2]>> /\ <<t, y[2]>> \in bits'[y[1]]
    BY DEF Ways
  <2>2. PICK p \in bits[y[1]] : <<t, y[2]>> = Collided(type[y[1]], bits[y[1]], p)
    BY <1>1, <2>1
  <2>3. p[1] = s
    <3>1. Collided(type[y[1]], bits[y[1]], p)[1] = t
      BY <2>2
    <3> QED
      BY <2>1, <3>1
  <2>4. p = <<s, p[2]>> /\ p[2] \in Directions
    BY <1>1, <2>1, <2>3 DEF Particles
  <2> DEFINE x == <<y[1], p[2]>>
  <2>5. x \in A
    BY <2>1, <2>4 DEF Ways
  <2>6. to(x) = <<t, y[2]>>
    BY <2>2, <2>4
  <2>7. f[x] = <<y[1], y[2]>>
    BY <2>5, <2>6
  <2> QED
    BY <2>1, <2>5, <2>7
<1> HIDE DEF A, B, f
<1>6. ExistsBijection(A, B)
  BY <1>3, <1>4, <1>5, Fun_IsBij DEF ExistsBijection, Surjection
<1>7. IsFiniteSet(A)
  BY FinitelyManyWays DEF A
<1>8. Cardinality(B) = Cardinality(A)
  BY <1>6, <1>7, FS_Bijection
<1> QED
  BY <1>8 DEF A, B

\* Moving particles changes no signs.
LEMMA MovedSigns ==
  ASSUME IInv, Propagate, NEW s \in Signs
  PROVE  Cardinality(Ways(bits', s, Cells)) = Cardinality(Ways(bits, s, Cells))
PROOF
<1> DEFINE A == Ways(bits, s, Cells)
           B == Ways(bits', s, Cells)
           f == [x \in A |-> <<Ahead(x[1], x[2]), x[2]>>]
<1>1. \A c \in Cells : bits'[c] = Arriving(bits, c)
  BY DEF Propagate
<1>2. ASSUME NEW x \in A
      PROVE  /\ x[1] \in Cells /\ x[2] \in Directions /\ x = <<x[1], x[2]>>
             /\ <<s, x[2]>> \in bits[x[1]] /\ <<s, x[2]>> \in Particles
             /\ Ahead(x[1], x[2]) \in Cells
  <2>1. /\ x[1] \in Cells /\ x[2] \in Directions /\ x = <<x[1], x[2]>>
        /\ <<s, x[2]>> \in bits[x[1]] /\ <<s, x[2]>> \in Particles
    BY DEF Ways, Particles
  <2> DEFINE p == <<x[1], <<s, x[2]>> >>
  <2>2. p \in Placed(bits)
    BY <2>1 DEF Placed
  <2>3. Ahead(p[1], p[2][2]) \in Cells
    BY <2>2, InvariantKeepsInside DEF NoneLeaves, Propagate
  <2>4. p[1] = x[1] /\ p[2][2] = x[2]
    OBVIOUS
  <2> QED
    BY <2>1, <2>3, <2>4
<1>3. f \in [A -> B]
  <2>1. ASSUME NEW x \in A
        PROVE  <<Ahead(x[1], x[2]), x[2]>> \in B
    <3>1. Behind(Ahead(x[1], x[2]), x[2]) = x[1]
      BY <1>2, StepFacts
    <3>2. <<s, x[2]>> \in Arriving(bits, Ahead(x[1], x[2]))
      BY <1>2, <3>1 DEF Arriving
    <3> QED
      BY <1>1, <1>2, <3>2 DEF Ways
  <2> HIDE DEF A, B
  <2> QED
    BY <2>1
<1>4. ASSUME NEW x \in A, NEW y \in A, f[x] = f[y]
      PROVE  x = y
  <2>1. Ahead(x[1], x[2]) = Ahead(y[1], x[2]) /\ x[2] = y[2]
    BY <1>4
  <2>2. /\ Behind(Ahead(x[1], x[2]), x[2]) = x[1]
        /\ Behind(Ahead(y[1], x[2]), x[2]) = y[1]
    BY <1>2, StepFacts
  <2> QED
    BY <1>2, <2>1, <2>2
<1>5. ASSUME NEW y \in B
      PROVE  \E x \in A : f[x] = y
  <2>1. y[1] \in Cells /\ y[2] \in Directions /\ y = <<y[1], y[2]>> /\ <<s, y[2]>> \in bits'[y[1]]
    BY DEF Ways
  <2>2. Behind(y[1], y[2]) \in Cells /\ <<s, y[2]>> \in bits[Behind(y[1], y[2])]
    BY <1>1, <2>1 DEF Arriving
  <2> DEFINE x == <<Behind(y[1], y[2]), y[2]>>
  <2>3. x \in A
    BY <2>1, <2>2 DEF Ways
  <2>4. Ahead(Behind(y[1], y[2]), y[2]) = y[1]
    BY <2>1, StepFacts
  <2>5. f[x] = y
    BY <2>1, <2>3, <2>4
  <2> QED
    BY <2>3, <2>5
<1> HIDE DEF A, B, f
<1>6. ExistsBijection(A, B)
  BY <1>3, <1>4, <1>5, Fun_IsBij DEF ExistsBijection, Surjection
<1>7. IsFiniteSet(A)
  BY FinitelyManyWays DEF A
<1>8. Cardinality(B) = Cardinality(A)
  BY <1>6, <1>7, FS_Bijection
<1> QED
  BY <1>8 DEF A, B

\* Those on the free walls and those elsewhere are all of a sign.
LEMMA WaysSplit ==
  ASSUME NEW b, NEW s
  PROVE  Cardinality(Ways(b, s, Cells)) =
           Cardinality(Ways(b, s, FreeWalls)) + Cardinality(Ways(b, s, Cells \ FreeWalls))
PROOF
<1> DEFINE A == Ways(b, s, FreeWalls)
           B == Ways(b, s, Cells \ FreeWalls)
<1>1. FreeWalls \in SUBSET Cells
  BY DEF FreeWalls
<1>2. Ways(b, s, Cells) = A \union B /\ A \intersect B = {}
  BY <1>1 DEF Ways
<1>3. /\ IsFiniteSet(A) /\ Cardinality(A) \in Nat
      /\ IsFiniteSet(B) /\ Cardinality(B) \in Nat
  BY <1>1, FinitelyManyWays
<1> HIDE DEF A, B
<1>4. Cardinality(A \union B) = Cardinality(A) + Cardinality(B) - Cardinality({})
  BY <1>2, <1>3, FS_Union
<1>5. Cardinality(A \union B) = Cardinality(A) + Cardinality(B)
  BY <1>3, <1>4, FS_EmptySet
<1> QED
  BY <1>2, <1>5 DEF A, B

\* A free wall changes the sign of every particle on it, and nothing else does.
LEMMA FreeWallsChangeSigns ==
  ASSUME IInv, NEW c \in Cells, NEW p \in bits[c]
  PROVE  /\ p[1] \in {"P", "N"} /\ Collided(type[c], bits[c], p)[1] \in {"P", "N"}
         /\ c \in FreeWalls => Collided(type[c], bits[c], p)[1] # p[1]
         /\ c \notin FreeWalls => Collided(type[c], bits[c], p)[1] = p[1]
PROOF
<1>1. p[1] \in {"P", "N"}
  BY DEF IInv, TypeOK, Particles, Signs
<1>2. c \in FreeWalls <=> type[c] = "WALL_FREE"
  BY DEF IInv, FreeWalls
<1>3. CASE type[c] = "WALL_FREE"
  BY <1>1, <1>2, <1>3 DEF Collided, CollisionWallFree
<1>4. CASE type[c] # "WALL_FREE"
  BY <1>1, <1>2, <1>4 DEF Collided, CollisionWallSolid, CollisionMedium
<1> QED
  BY <1>3, <1>4, <1>1

\* The surplus of positive particles changes at the free walls only, by twice what is
\* on them: on a grid of any size, and unless the source emits particles.
THEOREM SignsOnlyAtFreeWalls == Spec => SignsChangeAtFreeWalls
PROOF
<1>1. \A b, C : Surplus(b, C) = Cardinality(Ways(b, "P", C)) - Cardinality(Ways(b, "N", C))
  BY DEF Surplus, Ways
<1>2. IInv /\ [Next]_vars =>
        [~is_oscillation =>
           Surplus(bits', Cells) - Surplus(bits, Cells) =
             IF pc = "collide" THEN -2 * Surplus(bits, FreeWalls) ELSE 0]_vars
  <2> SUFFICES ASSUME IInv, Next, ~is_oscillation, ~UNCHANGED vars
               PROVE  Surplus(bits', Cells) - Surplus(bits, Cells) =
                        IF pc = "collide" THEN -2 * Surplus(bits, FreeWalls) ELSE 0
    OBVIOUS
  <2>1. CASE Propagate
    <3>1. /\ Cardinality(Ways(bits', "P", Cells)) = Cardinality(Ways(bits, "P", Cells))
          /\ Cardinality(Ways(bits', "N", Cells)) = Cardinality(Ways(bits, "N", Cells))
      BY <2>1, MovedSigns DEF Signs
    <3>2. /\ Cardinality(Ways(bits, "P", Cells)) \in Nat
          /\ Cardinality(Ways(bits, "N", Cells)) \in Nat
      BY FinitelyManyWays
    <3>3. Surplus(bits', Cells) = Surplus(bits, Cells) /\ Surplus(bits, Cells) \in Int
      BY <1>1, <3>1, <3>2
    <3> QED
      BY <2>1, <3>3 DEF Propagate
  <2>2. CASE Collide
    <3>1. FreeWalls \in SUBSET Cells /\ Cells \ FreeWalls \in SUBSET Cells
      BY DEF FreeWalls
    <3>2. ASSUME NEW s \in Signs
          PROVE  Cardinality(Ways(bits', s, Cells \ FreeWalls)) =
                   Cardinality(Ways(bits, s, Cells \ FreeWalls))
      <4>1. \A c \in Cells \ FreeWalls : \A p \in bits[c] :
              p[1] = s <=> Collided(type[c], bits[c], p)[1] = s
        BY FreeWallsChangeSigns
      <4> QED
        BY <2>2, <3>1, <4>1, CollidedSigns
    <3>3. /\ Cardinality(Ways(bits', "P", FreeWalls)) = Cardinality(Ways(bits, "N", FreeWalls))
          /\ Cardinality(Ways(bits', "N", FreeWalls)) = Cardinality(Ways(bits, "P", FreeWalls))
      <4>1. \A c \in FreeWalls : \A p \in bits[c] :
              /\ p[1] = "N" <=> Collided(type[c], bits[c], p)[1] = "P"
              /\ p[1] = "P" <=> Collided(type[c], bits[c], p)[1] = "N"
        BY <3>1, FreeWallsChangeSigns
      <4>2. "P" \in Signs /\ "N" \in Signs
        BY DEF Signs
      <4> QED
        BY <2>2, <3>1, <4>1, <4>2, CollidedSigns
    <3>4. PICK p \in Nat, n \in Nat, q \in Nat, m \in Nat :
            /\ p = Cardinality(Ways(bits, "P", FreeWalls))
            /\ n = Cardinality(Ways(bits, "N", FreeWalls))
            /\ q = Cardinality(Ways(bits, "P", Cells \ FreeWalls))
            /\ m = Cardinality(Ways(bits, "N", Cells \ FreeWalls))
      BY <3>1, FinitelyManyWays
    <3>5. /\ Surplus(bits, FreeWalls) = p - n
          /\ Surplus(bits, Cells) = (p + q) - (n + m)
      BY <1>1, <3>4, WaysSplit
    <3>6. Surplus(bits', Cells) = (n + q) - (p + m)
      <4>1. /\ Cardinality(Ways(bits', "P", Cells)) = n + q
            /\ Cardinality(Ways(bits', "N", Cells)) = p + m
        BY <3>2, <3>3, <3>4, WaysSplit DEF Signs
      <4> QED
        BY <1>1, <4>1
    <3>7. ((n + q) - (p + m)) - ((p + q) - (n + m)) = -2 * (p - n)
      OBVIOUS
    <3> QED
      BY <2>2, <3>5, <3>6, <3>7 DEF Collide
  <2> QED
    BY <2>1, <2>2 DEF Next, Done
<1> QED
  BY <1>2, Inductive, PTL DEF Spec, SignsChangeAtFreeWalls

=============================================================================
