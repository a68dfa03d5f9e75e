------------------------- MODULE AsyncIterateProofs -------------------------
(***************************************************************************)
(* Proofs about AsyncIterate for every lattice, team, transition and       *)
(* number of iterations.                                                   *)
(***************************************************************************)
EXTENDS AsyncIterate, CellularAutomatonProofs, FiniteSetTheorems, FunctionTheorems, TLAPS

-----------------------------------------------------------------------------
(* The inductive invariant.                                                *)

\* The only thread whose place in the loop an action of t changes is t.
LEMMA StepEffect ==
  ASSUME TypeOK, NEW t \in Threads, NEW phase, NEW n \in Nat,
         NEW next \in Phases, Step(t, phase, n, next)
  PROVE  /\ pc[t] = phase
         /\ pc' \in [Threads -> Phases]
         /\ step' \in [Threads -> Nat \ {0}]
         /\ \A u \in Threads \ {t} : pc'[u] = pc[u] /\ step'[u] = step[u]
         /\ \/ step[t] < n /\ pc'[t] = phase /\ step'[t] = step[t] + 1
            \/ ~(step[t] < n) /\ pc'[t] = next /\ step'[t] = 1
BY DEF Step, TypeOK

LEMMA TakeStep ==
  ASSUME IInv, NEW t \in Threads, Take(t)
  PROVE  IInv'
<1> DEFINE next == IF LockCount > 0 THEN "lock" ELSE "get"
<1>1. next \in Phases
  BY DEF Phases
<1>2. step[t] = 1 /\ pc[t] = "idle"
  BY DEF IInv, StepsInRange, Take, Step
<1>3. /\ pc' = [pc EXCEPT ![t] = next]
      /\ step' = [step EXCEPT ![t] = 1]
  BY <1>2 DEF Take, Step
<1>4. Blank \in Buffers
  BY ArrayAssumption, SizeAssumption DEF Blank, Buffers, Cells
<1>5. TypeOK'
  <2>1. counter' \in 0 .. Trips
    BY TripsAssumption DEF IInv, TypeOK, Take
  <2>2. site' \in [Threads -> Cells]
    BY DEF IInv, TypeOK, Take
  <2>3. neighbors' \in [Threads -> Buffers]
    BY <1>4 DEF IInv, TypeOK, Take
  <2>4. pc' \in [Threads -> Phases] /\ step' \in [Threads -> Nat \ {0}]
    BY <1>1, <1>3 DEF IInv, TypeOK
  <2> QED BY <2>1, <2>2, <2>3, <2>4 DEF IInv, TypeOK, Take
<1>6. \A u \in Threads \ {t} :
        pc'[u] = pc[u] /\ step'[u] = step[u] /\ site'[u] = site[u]
  BY <1>3 DEF IInv, TypeOK, Take
<1>7. pc'[t] = next /\ step'[t] = 1
  BY <1>3 DEF IInv, TypeOK
<1>8. StepsInRange'
  BY <1>6, <1>7, Counts DEF IInv, StepsInRange
<1>9. Held(t)' = {} /\ Held(t) = {}
  BY <1>2, <1>7, Counts DEF Held
<1>10. \A u \in Threads \ {t} : Held(u)' = Held(u)
  BY <1>6 DEF Held
<1>11. owner' = owner
  BY DEF Take
<1>12. LocksOwned' /\ LocksDistinct'
  BY <1>6, <1>9, <1>10, <1>11 DEF IInv, LocksOwned, LocksDistinct
<1>13. NoLockLost'
  BY <1>6, <1>9, <1>10, <1>11 DEF IInv, NoLockLost
<1>14. LoopOver'
  BY DEF IInv, LoopOver, Take, TypeOK
<1> QED BY <1>5, <1>8, <1>12, <1>13, <1>14 DEF IInv

\* A step that leaves every lock, every site and every pc and step but t's alone
\* keeps the invariant's lock conjuncts when t holds the same locks after it.
LEMMA LocksUntouched ==
  ASSUME IInv, NEW t \in Threads,
         owner' = owner, site' = site, Held(t)' = Held(t),
         \A u \in Threads \ {t} : pc'[u] = pc[u] /\ step'[u] = step[u]
  PROVE  LocksOwned' /\ LocksDistinct' /\ NoLockLost'
<1>1. \A u \in Threads : Held(u)' = Held(u)
  BY DEF Held
<1> QED BY <1>1 DEF IInv, LocksOwned, LocksDistinct, NoLockLost

LEMMA SetLockStep ==
  ASSUME IInv, NEW t \in Threads, SetLock(t)
  PROVE  IInv'
<1> DEFINE lock == LockSeq[site[t]][step[t]]
<1>1. pc[t] = "lock" /\ step[t] \in 1 .. LockCount /\ site[t] \in Cells
  BY Counts DEF IInv, TypeOK, StepsInRange, SetLock, Step
<1>2. lock \in Cells
  BY <1>1, LocksInCells
<1>3. owner[lock] = NoThread /\ owner' = [owner EXCEPT ![lock] = t]
  BY DEF SetLock
<1>4. "get" \in Phases
  BY DEF Phases
<1>5. /\ pc' \in [Threads -> Phases]
      /\ step' \in [Threads -> Nat \ {0}]
      /\ \A u \in Threads \ {t} : pc'[u] = pc[u] /\ step'[u] = step[u]
      /\ \/ step[t] < LockCount /\ pc'[t] = "lock" /\ step'[t] = step[t] + 1
         \/ ~(step[t] < LockCount) /\ pc'[t] = "get" /\ step'[t] = 1
  BY <1>4, Counts, StepEffect DEF IInv, SetLock
<1>6. TypeOK'
  BY <1>2, <1>3, <1>5 DEF IInv, TypeOK, SetLock
<1>7. StepsInRange'
  BY <1>1, <1>5, Counts DEF IInv, StepsInRange
<1>8. site' = site
  BY DEF SetLock
<1>9. Held(t) = 1 .. step[t] - 1 /\ Held(t)' = 1 .. step[t]
  BY <1>1, <1>5, Counts DEF Held
<1>10. \A u \in Threads \ {t} : Held(u)' = Held(u)
  BY <1>5 DEF Held
<1>11. \A n \in Held(t)' : n \in Held(t) \/ n = step[t]
  BY <1>1, <1>9, Counts
<1>12. \A u \in Threads : \A n \in Held(u) :
         LockSeq[site[u]][n] \in Cells /\ owner[LockSeq[site[u]][n]] = u
       /\ LockSeq[site[u]][n] # lock
  <2> SUFFICES ASSUME NEW u \in Threads, NEW n \in Held(u)
               PROVE  LockSeq[site[u]][n] \in Cells /\ LockSeq[site[u]][n] # lock
    BY DEF IInv, LocksOwned
  <2>1. n \in 1 .. LockCount /\ site[u] \in Cells
    BY Counts DEF IInv, TypeOK, StepsInRange, Held
  <2>2. owner[LockSeq[site[u]][n]] = u
    BY DEF IInv, LocksOwned
  <2> QED BY <2>1, <2>2, <1>3, LocksInCells, ThreadsAssumption
<1>13. owner'[lock] = t /\ \A c \in Cells \ {lock} : owner'[c] = owner[c]
  BY <1>2, <1>3 DEF IInv, TypeOK
<1>14. LocksOwned'
  BY <1>8, <1>10, <1>11, <1>12, <1>13 DEF LocksOwned
<1>15. LocksDistinct'
  <2>1. \A m, n \in Held(t)' :
          m # n => LockSeq[site[t]][m] # LockSeq[site[t]][n]
    BY <1>11, <1>12 DEF IInv, LocksDistinct
  <2> QED BY <2>1, <1>8, <1>10 DEF IInv, LocksDistinct
<1>16. NoLockLost'
  <2>1. step[t] \in Held(t)' /\ \A n \in Held(t) : n \in Held(t)'
    BY <1>1, <1>9, Counts
  <2> QED BY <2>1, <1>8, <1>10, <1>13 DEF IInv, NoLockLost
<1>17. LoopOver'
  BY <1>1 DEF IInv, LoopOver, SetLock
<1> QED BY <1>6, <1>7, <1>14, <1>15, <1>16, <1>17 DEF IInv

LEMMA UnsetLockStep ==
  ASSUME IInv, NEW t \in Threads, UnsetLock(t)
  PROVE  IInv'
<1> DEFINE lock == LockSeq[site[t]][step[t]]
<1>1. pc[t] = "unlock" /\ step[t] \in 1 .. LockCount /\ site[t] \in Cells
  BY Counts DEF IInv, TypeOK, StepsInRange, UnsetLock, Step
<1>2. lock \in Cells
  BY <1>1, LocksInCells
<1>3. owner' = [owner EXCEPT ![lock] = NoThread] /\ site' = site
  BY DEF UnsetLock
<1>4. "idle" \in Phases
  BY DEF Phases
<1>5. /\ pc' \in [Threads -> Phases]
      /\ step' \in [Threads -> Nat \ {0}]
      /\ \A u \in Threads \ {t} : pc'[u] = pc[u] /\ step'[u] = step[u]
      /\ \/ step[t] < LockCount /\ pc'[t] = "unlock" /\ step'[t] = step[t] + 1
         \/ ~(step[t] < LockCount) /\ pc'[t] = "idle" /\ step'[t] = 1
  BY <1>4, Counts, StepEffect DEF IInv, UnsetLock
<1>6. TypeOK'
  BY <1>2, <1>3, <1>5 DEF IInv, TypeOK, UnsetLock
<1>7. StepsInRange'
  BY <1>1, <1>5, Counts DEF IInv, StepsInRange
<1>8. Held(t) = step[t] .. LockCount /\ Held(t)' = step[t] + 1 .. LockCount
  BY <1>1, <1>5, Counts DEF Held
<1>9. \A u \in Threads \ {t} : Held(u)' = Held(u)
  BY <1>5 DEF Held
<1>10. /\ step[t] \in Held(t)
       /\ \A n \in Held(t) : n \in Held(t)' \/ n = step[t]
       /\ \A n \in Held(t)' : n \in Held(t) /\ n # step[t]
  BY <1>1, <1>8, Counts
<1>11. \A u \in Threads : \A n \in Held(u)' :
         LockSeq[site[u]][n] \in Cells /\ LockSeq[site[u]][n] # lock
  <2> SUFFICES ASSUME NEW u \in Threads, NEW n \in Held(u)'
               PROVE  LockSeq[site[u]][n] \in Cells /\ LockSeq[site[u]][n] # lock
    OBVIOUS
  <2>1. n \in Held(u)
    BY <1>9, <1>10
  <2>2. n \in 1 .. LockCount /\ site[u] \in Cells
    BY <2>1, Counts DEF IInv, TypeOK, StepsInRange, Held
  <2>3. owner[LockSeq[site[u]][n]] = u /\ owner[lock] = t
    BY <2>1, <1>10 DEF IInv, LocksOwned
  <2>4. u = t => LockSeq[site[u]][n] # lock
    BY <2>1, <1>10 DEF IInv, LocksDistinct
  <2> QED BY <2>2, <2>3, <2>4, LocksInCells
<1>12. owner'[lock] = NoThread /\ \A c \in Cells \ {lock} : owner'[c] = owner[c]
  BY <1>2, <1>3 DEF IInv, TypeOK
<1>13. \A u \in Threads : \A n \in Held(u)' : n \in Held(u)
  BY <1>9, <1>10
<1>14. LocksOwned'
  BY <1>3, <1>11, <1>12, <1>13 DEF IInv, LocksOwned
<1>15. LocksDistinct'
  BY <1>3, <1>13 DEF IInv, LocksDistinct
<1>16. NoLockLost'
  BY <1>3, <1>9, <1>10, <1>12, ThreadsAssumption DEF IInv, NoLockLost
<1>17. LoopOver'
  BY <1>1 DEF IInv, LoopOver, UnsetLock
<1> QED BY <1>6, <1>7, <1>14, <1>15, <1>16, <1>17 DEF IInv

LEMMA GetCellStep ==
  ASSUME IInv, NEW t \in Threads, GetCell(t)
  PROVE  IInv'
<1>1. pc[t] = "get" /\ step[t] \in Slots /\ site[t] \in Cells
  BY Counts DEF IInv, TypeOK, StepsInRange, GetCell, Step, Slots
<1>2. "transition" \in Phases
  BY DEF Phases
<1>3. /\ pc' \in [Threads -> Phases]
      /\ step' \in [Threads -> Nat \ {0}]
      /\ \A u \in Threads \ {t} : pc'[u] = pc[u] /\ step'[u] = step[u]
      /\ \/ step[t] < SlotCount /\ pc'[t] = "get" /\ step'[t] = step[t] + 1
         \/ ~(step[t] < SlotCount) /\ pc'[t] = "transition" /\ step'[t] = 1
  BY <1>2, Counts, StepEffect DEF IInv, GetCell
<1>4. array[Neighbors[site[t]][step[t]]] \in Values
  BY <1>1, NeighborsInCells DEF IInv, TypeOK
<1>5. neighbors' \in [Threads -> Buffers]
  BY <1>1, <1>4 DEF IInv, TypeOK, GetCell, Buffers
<1>6. TypeOK'
  BY <1>3, <1>5 DEF IInv, TypeOK, GetCell
<1>7. StepsInRange'
  BY <1>1, <1>3, Counts DEF IInv, StepsInRange, Slots
<1>8. Held(t)' = Held(t)
  BY <1>1, <1>3 DEF Held
<1>9. owner' = owner /\ site' = site
  BY DEF GetCell
<1>10. LocksOwned' /\ LocksDistinct' /\ NoLockLost'
  BY <1>3, <1>8, <1>9, LocksUntouched
<1>11. LoopOver'
  BY <1>1 DEF IInv, LoopOver, GetCell
<1> QED BY <1>6, <1>7, <1>10, <1>11 DEF IInv

LEMMA TransitionStep ==
  ASSUME IInv, NEW t \in Threads, Transition(t)
  PROVE  IInv'
<1>1. pc[t] = "transition" /\ step[t] = 1
  BY DEF IInv, StepsInRange, Transition, Step
<1>2. "count" \in Phases
  BY DEF Phases
<1>3. /\ pc' \in [Threads -> Phases]
      /\ step' \in [Threads -> Nat \ {0}]
      /\ \A u \in Threads \ {t} : pc'[u] = pc[u] /\ step'[u] = step[u]
      /\ pc'[t] = "count" /\ step'[t] = 1
  BY <1>1, <1>2 DEF IInv, TypeOK, Transition, Step
<1>4. PICK result \in CellTransition(neighbors[t]) :
        /\ neighbors' = [neighbors EXCEPT ![t] = result[1]]
        /\ flag' = result[2]
        /\ returned' = [returned EXCEPT ![t] = result[2]]
        /\ failures' = failures + result[2]
  BY DEF Transition
<1>5. neighbors[t] \in Buffers
  BY DEF IInv, TypeOK
<1>6. result \in Buffers \X {0, 1}
  BY <1>4, <1>5, TransitionAssumption
<1>7. result[1] \in Buffers /\ result[2] \in {0, 1}
  BY <1>6
<1>8. TypeOK'
  <2>1. neighbors' \in [Threads -> Buffers] /\ returned' \in [Threads -> {0, 1}]
    BY <1>4, <1>7 DEF IInv, TypeOK
  <2>2. failures' \in Nat /\ flag' \in {0, 1}
    BY <1>4, <1>7 DEF IInv, TypeOK
  <2>3. UNCHANGED <<array, owner, errSum, counter, iterationsDone, site>>
    BY DEF Transition
  <2> QED BY <1>3, <2>1, <2>2, <2>3 DEF IInv, TypeOK
<1>9. StepsInRange'
  BY <1>3, Counts DEF IInv, StepsInRange
<1>10. Held(t)' = Held(t)
  BY <1>1, <1>3 DEF Held
<1>11. owner' = owner /\ site' = site
  BY DEF Transition
<1>12. LocksOwned' /\ LocksDistinct' /\ NoLockLost'
  BY <1>3, <1>10, <1>11, LocksUntouched
<1>13. LoopOver'
  BY <1>1 DEF IInv, LoopOver, Transition
<1> QED BY <1>8, <1>9, <1>12, <1>13 DEF IInv

LEMMA CountStep ==
  ASSUME IInv, NEW t \in Threads, Count(t)
  PROVE  IInv'
<1>1. pc[t] = "count" /\ step[t] = 1
  BY DEF IInv, StepsInRange, Count, Step
<1>2. "put" \in Phases
  BY DEF Phases
<1>3. /\ pc' \in [Threads -> Phases]
      /\ step' \in [Threads -> Nat \ {0}]
      /\ \A u \in Threads \ {t} : pc'[u] = pc[u] /\ step'[u] = step[u]
      /\ pc'[t] = "put" /\ step'[t] = 1
  BY <1>1, <1>2 DEF IInv, TypeOK, Count, Step
<1>4. errSum' \in Int
  BY DEF IInv, TypeOK, Count
<1>5. TypeOK'
  BY <1>3, <1>4 DEF IInv, TypeOK, Count
<1>6. StepsInRange'
  BY <1>3, Counts DEF IInv, StepsInRange
<1>7. Held(t)' = Held(t)
  BY <1>1, <1>3 DEF Held
<1>8. owner' = owner /\ site' = site
  BY DEF Count
<1>9. LocksOwned' /\ LocksDistinct' /\ NoLockLost'
  BY <1>3, <1>7, <1>8, LocksUntouched
<1>10. LoopOver'
  BY <1>1 DEF IInv, LoopOver, Count
<1> QED BY <1>5, <1>6, <1>9, <1>10 DEF IInv

LEMMA PutCellStep ==
  ASSUME IInv, NEW t \in Threads, PutCell(t)
  PROVE  IInv'
<1> DEFINE next == IF LockCount > 0 THEN "unlock" ELSE "idle"
<1>1. pc[t] = "put" /\ step[t] \in Slots /\ site[t] \in Cells
  BY Counts DEF IInv, TypeOK, StepsInRange, PutCell, Step, Slots
<1>2. next \in Phases
  BY DEF Phases
<1>3. /\ pc' \in [Threads -> Phases]
      /\ step' \in [Threads -> Nat \ {0}]
      /\ \A u \in Threads \ {t} : pc'[u] = pc[u] /\ step'[u] = step[u]
      /\ \/ step[t] < SlotCount /\ pc'[t] = "put" /\ step'[t] = step[t] + 1
         \/ ~(step[t] < SlotCount) /\ pc'[t] = next /\ step'[t] = 1
  BY <1>2, Counts, StepEffect DEF IInv, PutCell
<1>4. neighbors[t][step[t]] \in Values
  BY <1>1 DEF IInv, TypeOK, Buffers
<1>5. array' \in [Cells -> Values]
  BY <1>1, <1>4, NeighborsInCells DEF IInv, TypeOK, PutCell
<1>6. TypeOK'
  BY <1>3, <1>5 DEF IInv, TypeOK, PutCell
<1>7. StepsInRange'
  BY <1>1, <1>3, Counts DEF IInv, StepsInRange, Slots
<1>8. Held(t)' = Held(t)
  BY <1>1, <1>3, Counts DEF Held
<1>9. owner' = owner /\ site' = site
  BY DEF PutCell
<1>10. LocksOwned' /\ LocksDistinct' /\ NoLockLost'
  BY <1>3, <1>8, <1>9, LocksUntouched
<1>11. LoopOver'
  BY <1>1 DEF IInv, LoopOver, PutCell
<1> QED BY <1>6, <1>7, <1>10, <1>11 DEF IInv

LEMMA IInvInit == Init => IInv
<1> SUFFICES ASSUME Init PROVE IInv
  OBVIOUS
<1>1. <<0, 0>> \in Cells
  BY SizeAssumption DEF Cells
<1>2. TypeOK
  BY <1>1, ArrayAssumption, TripsAssumption
     DEF Init, TypeOK, Blank, Buffers, Phases
<1>3. StepsInRange /\ LoopOver
  BY DEF Init, StepsInRange, LoopOver
<1>4. \A t \in Threads : Held(t) = {}
  BY DEF Init, Held
<1>5. LocksOwned /\ LocksDistinct /\ NoLockLost
  BY <1>4, ThreadsAssumption DEF Init, LocksOwned, LocksDistinct, NoLockLost
<1> QED BY <1>2, <1>3, <1>5 DEF IInv

LEMMA IInvStep == IInv /\ [Next]_vars => IInv'
<1> SUFFICES ASSUME IInv, [Next]_vars PROVE IInv'
  OBVIOUS
<1>1. ASSUME NEW t \in Threads, ThreadStep(t) PROVE IInv'
  BY <1>1, TakeStep, SetLockStep, GetCellStep, TransitionStep, CountStep,
     PutCellStep, UnsetLockStep DEF ThreadStep
<1>2. CASE Return
  <2>1. TypeOK' /\ StepsInRange' /\ LoopOver'
    BY <1>2 DEF IInv, TypeOK, StepsInRange, LoopOver, Return
  <2>2. \A t \in Threads : Held(t)' = Held(t)
    BY <1>2 DEF Return, Held
  <2>3. LocksOwned' /\ LocksDistinct' /\ NoLockLost'
    BY <1>2, <2>2 DEF IInv, LocksOwned, LocksDistinct, NoLockLost, Return
  <2> QED BY <2>1, <2>3 DEF IInv
<1>3. CASE UNCHANGED vars
  BY <1>3 DEF vars, IInv, TypeOK, StepsInRange, Held, LocksOwned,
              LocksDistinct, NoLockLost, LoopOver
<1> QED BY <1>1, <1>2, <1>3 DEF Next, Returned

\* Every variable keeps its type; in particular no iteration beyond the Trips of
\* the loop is ever handed out.
THEOREM TypeCorrect == Spec => []TypeOK
<1>1. IInv => TypeOK
  BY DEF IInv
<1> QED BY IInvInit, IInvStep, <1>1, PTL DEF Spec

\* Threads at work on overlapping neighbourhoods would own the same lock.
LEMMA ExclusiveHolds ==
  ASSUME TOPOLOGY # "SQUARE8", IInv
  PROVE  Exclusive
<1> SUFFICES ASSUME NEW t \in Threads, NEW u \in Threads, t # u,
                    Accessing(t), Accessing(u),
                    NEW c \in Hood[site[t]] \cap Hood[site[u]]
             PROVE  FALSE
  BY DEF Exclusive
<1>1. site[t] \in Cells /\ site[u] \in Cells
  BY DEF IInv, TypeOK
<1>2. PICK n \in Slots : Neighbors[site[t]][n] = c
  BY <1>1 DEF Hood
<1>3. PICK m \in Slots : Neighbors[site[u]][m] = c
  BY <1>1 DEF Hood
<1>4. Held(t) = 1 .. LockCount /\ Held(u) = 1 .. LockCount
  BY DEF Accessing, Held
<1>5. PICK k \in 1 .. LockCount : LockSeq[site[t]][k] = c
  BY <1>1, <1>2, LocksCoverHood
<1>6. PICK l \in 1 .. LockCount : LockSeq[site[u]][l] = c
  BY <1>1, <1>3, LocksCoverHood
<1>7. owner[c] = t
  BY <1>4, <1>5 DEF IInv, LocksOwned
<1>8. owner[c] = u
  BY <1>4, <1>6 DEF IInv, LocksOwned
<1> QED BY <1>7, <1>8

\* In every topology but SQUARE8, on every lattice and with any number of
\* threads, no two threads work on overlapping neighbourhoods at the same time.
THEOREM MutualExclusion ==
  ASSUME TOPOLOGY # "SQUARE8"
  PROVE  Spec => []Exclusive
<1>1. IInv => Exclusive
  BY ExclusiveHolds
<1> QED BY IInvInit, IInvStep, <1>1, PTL DEF Spec

\* When CAT_Iterate returns, every lock is free again.
THEOREM LocksReleased == Spec => []LocksFree
<1>1. IInv => LocksFree
  <2> SUFFICES ASSUME IInv, iterationsDone = 1, NEW c \in Cells,
                      owner[c] # NoThread
               PROVE  FALSE
    BY DEF LocksFree
  <2>1. owner[c] \in Threads
    BY DEF IInv, TypeOK
  <2>2. \A t \in Threads : Held(t) = {}
    BY DEF IInv, LoopOver, Held
  <2> QED BY <2>1, <2>2 DEF IInv, NoLockLost
<1> QED BY IInvInit, IInvStep, <1>1, PTL DEF Spec

-----------------------------------------------------------------------------
(* Which transitions CAT_Iterate reports.                                  *)

\* How many threads f places in the phases P.
InPhases(f, P) == Cardinality({u \in Threads : f[u] \in P})

\* How many threads f places in the phases P is a number.
LEMMA InPhasesType ==
  ASSUME NEW f, NEW P
  PROVE  IsFiniteSet({u \in Threads : f[u] \in P}) /\ InPhases(f, P) \in Nat
<1> DEFINE S == {u \in Threads : f[u] \in P}
<1>1. S \in SUBSET Threads
  OBVIOUS
<1> HIDE DEF S
<1>2. IsFiniteSet(S)
  BY <1>1, ThreadsAssumption, FS_Subset
<1>3. Cardinality(S) \in Nat
  BY <1>2, FS_CardinalityType
<1> QED BY <1>2, <1>3 DEF S, InPhases

\* A thread that enters the phases P is one more, one that leaves them is one
\* less, and any other step keeps their number.
LEMMA InPhasesStep ==
  ASSUME NEW f, NEW g, NEW P, NEW t \in Threads,
         \A u \in Threads \ {t} : g[u] = f[u]
  PROVE  /\ f[t] \notin P /\ g[t] \in P => InPhases(g, P) = InPhases(f, P) + 1
         /\ f[t] \in P /\ g[t] \notin P => InPhases(g, P) = InPhases(f, P) - 1
         /\ (f[t] \in P <=> g[t] \in P) => InPhases(g, P) = InPhases(f, P)
<1> DEFINE S == {u \in Threads : f[u] \in P}
           Q == {u \in Threads : g[u] \in P}
<1>1. IsFiniteSet(S)
  BY InPhasesType
<1>2. ASSUME f[t] \notin P, g[t] \in P
      PROVE  Cardinality(Q) = Cardinality(S) + 1
  <2>1. Q = S \cup {t} /\ t \notin S
    BY <1>2
  <2> HIDE DEF S, Q
  <2> QED BY <2>1, <1>1, FS_AddElement
<1>3. ASSUME f[t] \in P, g[t] \notin P
      PROVE  Cardinality(Q) = Cardinality(S) - 1
  <2>1. Q = S \ {t} /\ t \in S
    BY <1>3
  <2> HIDE DEF S, Q
  <2> QED BY <2>1, <1>1, FS_RemoveElement
<1>4. ASSUME f[t] \in P <=> g[t] \in P
      PROVE  Cardinality(Q) = Cardinality(S)
  <2>1. Q = S
    BY <1>4
  <2> QED BY <2>1
<1> QED BY <1>2, <1>3, <1>4 DEF InPhases

\* The threads that have taken an iteration and not yet called its transition,
\* and those that have not yet counted its flag.
Early(f) == InPhases(f, {"lock", "get", "transition"})
Late(f) == InPhases(f, {"lock", "get", "transition", "count"})

\* How both numbers change when t alone goes on from one phase to another.
LEMMA EarlyLateStep ==
  ASSUME NEW f, NEW g, NEW t \in Threads,
         \A u \in Threads \ {t} : g[u] = f[u]
  PROVE  /\ Early(f) \in Nat /\ Late(f) \in Nat
         /\ f[t] = "idle" /\ g[t] \in {"lock", "get"} =>
              Early(g) = Early(f) + 1 /\ Late(g) = Late(f) + 1
         /\ f[t] = "transition" /\ g[t] = "count" =>
              Early(g) = Early(f) - 1 /\ Late(g) = Late(f)
         /\ f[t] = "count" /\ g[t] = "put" =>
              Early(g) = Early(f) /\ Late(g) = Late(f) - 1
         /\ f[t] \in {"lock", "get"} /\ g[t] \in {"lock", "get", "transition"} =>
              Early(g) = Early(f) /\ Late(g) = Late(f)
         /\ f[t] \in {"put", "unlock"} /\ g[t] \in {"idle", "put", "unlock"} =>
              Early(g) = Early(f) /\ Late(g) = Late(f)
<1>1. ASSUME NEW P
      PROVE  /\ f[t] \notin P /\ g[t] \in P => InPhases(g, P) = InPhases(f, P) + 1
             /\ f[t] \in P /\ g[t] \notin P => InPhases(g, P) = InPhases(f, P) - 1
             /\ (f[t] \in P <=> g[t] \in P) => InPhases(g, P) = InPhases(f, P)
  BY InPhasesStep
<1> DEFINE E == {"lock", "get", "transition"}
           L == {"lock", "get", "transition", "count"}
<1>2. /\ Early(f) = InPhases(f, E) /\ Early(g) = InPhases(g, E)
      /\ Late(f) = InPhases(f, L) /\ Late(g) = InPhases(g, L)
  BY DEF Early, Late
<1>3. Early(f) \in Nat /\ Late(f) \in Nat
  BY InPhasesType DEF Early, Late
<1> HIDE DEF E, L
<1>4. /\ f[t] \notin E /\ g[t] \in E => Early(g) = Early(f) + 1
      /\ f[t] \in E /\ g[t] \notin E => Early(g) = Early(f) - 1
      /\ (f[t] \in E <=> g[t] \in E) => Early(g) = Early(f)
  BY <1>1, <1>2
<1>5. /\ f[t] \notin L /\ g[t] \in L => Late(g) = Late(f) + 1
      /\ f[t] \in L /\ g[t] \notin L => Late(g) = Late(f) - 1
      /\ (f[t] \in L <=> g[t] \in L) => Late(g) = Late(f)
  BY <1>1, <1>2
<1> QED BY <1>3, <1>4, <1>5 DEF E, L

\* The two numbers are what the model counts.
LEMMA CountsAre ==
  /\ Transitions = counter - Early(pc) /\ Counted = counter - Late(pc)
  /\ Transitions' = counter' - Early(pc') /\ Counted' = counter' - Late(pc')
BY DEF Transitions, Counted, Early, Late, InPhases

\* What an action of t that takes no iteration makes of them.
LEMMA CountsStep ==
  ASSUME IInv, NEW t \in Threads, counter' = counter,
         \A u \in Threads \ {t} : pc'[u] = pc[u]
  PROVE  /\ Transitions \in Int /\ Counted \in Int
         /\ pc[t] = "transition" /\ pc'[t] = "count" =>
              Transitions' = Transitions + 1 /\ Counted' = Counted
         /\ pc[t] = "count" /\ pc'[t] = "put" =>
              Transitions' = Transitions /\ Counted' = Counted + 1
         /\ pc[t] \in {"lock", "get"} /\ pc'[t] \in {"lock", "get", "transition"} =>
              Transitions' = Transitions /\ Counted' = Counted
         /\ pc[t] \in {"put", "unlock"} /\ pc'[t] \in {"idle", "put", "unlock"} =>
              Transitions' = Transitions /\ Counted' = Counted
<1>1. counter \in Int
  BY TripsAssumption DEF IInv, TypeOK
<1>2. PICK k \in Int : k = counter
  BY <1>1
<1>3. PICK e \in Nat : e = Early(pc)
  BY EarlyLateStep
<1>4. PICK l \in Nat : l = Late(pc)
  BY EarlyLateStep
<1>5. /\ Transitions = k - e /\ Counted = k - l
      /\ Transitions' = k - Early(pc') /\ Counted' = k - Late(pc')
  BY <1>2, <1>3, <1>4, CountsAre
<1>6. /\ pc[t] = "transition" /\ pc'[t] = "count" =>
           Early(pc') = e - 1 /\ Late(pc') = l
      /\ pc[t] = "count" /\ pc'[t] = "put" =>
           Early(pc') = e /\ Late(pc') = l - 1
      /\ pc[t] \in {"lock", "get"} /\ pc'[t] \in {"lock", "get", "transition"} =>
           Early(pc') = e /\ Late(pc') = l
      /\ pc[t] \in {"put", "unlock"} /\ pc'[t] \in {"idle", "put", "unlock"} =>
           Early(pc') = e /\ Late(pc') = l
  BY <1>3, <1>4, EarlyLateStep
<1> QED BY ONLY <1>5, <1>6, <1>2, <1>3, <1>4

\* Taking an iteration changes neither number.
LEMMA CountsTake ==
  ASSUME IInv, NEW t \in Threads, Take(t)
  PROVE  Transitions' = Transitions /\ Counted' = Counted
<1>1. pc[t] = "idle" /\ step[t] = 1
  BY DEF IInv, StepsInRange, Take, Step
<1>2. /\ pc'[t] \in {"lock", "get"}
      /\ \A u \in Threads \ {t} : pc'[u] = pc[u]
  BY <1>1 DEF IInv, TypeOK, Take, Step
<1>3. PICK k \in Int : k = counter
  BY TripsAssumption DEF IInv, TypeOK
<1>4. PICK e \in Nat : e = Early(pc)
  BY <1>2, EarlyLateStep
<1>5. PICK l \in Nat : l = Late(pc)
  BY <1>2, EarlyLateStep
<1>6. Early(pc') = e + 1 /\ Late(pc') = l + 1
  BY <1>1, <1>2, <1>4, <1>5, EarlyLateStep
<1>7. counter' = k + 1
  BY <1>3 DEF Take
<1> QED BY ONLY <1>3, <1>4, <1>5, <1>6, <1>7, CountsAre

\* A step that calls no transition and counts no flag leaves what they say.
LEMMA ErrorsUntouched ==
  ASSUME ErrorsCounted, Transitions' = Transitions, Counted' = Counted,
         failures' = failures, errSum' = errSum, flag' = flag,
         \A u \in Threads : pc'[u] = "count" => pc[u] = "count" /\ returned'[u] = returned[u]
  PROVE  ErrorsCounted'
BY DEF ErrorsCounted

LEMMA ErrorsTake ==
  ASSUME IInv, ErrorsCounted, NEW t \in Threads, Take(t)
  PROVE  ErrorsCounted'
<1>1. \A u \in Threads : pc'[u] = "count" => pc[u] = "count"
  BY DEF IInv, TypeOK, StepsInRange, Take, Step
<1> QED BY <1>1, CountsTake, ErrorsUntouched DEF Take

LEMMA ErrorsTransition ==
  ASSUME IInv, ErrorsCounted, NEW t \in Threads, Transition(t)
  PROVE  ErrorsCounted'
<1>1. pc[t] = "transition" /\ step[t] = 1
  BY DEF IInv, StepsInRange, Transition, Step
<1>2. pc'[t] = "count" /\ \A u \in Threads \ {t} : pc'[u] = pc[u]
  BY <1>1 DEF IInv, TypeOK, Transition, Step
<1>3. counter' = counter /\ errSum' = errSum
  BY DEF Transition
<1>4. Transitions \in Int /\ Transitions' = Transitions + 1 /\ Counted' = Counted
  BY <1>1, <1>2, <1>3, CountsStep
<1>5. PICK result \in CellTransition(neighbors[t]) :
        /\ flag' = result[2]
        /\ returned' = [returned EXCEPT ![t] = result[2]]
        /\ failures' = failures + result[2]
  BY DEF Transition
<1>6. result[2] \in {0, 1}
  BY <1>5, TransitionAssumption DEF IInv, TypeOK
<1>7. PICK r \in {0, 1} : r = result[2]
  BY <1>6
<1>8. /\ flag' = r /\ returned'[t] = r /\ failures' = failures + r
      /\ \A u \in Threads \ {t} : returned'[u] = returned[u]
  BY <1>5, <1>7 DEF IInv, TypeOK
<1>9. failures \in Nat
  BY DEF IInv, TypeOK
<1>10. failures <= Transitions
  BY DEF ErrorsCounted
<1>11. /\ failures' <= Transitions'
       /\ failures' = 0 => failures = 0 /\ r = 0
       /\ failures' = Transitions' => failures = Transitions /\ r = 1
  BY ONLY <1>4, <1>8, <1>9, <1>10
<1>12. failures' = 0 =>
         /\ errSum' = Trips - Counted'
         /\ flag' = 0
         /\ \A u \in Threads : pc'[u] = "count" => returned'[u] = 0
  BY <1>2, <1>3, <1>4, <1>8, <1>11 DEF ErrorsCounted
<1>13. failures' = Transitions' =>
         /\ errSum' = Trips
         /\ \A u \in Threads : pc'[u] = "count" => flag' = 1 /\ returned'[u] = 1
  BY <1>2, <1>3, <1>8, <1>11 DEF ErrorsCounted
<1> QED BY <1>11, <1>12, <1>13 DEF ErrorsCounted

LEMMA ErrorsCount ==
  ASSUME IInv, ErrorsCounted, NEW t \in Threads, Count(t)
  PROVE  ErrorsCounted'
<1>1. pc[t] = "count" /\ step[t] = 1
  BY DEF IInv, StepsInRange, Count, Step
<1>2. pc'[t] = "put" /\ \A u \in Threads \ {t} : pc'[u] = pc[u]
  BY <1>1 DEF IInv, TypeOK, Count, Step
<1>3. UNCHANGED <<counter, flag, returned, failures>>
  BY DEF Count
<1>4. /\ Transitions' = Transitions
      /\ Counted \in Int /\ Counted' = Counted + 1
  BY <1>1, <1>2, <1>3, CountsStep
<1>5. PICK f \in {returned[t], flag} : errSum' = errSum - (1 - f)
  BY DEF Count
<1>6. errSum \in Int /\ Trips \in Int
  BY TripsAssumption DEF IInv, TypeOK
<1>7. failures = 0 => errSum' = Trips - Counted'
  <2> SUFFICES ASSUME failures = 0 PROVE errSum' = Trips - Counted'
    OBVIOUS
  <2>1. f = 0 /\ errSum = Trips - Counted
    BY <1>1 DEF ErrorsCounted
  <2> QED BY ONLY <2>1, <1>4, <1>5, <1>6
<1>8. failures = Transitions => errSum' = Trips
  <2> SUFFICES ASSUME failures = Transitions PROVE errSum' = Trips
    OBVIOUS
  <2>1. f = 1 /\ errSum = Trips
    BY <1>1 DEF ErrorsCounted
  <2> QED BY ONLY <2>1, <1>5, <1>6
<1>9. \A u \in Threads : pc'[u] = "count" => pc[u] = "count"
  BY <1>2
<1> QED BY <1>3, <1>4, <1>7, <1>8, <1>9 DEF ErrorsCounted

LEMMA ErrorsStep == IInv /\ ErrorsCounted /\ [Next]_vars => ErrorsCounted'
<1> SUFFICES ASSUME IInv, ErrorsCounted, [Next]_vars PROVE ErrorsCounted'
  OBVIOUS
<1>1. ASSUME NEW t \in Threads, SetLock(t) \/ GetCell(t) \/ PutCell(t) \/ UnsetLock(t)
      PROVE  ErrorsCounted'
  <2>1. /\ \A u \in Threads \ {t} : pc'[u] = pc[u]
        /\ \/ pc[t] \in {"lock", "get"} /\ pc'[t] \in {"lock", "get", "transition"}
           \/ pc[t] \in {"put", "unlock"} /\ pc'[t] \in {"idle", "put", "unlock"}
    BY <1>1 DEF IInv, TypeOK, SetLock, GetCell, PutCell, UnsetLock, Step
  <2>2. UNCHANGED <<counter, flag, errSum, returned, failures>>
    BY <1>1 DEF SetLock, GetCell, PutCell, UnsetLock
  <2>3. Transitions' = Transitions /\ Counted' = Counted
    BY <2>1, <2>2, CountsStep
  <2>4. \A u \in Threads : pc'[u] = "count" => pc[u] = "count"
    BY <2>1
  <2> QED BY <2>2, <2>3, <2>4, ErrorsUntouched
<1>2. ASSUME NEW t \in Threads, ThreadStep(t) PROVE ErrorsCounted'
  BY <1>1, <1>2, ErrorsTake, ErrorsTransition, ErrorsCount DEF ThreadStep
<1>3. CASE Return \/ UNCHANGED vars
  BY <1>3 DEF Return, vars, ErrorsCounted, Transitions, Counted
<1> QED BY <1>2, <1>3 DEF Next, Returned

LEMMA ErrorsInit == Init => ErrorsCounted
<1> SUFFICES ASSUME Init PROVE ErrorsCounted
  OBVIOUS
<1>1. {u \in Threads : pc[u] \in {"lock", "get", "transition"}} = {}
  BY DEF Init
<1>2. {u \in Threads : pc[u] \in {"lock", "get", "transition", "count"}} = {}
  BY DEF Init
<1>3. Transitions = 0 /\ Counted = 0
  BY <1>1, <1>2, FS_EmptySet DEF Init, Transitions, Counted
<1>4. \A t \in Threads : pc[t] # "count"
  BY DEF Init
<1> QED BY <1>3, <1>4, TripsAssumption DEF Init, ErrorsCounted

\* With any number of threads and whatever the races on the shared flag, a call
\* whose transitions all failed or all succeeded returns how many failed.
THEOREM UnanimousErrors == Spec => []UnanimousReported
<1>1. IInv /\ ErrorsCounted => UnanimousReported
  <2> SUFFICES ASSUME IInv, ErrorsCounted, iterationsDone = 1,
                      failures \in {0, Trips}
               PROVE  errSum = failures
    BY DEF UnanimousReported
  <2>1. counter = Trips /\ \A t \in Threads : pc[t] = "idle"
    BY DEF IInv, LoopOver
  <2>2. {u \in Threads : pc[u] \in {"lock", "get", "transition"}} = {}
    BY <2>1
  <2>3. {u \in Threads : pc[u] \in {"lock", "get", "transition", "count"}} = {}
    BY <2>1
  <2>4. Transitions = Trips /\ Counted = Trips
    BY <2>1, <2>2, <2>3, FS_EmptySet, TripsAssumption DEF Transitions, Counted
  <2> QED BY <2>4, TripsAssumption DEF ErrorsCounted
<1>2. Init => IInv /\ ErrorsCounted
  BY IInvInit, ErrorsInit
<1>3. IInv /\ ErrorsCounted /\ [Next]_vars => (IInv /\ ErrorsCounted)'
  BY IInvStep, ErrorsStep
<1> QED BY <1>1, <1>2, <1>3, PTL DEF Spec

-----------------------------------------------------------------------------
(* The loop implements a serial order of its updates.                      *)

\* A set of slots has a last one.
LEMMA LastExists ==
  ASSUME NEW S, NEW n \in Nat, S \subseteq 1 .. n, S # {}
  PROVE  \E x \in S : \A y \in S : y <= x
<1> DEFINE R == OpToRel(<, Nat)
           T == {n - x : x \in S}
<1>1. T \subseteq Nat /\ T # {}
  <2>1. \A x \in S : x \in 1 .. n /\ n - x \in Nat
    OBVIOUS
  <2>2. PICK x \in S : TRUE
    OBVIOUS
  <2>3. n - x \in T
    OBVIOUS
  <2> QED BY <2>1, <2>3
<1>2. IsWellFoundedOn(R, Nat)
  BY NatLessThanWellFounded
<1> HIDE DEF R
<1>3. PICK k \in T : \A l \in T : ~(<<l, k>> \in R)
  <2> HIDE DEF T
  <2> QED BY <1>1, <1>2, WFMin
<1>4. \A l \in T : ~(l < k)
  BY <1>1, <1>3 DEF R, OpToRel
<1>5. PICK x \in S : k = n - x
  OBVIOUS
<1>6. ASSUME NEW y \in S PROVE y <= x
  BY <1>4, <1>5
<1> QED BY <1>6

\* LastSlot is the last slot that belongs to a cell.
LEMMA LastSlotIs ==
  ASSUME NEW c \in Cells, NEW d \in Hood[c]
  PROVE  /\ LastSlot[c][d] \in Slots
         /\ Neighbors[c][LastSlot[c][d]] = d
         /\ \A m \in Slots : Neighbors[c][m] = d => m <= LastSlot[c][d]
<1> DEFINE S == {n \in Slots : Neighbors[c][n] = d}
<1>1. S \subseteq 1 .. SlotCount /\ S # {}
  BY DEF Slots, Hood
<1>2. SlotCount \in Nat
  BY Counts
<1>3. \E x \in S : \A y \in S : y <= x
  <2> HIDE DEF S
  <2> QED BY <1>1, <1>2, LastExists
<1>4. \E n \in Slots : /\ Neighbors[c][n] = d
                       /\ \A m \in Slots : Neighbors[c][m] = d => m <= n
  BY <1>3
<1>5. LastSlot[c][d] = CHOOSE n \in Slots :
                         /\ Neighbors[c][n] = d
                         /\ \A m \in Slots : Neighbors[c][m] = d => m <= n
  BY DEF LastSlot
<1> QED BY <1>4, <1>5

\* The buffer of a neighbourhood that is exclusively t's stays what was copied:
\* CopiesFresh is kept.
LEMMA CopiesKept ==
  ASSUME IInv, CopiesFresh, NEW t \in Threads,
         array' = array, site' = site,
         \A u \in Threads \ {t} :
           pc'[u] = pc[u] /\ step'[u] = step[u] /\ neighbors'[u] = neighbors[u],
         pc'[t] \notin {"get", "transition"}
  PROVE  CopiesFresh'
BY DEF CopiesFresh

LEMMA CopiesGetCell ==
  ASSUME IInv, CopiesFresh, NEW t \in Threads, GetCell(t)
  PROVE  CopiesFresh'
<1>1. pc[t] = "get" /\ step[t] \in Slots /\ site[t] \in Cells /\ step[t] <= SlotCount
  BY Counts DEF IInv, TypeOK, StepsInRange, GetCell, Step, Slots
<1>2. "transition" \in Phases
  BY DEF Phases
<1>3. /\ \A u \in Threads \ {t} : pc'[u] = pc[u] /\ step'[u] = step[u]
      /\ \/ step[t] < SlotCount /\ pc'[t] = "get" /\ step'[t] = step[t] + 1
         \/ ~(step[t] < SlotCount) /\ pc'[t] = "transition" /\ step'[t] = 1
  BY <1>2, Counts, StepEffect DEF IInv, GetCell
<1>4. /\ array' = array /\ site' = site
      /\ neighbors' = [neighbors EXCEPT
                        ![t][step[t]] = array[Neighbors[site[t]][step[t]]]]
  BY DEF GetCell
<1>5. neighbors[t] \in Buffers /\ neighbors \in [Threads -> Buffers]
  BY DEF IInv, TypeOK
<1>6. /\ \A u \in Threads \ {t} : neighbors'[u] = neighbors[u]
      /\ neighbors'[t][step[t]] = array[Neighbors[site[t]][step[t]]]
      /\ \A n \in Slots \ {step[t]} : neighbors'[t][n] = neighbors[t][n]
  BY <1>1, <1>4, <1>5 DEF Buffers
<1>7. ASSUME NEW n \in Slots, pc'[t] = "transition" \/ n < step'[t]
      PROVE  n = step[t] \/ n < step[t]
  BY <1>1, <1>3, <1>7, Counts DEF Slots
<1>8. ASSUME NEW n \in Slots, (pc'[t] = "get" /\ n < step'[t]) \/ pc'[t] = "transition"
      PROVE  neighbors'[t][n] = array'[Neighbors[site'[t]][n]]
  BY <1>1, <1>4, <1>6, <1>7, <1>8 DEF CopiesFresh
<1> QED BY <1>3, <1>4, <1>6, <1>8 DEF CopiesFresh

LEMMA CopiesPutCell ==
  ASSUME TOPOLOGY # "SQUARE8", IInv, CopiesFresh, NEW t \in Threads, PutCell(t)
  PROVE  CopiesFresh'
<1> DEFINE cell == Neighbors[site[t]][step[t]]
<1>1. pc[t] = "put" /\ step[t] \in Slots /\ site[t] \in Cells
  BY Counts DEF IInv, TypeOK, StepsInRange, PutCell, Step, Slots
<1>2. /\ \A u \in Threads \ {t} : pc'[u] = pc[u] /\ step'[u] = step[u]
      /\ pc'[t] \notin {"get", "transition"}
  BY <1>1 DEF PutCell, Step, IInv, TypeOK
<1>3. UNCHANGED <<site, neighbors>>
  BY DEF PutCell
<1>4. \A c \in Cells : c # cell => array'[c] = array[c]
  BY DEF PutCell, IInv, TypeOK
<1>5. ASSUME NEW u \in Threads \ {t}, NEW n \in Slots, pc[u] \in {"get", "transition"}
      PROVE  array'[Neighbors[site[u]][n]] = array[Neighbors[site[u]][n]]
  <2>1. site[u] \in Cells
    BY DEF IInv, TypeOK
  <2>2. cell \in Hood[site[t]] /\ Neighbors[site[u]][n] \in Hood[site[u]]
    BY <1>1, <2>1 DEF Hood
  <2>3. Hood[site[t]] \cap Hood[site[u]] = {}
    BY <1>1, <1>5, ExclusiveHolds DEF Exclusive, Accessing
  <2> QED BY <1>4, <2>1, <2>2, <2>3, NeighborsInCells
<1> QED BY <1>2, <1>3, <1>5 DEF CopiesFresh

LEMMA CopiesStep ==
  ASSUME TOPOLOGY # "SQUARE8"
  PROVE  IInv /\ CopiesFresh /\ [Next]_vars => CopiesFresh'
<1> SUFFICES ASSUME IInv, CopiesFresh, [Next]_vars PROVE CopiesFresh'
  OBVIOUS
<1>1. ASSUME NEW t \in Threads, Take(t) PROVE CopiesFresh'
  <2>1. step[t] = 1 /\ pc[t] = "idle"
    BY <1>1 DEF IInv, StepsInRange, Take, Step
  <2>2. /\ pc'[t] # "transition" /\ step'[t] = 1
        /\ \A u \in Threads \ {t} : /\ pc'[u] = pc[u] /\ step'[u] = step[u]
                                    /\ site'[u] = site[u]
                                    /\ neighbors'[u] = neighbors[u]
    BY <1>1, <2>1 DEF IInv, TypeOK, Take, Step
  <2>3. array' = array /\ \A n \in Slots : ~(n < 1)
    BY <1>1 DEF Take, Slots
  <2> QED BY <2>2, <2>3 DEF CopiesFresh
<1>2. ASSUME NEW t \in Threads, SetLock(t) PROVE CopiesFresh'
  <2>1. /\ pc'[t] # "transition" /\ (pc'[t] = "get" => step'[t] = 1)
        /\ \A u \in Threads \ {t} : pc'[u] = pc[u] /\ step'[u] = step[u]
    BY <1>2 DEF IInv, TypeOK, SetLock, Step
  <2>2. UNCHANGED <<array, site, neighbors>> /\ \A n \in Slots : ~(n < 1)
    BY <1>2 DEF SetLock, Slots
  <2> QED BY <2>1, <2>2 DEF CopiesFresh
<1>3. ASSUME NEW t \in Threads, Transition(t) \/ Count(t) \/ UnsetLock(t)
      PROVE  CopiesFresh'
  <2>1. /\ pc'[t] \notin {"get", "transition"}
        /\ \A u \in Threads \ {t} : pc'[u] = pc[u] /\ step'[u] = step[u]
    BY <1>3 DEF IInv, TypeOK, StepsInRange, Transition, Count, UnsetLock, Step
  <2>2. \A u \in Threads \ {t} : neighbors'[u] = neighbors[u]
    BY <1>3 DEF IInv, TypeOK, Transition, Count, UnsetLock
  <2>3. array' = array /\ site' = site
    BY <1>3 DEF Transition, Count, UnsetLock
  <2> QED BY <2>1, <2>2, <2>3, CopiesKept
<1>4. ASSUME NEW t \in Threads, ThreadStep(t) PROVE CopiesFresh'
  BY <1>1, <1>2, <1>3, <1>4, CopiesGetCell, CopiesPutCell DEF ThreadStep
<1>5. CASE Return \/ UNCHANGED vars
  BY <1>5 DEF Return, vars, CopiesFresh
<1> QED BY <1>4, <1>5 DEF Next, Returned

\* A thread that has slots of a cell to copy back works on its neighbourhood, and
\* no other thread has.
LEMMA PendingAccesses ==
  ASSUME IInv, NEW t \in Threads, NEW c \in Cells, Pending(t, c) # {}
  PROVE  Accessing(t) /\ site[t] \in Cells /\ c \in Hood[site[t]]
BY DEF IInv, TypeOK, Pending, Accessing, Hood

LEMMA PendingUnique ==
  ASSUME TOPOLOGY # "SQUARE8", IInv, NEW c \in Cells,
         NEW t \in Threads, Pending(t, c) # {},
         NEW u \in Threads, Pending(u, c) # {}
  PROVE  t = u
BY PendingAccesses, ExclusiveHolds DEF Exclusive

\* What Committed is, cell by cell.
CommittedIs ==
  \A c \in Cells :
    /\ \A t \in Threads :
         Pending(t, c) # {} => Committed[c] = neighbors[t][LastSlot[site[t]][c]]
    /\ (\A t \in Threads : Pending(t, c) = {}) => Committed[c] = array[c]

LEMMA CommittedValue ==
  ASSUME TOPOLOGY # "SQUARE8"
  PROVE  IInv => CommittedIs
<1> SUFFICES ASSUME IInv, NEW c \in Cells
             PROVE  /\ \A t \in Threads : Pending(t, c) # {} =>
                         Committed[c] = neighbors[t][LastSlot[site[t]][c]]
                    /\ (\A t \in Threads : Pending(t, c) = {}) =>
                         Committed[c] = array[c]
  BY DEF CommittedIs
<1>1. ASSUME NEW t \in Threads, Pending(t, c) # {}
      PROVE  Committed[c] = neighbors[t][LastSlot[site[t]][c]]
  <2> DEFINE u == CHOOSE u \in Threads : Pending(u, c) # {}
  <2>1. u \in Threads /\ Pending(u, c) # {}
    BY <1>1
  <2>2. u = t
    BY <1>1, <2>1, PendingUnique
  <2>3. Committed[c] = neighbors[u][LastSlot[site[u]][c]]
    BY <1>1 DEF Committed
  <2> QED BY <2>2, <2>3
<1>2. ASSUME \A t \in Threads : Pending(t, c) = {} PROVE Committed[c] = array[c]
  BY <1>2 DEF Committed
<1> QED BY <1>1, <1>2

LEMMA CommittedNext ==
  ASSUME TOPOLOGY # "SQUARE8"
  PROVE  IInv /\ [Next]_vars => CommittedIs /\ CommittedIs'
BY CommittedValue, IInvStep, PTL

\* A step that leaves alone what is pending, the buffers it is in and the cells no
\* thread has to write is invisible.
LEMMA CommittedUnchanged ==
  ASSUME CommittedIs, CommittedIs',
         \A t \in Threads, c \in Cells :
           /\ Pending(t, c)' = Pending(t, c)
           /\ Pending(t, c) # {} =>
                neighbors'[t] = neighbors[t] /\ site'[t] = site[t],
         array' = array
  PROVE  Committed' = Committed
<1>1. ASSUME NEW c \in Cells PROVE Committed'[c] = Committed[c]
  <2>1. CASE \A t \in Threads : Pending(t, c) = {}
    <3>1. \A t \in Threads : Pending(t, c)' = {}
      BY <2>1
    <3> QED BY <2>1, <3>1 DEF CommittedIs
  <2>2. CASE \E t \in Threads : Pending(t, c) # {}
    <3>1. PICK t \in Threads : Pending(t, c) # {}
      BY <2>2
    <3>2. Pending(t, c)' # {}
      BY <3>1
    <3>3. /\ Committed[c] = neighbors[t][LastSlot[site[t]][c]]
          /\ Committed'[c] = neighbors'[t][LastSlot[site'[t]][c]]
      BY <3>1, <3>2 DEF CommittedIs
    <3> QED BY <3>1, <3>3
  <2> QED BY <2>1, <2>2
<1>2. /\ Committed = [c \in Cells |-> Committed[c]]
      /\ Committed' = [c \in Cells |-> Committed'[c]]
  BY DEF Committed
<1> QED BY <1>1, <1>2

\* The steps of t that neither call a transition nor write a cell.
LEMMA CommittedQuiet ==
  ASSUME IInv, CommittedIs, CommittedIs', NEW t \in Threads,
         Take(t) \/ SetLock(t) \/ GetCell(t) \/ Count(t) \/ UnsetLock(t)
  PROVE  Committed' = Committed
<1>1. \A u \in Threads \ {t} :
        /\ pc'[u] = pc[u] /\ step'[u] = step[u] /\ site'[u] = site[u]
        /\ neighbors'[u] = neighbors[u]
  BY DEF IInv, TypeOK, Take, SetLock, GetCell, Count, UnsetLock, Step
<1>2. \/ pc[t] \notin {"count", "put"} /\ pc'[t] \notin {"count", "put"}
      \/ /\ pc[t] = "count" /\ pc'[t] = "put" /\ step'[t] = step[t]
         /\ site' = site /\ neighbors' = neighbors
  BY DEF IInv, TypeOK, StepsInRange, Take, SetLock, GetCell, Count, UnsetLock, Step
<1>3. \A c \in Cells :
        /\ Pending(t, c)' = Pending(t, c)
        /\ Pending(t, c) # {} => neighbors'[t] = neighbors[t] /\ site'[t] = site[t]
  BY <1>2 DEF Pending
<1>4. \A u \in Threads \ {t}, c \in Cells : Pending(u, c)' = Pending(u, c)
  BY <1>1 DEF Pending
<1>5. array' = array
  BY DEF Take, SetLock, GetCell, Count, UnsetLock
<1> QED BY <1>1, <1>3, <1>4, <1>5, CommittedUnchanged

\* Writing a slot back changes nothing either: the cell has the value it was
\* bound to have, or another slot of the same cell is still to be written.
LEMMA CommittedPut ==
  ASSUME TOPOLOGY # "SQUARE8", IInv, CommittedIs, CommittedIs',
         NEW t \in Threads, PutCell(t)
  PROVE  Committed' = Committed
<1>1. pc[t] = "put" /\ step[t] \in Slots /\ site[t] \in Cells
  BY Counts DEF IInv, TypeOK, StepsInRange, PutCell, Step, Slots
<1>2. /\ \A u \in Threads \ {t} : pc'[u] = pc[u] /\ step'[u] = step[u]
      /\ \/ step[t] < SlotCount /\ pc'[t] = "put" /\ step'[t] = step[t] + 1
         \/ step[t] = SlotCount /\ pc'[t] \notin {"count", "put"}
  BY <1>1, Counts DEF PutCell, Step, IInv, TypeOK, Slots
<1>3. UNCHANGED <<site, neighbors>>
  BY DEF PutCell
<1>4. PICK cell \in Cells : cell = Neighbors[site[t]][step[t]] /\ cell \in Hood[site[t]]
  BY <1>1, NeighborsInCells DEF Hood
<1>5. PICK last : last = LastSlot[site[t]][cell]
  OBVIOUS
<1>6. /\ array'[cell] = neighbors[t][step[t]]
      /\ \A c \in Cells \ {cell} : array'[c] = array[c]
  BY <1>4 DEF PutCell, IInv, TypeOK
<1>7. \A u \in Threads \ {t}, c \in Cells : Pending(u, c)' = Pending(u, c)
  BY <1>2, <1>3 DEF Pending
<1>8. \A n \in Slots : n # step[t] =>
        (n >= step[t] <=> step[t] < SlotCount /\ n >= step[t] + 1)
  BY <1>1, Counts DEF Slots
<1>9. \A c \in Cells \ {cell} : Pending(t, c)' = Pending(t, c)
  <2> SUFFICES ASSUME NEW c \in Cells \ {cell}
               PROVE  Pending(t, c)' = Pending(t, c)
    OBVIOUS
  <2>1. Pending(t, c) = {n \in Slots : n >= step[t] /\ Neighbors[site[t]][n] = c}
    BY <1>1 DEF Pending
  <2>2. CASE step[t] < SlotCount
    <3>1. pc'[t] = "put" /\ step'[t] = step[t] + 1
      BY <1>1, <1>2, <2>2, Counts DEF Slots
    <3>2. Pending(t, c)' = {n \in Slots : n >= step[t] + 1 /\ Neighbors[site[t]][n] = c}
      BY <1>3, <3>1 DEF Pending
    <3>3. \A n \in Slots : Neighbors[site[t]][n] = c =>
            (n >= step[t] <=> n >= step[t] + 1)
      BY <1>4, <1>8, <2>2
    <3> QED BY <2>1, <3>2, <3>3
  <2>3. CASE step[t] = SlotCount
    <3>1. Pending(t, c)' = {}
      BY <1>2, <2>3, Counts DEF Pending
    <3>2. \A n \in Slots : n >= step[t] => n = step[t]
      BY <2>3, Counts DEF Slots
    <3> QED BY <1>4, <2>1, <3>1, <3>2
  <2> QED BY <1>2, <2>2, <2>3
<1>10. step[t] \in Pending(t, cell)
  BY <1>1, <1>4 DEF Pending, Slots
<1>11. Committed[cell] = neighbors[t][last]
  BY <1>4, <1>10, <1>5 DEF CommittedIs
<1>12. ASSUME NEW c \in Cells PROVE Committed'[c] = Committed[c]
  <2>1. CASE c # cell /\ \E u \in Threads : Pending(u, c) # {}
    <3>1. PICK u \in Threads : Pending(u, c) # {}
      BY <2>1
    <3>2. Pending(u, c)' # {}
      BY <2>1, <3>1, <1>7, <1>9
    <3> QED BY <3>1, <3>2, <1>3 DEF CommittedIs
  <2>2. CASE c # cell /\ \A u \in Threads : Pending(u, c) = {}
    <3>1. \A u \in Threads : Pending(u, c)' = {}
      BY <2>2, <1>7, <1>9
    <3> QED BY <2>2, <3>1, <1>6 DEF CommittedIs
  <2>3. CASE c = cell /\ Pending(t, cell)' # {}
    <3>1. Committed'[cell] = neighbors'[t][LastSlot[site'[t]][cell]]
      BY <2>3, <1>4 DEF CommittedIs
    <3> QED BY <3>1, <2>3, <1>3, <1>11, <1>5
  <2>4. CASE c = cell /\ Pending(t, cell)' = {}
    <3>1. \A u \in Threads : Pending(u, cell)' = {}
      BY <2>4, <1>4, <1>7, <1>10, PendingUnique
    <3>2. Committed'[cell] = array'[cell]
      BY <3>1, <1>4 DEF CommittedIs
    <3>3. /\ last \in Slots /\ Neighbors[site[t]][last] = cell
          /\ step[t] <= last
      BY <1>1, <1>4, <1>5, LastSlotIs
    <3>4. last = step[t]
      <4>1. CASE step[t] < SlotCount
        <5>1. pc'[t] = "put" /\ step'[t] = step[t] + 1
          BY <1>1, <1>2, <4>1, Counts DEF Slots
        <5>2. Pending(t, cell)' =
                {n \in Slots : n >= step[t] + 1 /\ Neighbors[site[t]][n] = cell}
          BY <1>3, <5>1 DEF Pending
        <5>3. ~(last >= step[t] + 1)
          BY <2>4, <3>3, <5>2
        <5> QED BY <5>3, <3>3, <1>1 DEF Slots
      <4>2. CASE step[t] = SlotCount
        BY <4>2, <3>3, Counts DEF Slots
      <4> QED BY <1>2, <4>1, <4>2
    <3> QED BY <2>4, <3>2, <3>4, <1>6, <1>11
  <2> QED BY <2>1, <2>2, <2>3, <2>4
<1>13. /\ Committed = [c \in Cells |-> Committed[c]]
       /\ Committed' = [c \in Cells |-> Committed'[c]]
  BY DEF Committed
<1> QED BY <1>12, <1>13

\* The call of cellTransition is the moment of the update: it gets the
\* neighbourhood the committed array has and replaces it by its result.
LEMMA CommittedTransition ==
  ASSUME TOPOLOGY # "SQUARE8", IInv, CopiesFresh, CommittedIs, CommittedIs',
         NEW t \in Threads, Transition(t)
  PROVE  \E result \in CellTransition(Gather(Committed, site[t])) :
           /\ failures' = failures + result[2]
           /\ Committed' = Scatter(Committed, site[t], result[1])
<1>1. pc[t] = "transition" /\ step[t] = 1 /\ site[t] \in Cells
  BY DEF IInv, TypeOK, StepsInRange, Transition, Step
<1>2. /\ pc'[t] = "count" /\ step'[t] = 1
      /\ \A u \in Threads \ {t} : pc'[u] = pc[u] /\ step'[u] = step[u]
  BY <1>1 DEF IInv, TypeOK, Transition, Step
<1>3. UNCHANGED <<array, site>>
  BY DEF Transition
<1>4. PICK result \in CellTransition(neighbors[t]) :
        /\ neighbors' = [neighbors EXCEPT ![t] = result[1]]
        /\ failures' = failures + result[2]
  BY DEF Transition
<1>5. /\ neighbors'[t] = result[1]
      /\ \A u \in Threads \ {t} : neighbors'[u] = neighbors[u]
  BY <1>4 DEF IInv, TypeOK
<1>6. \A c \in Cells : Pending(t, c) = {}
  BY <1>1 DEF Pending
<1>7. ASSUME NEW c \in Hood[site[t]], c \in Cells
      PROVE  \A u \in Threads : Pending(u, c) = {}
  <2> SUFFICES ASSUME NEW u \in Threads, Pending(u, c) # {} PROVE FALSE
    OBVIOUS
  <2>1. u # t
    BY <1>6, <1>7
  <2>2. Accessing(u) /\ c \in Hood[site[u]]
    BY <1>7, PendingAccesses
  <2> QED BY <2>1, <2>2, <1>1, ExclusiveHolds DEF Exclusive, Accessing
<1>8. Gather(Committed, site[t]) = neighbors[t]
  <2>1. ASSUME NEW n \in Slots
        PROVE  Committed[Neighbors[site[t]][n]] = neighbors[t][n]
    <3>1. Neighbors[site[t]][n] \in Cells /\ Neighbors[site[t]][n] \in Hood[site[t]]
      BY <1>1, NeighborsInCells DEF Hood
    <3>2. Committed[Neighbors[site[t]][n]] = array[Neighbors[site[t]][n]]
      BY <3>1, <1>7 DEF CommittedIs
    <3> QED BY <3>2, <1>1 DEF CopiesFresh
  <2>2. neighbors[t] = [n \in Slots |-> neighbors[t][n]]
    BY DEF IInv, TypeOK, Buffers
  <2> QED BY <2>1, <2>2 DEF Gather
<1>9. ASSUME NEW c \in Cells
      PROVE  Committed'[c] = Scatter(Committed, site[t], result[1])[c]
  <2>1. CASE c \in Hood[site[t]]
    <3>1. PICK n \in Slots : Neighbors[site[t]][n] = c
      BY <2>1, <1>1 DEF Hood
    <3>2. n \in Pending(t, c)'
      BY <3>1, <1>2, <1>3 DEF Pending, Slots
    <3>3. Committed'[c] = neighbors'[t][LastSlot[site'[t]][c]]
      BY <3>2 DEF CommittedIs
    <3> QED BY <2>1, <3>3, <1>3, <1>5 DEF Scatter
  <2>2. CASE c \notin Hood[site[t]]
    <3>1. Pending(t, c)' = {}
      BY <2>2, <1>1, <1>3 DEF Pending, Hood
    <3>2. \A u \in Threads \ {t} : Pending(u, c)' = Pending(u, c)
      BY <1>2, <1>3 DEF Pending
    <3>3. Committed'[c] = Committed[c]
      <4>1. CASE \A u \in Threads : Pending(u, c) = {}
        BY <4>1, <3>1, <3>2, <1>3 DEF CommittedIs
      <4>2. CASE \E u \in Threads : Pending(u, c) # {}
        <5>1. PICK u \in Threads : Pending(u, c) # {}
          BY <4>2
        <5>2. u # t /\ Pending(u, c)' # {}
          BY <5>1, <1>6, <3>2
        <5> QED BY <5>1, <5>2, <1>3, <1>5 DEF CommittedIs
      <4> QED BY <4>1, <4>2
    <3> QED BY <2>2, <3>3 DEF Scatter
  <2> QED BY <2>1, <2>2
<1>10. /\ Committed' = [c \in Cells |-> Committed'[c]]
       /\ Scatter(Committed, site[t], result[1]) =
            [c \in Cells |-> Scatter(Committed, site[t], result[1])[c]]
  BY DEF Committed, Scatter
<1>11. Committed' = Scatter(Committed, site[t], result[1])
  BY <1>9, <1>10
<1> QED BY <1>4, <1>8, <1>11

\* The abstract specification's lattice and copies are the loop's own.
LEMMA SameCopies ==
  ASSUME NEW a, NEW c, NEW b
  PROVE  /\ Serial!Cells = Cells
         /\ Serial!Gather(a, c) = Gather(a, c)
         /\ Serial!Scatter(a, c, b) = Scatter(a, c, b)
<1>1. /\ Serial!Cells = Cells
      /\ Serial!Neighbors = Neighbors
      /\ Serial!Slots = Slots
  BY DEF Serial!Neighbors, Neighbors, Serial!Slots, Slots, Serial!SlotCount,
         SlotCount, Serial!Cells, Cells, Serial!Shift, Shift,
         Serial!NeighborOffsets, NeighborOffsets, Serial!Square4Offsets,
         Square4Offsets, Serial!Square8Offsets, Square8Offsets,
         Serial!Square24Offsets, Square24Offsets, Serial!HexagonOffsets,
         HexagonOffsets, Serial!Window, Window
<1>2. Serial!Hood = Hood
  BY <1>1 DEF Serial!Hood, Hood
<1>3. Serial!LastSlot = LastSlot
  BY <1>1, <1>2 DEF Serial!LastSlot, LastSlot
<1>4. Serial!Gather(a, c) = Gather(a, c)
  BY <1>1 DEF Serial!Gather, Gather
<1>5. Serial!Scatter(a, c, b) = Scatter(a, c, b)
  BY <1>1, <1>2, <1>3 DEF Serial!Scatter, Scatter
<1> QED BY <1>1, <1>4, <1>5

LEMMA SerialInit == Init => CopiesFresh /\ Serial!Init
<1> SUFFICES ASSUME Init PROVE CopiesFresh /\ Serial!Init
  OBVIOUS
<1>1. \A t \in Threads : pc[t] = "idle"
  BY DEF Init
<1>2. CopiesFresh
  BY <1>1 DEF CopiesFresh
<1>3. \A t \in Threads, c \in Cells : Pending(t, c) = {}
  BY <1>1 DEF Pending
<1>4. Committed = [c \in Cells |-> array[c]]
  BY <1>3 DEF Committed
<1>5. Committed = InitArray
  BY <1>4, ArrayAssumption DEF Init
<1>6. {u \in Threads : pc[u] \in {"lock", "get", "transition"}} = {}
  BY <1>1
<1>7. Transitions = 0
  BY <1>6, FS_EmptySet DEF Init, Transitions
<1> QED BY <1>2, <1>5, <1>7 DEF Init, Serial!Init

\* Every step calls a transition or leaves alone what is committed.
LEMMA OtherSteps ==
  ASSUME TOPOLOGY # "SQUARE8", IInv, CommittedIs, CommittedIs', [Next]_vars,
         \A t \in Threads : ~Transition(t)
  PROVE  Committed' = Committed
<1>1. ASSUME NEW t \in Threads, ThreadStep(t) PROVE Committed' = Committed
  BY <1>1, CommittedQuiet, CommittedPut DEF ThreadStep
<1>2. CASE Return \/ UNCHANGED vars
  <2>1. UNCHANGED <<array, pc, site, step, neighbors>>
    BY <1>2 DEF Return, vars
  <2>2. \A t \in Threads, c \in Cells : Pending(t, c)' = Pending(t, c)
    BY <2>1 DEF Pending
  <2> QED BY <2>1, <2>2, CommittedUnchanged
<1> QED BY <1>1, <1>2 DEF Next, Returned

LEMMA SerialStep ==
  ASSUME TOPOLOGY # "SQUARE8", IInv, CopiesFresh, CommittedIs, CommittedIs',
         [Next]_vars
  PROVE  Serial!Update \/ UNCHANGED Serial!vars
<1>1. ASSUME NEW t \in Threads, Transition(t) PROVE Serial!Update
  <2>1. pc[t] = "transition" /\ site[t] \in Cells /\ step[t] = 1
    BY <1>1 DEF IInv, TypeOK, StepsInRange, Transition, Step
  <2>2. /\ pc'[t] = "count" /\ counter' = counter
        /\ \A u \in Threads \ {t} : pc'[u] = pc[u]
    BY <1>1, <2>1 DEF IInv, TypeOK, Transition, Step
  <2>3. Transitions' = Transitions + 1
    BY <2>1, <2>2, CountsStep
  <2>4. Transitions < Trips
    <3>1. PICK e \in Nat : e = Early(pc)
      BY <2>2, EarlyLateStep
    <3>2. Early(pc') \in Nat /\ Early(pc') = e - 1
      BY <2>1, <2>2, <3>1, EarlyLateStep, InPhasesType DEF Early
    <3>3. Transitions = counter - e /\ counter \in 0 .. Trips
      BY <3>1, CountsAre DEF IInv, TypeOK
    <3> QED BY ONLY <3>2, <3>3, <3>1, TripsAssumption
  <2>5. \E result \in CellTransition(Gather(Committed, site[t])) :
          /\ failures' = failures + result[2]
          /\ Committed' = Scatter(Committed, site[t], result[1])
    BY <1>1, CommittedTransition
  <2>6. site[t] \in Serial!Cells
    BY <2>1, SameCopies
  <2>7. \E result \in CellTransition(Serial!Gather(Committed, site[t])) :
          /\ failures' = failures + result[2]
          /\ Committed' = Serial!Scatter(Committed, site[t], result[1])
    BY <2>5, SameCopies
  <2> QED BY <2>3, <2>4, <2>6, <2>7 DEF Serial!Update
<1>2. ASSUME NEW t \in Threads, ThreadStep(t), ~Transition(t)
      PROVE  UNCHANGED Serial!vars
  <2>1. Committed' = Committed
    BY <1>2, CommittedQuiet, CommittedPut DEF ThreadStep
  <2>2. failures' = failures
    BY <1>2 DEF ThreadStep, Take, SetLock, GetCell, Count, PutCell, UnsetLock
  <2>3. Transitions' = Transitions
    <3>1. CASE Take(t)
      BY <3>1, CountsTake
    <3>2. CASE ~Take(t)
      <4>1. /\ counter' = counter
            /\ \A u \in Threads \ {t} : pc'[u] = pc[u]
            /\ \/ pc[t] \in {"lock", "get"} /\ pc'[t] \in {"lock", "get", "transition"}
               \/ pc[t] = "count" /\ pc'[t] = "put"
               \/ pc[t] \in {"put", "unlock"} /\ pc'[t] \in {"idle", "put", "unlock"}
        BY <1>2, <3>2 DEF ThreadStep, IInv, TypeOK, StepsInRange, SetLock, GetCell,
                          Count, PutCell, UnsetLock, Step
      <4> QED BY <4>1, CountsStep
    <3> QED BY <3>1, <3>2
  <2> QED BY <2>1, <2>2, <2>3 DEF Serial!vars
<1>3. CASE Return \/ UNCHANGED vars
  <2>1. UNCHANGED <<counter, pc, failures>> /\ \A t \in Threads : ~Transition(t)
    BY <1>3 DEF Return, vars, Transition, Step, IInv, TypeOK
  <2>2. Committed' = Committed
    BY <2>1, OtherSteps
  <2>3. Transitions' = Transitions
    BY <2>1 DEF Transitions
  <2> QED BY <2>1, <2>2, <2>3 DEF Serial!vars
<1> QED BY <1>1, <1>2, <1>3 DEF Next, Returned

\* In every topology but SQUARE8 the parallel loop does what some serial order of
\* its updates would do, for any team, lattice, transition and interleaving.
THEOREM ImplementsSerialUpdates ==
  ASSUME TOPOLOGY # "SQUARE8"
  PROVE  Spec => SerialSpec
<1>1. Init => IInv /\ CopiesFresh /\ Serial!Init
  BY IInvInit, SerialInit
<1>2. IInv /\ CopiesFresh /\ [Next]_vars => (IInv /\ CopiesFresh)'
  BY IInvStep, CopiesStep
<1>3. IInv /\ CopiesFresh /\ [Next]_vars => [Serial!Update]_(Serial!vars)
  BY CommittedNext, SerialStep
<1> QED BY <1>1, <1>2, <1>3, PTL DEF Spec, SerialSpec, Serial!Spec

-----------------------------------------------------------------------------
(* Transitions that only exchange cells lose none.                         *)

\* The slots of the neighbourhood of c are different cells.
DistinctSlots(c) ==
  \A m, n \in Slots : Neighbors[c][m] = Neighbors[c][n] => m = n

\* Where a value is: in the neighbourhood of c, elsewhere, and in a buffer.
Within(x, v, c) == {d \in Hood[c] : x[d] = v}
Outside(x, v, c) == {d \in Cells \ Hood[c] : x[d] = v}
InSlots(b, v) == {n \in Slots : b[n] = v}

\* If the slots of a neighbourhood are different cells, it has as many cells of a
\* value as its buffer has slots.
LEMMA WithinNumber ==
  ASSUME NEW x, NEW v, NEW c \in Cells, DistinctSlots(c)
  PROVE  /\ IsFiniteSet(Within(x, v, c))
         /\ Cardinality(Within(x, v, c)) = Cardinality(InSlots(Gather(x, c), v))
<1> DEFINE A == InSlots(Gather(x, c), v)
           B == Within(x, v, c)
           f == [n \in A |-> Neighbors[c][n]]
<1>1. A = {n \in Slots : x[Neighbors[c][n]] = v}
  BY DEF InSlots, Gather
<1>2. f \in Bijection(A, B)
  <2>1. \A n \in A : Neighbors[c][n] \in B
    BY <1>1 DEF Within, Hood
  <2>2. \A m, n \in A : f[m] = f[n] => m = n
    BY <1>1 DEF DistinctSlots
  <2>3. \A d \in B : \E n \in A : f[n] = d
    BY <1>1 DEF Within, Hood
  <2>4. f \in [A -> B]
    BY <2>1
  <2> HIDE DEF A, B, f
  <2> QED BY <2>2, <2>3, <2>4, Fun_IsBij DEF Surjection
<1>3. IsFiniteSet(A)
  <2>1. IsFiniteSet(Slots)
    BY Counts, FS_Interval DEF Slots
  <2> QED BY <1>1, <2>1, FS_Subset
<1> HIDE DEF A, B, f
<1>4. IsFiniteSet(B) /\ Cardinality(A) = Cardinality(B)
  BY <1>2, <1>3, FS_Bijection DEF ExistsBijection
<1> QED BY <1>4 DEF A, B

\* Those and the cells elsewhere are the population of the value.
LEMMA PopulationSplit ==
  ASSUME NEW x, NEW v, NEW c \in Cells, DistinctSlots(c)
  PROVE  Population(x, v) =
           Cardinality(Outside(x, v, c)) + Cardinality(InSlots(Gather(x, c), v))
<1> DEFINE A == Outside(x, v, c)
           B == Within(x, v, c)
<1>1. {d \in Cells : x[d] = v} = A \union B /\ A \intersect B = {}
  BY NeighborsInCells DEF Outside, Within, Hood
<1>2. IsFiniteSet(A) /\ Cardinality(A) \in Nat
  <2>1. IsFiniteSet(0 .. SizeI - 1) /\ IsFiniteSet(0 .. SizeJ - 1)
    <3>1. SizeI - 1 \in Int /\ SizeJ - 1 \in Int
      BY SizeAssumption
    <3> QED BY <3>1, FS_Interval
  <2>2. IsFiniteSet(Cells)
    BY <2>1, FS_Product DEF Cells
  <2>3. A \in SUBSET Cells
    BY DEF Outside
  <2> QED BY <2>2, <2>3, FS_Subset, FS_CardinalityType
<1>3. /\ IsFiniteSet(B) /\ Cardinality(B) \in Nat
      /\ Cardinality(B) = Cardinality(InSlots(Gather(x, c), v))
  BY WithinNumber, FS_CardinalityType
<1> HIDE DEF A, B
<1>4. Cardinality(A \union B) = Cardinality(A) + Cardinality(B) - Cardinality({})
  BY <1>1, <1>2, <1>3, FS_Union
<1>5. Cardinality(A \union B) = Cardinality(A) + Cardinality(B)
  BY <1>2, <1>3, <1>4, FS_EmptySet
<1> QED BY <1>1, <1>3, <1>5 DEF A, Population

\* Copying back a buffer with as many slots of a value as have been copied out leaves
\* as many cells of it.
LEMMA ScatterConserves ==
  ASSUME NEW a, NEW b, NEW v, NEW c \in Cells, DistinctSlots(c),
         Cardinality(InSlots(b, v)) = Cardinality(InSlots(Gather(a, c), v))
  PROVE  Population(Scatter(a, c, b), v) = Population(a, v)
<1> DEFINE x == Scatter(a, c, b)
<1>1. ASSUME NEW n \in Slots PROVE Gather(x, c)[n] = b[n]
  <2>1. PICK d \in Hood[c] : d = Neighbors[c][n] /\ d \in Cells
    BY NeighborsInCells DEF Hood
  <2>2. LastSlot[c][d] \in Slots /\ Neighbors[c][LastSlot[c][d]] = d
    BY LastSlotIs
  <2>3. LastSlot[c][d] = n
    BY <2>1, <2>2 DEF DistinctSlots
  <2> QED BY <2>1, <2>3 DEF Scatter, Gather
<1>2. \A d \in Cells \ Hood[c] : x[d] = a[d]
  BY DEF Scatter
<1> HIDE DEF x
<1>3. Outside(x, v, c) = Outside(a, v, c)
  BY <1>2 DEF Outside
<1>4. InSlots(Gather(x, c), v) = InSlots(b, v)
  BY <1>1 DEF InSlots
<1>5. Population(x, v) = Population(a, v)
  BY <1>3, <1>4, PopulationSplit
<1> QED BY <1>5 DEF x

\* A thread at work has locked every slot of its neighbourhood, which it could not
\* have if two of them were one cell.
LEMMA SlotsDistinct ==
  ASSUME TOPOLOGY # "SQUARE8", IInv, NEW t \in Threads, Accessing(t)
  PROVE  DistinctSlots(site[t])
<1>1. site[t] \in Cells /\ Held(t) = 1 .. LockCount
  BY DEF IInv, TypeOK, Accessing, Held
<1>2. PICK f \in [Slots -> 1 .. LockCount] :
        /\ \A n \in Slots : LockSeq[site[t]][f[n]] = Neighbors[site[t]][n]
        /\ \A m, n \in Slots : f[m] = f[n] => m = n
  BY <1>1, LocksOfSlots
<1>3. ASSUME NEW m \in Slots, NEW n \in Slots,
             Neighbors[site[t]][m] = Neighbors[site[t]][n]
      PROVE  m = n
  <2>1. f[m] \in Held(t) /\ f[n] \in Held(t)
    BY <1>1, <1>2
  <2>2. LockSeq[site[t]][f[m]] = LockSeq[site[t]][f[n]]
    BY <1>2, <1>3
  <2>3. f[m] = f[n]
    BY <2>1, <2>2 DEF IInv, LocksDistinct
  <2> QED BY <1>2, <2>3
<1> QED BY <1>3 DEF DistinctSlots

\* Whatever is still to be written back, the committed array holds values.
LEMMA CommittedType ==
  ASSUME IInv, CommittedIs
  PROVE  Committed \in [Cells -> Values]
<1>1. ASSUME NEW c \in Cells PROVE Committed[c] \in Values
  <2>1. CASE \A t \in Threads : Pending(t, c) = {}
    BY <2>1 DEF CommittedIs, IInv, TypeOK
  <2>2. CASE \E t \in Threads : Pending(t, c) # {}
    <3>1. PICK t \in Threads : Pending(t, c) # {}
      BY <2>2
    <3>2. LastSlot[site[t]][c] \in Slots
      BY <3>1, PendingAccesses, LastSlotIs
    <3>3. neighbors[t] \in Buffers
      BY DEF IInv, TypeOK
    <3> QED BY <3>1, <3>2, <3>3 DEF CommittedIs, Buffers
  <2> QED BY <2>1, <2>2
<1> QED BY <1>1 DEF Committed

\* What the updates that have taken effect conserve.
CommittedConserved ==
  Rearranging =>
    \A v \in Values : Population(Committed, v) = Population(InitArray, v)

\* Only transitions change what is committed, and they rearrange a neighbourhood.
LEMMA ConservedStep ==
  ASSUME TOPOLOGY # "SQUARE8", IInv, CopiesFresh, CommittedIs, CommittedIs',
         CommittedConserved, [Next]_vars
  PROVE  CommittedConserved'
<1>1. ASSUME NEW t \in Threads, Transition(t), Rearranging, NEW v \in Values
      PROVE  Population(Committed', v) = Population(Committed, v)
  <2>1. site[t] \in Cells /\ Accessing(t)
    BY <1>1 DEF IInv, TypeOK, Transition, Step, Accessing
  <2>2. PICK result \in CellTransition(Gather(Committed, site[t])) :
          Committed' = Scatter(Committed, site[t], result[1])
    BY <1>1, CommittedTransition
  <2>3. Gather(Committed, site[t]) \in Buffers
    BY <2>1, CommittedType, GatherType
  <2>4. Cardinality(InSlots(result[1], v)) =
          Cardinality(InSlots(Gather(Committed, site[t]), v))
    BY <1>1, <2>3 DEF Rearranging, InSlots
  <2> QED BY <2>1, <2>2, <2>4, SlotsDistinct, ScatterConserves
<1>2. (\E t \in Threads : Transition(t)) \/ Committed' = Committed
  BY OtherSteps
<1> QED BY <1>1, <1>2 DEF CommittedConserved

\* Unless the topology is SQUARE8, CAT_Iterate returns as many cells of every value as
\* it was called with if the transition conserves them: for any team, lattice and
\* interleaving.
THEOREM CellsConserved ==
  ASSUME TOPOLOGY # "SQUARE8"
  PROVE  Spec => []Conserved
<1>1. Init => IInv /\ CopiesFresh /\ CommittedConserved
  <2>1. Init => Committed = InitArray
    BY SerialInit DEF Serial!Init
  <2> QED BY <2>1, IInvInit, SerialInit DEF CommittedConserved
<1>2. IInv /\ CopiesFresh /\ [Next]_vars => (IInv /\ CopiesFresh)'
  BY IInvStep, CopiesStep
<1>3. IInv /\ CopiesFresh /\ CommittedConserved /\ [Next]_vars => CommittedConserved'
  BY CommittedNext, ConservedStep
<1>4. IInv /\ CommittedConserved => Conserved
  <2> SUFFICES ASSUME IInv, CommittedConserved, Rearranging, iterationsDone = 1,
                      NEW v \in Values
               PROVE  Population(array, v) = Population(InitArray, v)
    BY DEF Conserved
  <2>1. \A t \in Threads, c \in Cells : Pending(t, c) = {}
    BY DEF IInv, LoopOver, Pending
  <2>2. Committed = [c \in Cells |-> array[c]]
    BY <2>1 DEF Committed
  <2>3. Committed = array
    BY <2>2 DEF IInv, TypeOK
  <2> QED BY <2>3 DEF CommittedConserved
<1> QED BY <1>1, <1>2, <1>3, <1>4, PTL DEF Spec

=============================================================================
