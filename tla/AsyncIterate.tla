---------------------------- MODULE AsyncIterate ----------------------------
(***************************************************************************)
(* One call of CAT_Iterate in the asynchronous mode (CAT_Iterate_Async of  *)
(* catlib.c) by a team of OpenMP threads.  Each of the Trips iterations of *)
(* the parallel loop draws a random cell, takes the locks of its           *)
(* neighbourhood, copies the neighbourhood into the thread's buffer, runs  *)
(* the user's cellTransition on the buffer, counts its flag, copies the    *)
(* buffer back and releases the locks.                                     *)
(*                                                                         *)
(* Every lock, every cell copied and every access to the flag the threads  *)
(* share is a step of its own.  The loop's schedule is left to the OpenMP  *)
(* implementation: any idle thread may take the next iteration.            *)
(***************************************************************************)
EXTENDS CellularAutomaton, FiniteSets

CONSTANTS
  Threads,    \* the team of the parallel region
  NoThread,   \* the owner of a free lock
  Trips       \* iterations of the loop: SizeI * SizeJ in the code

ASSUME ThreadsAssumption == NoThread \notin Threads /\ IsFiniteSet(Threads)
ASSUME TripsAssumption == Trips \in Nat

VARIABLES
  array,           \* CAT_Globals.cellularArray
  owner,           \* who holds the lock of each cell
  flag,            \* the flag shared by the team: nonzero reports an error
  errSum,          \* the reduction variable (the sum of the private copies)
  counter,         \* iterations of the loop already handed out
  iterationsDone,  \* header->iterationsDone
  pc,              \* where each thread is in the loop body
  site,            \* the cell of a thread's iteration
  step,            \* the next lock or slot of the current phase
  neighbors,       \* each thread's own buffer
  returned,        \* what cellTransition last returned to each thread
  failures         \* history: transitions that returned a nonzero flag

vars == <<array, owner, flag, errSum, counter, iterationsDone, pc, site,
          step, neighbors, returned, failures>>

Phases == {"idle", "lock", "get", "transition", "count", "put", "unlock"}

\* Stands for a buffer whose content no one will read.
Blank == [n \in Slots |-> InitArray[<<0, 0>>]]

Init ==
  /\ array = InitArray
  /\ owner = [c \in Cells |-> NoThread]
  /\ flag = 0
  /\ errSum = Trips
  /\ counter = 0
  /\ iterationsDone = 0
  /\ pc = [t \in Threads |-> "idle"]
  /\ site = [t \in Threads |-> <<0, 0>>]
  /\ step = [t \in Threads |-> 1]
  /\ neighbors = [t \in Threads |-> Blank]
  /\ returned = [t \in Threads |-> 0]
  /\ failures = 0

\* Thread t does the next of the n steps of a phase; after the last one it
\* goes on with the phase next.
Step(t, phase, n, next) ==
  /\ pc[t] = phase
  /\ IF step[t] < n
       THEN /\ step' = [step EXCEPT ![t] = @ + 1]
            /\ UNCHANGED pc
       ELSE /\ step' = [step EXCEPT ![t] = 1]
            /\ pc' = [pc EXCEPT ![t] = next]

\* Mutant: the loop runs while counter <= I * J.
TakeOneMore(t) ==
  /\ counter <= Trips
  /\ Step(t, "idle", 1, IF LockCount > 0 THEN "lock" ELSE "get")
  /\ \E c \in Cells : site' = [site EXCEPT ![t] = c]
  /\ counter' = counter + 1
  /\ neighbors' = [neighbors EXCEPT ![t] = Blank]
  /\ UNCHANGED <<array, owner, flag, errSum, iterationsDone, returned,
                 failures>>

\* The next iteration: index.i = CAT_Rand(I), index.j = CAT_Rand(J).  The
\* buffer's old content is dead.
Take(t) ==
  /\ counter < Trips
  /\ Step(t, "idle", 1, IF LockCount > 0 THEN "lock" ELSE "get")
  /\ \E c \in Cells : site' = [site EXCEPT ![t] = c]
  /\ counter' = counter + 1
  /\ neighbors' = [neighbors EXCEPT ![t] = Blank]
  /\ UNCHANGED <<array, owner, flag, errSum, iterationsDone, returned,
                 failures>>

\* One omp_set_lock of LockNeighbors: it blocks while the lock is held, by t
\* itself included.
SetLock(t) ==
  LET lock == LockSeq[site[t]][step[t]] IN
  /\ Step(t, "lock", LockCount, "get")
  /\ owner[lock] = NoThread
  /\ owner' = [owner EXCEPT ![lock] = t]
  /\ UNCHANGED <<array, flag, errSum, counter, iterationsDone, site,
                 neighbors, returned, failures>>

\* One CAT_GetCell2D of GetNeighbors.
GetCell(t) ==
  /\ Step(t, "get", SlotCount, "transition")
  /\ neighbors' = [neighbors EXCEPT
                     ![t][step[t]] = array[Neighbors[site[t]][step[t]]]]
  /\ UNCHANGED <<array, owner, flag, errSum, counter, iterationsDone, site,
                 returned, failures>>

\* flag = (*cellTransition)(neighbors): flag belongs to the whole team.
Transition(t) ==
  /\ Step(t, "transition", 1, "count")
  /\ \E result \in CellTransition(neighbors[t]) :
       /\ neighbors' = [neighbors EXCEPT ![t] = result[1]]
       /\ flag' = result[2]
       /\ returned' = [returned EXCEPT ![t] = result[2]]
       /\ failures' = failures + result[2]
  /\ UNCHANGED <<array, owner, errSum, counter, iterationsDone, site>>

\* Mutant: flag is taken for a truth value, zero for failure.
CountFailures(t) ==
  /\ Step(t, "count", 1, "put")
  /\ \E f \in {returned[t], flag} : errSum' = errSum - f
  /\ UNCHANGED <<array, owner, flag, counter, iterationsDone, site,
                 neighbors, returned, failures>>

\* errSum -= !flag.  The accesses to flag are a data race: the compiled code may
\* use the value t has just stored or load the shared flag again.
Count(t) ==
  /\ Step(t, "count", 1, "put")
  /\ \E f \in {returned[t], flag} : errSum' = errSum - (1 - f)
  /\ UNCHANGED <<array, owner, flag, counter, iterationsDone, site,
                 neighbors, returned, failures>>

\* One CAT_PutCell2D of PutNeighbors.
PutCell(t) ==
  /\ Step(t, "put", SlotCount, IF LockCount > 0 THEN "unlock" ELSE "idle")
  /\ array' = [array EXCEPT
                 ![Neighbors[site[t]][step[t]]] = neighbors[t][step[t]]]
  /\ UNCHANGED <<owner, flag, errSum, counter, iterationsDone, site,
                 neighbors, returned, failures>>

\* Mutant: the last lock is not released.
UnsetAllButLast(t) ==
  /\ Step(t, "unlock", LockCount - 1, "idle")
  /\ owner' = [owner EXCEPT ![LockSeq[site[t]][step[t]]] = NoThread]
  /\ UNCHANGED <<array, flag, errSum, counter, iterationsDone, site,
                 neighbors, returned, failures>>

\* One omp_unset_lock of UnlockNeighbors.
UnsetLock(t) ==
  /\ Step(t, "unlock", LockCount, "idle")
  /\ owner' = [owner EXCEPT ![LockSeq[site[t]][step[t]]] = NoThread]
  /\ UNCHANGED <<array, flag, errSum, counter, iterationsDone, site,
                 neighbors, returned, failures>>

\* The barrier that ends the loop, the join, iterationsDone++, return errSum.
Return ==
  /\ iterationsDone = 0
  /\ counter = Trips
  /\ \A t \in Threads : pc[t] = "idle"
  /\ iterationsDone' = 1
  /\ UNCHANGED <<array, owner, flag, errSum, counter, pc, site, step,
                 neighbors, returned, failures>>

\* CAT_Iterate has returned: nothing happens until the next call.
Returned ==
  /\ iterationsDone = 1
  /\ UNCHANGED vars

ThreadStep(t) ==
  \/ Take(t) \/ SetLock(t) \/ GetCell(t) \/ Transition(t)
  \/ Count(t) \/ PutCell(t) \/ UnsetLock(t)

Next == (\E t \in Threads : ThreadStep(t)) \/ Return \/ Returned

Spec == Init /\ [][Next]_vars

\* The operating system keeps running every thread.  A blocked omp_set_lock
\* need not be served in any order: the other threads' iterations are finite.
FairSpec ==
  /\ Spec
  /\ \A t \in Threads : WF_vars(ThreadStep(t))
  /\ WF_vars(Return)

-----------------------------------------------------------------------------

TypeOK ==
  /\ array \in [Cells -> Values]
  /\ owner \in [Cells -> Threads \union {NoThread}]
  /\ flag \in {0, 1}
  /\ errSum \in Int
  /\ counter \in 0 .. Trips
  /\ iterationsDone \in {0, 1}
  /\ pc \in [Threads -> Phases]
  /\ site \in [Threads -> Cells]
  /\ step \in [Threads -> Nat \ {0}]
  /\ neighbors \in [Threads -> Buffers]
  /\ returned \in [Threads -> {0, 1}]
  /\ failures \in Nat

\* Between its first GetCell and its last PutCell.
Accessing(t) == pc[t] \in {"get", "transition", "count", "put"}

\* No thread reads or writes a cell of a neighbourhood another thread is
\* working on: LockNeighbors covers what GetNeighbors and PutNeighbors touch.
Exclusive ==
  \A t, u \in Threads :
    t # u /\ Accessing(t) /\ Accessing(u) => Hood[site[t]] \cap Hood[site[u]] = {}

-----------------------------------------------------------------------------
(* The inductive invariant behind TypeOK, Exclusive and LocksFree.         *)

\* The step a thread is at exists in its phase.
StepsInRange ==
  \A t \in Threads :
    /\ pc[t] \in {"lock", "unlock"} => step[t] <= LockCount
    /\ pc[t] \in {"get", "put"} => step[t] <= SlotCount
    /\ pc[t] \in {"idle", "transition", "count"} => step[t] = 1

\* The entries of LockSeq[site[t]] thread t holds.
Held(t) ==
  IF pc[t] = "idle" THEN {}
  ELSE IF pc[t] = "lock" THEN 1 .. step[t] - 1
  ELSE IF pc[t] = "unlock" THEN step[t] .. LockCount
  ELSE 1 .. LockCount

\* A thread owns the locks it holds, they are pairwise distinct (the lock of a
\* cell is not taken twice), and no one owns any other lock.
LocksOwned ==
  \A t \in Threads : \A n \in Held(t) : owner[LockSeq[site[t]][n]] = t

LocksDistinct ==
  \A t \in Threads : \A m, n \in Held(t) :
    m # n => LockSeq[site[t]][m] # LockSeq[site[t]][n]

NoLockLost ==
  \A c \in Cells, t \in Threads : owner[c] = t =>
    \E n \in Held(t) : LockSeq[site[t]][n] = c

\* No thread is inside the loop when CAT_Iterate has returned.
LoopOver ==
  iterationsDone = 1 => counter = Trips /\ \A t \in Threads : pc[t] = "idle"

IInv ==
  /\ TypeOK /\ StepsInRange /\ LocksOwned /\ LocksDistinct /\ NoLockLost
  /\ LoopOver

-----------------------------------------------------------------------------

\* When all transitions agree, CAT_Iterate returns how many reported an error: no
\* false alarm, and no silence when all fail.  (When they differ it may not, as
\* the flag of one thread may be taken for another's.)
UnanimousReported ==
  iterationsDone = 1 /\ failures \in {0, Trips} => errSum = failures

\* Every lock is free again when CAT_Iterate returns, so that the next call and
\* CAT_DestroyLocks find them unlocked.
LocksFree == iterationsDone = 1 => \A c \in Cells : owner[c] = NoThread

\* The cells of the array a that have the value v.
Population(a, v) == Cardinality({c \in Cells : a[c] = v})

\* The transition gives back every value as often as it has got it: diffusions,
\* which only exchange cells, are such.
Rearranging ==
  \A b \in Buffers : \A result \in CellTransition(b), v \in Values :
    Cardinality({n \in Slots : result[1][n] = v}) = Cardinality({n \in Slots : b[n] = v})

\* With such a transition CAT_Iterate loses no particle and makes none, though many
\* threads move them at once: the array it leaves has as many as it started with.
Conserved ==
  Rearranging /\ iterationsDone = 1 =>
    \A v \in Values : Population(array, v) = Population(InitArray, v)

\* CAT_Iterate returns: no thread waits for a lock for ever.
IterateReturns == <>(iterationsDone = 1)

\* The slots of t's buffer PutNeighbors has still to copy into cell c.
Pending(t, c) ==
  IF t \in Threads /\ pc[t] \in {"count", "put"}
    THEN {n \in Slots : n >= step[t] /\ Neighbors[site[t]][n] = c}
    ELSE {}

\* The array as it will be when the updates past their transition are written
\* back: an update takes effect at its transition.
Committed ==
  [c \in Cells |->
     IF \E t \in Threads : Pending(t, c) # {}
       THEN LET t == CHOOSE t \in Threads : Pending(t, c) # {} IN
            neighbors[t][LastSlot[site[t]][c]]
       ELSE array[c]]

\* The iterations handed out whose transition has been called.
Transitions ==
  counter - Cardinality({t \in Threads : pc[t] \in {"lock", "get", "transition"}})

Serial == INSTANCE SerialUpdates
            WITH array <- Committed, updates <- Transitions, failures <- failures

\* The parallel loop does what some serial order of its updates would do: no
\* update is lost and none sees a neighbourhood half written.
SerialSpec == Serial!Spec

-----------------------------------------------------------------------------
(* The inductive invariants behind UnanimousReported and SerialSpec.       *)

\* The iterations handed out whose flag has been counted.
Counted ==
  counter - Cardinality({t \in Threads :
                           pc[t] \in {"lock", "get", "transition", "count"}})

\* While no transition has failed every counted one is taken off errSum; while
\* all have, none is: in both cases the shared flag and the value a thread has
\* just stored agree.
ErrorsCounted ==
  /\ failures <= Transitions
  /\ failures = 0 =>
       /\ errSum = Trips - Counted
       /\ flag = 0
       /\ \A t \in Threads : pc[t] = "count" => returned[t] = 0
  /\ failures = Transitions =>
       /\ errSum = Trips
       /\ \A t \in Threads : pc[t] = "count" => flag = 1 /\ returned[t] = 1

\* What a thread has copied of its neighbourhood is still what the array holds.
CopiesFresh ==
  \A t \in Threads, n \in Slots :
    (pc[t] = "get" /\ n < step[t]) \/ pc[t] = "transition" =>
      neighbors[t][n] = array[Neighbors[site[t]][n]]

=============================================================================
