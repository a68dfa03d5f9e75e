# Verification of catlib

catlib is a C library for cellular automata. A program hands it a file with a
lattice and a function `cellTransition`; the library applies the function to
every neighbourhood of the lattice, with OpenMP threads, with MPI processes or
alone, and saves the lattice again. This directory holds TLA+ models of the
library, the TLC configurations that check them and TLAPS proofs about them.
Paths below are relative to `src/catlib/`.

## 1. Inventory

| Component | Code | State it keeps | Operations |
|---|---|---|---|
| Plane topologies | `src/topologies/{square4,square8,square24,hexagon}.c`, `src/topology.h` | none; tables of offsets | GetNeighbors, PutNeighbors, LockNeighbors, UnlockNeighbors, metric functions |
| Asynchronous iteration | `src/catlib.c:419-443, 634-675` | the array, a lock per cell, a shared `flag`, `errSum`, a buffer per thread | CAT_Iterate of an ASYNC build |
| Synchronous iteration | `src/catlib.c:164-184, 544-630` | two arrays that change places, `flag`, `errSum`, `iterationsDone` | CAT_Iterate of a SYNC build |
| Partition among processes | `src/catparallel.c:60-65, 156-158` | none | CAT_GetPartSize, CAT_GetProcSize |
| Halo exchange, iteration under MPI | `src/catparallel.c:68-153`, `src/catlib.c:446-511` | per rank: two arrays with ghost rows, four requests | BoundExchange, BoundSend, BoundRecv, CAT_Iterate of an MPI build |
| Parallel load | `src/catparallel.c:161-447`, `src/catlib.c:344-389` | cursors of the root and of every rank, fragments in transit | CAT_InitSimulator of an MPI build |
| Gathering save | `src/catparallel.c:449-535` | fragments in transit, the file | CAT_FinalizeSimulator of an MPI build |
| Serial load and save | `src/catfile.c` | header pointer, array pointer, digest in the making, the file | CAT_FileRead, CAT_FileSave |
| Fragments, compression | `src/catfragment.c`, `src/catlzma.c` | stream positions | pack, compress, decompress, hash |
| Life cycle | `src/catlib.c:64-160, 188-416, 678-699` | globals: header, arrays, thread buffers, locks | Init, Finalize, getters, Put/GetCell, SetNumThreads |
| Preprocessor, postprocessor | `src/catlib.c:99-160, 252-264`, the mains of `models/` | as above | create a lattice, round it to the topology's period; show it |
| Random numbers | `src/deps/catrand.c` | a 40-bit state per thread | CAT_Rand, CAT_Srand |
| 3D and 1D topologies | `src/topologies/{cube12,line}.c` | none | as the plane ones, without locks |
| Models | `models/*`, `models/*/run_script` | a lattice, the file the programs share | HPP gas (collision, propagation_step), `my_model`, springs; the scripts |
| Vendored | `src/deps/lzma`, `src/deps/md5.c` | | |

How they interact. The iteration calls the topology through a table of function
pointers; the topology reads and writes the array through CAT_GetCell2D and
CAT_PutCell2D and locks through the array of locks the iteration passes to it.
`cellTransition` is a callback of the iteration: it sees a buffer of copies and
nothing else. The MPI layer shares the array pointers with the iteration
through `CAT_Globals`, and its messages all travel with tag 0 between the same
pairs of processes, in load, iteration and save. The three programs of a model
share nothing but a file: the script starts one after the other and does not
look at what they return, and the simulator saves to the file it loaded.

What is hard:

* threads that lock overlapping sets of cells (deadlock, lost updates), and a
  shared variable (`flag`) that nothing protects;
* messages between ranks that run at their own pace, matched by order alone,
  into arrays that change places under them;
* cursors of a sender and of receivers over fragments whose ends do not
  coincide with the ends of parts;
* errors that one process sees and the others do not;
* a file that is cut to nothing before it is written again, by writes whose
  results are ignored, through a buffer of stdio, on a disk that may be full, by
  a process that may die;
* collisions written bit by bit, which lose a particle only in a combination of
  particles that comes up many iterations later;
* global and local variables of the same name (`CAT_Bound_size`) that differ.

What makes each component correct:

* topology: the locked cells are the touched cells, and the threads' orders of
  taking them have no cycle;
* asynchronous iteration: it is a serial sequence of updates; it returns; it
  counts errors; it leaves no lock behind;
* synchronous iteration: it is one global step to the next generation; it
  returns; it counts errors;
* partition: parts cover the lattice without overlap;
* MPI iteration: every rank's part is its part of the generation, up to the end of
  the first call; ranks wait for each other and not for ever;
* load under MPI: every rank gets its own part in its place or all stop; no
  message of the load is left over for the exchange that follows;
* save under MPI: the file is every row of the last generation, once;
* files: a load that succeeds has the lattice of the last save, whole; a save
  that succeeds leaves a file that loads; an error leaves nothing in use;
* preprocessor: the lattice holds the cell that was asked for, and closes on the
  torus without a tear;
* HPP gas: particles, momentum and signs change where they should and nowhere
  else, and no particle is lost at the edge of the grid.

## 2. Modules

| Module | Contents |
|---|---|
| `Topology` | offsets, slot order and lock order of the four plane topologies |
| `CellularAutomaton` | values, the callback, Gather (GetNeighbors), Scatter (PutNeighbors), Successor |
| `SerialUpdates` | abstract: what an asynchronous CAT_Iterate promises |
| `AsyncIterate`, `MCAsyncIterate` | CAT_Iterate_Async, step by step; implements SerialUpdates |
| `Generations` | abstract: what a synchronous CAT_Iterate promises |
| `SyncIterate`, `MCSyncIterate` | CAT_Iterate_Sync; implements Generations |
| `Partition` | CAT_GetPartSize |
| `MpiHalo`, `MCMpiHalo` | the halo exchange, the iteration of an MPI build, the save that gathers the parts |
| `ParallelLoad`, `MCParallelLoad` | CAT_FileReadParallel2D up to the return of CAT_InitSimulator |
| `CatFile` | CAT_FileRead and CAT_FileSave, write by write |
| `Programs` | preprocessor, simulator and postprocessor over one file; extends CatFile |
| `Shapes`, `MCPrograms` | the neighbourhoods of the lattices of Programs; composes Programs with Topology, adds CUBE12 |
| `HppWaves`, `MCHppWaves` | the lattice gas of `models/HPP_seismic_waves` |
| `CellularAutomatonProofs`, `AsyncIterateProofs`, `SyncIterateProofs`, `PartitionProofs`, `MpiHaloProofs`, `ParallelLoadProofs`, `ProgramsProofs`, `HppWavesProofs` | theorems |

Definitions marked `Mutant:` are not part of any specification. Each is a form
a definition would have after a plausible mistake, and the run named for it in
`PROJECT.json` finds the property it belongs to violated when the mutant takes
the definition's place.

### AsyncIterate

State: `array`, `owner` (the lock of every cell), the shared `flag`, `errSum`
(initially the number of iterations, as the code's `I * J`), and per thread its
place in the loop body `pc`, its cell `site`, its position `step` in the list
of locks or slots, its buffer `neighbors`. One action per statement of the
loop body, at the grain at which threads can disturb each other:

`Take` (an iteration of the parallel loop and two CAT_Rand) → `SetLock` per
omp_set_lock → `GetCell` per CAT_GetCell2D → `Transition` → `Count`
(`errSum -= !flag`) → `PutCell` per CAT_PutCell2D → `UnsetLock` per
omp_unset_lock; then `Return` once the team is through.

`flag` is declared outside the parallel region. Its accesses are a data race,
so `Count` uses either the value the thread has stored or the current one: the
two outcomes a build can produce (a register, a reload). `failures` is history.

The refinement maps `array` to `Committed`: an update takes effect at its
transition, so the slots a thread has not yet copied back count as copied.

### SyncIterate

State: both arrays, `current` (which of them is `cellularArray`), the rows
nobody has taken (`rowsLeft`), `flag`, `errSum`, per thread `pc`, `cell`,
`neighbors`. `Call` opens the parallel region; `TakeRow`, `GetNeighbors`,
`Transition`, `Count`, `PutResult` are a thread's loop; `Return` is the barrier,
the exchange of the arrays and `iterationsDone++`. `Call` succeeds: the two
returns of -1 before the loop (a number of threads the buffers were not made for,
catlib.c:553-556, and no memory for the second array, 572-573) are left out, as
neither starts an iteration. GetNeighbors is one step,
because no one writes `cellularArray` inside the region (that is what `PutInPlace`,
a mutant, breaks). The schedule of the loop is any. Generations is implemented by
`array <- arrays[current]`, `generation <- iterationsDone`.

### Partition and MpiHalo

A row is represented by where it comes from, `<<number, generation>>`, or
`Junk`. Computing a row gives the next generation's row if all rows around it
are its neighbours of one generation, and Junk otherwise; this is the weakest
automaton, one in which everything depends on everything in reach.

Per rank: the two arrays with ghost rows, `current`, `pc`, and per pair of
ranks the queue of sends and of receives. A receive is a record of the array
and the row it writes to, fixed when it is posted; `Deliver` matches the oldest
send with the oldest receive at any time after both exist. `BoundExchange` /
`Exchanged` end the load; `BoundRecv`, `IterateUpper`, `IterateLower`,
`BoundSend`, `IterateInner`, `Return` are CAT_Iterate_Sync_Parallel in its
order. Then CAT_FileSaveParallel2D: `Contribution` is the rows of memory a rank
compresses, `SendFragment` / `SentFragment` a rank's send and its wait,
`OpenFile`, `WriteOwn`, `WriteReceived` and `CloseFile` the root's loop over the
ranks, which takes whatever message comes next from a rank for its fragment (edge
or fragment: all tags are 0), and `WriteFails` the abort of the run. Two processes or more are
assumed: an MPI build run alone takes the path of a build without MPI, over an
array that is laid out for MPI (a hazard listed in `PROJECT.json`). `LoadedRows` and `IteratedRows` are the two values
of `arraySizeWithBound`: the load computes it with the topology's border, the
iteration with the global CAT_Bound_size, before the local of the same name. `BorderI`
and `BoundSize` are constants of their own. They agree for SQUARE24, whose border is 2;
for a border of 1 (SQUARE8, SQUARE4, the hexagonal topology) the first call posts a receive
that ends beyond the array. What follows is undefined, and the model makes no claim about
it: `Slice` knows nothing of rows outside the memory.

MPI_Waitall over four requests is `AllReceived`, which waits for the two receives
only. The code also waits for its sends, so the model has the behaviours of the
code and some more in which a rank is further ahead: safety carries over, and for
AllFinish see Fairness.

### ParallelLoad

The data are numbered units. A file is the list of the ends of its fragments by the sizes
it records, by how many units less each decodes (`lacks`), which fragments cannot be
decoded or never (`undecodable`, `endless`), and what is true of its digest. Every rank
begins in `header`: the root opens the file and reads the header or aborts the run
(`OpenFails`), and with the header known each rank checks that its part holds the edges for
the border of the topology it is compiled for (`Begins`, `Refuses`). The
root's `Fill`, `NextRank`, `Send`, `SendReturns`, `Verified` and the failures beside them
follow the two loops of CAT_FileReadParallel2D with its cursors (`read` is the fragment in
`inplaceRead`, `fragCursor`, `wants`, `cursor`). `FillFails` and `ReceiveFails` are the
aborts on a fragment that cannot be decompressed, `SendFails` those of a file that ends and
of `assert(0)` for an empty fragment. `Receive` is the other ranks' loop; a rank that takes
more from a fragment than was decoded may die of it (`ReceiveFails`) or copy what lies
there (`Junk`). A rank whose decoder makes no progress takes no further step. MPI_Send may
return before its message is received; its fairness only promises a return after that.
MPI_Abort stops every process at once. `posted` holds the ranks that have sent their edges
in CAT_BoundExchange, so that a rank that left the load without it keeps its neighbours
waiting. The checks of the whole size against period and number of ranks
(catparallel.c:257-261), which every rank makes alike, are the assumption on the constants.

### CatFile, Programs and Shapes

A file is the sequence of items written to it (header, sizes and data of every
fragment, digest). `disk` is what has reached it, `buffered` what stdio holds;
`Flush` moves an item at any time, `DiskFills` stops all flushing, and a write may
then be refused or not, as fwrite notices only when it flushes. One action per
call that can fail: `OpenRead`, `ReadHeader` / `NoHeader`, `ReadFragment` (per
fragment; CAT_ReadData's three branches are told apart by `Wanted`),
`ReadDigest` / `ReadFails`; `OpenWrite`, `WriteHeader`, `WriteSizes`,
`WriteData`, `CompressFails`, `WriteDigest`, `Close`. `headerPtr` is what the
global pointer is worth: a failed read frees the header its caller has. `ctx`
is what the MD5 context has taken. `given` is history: the lattice given to
the save that opened the file last.

Programs runs the three programs, each a process of its own (`Start` to `Exit`,
or `Crash`, which loses the buffer and keeps the disk). The preprocessor's
`Create` rounds the requested size to the topology's period (`GetIndex`,
`Rounded`), the simulator's `InitSimulator`, `Iterate`, `FinalizeSimulator` are
those of catlib.c, `SaveAborts` is the assertion in CAT_FileSave and `LoadAborts` that of
CAT_Decompress on a recorded size of 0. `Damage` cuts the file anywhere or changes an item of
it between two programs (`Forms`): the header's form, topology or lattice size, the
recorded size of a fragment, cells, or data into such that cannot be decoded or that the
decoder never finishes. `MaxChanged` bounds the items changed at a time. A load reads such a
file as the code does: `Decoded` is what the data give, `Recorded` what the file says, and
a recorded size that is too large makes memcpy read on behind the decoded cells (`Behind`;
what is there is `Damaged`, and the process may die, which `Crash` allows at any
moment). A fragment that is larger than what is left of the lattice is written beyond the
array; in the model `array` just becomes longer than the lattice. `Stalled` is a program in
the decoder's loop for ever. `OldFiles` are files of the two older forms, which no program of
this version writes (CAT_WriteData's branches for them are behind the assertion of
CAT_FileSave and write no digest); they are what CAT_ReadData accepts as such, and come from
elsewhere. A cell is the number of the lattice it was created in, its place and its
generation, so that mixtures are visible. A program may be compiled for another
topology than the lattice's. Programs starts a new program for ever, as its file is
there for ever; `MaxCreated` and `MaxIterations` bound the lattices and generations.

Shapes adds what a size means for a neighbourhood: `MutualShapes` are the sizes
on which a cell sees exactly the cells that see it. `ShapesAssumption` says which
lattices there are: of a topology in the plane or CUBE12, no longer than `MaxSide`,
for SQUARE24 at least as large as its window, and old files with a size made for
their topology.

### HppWaves

`Init` is every lattice seismic_waves_prep can make: walls around, the upper one
free, a source in the middle, any pairs of particles in the medium. `Collide` is
CAT_Iterate with the function collision, one step as Generations promises;
`Propagate` is propagation_step. `bits`, a byte in the code, is the set of
particles it stands for, so every rule is stated per particle.

## 3. Runs

| Run | Instance | What it shows |
|---|---|---|
| `Async_square4` | 4 x 3, 2 threads, 2 updates, diffusion of one particle | TypeOK, Exclusive (neighbourhoods in use are disjoint), LocksFree, Conserved (of every value as many cells as before: no particle lost or doubled), SerialSpec (the iteration is a serial sequence of updates) |
| `Async_square4_large` | 5 x 5, 2 threads, 2 updates, transitions that may fail | IterateReturns: no deadlock of two threads on a torus with 5 columns; UnanimousReported: the count is right when all transitions agree |
| `Sync_hexagon` | 4 x 2, 2 threads, 2 calls, parity automaton | TypeOK, GlobalSpec (a call is one step to the next generation), CallsReturn, SuccessReported |
| `Halo_many_calls` | 2 ranks, 9 rows in parts of 5 and 4, border 2, 3 calls and the save | TypeOK, GhostsLoaded when both neighbours are one process, FirstRowsCorrect (parts are right up to the end of a rank's first call, however far the others are), SaveGathers (the file is every rank's last rows in order), InStep, AllFinish |
| `Load_three_ranks` | 3 ranks, 10 units in parts of 4, 3 and 3, border 1 or 2, 2445 files | TypeOK, PartsInPlace, NoneLeftOver, OnlyWholeFiles, AllReturn |
| `Programs_faults` | 2 lattices of 3 topologies in up to 3 fragments, both older forms of file, full disk, crashes, cuts, one item changed | TypeOK, LoadedIsLast, WholeFilesLoad, SavedWhole, OnlyLoadedUsed, SizeFits, NeighborsMutual, ProgramsEnd |
| `Hpp_waves` | 4 x 4, source of one cell, 6 iterations, all initial particles | TypeOK, NoneLeaves, Conserved, MomentumKept, Reversible, SignsChangeAtFreeWalls |

Runs that TLC finds violated, each a disagreement of the code with its
documentation (details in `PROJECT.json`, `findings`):

| Run | Property | What happens |
|---|---|---|
| `Async_hexagon_waits` | IterateReturns | the hexagonal lock order takes the centre first: adjacent threads block each other |
| `Halo_border_one` | TransfersInside | with a border of one row the iteration, whose global CAT_Bound_size is 2, receives beyond the end of the array; tests/README.md:56 and tests/build.sh:34-38 build SQUARE8, border 1, with MPI |
| `Halo_second_call` | RowsCorrect | the edges are exchanged for the array that is swapped away |
| `Load_no_digest` | SimulatesLoaded | a missing digest stops only the root's load (7 rows in parts of 3, 2 and 2, border 1) |
| `Programs_disk_full` | SaveReported | on a full disk a save returns 0 and leaves a file without its end |

Other disagreements, known from the models and kept out of the runs:

* SQUARE8 takes no locks (its LockCount is 0), so the Conserved of `Async_square4`
  fails for it; the mutant `NoLocks` of that run is the same situation.
* The shared `flag` makes the count that CAT_Iterate returns wrong when
  transitions differ in their results; hence UnanimousReported.
* With a border of one row the save would begin each fragment a row late
  (catparallel.c:458, which uses the same global).
* For damaged data README.md promises -4 where CAT_FileRead returns -3.
* For damaged data CAT_Decompress may also end the program by an assertion
  (`LoadAborts`), or never return (`Stalled`).

What these mean for the passing runs: `Halo_many_calls` is about topologies with a
border of 2, and says of the rows a rank computes that they are right up to the end of its
first call, and of the save that it gathers what the ranks have, right or not; SavedWhole
says of a save what SaveReported does, for a disk with room; AllReturn excludes
the files that lost nothing but their digest and those the decoder does not finish, and
`Load_three_ranks` contains both all the same; ProgramsEnd counts the ends by assertion
as ends, as a process that has one does end, and excludes `Stalled`. SuccessReported only
says that the count of Sync_hexagon starts and ends right: its transitions do not fail, so
the race on `flag` shows nothing there.

### Bounds

* Threads: two. Every property of the iteration is about pairs (overlap,
  cycle of two, flag of another); longer cycles of locks need more threads and
  a larger torus. The proofs of Exclusive and GlobalSpec hold for any team.
* Lattice: on 4 x 3 all pairs of cells are adjacent or at distance two through
  the wrap in at least one direction, so every kind of overlap of two
  neighbourhoods happens; 5 x 5 is the smallest torus on which neither
  direction's wrap closes a cycle for two threads. In Sync_hexagon 4 rows are
  two periods of the topology.
* `Trips` (2) is the code's I*J cut to one update per thread; the values of
  random cells are all possible ones, so every pair of updates is tried.
* MPI: two ranks are the case in which only the order of posts tells messages
  apart, as both neighbours are one process; 9 rows make parts of 5 and 4, each at least
  twice the border, which is the least the load accepts; with three calls each array has been
  read from and written to, and a rank can be a call ahead of the other twice. More ranks
  than two are covered by the theorems, which hold for any number of them.
* Load: three ranks have a receiver that is followed by another; 10 rows of one unit make parts of
  4, 3 and 3, which border 1 accepts and border 2 refuses in ranks 1 and 2 and not in the root.
* Files: all ways to cut the 10 units into fragments, with a digest that agrees or is missing;
  the same in up to three fragments with a unit more or with units less, down to two, with
  digests that differ or are missing; and up to three fragments of which one cannot be
  decoded, is never finished, decodes to a unit less, or is empty.
* `Calls` bounds `iterationsDone`.
* Programs: fragments of 4 cells make lattices of 6, 8 and 12 cells, with
  and without a smaller last fragment; two lattices are enough for a file to be
  overwritten by another lattice and loaded as the older one; one iteration
  tells a saved generation from the one before. At most `MaxChanged` (1)
  items of the file differ from what was written, besides cuts; each kind of item and of
  change occurs. The sizes 0, 1 and one more than a fragment are none, too small and too
  large. The old files have one fragment,
  as those forms do. One request is a single column, which the preprocessor
  refuses. There is one cell in a meter: with more, GetIndex of CUBE12 is that
  of another cell (a hazard listed without a property).
* HPP gas: of 4 x 4 cells the inner four are three of the medium and the source.
  All 4096 choices of particles are initial, every wall is met
  within two iterations, and six bring a particle from wall to wall and back.
  The theorems hold for every size.

CHECK_DEADLOCK is FALSE where the modelled code really may stop: on the 4 x 3
torus of `Async_square4`, whose wrap closes a cycle of locks between two
threads (with three or four rows or columns LockNeighbors of SQUARE4 can
deadlock), in `Async_hexagon_waits`, and in `Load_three_ranks`, where the
neighbours of a root that found no digest wait for its edges, and where a rank may be in
its decoder for ever. What must not
stop in the last is stated by AllReturn. Programs never stops.

### Fairness

Weak fairness of each thread (the operating system runs every thread; a lock
once free is taken by one of the threads that wait, and no property needs it to
be a particular one), of each rank, of the delivery of a message that was sent
and awaited (MPI's progress rule), and of the return of MPI_Send after its
message is received. In MpiHalo a rank that waits for its receives is only given
fairness once its own sends are matched as well (`AllSent`), as MPI_Waitall may not return
before. In Programs the running process takes steps until it ends or
dies; nothing is assumed of the disk, of crashes or of the next start. HppWaves
needs no fairness. Nothing is assumed of `cellTransition` but that it returns.

## 4. Proofs

All checked by `tlapm`, for all values of the constants under the named
assumptions of the modules.

* `AsyncIterateProofs.TypeCorrect`, `MutualExclusion`, `LocksReleased`. The
  inductive invariant `IInv` adds to the types: a thread's `step` is within its
  phase's list (`StepsInRange`); the locks from which a thread's phase and step
  say it holds them are owned by it (`LocksOwned`); no lock occurs twice in a
  list in use (`LocksDistinct`: omp_set_lock on a lock the thread already holds
  never returns, so a thread never gets past a repeated entry); every owned lock
  is held by its owner's position in the list (`NoLockLost`); after the return
  nobody is in the loop (`LoopOver`). Exclusive is not inductive: that two
  neighbourhoods are disjoint follows only because both threads hold *all* the
  locks, and the lemma `LocksCoverHood` (the lock list covers the
  neighbourhood) turns owned locks into disjoint cells. `MutualExclusion`
  assumes `TOPOLOGY # "SQUARE8"`, whose lock list is empty; without that it is
  false.
* `AsyncIterateProofs.ImplementsSerialUpdates`, under the same assumption: the
  iteration implements SerialUpdates, the transition of a cell being the moment of
  its update. The array mapped to is `Committed`: a cell that a thread has still to
  put back has the value the thread has for it. `CopiesFresh` says that what a
  thread has gathered so far is what the array still holds, as no other thread writes
  there (MutualExclusion); so the transition sees the neighbourhood as an
  update that is alone does, and every other step leaves Committed as it is.
* `AsyncIterateProofs.CellsConserved`, under the same assumption: an iteration whose
  transition gives back what it got (`Rearranging`) leaves as many cells of every value.
  While threads put cells back the array itself has too many or too few, so the
  invariant is about `Committed`. A transition replaces the values of a neighbourhood, of
  which the slots must be different cells for the count to be kept: on a lattice so
  small that they are not, a thread waits for a lock it has itself and never calls the
  transition (`SlotsDistinct`, from LocksDistinct).
* `AsyncIterateProofs.UnanimousErrors`, for every topology, SQUARE8 included. All
  threads share `flag`, so a thread may count the result of another. `ErrorsCounted`:
  while no transition has failed, flag is 0 and every counted iteration is taken off
  errSum; if all have, flag is 1 at every thread about to count. The number of
  iterations whose flag has been counted is a cardinality (`Counted`), which a step
  of one thread changes by at most one.
* `SyncIterateProofs.TypeCorrect`, `ImplementsGenerations`. The invariant adds
  `RowsDisjoint` (a row is taken by one thread or left), `BuffersFresh` (what a
  thread's buffer holds) and `Written` (all cells behind a thread's position
  hold a successor of the old array). At `Return` no row is left and no thread
  is busy, so `Written` covers the lattice and the exchange of the arrays is a
  Generation.
* `SyncIterateProofs.NoFalseAlarm`: a call in which every transition returns 0
  returns 0. `SuccessCounted`: as long as all have, errSum is what is left of the
  lattice's size when every cell counted is taken off once; at the return all cells
  are counted, because the rows taken and left cover the lattice.
* `PartitionProofs.PartsCoverLattice`: the first part begins at 0, each begins
  where the one before it ends, the last ends with the lattice, if the size is
  a multiple of the period (the load aborts on others).
* `MpiHaloProofs.TypeCorrect`, `KeepInStep`, for any lattice, number of ranks (two
  included) and of calls, and any `BoundSize`. No variable of a rank says how far its
  neighbours are, so InStep is not inductive. The invariant `CountInv` is a balance
  per pair of ranks: the messages under way are those awaited, plus what the sender has
  posted (`SendsMade`) more than the receiver (`RecvsMade`), once per edge the two
  share (`Edges`), plus a fragment sent and not yet written (`InTransit`). A queue is
  never shorter than empty, a rank that has returned awaits nothing, so it cannot
  be a second call ahead; when all have finished the balance is zero and the queues
  are empty. `MemoryInv` types the messages, without which an array that has
  received one has no type. After an abort only arrivals are left, which change
  neither places nor counters.
* `MpiHaloProofs.GhostsCorrect`, for every border, any `BoundSize` and any number of calls:
  the exchange of the load does not use the global. A rank that is still in the
  exchange may have neighbours that already send edges of later calls; `AwaitedInv` says that the messages it
  still waits for are the first ones under way, and what they are, and nothing of those behind
  them.
* `MpiHaloProofs.FirstCallCorrect` and `SaveGathersParts`, for any lattice, number of
  ranks and of calls, under the hypothesis `BoundSize = BorderI`. The hypothesis stands in
  the theorems because both are false without it: it holds for the builds with a border of 2,
  and `Halo_border_one` shows what the others do. The first is about a rank's first call, while
  its neighbours may be in later ones; the second about whatever calls there were. The
  balance counts messages; the invariant `HaloInv` says what they are. `RecvsInv`: the
  n-th receive from a rank is for the ghost rows which the number of receives
  *behind* it determines (`GhostBegin`: where both neighbours are one rank, the
  receives for the rows below and above alternate). `SendsInv` says the same of
  the messages under way, as long as their sender has made no more than two
  exchanges; so the oldest message and the oldest receive are for the
  same rows (`HeadsMatch`), which is what MPI's matching by order relies on.
  `RowsInv` says what of a rank's two arrays is right at which place of the call
  (`FirstCall`), and uses that a rank waiting for its first call's ghosts has
  neighbours that have made at most two exchanges (`AtMostTwoExchanges`, from the
  balance). `FragmentsInv`: the last message of a rank that has sent its fragment
  is the fragment; the balance makes it the only one when the root takes it
  (`OnlyFragment`). That parts follow each other around the torus comes
  from PartitionProofs (`PartsAdjoin`, `EdgesMatch`). From the second call on the
  rows are not right (`Halo_second_call`), so there is no more to prove of them.
* `ParallelLoadProofs.TypeCorrect`, `PartsLoaded`, `NoMessageLeft`,
  `OnlyWholeSimulated`, for every file, number of ranks, border and size of rows, with files whose
  sizes are wrong among them. The root copies what was decoded for its own part and counts
  recorded sizes for the others', so on such a file it may be ahead of the place where
  a part begins (`Ahead`); ranks still agree on where messages begin and end. Root and receivers move cursors of their own over the
  same fragments, and none of the first three properties is inductive alone. `RootInv`
  says how far the root's cursor in the file (`Reached`) is in terms of the parts:
  the end of `dest`'s part less what it still wants. `ChannelInv` says that the
  messages to a rank begin where the rank has got to, follow each other without
  a gap, and end where the root has got to with that rank (`Sent`). The lemma
  `FragmentSent` shows that the root's append keeps this chain, `ReceiveKeeps` that
  the rank's own computation of its share takes exactly the chain's first link;
  an empty chain is then a rank that is complete. PartitionProofs supplies that
  parts follow each other. For the fourth, `EdgesInv` says
  that the root has sent its edges only after a digest that agrees, and that a
  neighbour of the root that goes on to simulate has the root's edges: a rank of
  a file that is damaged waits for edges that never come. `DigestAssumption` says
  that a digest which agrees is one of the whole file.
* `ProgramsProofs.LoadsAreTrue`, `FailedLoadsUnused`. The invariant: every digest
  in the file or in the buffer is that of `given`; while a save runs, `ctx` is the
  digest of exactly the cells written or skipped so far (`SaveInv`); while a load
  runs, `ctx` is that of what is loaded (`LoadInv`). A digest that agrees is then
  equal to `given`, whatever was lost or damaged before it. The assumptions: what a
  preprocessor asks for is a topology, a place and a density, old files are
  lattices. That equal digests mean equal headers, sizes and cells is how
  digests are modelled.
* `ProgramsProofs.TypeCorrect`, from `CursorInv`: the headers a process has are
  headers, and every cursor is at 0 where its process has not begun to move it.
* `ProgramsProofs.SavesAreWhole` and `WholeFilesCanBeLoaded`, for every lattice, fragment
  size and history of the file. `WholeInv` has both ends. While a save runs on a disk
  with room, what is on the disk followed by what is in the buffer is the beginning of
  `WholeFile(given)`, as long as the fragments written so far make it (`SavedInv`); a
  flush moves items from one to the other and so changes nothing of it. While a load
  runs over a whole file, it has the cells of the first n fragments and stands behind
  them (`LoadedInv`). What the two need of arithmetic is `FragmentCount`: n full
  fragments have fewer cells than the lattice just when n is less than the number of
  fragments, rounded up. `OldInv` is for a coincidence TLC cannot rule out beyond its
  instance: a file of an older form whose items are those of a file of fragments. Only an
  LZMA file of one fragment is, and that one loads the same way.
* `ProgramsProofs.NewLatticesFit`, under a condition on what a preprocessor asks for: a
  CUBE12 has one cell in a meter. With more, GetIndex does not give back the coordinates
  it is given, which is a hazard listed without a property. The instances of the
  runs satisfy the condition.
* `ProgramsProofs.LatticesMutual`, for lattices of any size up to MaxSide, which bounds
  the set of shapes the property names. `ShapesInv` follows the size from GetLatticeSize
  through file and load: a load that succeeds has the header of the last save, and
  the simulator refuses one of another topology. What is left is geometry. `StepBack`: a
  step on a torus can be undone, even on one so short that the step leads around it;
  `ParityStep`: where the number of rows is even, a step changes the parity of a row, also
  where the torus closes. The hexagonal topology and CUBE12 depend on the parity just in those
  steps that change it. The period of 2, to which sizes are rounded, is what makes
  this true: the mutant `LastIndexPlusOne` drops the rounding.
* `HppWavesProofs.TypeCorrect`, `ParticlesStayInside`, `ParticlesConserved`,
  `MovingCanBeUndone`, for every lattice of at least 3 x 3 cells and every radius. NoneLeaves
  is not inductive: a particle on a wall would leave if it went on. The invariant
  adds `WallsTurn`: what is on a wall has come from an inner cell and, after the
  collision, goes back there, for which the types of the frame must never change.
  Conservation is proved with bijections: collisions permute the particles of a
  cell, and propagation those of the grid.
* `HppWavesProofs.MomentumConserved` and `SignsOnlyAtFreeWalls`, from the same
  invariant. For the momentum, cells are counted: those where a particle of a sign
  goes in a direction lose the cells where two meet along it and gain those where two
  meet across (`GoingAfterwards`), and the opposite direction loses and gains the same
  ones. For the signs, the particles of one sign on the free walls are mapped
  one-to-one to those of the other after the collision, and elsewhere to those of their
  own (`CollidedSigns`); moving them changes no sign (`MovedSigns`).

Only model-checked: everything temporal under fairness (IterateReturns,
CallsReturn, AllFinish, AllReturn, ProgramsEnd), which is out of TLAPS's reach. Every
invariant and every action property of a passing run is a theorem, some under the
assumptions named above.

## 5. Not modelled

* Floating-point dynamics (`models/spring_seismic_waves`) and `my_model`, whose
  transition adds no interaction; vendored code; output.
* The loops of CAT_Compress and CAT_Decompress over the buffers of the codec: a
  fragment is decoded to what was encoded, is undecodable, decodes to less than recorded, or keeps
  the decoder for ever. Which data do which is up to the vendored codec.
* The metric functions of topologies, but for GetIndex where the preprocessor uses it.
* malloc failures in loads and at the beginning of an iteration, and the garbage that a failed compression in
  CAT_FileSaveParallel2D sends. A failed compression in CAT_FileSave is modelled.
* The generator of random numbers: CAT_Rand is any cell.
* The 3D iteration, which the code comments as unfinished.
* A second Init / Finalize cycle in one process, which no program makes.
* An MPI build run by a single process. MpiHalo has one OpenMP
  thread per rank, while the code lets every thread post the four requests; and a
  row in it has no parity, while the hexagonal neighbourhood takes its parity
  from the row's place in memory.

The hazards among these are listed in `PROJECT.json` with a note.

## 6. What is left

In this order:

1. hexagonal parity in MpiHalo (a composition with Topology), the OpenMP team in an
   MPI rank, the single process;
2. GetIndex and GetCoord of all topologies for any number of cells in a meter;
3. the generator of random numbers and `my_model`;
4. a run for a new component replaces one of those that show a finding, or joins
   an instance that exists: runs stay few.
