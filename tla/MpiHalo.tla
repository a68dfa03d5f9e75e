------------------------------ MODULE MpiHalo ------------------------------
(***************************************************************************)
(* The synchronous iteration of an MPI build and the save at its end       *)
(* (CAT_Iterate_Sync_Parallel of catlib.c, CAT_FileSaveParallel2D of       *)
(* catparallel.c).  Every rank keeps a block of the lattice's rows between *)
(* two groups of ghost rows, copies of its neighbours' edges, and two such *)
(* arrays that change places on each iteration.  Ranks only meet through   *)
(* messages, all with the same tag.  Those of the iteration do not block:  *)
(* a receive names the array it writes to when it is posted, and is        *)
(* completed at any time after the matching send.                          *)
(*                                                                         *)
(* The load and the loop over the rows know the border of the topology,    *)
(* the messages of the iteration and the save only the global              *)
(* CAT_Bound_size, 2.  That is the border of SQUARE24; for the others,     *)
(* whose border is 1, what the code then does outside its arrays is        *)
(* undefined, and nothing is claimed beyond TransfersInside being false.   *)
(*                                                                         *)
(* A row is represented by where it comes from: <<i, g>> is row i of the   *)
(* lattice in generation g, Junk anything else (what malloc returned, or   *)
(* what cellTransition makes of a neighbourhood that is not one            *)
(* generation's).                                                          *)
(***************************************************************************)
EXTENDS Partition, Sequences

CONSTANTS
  SizeI,         \* header->arraySizeI
  PeriodI,       \* latticePeriod.i of the topology
  BorderI,       \* borderWidth.i of the topology
  BoundSize,     \* the global CAT_Bound_size, 2, which nothing assigns
  Calls,         \* how often the program calls CAT_Iterate
  Junk           \* a row of no generation

Part(r) == PartSize(SizeI, r, PeriodI)
Begin(r) == PartBegin(SizeI, r, PeriodI)

\* The sizes CAT_FileReadParallel2D accepts: it aborts the run on any other.  A
\* single process iterates with CAT_Iterate_Sync and exchanges nothing.
ASSUME SizeAssumption ==
  /\ SizeI \in Nat /\ PeriodI \in Nat \ {0} /\ BorderI \in Nat \ {0}
  /\ BoundSize \in Nat
  /\ ProcSize > 1
  /\ SizeI % PeriodI = 0
  /\ SizeI \div PeriodI >= ProcSize
  /\ \A r \in Ranks : Part(r) >= 2 * BorderI
ASSUME CallsAssumption == Calls \in Nat

Up(r) == IF r # 0 THEN r - 1 ELSE ProcSize - 1
Down(r) == (r + 1) % ProcSize

\* The rows of the memory a rank allocates for an array: its part and, on both
\* sides of it, the ghost rows.
Memory(r) == 0 .. Part(r) + 2 * BorderI - 1

\* The number of rows that arraySizeWithBound stands for: what was allocated in
\* CAT_FileReadParallel2D, but in CAT_Iterate_Sync_Parallel it is computed
\* before the local CAT_Bound_size hides the global one.
LoadedRows(r) == Part(r) + 2 * BorderI
IteratedRows(r) == Part(r) + 2 * BoundSize

\* The BorderI rows of memory from m on; nothing is known of rows outside it.
Slice(r, a, m) ==
  [k \in 1 .. BorderI |-> IF m + k - 1 \in Memory(r) THEN a[m + k - 1] ELSE Junk]

VARIABLES
  arrays,          \* cellularArray and cellularArraySwap of every rank
  current,         \* which of the two cellularArray points to
  iterationsDone,  \* header->iterationsDone of every rank
  pc,              \* where every rank is
  sends,           \* messages posted by a rank to another, oldest first
  recvs,           \* receives posted by a rank for another, oldest first
  file             \* the fragments the root has written to the file

vars == <<arrays, current, iterationsDone, pc, sends, recvs, file>>

\* The array a rank holds after the load: its part of generation 0.
Loaded(r) ==
  [m \in Memory(r) |-> IF m \in BorderI .. BorderI + Part(r) - 1
                         THEN <<Begin(r) + m - BorderI, 0>> ELSE Junk]

Init ==
  /\ arrays = [r \in Ranks |-> [x \in {0, 1} |->
                 IF x = 0 THEN Loaded(r) ELSE [m \in Memory(r) |-> Junk]]]
  /\ current = [r \in Ranks |-> 0]
  /\ iterationsDone = [r \in Ranks |-> 0]
  /\ pc = [r \in Ranks |-> "load"]
  /\ sends = [r \in Ranks |-> [s \in Ranks |-> << >>]]
  /\ recvs = [r \in Ranks |-> [s \in Ranks |-> << >>]]
  /\ file = << >>

Goto(r, from, to) == pc[r] = from /\ pc' = [pc EXCEPT ![r] = to]

\* The requests of rank r towards its two neighbours, the first one first: with
\* two ranks both have the same peer.
Post(r, requests, first, second) ==
  [requests EXCEPT ![r] =
     [s \in Ranks |-> @[s] \o (IF s = first[1] THEN <<first[2]>> ELSE << >>)
                           \o (IF s = second[1] THEN <<second[2]>> ELSE << >>)]]

\* Mutant: bounds are sent that the rank got from someone else.
PostSendsOfBounds(r, n) ==
  LET a == arrays[r][current[r]]
  IN sends' = Post(r, sends, <<Up(r), Slice(r, a, 0)>>,
                             <<Down(r), Slice(r, a, n - BorderI)>>)

\* The two MPI_Isend: the edges of the part that a memory of n rows has.
PostSends(r, n) ==
  LET a == arrays[r][current[r]]
  IN sends' = Post(r, sends, <<Up(r), Slice(r, a, BorderI)>>,
                             <<Down(r), Slice(r, a, n - 2 * BorderI)>>)

\* Mutant: the receives are posted in the order of the sends, which matters
\* when both neighbours are the same rank.
PostRecvsInOrderOfSends(r, n) ==
  LET ghosts(m) == [array |-> current[r], begin |-> m]
  IN recvs' = Post(r, recvs, <<Up(r), ghosts(0)>>,
                             <<Down(r), ghosts(n - BorderI)>>)

\* The two MPI_Irecv, into the ghost rows of cellularArray.
PostRecvs(r, n) ==
  LET ghosts(m) == [array |-> current[r], begin |-> m]
  IN recvs' = Post(r, recvs, <<Down(r), ghosts(n - BorderI)>>,
                             <<Up(r), ghosts(0)>>)

\* A message arrives: MPI matches the oldest send with the oldest receive.
Deliver(s, r) ==
  /\ sends[s][r] # << >>
  /\ recvs[r][s] # << >>
  /\ LET rows == Head(sends[s][r])
         to == Head(recvs[r][s])
     IN arrays' = [arrays EXCEPT ![r][to.array] =
          [m \in Memory(r) |-> IF m \in to.begin .. to.begin + BorderI - 1
                                 THEN rows[m - to.begin + 1] ELSE @[m]]]
  /\ sends' = [sends EXCEPT ![s][r] = Tail(@)]
  /\ recvs' = [recvs EXCEPT ![r][s] = Tail(@)]
  /\ UNCHANGED <<current, iterationsDone, pc, file>>

\* Mutant: MPI_Waitall is left out.
NotWaitedFor(r) == TRUE

\* MPI_Waitall for two receives and two sends.  A send may complete as soon as MPI
\* has buffered it, so the receives alone have to have arrived; but it is only sure
\* to complete when it has been received, see FairSpec.
AllReceived(r) == \A s \in Ranks : recvs[r][s] = << >>

AllSent(r) == \A s \in Ranks : sends[r][s] = << >>

\* CAT_BoundExchange at the end of CAT_FileReadParallel2D.
BoundExchange(r) ==
  /\ Goto(r, "load", "exchange")
  /\ PostSends(r, LoadedRows(r))
  /\ PostRecvs(r, LoadedRows(r))
  /\ UNCHANGED <<arrays, current, iterationsDone, file>>

Exchanged(r) ==
  /\ Goto(r, "exchange", "ready")
  /\ AllReceived(r)
  /\ UNCHANGED <<arrays, current, iterationsDone, sends, recvs, file>>

\* CAT_Iterate_Part on the rows from down to up - 1 of the part: row i of the
\* lattice, at m of the memory, gets its next generation if all rows within
\* BorderI of it are its neighbours of one generation.  They are looked for
\* modulo SizeI, as in a build without MPI.
IteratePart(r, down, up) ==
  LET a == arrays[r][current[r]]
      g == iterationsDone[r]
      row(m) == LET i == Begin(r) + m - BorderI
                IN IF \A d \in -BorderI .. BorderI :
                        a[(m + d + SizeI) % SizeI] = <<(i + d) % SizeI, g>>
                     THEN <<i, g + 1>> ELSE Junk
  IN arrays' = [arrays EXCEPT ![r][1 - current[r]] =
       [m \in Memory(r) |->
          IF m \in down + BorderI .. up + BorderI - 1 THEN row(m) ELSE @[m]]]

\* CAT_Iterate begins with CAT_BoundRecv.
BoundRecv(r) ==
  /\ iterationsDone[r] < Calls
  /\ Goto(r, "ready", "up")
  /\ PostRecvs(r, IteratedRows(r))
  /\ UNCHANGED <<arrays, current, iterationsDone, sends, file>>

IterateUpper(r) ==
  /\ Goto(r, "up", "down")
  /\ IteratePart(r, 0, BorderI)
  /\ UNCHANGED <<current, iterationsDone, sends, recvs, file>>

IterateLower(r) ==
  /\ Goto(r, "down", "send")
  /\ IteratePart(r, Part(r) - BorderI, Part(r))
  /\ UNCHANGED <<current, iterationsDone, sends, recvs, file>>

\* Mutant: nothing is sent in the last call, which nobody seems to read.
BoundSendUnlessLast(r) ==
  /\ Goto(r, "send", "inner")
  /\ IF iterationsDone[r] + 1 < Calls THEN PostSends(r, IteratedRows(r))
                                       ELSE UNCHANGED sends
  /\ UNCHANGED <<arrays, current, iterationsDone, recvs, file>>

\* CAT_BoundSend: it is given cellularArray, the array of the last generation.
BoundSend(r) ==
  /\ Goto(r, "send", "inner")
  /\ PostSends(r, IteratedRows(r))
  /\ UNCHANGED <<arrays, current, iterationsDone, recvs, file>>

IterateInner(r) ==
  /\ Goto(r, "inner", "wait")
  /\ IteratePart(r, BorderI, Part(r) - BorderI)
  /\ UNCHANGED <<current, iterationsDone, sends, recvs, file>>

\* The exchange of the arrays, MPI_Waitall and iterationsDone++.
Return(r) ==
  /\ Goto(r, "wait", "ready")
  /\ AllReceived(r)
  /\ current' = [current EXCEPT ![r] = 1 - @]
  /\ iterationsDone' = [iterationsDone EXCEPT ![r] = @ + 1]
  /\ UNCHANGED <<arrays, sends, recvs, file>>

\* Mutant: the rows are taken from the beginning of the memory.
ContributionWithGhosts(r) ==
  [k \in 1 .. Part(r) |-> arrays[r][current[r]][k - 1]]

\* The fragment a rank contributes to the file skips BoundSize rows.
Contribution(r) ==
  [k \in 1 .. Part(r) |->
     IF BoundSize + k - 1 \in Memory(r) THEN arrays[r][current[r]][BoundSize + k - 1]
                                        ELSE Junk]

\* CAT_FileSaveParallel2D of a rank that is not the root.
SendFragment(r) ==
  /\ r # 0
  /\ iterationsDone[r] = Calls
  /\ Goto(r, "ready", "sent")
  /\ sends' = [sends EXCEPT ![r][0] = Append(@, Contribution(r))]
  /\ UNCHANGED <<arrays, current, iterationsDone, recvs, file>>

\* MPI_Send returns when the message is received, or before if MPI buffers it.
SentFragment(r) ==
  /\ Goto(r, "sent", "done")
  /\ UNCHANGED <<arrays, current, iterationsDone, sends, recvs, file>>

\* The root opens the file and writes the header.
OpenFile(r) ==
  /\ r = 0
  /\ iterationsDone[r] = Calls
  /\ Goto(r, "ready", "gather")
  /\ UNCHANGED <<arrays, current, iterationsDone, sends, recvs, file>>

WriteOwn(r) ==
  /\ r = 0 /\ pc[r] = "gather"
  /\ file = << >>
  /\ file' = <<Contribution(r)>>
  /\ UNCHANGED <<arrays, current, iterationsDone, pc, sends, recvs>>

\* The root waits for each of the other ranks in turn.  Whatever comes next from
\* that rank is taken for its fragment.
WriteReceived(r, s) ==
  /\ r = 0 /\ pc[r] = "gather"
  /\ s = Len(file) /\ s # 0
  /\ sends[s][r] # << >>
  /\ file' = Append(file, Head(sends[s][r]))
  /\ sends' = [sends EXCEPT ![s][r] = Tail(@)]
  /\ UNCHANGED <<arrays, current, iterationsDone, pc, recvs>>

\* The digest is written, and whether it was is not asked.
CloseFile(r) ==
  /\ r = 0
  /\ Len(file) = ProcSize
  /\ Goto(r, "gather", "done")
  /\ UNCHANGED <<arrays, current, iterationsDone, sends, recvs, file>>

\* The file cannot be opened, or the header or a fragment not be written: the
\* root aborts all ranks.
WriteFails ==
  /\ pc[0] = "gather"
  /\ Len(file) < ProcSize
  /\ pc' = [r \in Ranks |-> "aborted"]
  /\ UNCHANGED <<arrays, current, iterationsDone, sends, recvs, file>>

\* All ranks have saved and finalized MPI, or are aborted.
Finished ==
  /\ \A r \in Ranks : pc[r] \in {"done", "aborted"}
  /\ UNCHANGED vars

RankStep(r) ==
  \/ BoundExchange(r) \/ Exchanged(r) \/ BoundRecv(r) \/ IterateUpper(r)
  \/ IterateLower(r) \/ BoundSend(r) \/ IterateInner(r) \/ Return(r)
  \/ SendFragment(r) \/ OpenFile(r) \/ WriteOwn(r) \/ CloseFile(r)
  \/ \E s \in Ranks : WriteReceived(r, s)

Next ==
  \/ \E r \in Ranks : RankStep(r) \/ SentFragment(r)
  \/ \E s, r \in Ranks : Deliver(s, r)
  \/ WriteFails
  \/ Finished

Spec == Init /\ [][Next]_vars

\* Every process runs, and MPI delivers every message that is sent and awaited.  A
\* blocking send, and MPI_Waitall for sends, are only sure to return when the
\* messages have been received.
FairSpec ==
  /\ Spec
  /\ \A r \in Ranks :
       WF_vars(RankStep(r) /\ (pc[r] \in {"exchange", "wait"} => AllSent(r)))
  /\ \A r \in Ranks : WF_vars(SentFragment(r) /\ sends[r][0] = << >>)
  /\ \A s, r \in Ranks : WF_vars(Deliver(s, r))

-----------------------------------------------------------------------------

Rows == ((0 .. SizeI - 1) \X (0 .. Calls)) \union {Junk}

\* A rank is in CAT_Iterate.
Calling == {"up", "down", "send", "inner", "wait"}

TypeOK ==
  /\ \A r \in Ranks : \A x \in {0, 1} : \A m \in Memory(r) : arrays[r][x][m] \in Rows
  /\ current \in [Ranks -> {0, 1}]
  /\ iterationsDone \in [Ranks -> 0 .. Calls]
  /\ pc \in [Ranks -> {"load", "exchange", "ready", "up", "down", "send",
                       "inner", "wait", "sent", "gather", "done", "aborted"}]

\* A rank's part of cellularArray is, between calls of CAT_Iterate, its part of
\* the generation it has reached.
PartCorrect(r) ==
  \A k \in 0 .. Part(r) - 1 :
    arrays[r][current[r]][BorderI + k] = <<Begin(r) + k, iterationsDone[r]>>

RowsCorrect == \A r \in Ranks : pc[r] = "ready" => PartCorrect(r)

\* That much is true up to the end of a rank's first call, however many calls the
\* program makes and however far its neighbours have got in theirs.
FirstRowsCorrect ==
  \A r \in Ranks : pc[r] = "ready" /\ iterationsDone[r] <= 1 => PartCorrect(r)

\* Once the bounds are exchanged after the load, the ghost rows of a rank are
\* the edges of its neighbours.
GhostsLoaded ==
  \A r \in Ranks : pc[r] = "ready" /\ iterationsDone[r] = 0 =>
    \A m \in Memory(r) :
      arrays[r][0][m] = <<(Begin(r) + m - BorderI) % SizeI, 0>>

\* What the file gets are the parts that the ranks have when their last call has
\* returned, in the order of the lattice: no ghost row, and no message of an
\* exchange that was left over.  The root does not finish before it has all.
OwnRows(r) == [k \in 1 .. Part(r) |-> arrays[r][current[r]][BorderI + k - 1]]

SaveGathers ==
  /\ \A n \in DOMAIN file : file[n] = OwnRows(n - 1)
  /\ pc[0] = "done" => Len(file) = ProcSize

\* Messages only touch memory that was allocated for the array.
TransfersInside ==
  \A r, s \in Ranks : \A n \in DOMAIN recvs[r][s] :
    LET m == recvs[r][s][n].begin IN m .. m + BorderI - 1 \subseteq Memory(r)

\* A message never waits for a receive of a later call: neighbours are at most
\* one call apart, and no message is left when all have finished.
InStep ==
  /\ \A r \in Ranks : iterationsDone[r] - iterationsDone[Up(r)] \in -1 .. 1
  /\ (\A r \in Ranks : pc[r] = "done") =>
       \A r, s \in Ranks : sends[r][s] = << >>

\* Why they keep in step: what is under way between two ranks is what the sender
\* has posted more than the receiver, exchange by exchange, and the fragment of a
\* rank that has sent it and whose fragment the root has not written.
SendsMade(r) ==
  IF pc[r] = "load" THEN 0
  ELSE iterationsDone[r] + (IF pc[r] \in {"inner", "wait"} THEN 2 ELSE 1)

RecvsMade(r) ==
  IF pc[r] = "load" THEN 0
  ELSE iterationsDone[r] + (IF pc[r] \in Calling THEN 2 ELSE 1)

Edges(s, r, number) ==
  (IF r = Up(s) THEN number ELSE 0) + (IF r = Down(s) THEN number ELSE 0)

InTransit(s, r) ==
  IF r # 0 \/ s = 0 THEN 0
  ELSE (IF pc[s] \in {"sent", "done"} THEN 1 ELSE 0) - (IF Len(file) > s THEN 1 ELSE 0)

CountInv ==
  \A s, r \in Ranks :
    /\ Len(sends[s][r]) = Len(recvs[r][s]) + Edges(s, r, SendsMade(s) - RecvsMade(r))
                            + InTransit(s, r)
    /\ Len(recvs[r][s]) <= IF pc[r] \in Calling \union {"exchange"} THEN Edges(s, r, 1) ELSE 0

PlacesInv ==
  /\ \A r \in Ranks :
       /\ pc[r] # "aborted"
       /\ pc[r] \in {"load", "exchange"} => iterationsDone[r] = 0
       /\ pc[r] \in Calling => iterationsDone[r] < Calls
       /\ pc[r] \in {"sent", "gather", "done"} => iterationsDone[r] = Calls
       /\ pc[r] = "gather" => r = 0
       /\ pc[r] = "sent" => r # 0
  /\ pc[0] = "done" => Len(file) = ProcSize

Messages == UNION {[1 .. n -> Rows] : n \in {l \in Nat : l >= BorderI}}

Requests == [array : {0, 1}, begin : Int]

MemoryInv ==
  /\ DOMAIN arrays = Ranks
  /\ \A r \in Ranks : arrays[r] \in [{0, 1} -> [Memory(r) -> Rows]]
  /\ sends \in [Ranks -> [Ranks -> Seq(Messages)]]
  /\ recvs \in [Ranks -> [Ranks -> Seq(Requests)]]
  /\ file \in Seq(Messages)

IInv ==
  /\ TypeOK
  /\ MemoryInv
  /\ InStep
  /\ (PlacesInv /\ CountInv) \/ \A r \in Ranks : pc[r] = "aborted"

\* Why the first call is right.  A rank's part and ghosts, and what is sent for the
\* ghost rows from m on:
PartIs(r, x, g, from, to) ==
  \A m \in from .. to - 1 : arrays[r][x][m] = <<Begin(r) + m - BorderI, g>>

GhostsAre(r, m) ==
  \A k \in 1 .. BorderI :
    arrays[r][0][m + k - 1] = <<(Begin(r) + m + k - 1 - BorderI) % SizeI, 0>>

GhostRows(r, m) ==
  [k \in 1 .. BorderI |-> <<(Begin(r) + m + k - 1 - BorderI) % SizeI, 0>>]

\* The ghost rows that rank r receives from s with d requests to follow: in an exchange
\* those above the part come last.
GhostBegin(r, s, d) ==
  IF s = Up(r) /\ (s = Down(r) => d % 2 = 0) THEN 0 ELSE Part(r) + BorderI

RecvsInv ==
  \A r, s \in Ranks : \A n \in 1 .. Len(recvs[r][s]) :
    recvs[r][s][n] =
      [array |-> current[r], begin |-> GhostBegin(r, s, Len(recvs[r][s]) - n)]

\* What a rank sends after the load and in its first call is of generation 0.
EdgesSent(s, r) == Len(sends[s][r]) - InTransit(s, r)

SendsInv ==
  \A s, r \in Ranks : SendsMade(s) <= 2 =>
    \A n \in 1 .. EdgesSent(s, r) :
      sends[s][r][n] = GhostRows(r, GhostBegin(r, s, EdgesSent(s, r) - n))

\* Before the first call has ended, and until the second has.
FirstCall(r) ==
  /\ current[r] = 0
  /\ PartIs(r, 0, 0, BorderI, BorderI + Part(r))
  /\ pc[r] = "exchange" =>
       /\ recvs[r][Up(r)] = << >> => GhostsAre(r, 0)
       /\ Len(recvs[r][Down(r)]) < Edges(Down(r), r, 1) => GhostsAre(r, Part(r) + BorderI)
  /\ pc[r] \in {"ready", "up", "down"} => GhostsAre(r, 0)
  /\ pc[r] \in {"ready", "up", "down"} => GhostsAre(r, Part(r) + BorderI)
  /\ pc[r] \in {"down", "send", "inner", "wait"} => PartIs(r, 1, 1, BorderI, 2 * BorderI)
  /\ pc[r] \in {"send", "inner", "wait"} =>
       PartIs(r, 1, 1, Part(r), Part(r) + BorderI)
  /\ pc[r] = "wait" => PartIs(r, 1, 1, 2 * BorderI, Part(r))

RankRows(r) ==
  /\ iterationsDone[r] = 0 => FirstCall(r)
  /\ iterationsDone[r] = 1 =>
       current[r] = 1 /\ PartIs(r, 1, 1, BorderI, BorderI + Part(r))

RowsInv == \A r \in Ranks : RankRows(r)

\* The fragments: what is under way to the root, and what it has written, are the parts
\* of ranks whose arrays do not change any more.
FragmentsInv ==
  \A s \in Ranks :
    /\ InTransit(s, 0) \in {0, 1}
    /\ InTransit(s, 0) = 1 => sends[s][0][Len(sends[s][0])] = OwnRows(s)

FileInv ==
  /\ Len(file) <= ProcSize
  /\ \A n \in DOMAIN file :
       file[n] = OwnRows(n - 1) /\ \A s \in Ranks : recvs[n - 1][s] = << >>

FileBegun == file # << >> => pc[0] \in {"gather", "done", "aborted"}

HaloInv ==
  /\ IInv
  /\ FileInv
  /\ FileBegun
  /\ (RecvsInv /\ SendsInv /\ RowsInv /\ FragmentsInv) \/ \A r \in Ranks : pc[r] = "aborted"

\* Why the ghost rows are right after the load, whatever BoundSize is: a rank that is
\* still in the exchange awaits so many messages of another, and these are the first it
\* gets, though the other may have sent more since.
Awaited(r, s) ==
  IF pc[r] = "load" THEN Edges(s, r, 1)
  ELSE IF pc[r] = "exchange" THEN Len(recvs[r][s]) ELSE 0

AwaitedInv(r, s) ==
  /\ pc[r] = "exchange" =>
       \A n \in 1 .. Len(recvs[r][s]) :
         recvs[r][s][n] =
           [array |-> current[r], begin |-> GhostBegin(r, s, Len(recvs[r][s]) - n)]
  /\ \A n \in 1 .. Len(sends[s][r]) : n <= Awaited(r, s) =>
       sends[s][r][n] = GhostRows(r, GhostBegin(r, s, Awaited(r, s) - n))

LoadedInv(r) ==
  iterationsDone[r] = 0 =>
    /\ pc[r] \in {"load", "exchange", "ready"} =>
         current[r] = 0 /\ PartIs(r, 0, 0, BorderI, BorderI + Part(r))
    /\ pc[r] = "exchange" =>
         /\ recvs[r][Up(r)] = << >> => GhostsAre(r, 0)
         /\ Len(recvs[r][Down(r)]) < Edges(Down(r), r, 1) => GhostsAre(r, Part(r) + BorderI)
    /\ pc[r] = "ready" => GhostsAre(r, 0) /\ GhostsAre(r, Part(r) + BorderI)

LoadInv == \A r \in Ranks : LoadedInv(r) /\ \A s \in Ranks : AwaitedInv(r, s)

\* Every rank makes all its calls and saves, unless the file cannot be written: no
\* rank waits for ever for a message of another.
AllFinish == <>(\A r \in Ranks : pc[r] \in {"done", "aborted"})

=============================================================================
