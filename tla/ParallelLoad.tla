---------------------------- MODULE ParallelLoad ----------------------------
(***************************************************************************)
(* How an MPI build loads a lattice (CAT_InitSimulator of catlib.c and     *)
(* CAT_FileReadParallel2D of catparallel.c).  Rank 0 reads the compressed  *)
(* fragments of the file one by one.  It fills its own part with them, and *)
(* then sends every other rank the fragments its part lies in, each with   *)
(* the offset where the rank's share of it begins.  At the end of the file *)
(* it compares the digest, and then all ranks exchange their edges.        *)
(*                                                                         *)
(* The lattice's data are numbered units, RowSize of them in a row; the    *)
(* fragments of a file are the numbers of units there are, by the sizes    *)
(* the file records, up to the end of each, and may begin and end in the   *)
(* middle of a row.                                                        *)
(***************************************************************************)
EXTENDS Partition, Sequences

CONSTANTS
  SizeI,     \* header->arraySizeI
  PeriodI,   \* latticePeriod.i of the topology
  RowSize,   \* units in a row
  Borders,   \* borders.i of the topologies the program may be compiled for
  Files,     \* the files there may be, see FilesAssumption
  Junk       \* a unit that was never written, or lies outside what was decoded

\* With other sizes every rank aborts as soon as it has the header.
ASSUME SizeAssumption ==
  /\ SizeI \in Nat /\ PeriodI \in Nat \ {0} /\ RowSize \in Nat \ {0}
  /\ SizeI % PeriodI = 0
  /\ SizeI \div PeriodI >= ProcSize
  /\ ProcSize > 1
  /\ Borders \subseteq Nat

\* Where fragment n of a file begins, by the sizes the file records.
BeginOf(f, n) == IF n = 1 THEN 0 ELSE f.ends[n - 1]

\* A file: the ends of its fragments by their recorded sizes (decompressedSize),
\* which may be 0; how many units fewer the data of each decode to; the fragments
\* that cannot be decoded (because the recorded size is smaller than the data,
\* too) and those that the decoder never finishes; and whether a digest follows
\* the last fragment and agrees with the rest of the file.
ASSUME FilesAssumption ==
  \A f \in Files :
    /\ f.ends \in Seq(Nat) /\ f.lacks \in Seq(Nat) /\ Len(f.lacks) = Len(f.ends)
    /\ \A n \in 1 .. Len(f.ends) : f.lacks[n] <= f.ends[n] - BeginOf(f, n)
    /\ f.undecodable \subseteq Nat /\ f.endless \subseteq Nat
    /\ f.digest \in {"agrees", "differs", "missing"}

\* The digest is one of the header, of all data and of all sizes.
ASSUME DigestAssumption ==
  \A f \in Files : f.digest = "agrees" =>
    /\ f.ends # << >> /\ f.ends[Len(f.ends)] = SizeI * RowSize
    /\ \A n \in 1 .. Len(f.ends) : /\ f.ends[n] > BeginOf(f, n) /\ f.lacks[n] = 0
                                   /\ n \notin f.undecodable \union f.endless

\* The first unit of a rank's part, and the number of its units (wantsBytes).
Begin(r) == PartBegin(SizeI, r, PeriodI) * RowSize
Part(r) == PartSize(SizeI, r, PeriodI) * RowSize

\* The ranks that CAT_BoundExchange exchanges edges with.
Neighboring(r, s) == s = (r + 1) % ProcSize \/ r = (s + 1) % ProcSize

VARIABLES
  file,        \* the file given to CAT_InitSimulator
  border,      \* borders.i, by the topology the program is compiled for
  read,        \* fragments the root has read; the last of them is inplaceRead
  fragCursor,  \* where in inplaceRead the next rank's share begins
  dest,        \* destRank: the rank the root is reading for
  cursor,      \* units every rank has received (bufCursor in the root)
  wants,       \* wantsBytes: units dest still wants, as the root knows
  array,       \* the main chunk of cellularArray of every rank
  channel,     \* fragments on their way from the root to every rank
  posted,      \* ranks whose edges CAT_BoundExchange has sent
  pc,          \* where every rank is
  aborted      \* MPI_Abort has been called: no process runs any more

vars == <<file, border, read, fragCursor, dest, cursor, wants, array, channel,
          posted, pc, aborted>>

root == <<read, fragCursor, dest, wants>>

Init ==
  /\ file \in Files
  /\ border \in Borders
  /\ read = 0
  /\ fragCursor = 0
  /\ dest = 0
  /\ cursor = [r \in Ranks |-> 0]
  /\ wants = 0
  /\ array = [r \in Ranks |-> [k \in 0 .. Part(r) - 1 |-> Junk]]
  /\ channel = [r \in Ranks |-> << >>]
  /\ posted = {}
  /\ pc = [r \in Ranks |-> "header"]
  /\ aborted = FALSE

Fragments == Len(file.ends)

\* The number in the file of the first unit of fragment n, how many units it has
\* by its recorded size, and how many its data decode to.
Offset(n) == BeginOf(file, n)
Size(n) == file.ends[n] - Offset(n)
Decoded(n) == Size(n) - file.lacks[n]

Least(m, n) == IF m <= n THEN m ELSE n

\* The memcpy of count units of fragment n, from the offset on, to where rank r
\* has got to.
Copy(r, n, offset, count) ==
  /\ array' = [array EXCEPT ![r] =
       [k \in DOMAIN @ |->
          IF k \notin cursor[r] .. cursor[r] + count - 1 THEN @[k]
          ELSE IF offset + k - cursor[r] < Decoded(n) THEN Offset(n) + offset + k - cursor[r]
          ELSE Junk]]
  /\ cursor' = [cursor EXCEPT ![r] = @ + count]

At(r, place) == ~aborted /\ pc[r] = place
Goto(r, place) == pc' = [pc EXCEPT ![r] = place]

Abort ==
  /\ aborted' = TRUE
  /\ UNCHANGED <<file, border, root, cursor, array, channel, posted, pc>>

\* The root cannot open the file, or read its header.
OpenFails ==
  /\ At(0, "header")
  /\ Abort

\* The header is there: the root broadcasts it, the others wait for it.
HeaderKnown(r) == At(r, "header") /\ (r = 0 \/ pc[0] # "header")

\* A part has to hold the edges that the rank will send to both sides.
PartFits(r) == PartSize(SizeI, r, PeriodI) >= 2 * border

Begins(r) ==
  /\ HeaderKnown(r)
  /\ PartFits(r)
  /\ Goto(r, IF r = 0 THEN "fill" ELSE "receive")
  /\ UNCHANGED <<file, border, root, cursor, array, channel, posted, aborted>>

Refuses(r) ==
  /\ HeaderKnown(r)
  /\ ~PartFits(r)
  /\ Abort

Undecodable(n) == Size(n) = 0 \/ n \in file.undecodable

\* The root reads a fragment for its own part.  What it copies is what was
\* decoded, whatever size the file records.
Fill ==
  LET n == read + 1
      toCopy == Least(Decoded(n), Part(0) - cursor[0])
  IN /\ At(0, "fill")
     /\ cursor[0] < Part(0)
     /\ n <= Fragments
     /\ ~Undecodable(n) /\ n \notin file.endless
     /\ read' = n
     /\ fragCursor' = toCopy
     /\ Copy(0, n, 0, toCopy)
     /\ UNCHANGED <<file, border, dest, wants, channel, posted, pc, aborted>>

\* The file ends before the root has its part, or the fragment cannot be
\* decompressed.  (With size 0 an assertion ends the process, and the run with it.)
FillFails ==
  /\ At(0, "fill")
  /\ cursor[0] < Part(0)
  /\ read < Fragments => Undecodable(read + 1)
  /\ Abort

\* Mutant: the loop over destRank runs to CAT_Proc_size inclusive.
NextRankInclusive ==
  /\ \/ At(0, "fill") /\ cursor[0] = Part(0)
     \/ At(0, "send") /\ wants = 0
  /\ IF dest + 1 <= ProcSize
       THEN dest' = dest + 1 /\ wants' = Part(dest + 1) /\ Goto(0, "send")
       ELSE Goto(0, "verify") /\ UNCHANGED <<dest, wants>>
  /\ UNCHANGED <<file, border, read, fragCursor, cursor, array, channel, posted, aborted>>

\* The root turns to the next rank.
NextRank ==
  /\ \/ At(0, "fill") /\ cursor[0] = Part(0)
     \/ At(0, "send") /\ wants = 0
  /\ IF dest + 1 < ProcSize
       THEN dest' = dest + 1 /\ wants' = Part(dest + 1) /\ Goto(0, "send")
       ELSE Goto(0, "verify") /\ UNCHANGED <<dest, wants>>
  /\ UNCHANGED <<file, border, read, fragCursor, cursor, array, channel, posted, aborted>>

\* Nothing of inplaceRead is left.
UsedUp == Size(read) <= fragCursor

\* There is no further fragment, or its size is 0.
NothingToSend == read < Fragments => Size(read + 1) = 0

\* CAT_MPISendFragment: all of fragment n, and where dest's share of it begins.
SendFragment(n, from) ==
  LET consumed == Least(Size(n) - from, wants)
  IN /\ channel' = [channel EXCEPT ![dest] =
                      Append(@, [fragment |-> n, offset |-> from])]
     /\ fragCursor' = from + consumed
     /\ wants' = wants - consumed
     /\ read' = n
     /\ Goto(0, "sending")
     /\ UNCHANGED <<file, border, dest, cursor, array, posted, aborted>>

\* Mutant: the loop runs while wantsBytes >= 0.
SendOnceMore ==
  /\ At(0, "send")
  /\ IF UsedUp THEN ~NothingToSend /\ SendFragment(read + 1, 0)
               ELSE SendFragment(read, fragCursor)

\* The root sends dest what is left of inplaceRead, or the next fragment.
Send ==
  /\ At(0, "send")
  /\ wants > 0
  /\ IF UsedUp THEN ~NothingToSend /\ SendFragment(read + 1, 0)
               ELSE SendFragment(read, fragCursor)

\* Mutant: the error is returned, as CAT_FileRead does, instead of aborting.
SendFailsAlone ==
  /\ At(0, "send")
  /\ wants > 0
  /\ UsedUp /\ NothingToSend
  /\ Goto(0, "unread")
  /\ UNCHANGED <<file, border, root, cursor, array, channel, posted, aborted>>

\* The file ends before all ranks have their part (its digest, if it is there, is
\* read as the sizes of a fragment that cannot be read), or the next fragment is
\* empty: assert(0).
SendFails ==
  /\ At(0, "send")
  /\ wants > 0
  /\ UsedUp /\ NothingToSend
  /\ Abort

\* MPI_Send may return at once, or only when the message is received.
SendReturns ==
  /\ At(0, "sending")
  /\ Goto(0, "send")
  /\ UNCHANGED <<file, border, root, cursor, array, channel, posted, aborted>>

\* What the rank takes of fragment n by the recorded size.
Share(r, n, offset) == Least(Size(n) - offset, Part(r) - cursor[r])

\* Mutant: the offset of the fragment is ignored.
ReceiveFromStart(r) ==
  /\ At(r, "receive")
  /\ cursor[r] < Part(r)
  /\ channel[r] # << >>
  /\ LET n == Head(channel[r]).fragment
     IN /\ ~Undecodable(n) /\ n \notin file.endless
        /\ Copy(r, n, 0, Share(r, n, 0))
  /\ channel' = [channel EXCEPT ![r] = Tail(@)]
  /\ UNCHANGED <<file, border, root, posted, pc, aborted>>

\* CAT_MPIRecvFragment, the decompression, and the copy of the rank's share of the
\* fragment.
Receive(r) ==
  /\ At(r, "receive")
  /\ cursor[r] < Part(r)
  /\ channel[r] # << >>
  /\ LET n == Head(channel[r]).fragment
         offset == Head(channel[r]).offset
     IN /\ ~Undecodable(n) /\ n \notin file.endless
        /\ Copy(r, n, offset, Share(r, n, offset))
  /\ channel' = [channel EXCEPT ![r] = Tail(@)]
  /\ UNCHANGED <<file, border, root, posted, pc, aborted>>

\* The fragment cannot be decompressed, or the rank dies when it copies more than
\* was decoded.
ReceiveFails(r) ==
  /\ At(r, "receive")
  /\ cursor[r] < Part(r)
  /\ channel[r] # << >>
  /\ LET n == Head(channel[r]).fragment
         offset == Head(channel[r]).offset
     IN Undecodable(n) \/ (n \notin file.endless /\ offset + Share(r, n, offset) > Decoded(n))
  /\ Abort

\* CAT_BoundExchange begins: both edges are sent at once.
PostEdges(r) ==
  /\ Goto(r, "exchange")
  /\ posted' = posted \union {r}
  /\ UNCHANGED <<file, border, root, cursor, array, channel, aborted>>

Received(r) ==
  /\ At(r, "receive")
  /\ cursor[r] = Part(r)
  /\ PostEdges(r)

\* What the root finds after the last fragment it read: with more fragments to
\* come the bytes it takes for the digest are the beginning of the next one.
DigestFound == IF read < Fragments THEN "differs" ELSE file.digest

\* Mutant: only the presence of the digest is checked.
VerifiedUncompared ==
  /\ At(0, "verify")
  /\ DigestFound # "missing"
  /\ PostEdges(0)

Verified ==
  /\ At(0, "verify")
  /\ DigestFound = "agrees"
  /\ PostEdges(0)

Mismatch ==
  /\ At(0, "verify")
  /\ DigestFound = "differs"
  /\ Abort

\* No digest: CAT_FileReadParallel2D returns -3 in the root, and there only.
DigestMissing ==
  /\ At(0, "verify")
  /\ DigestFound = "missing"
  /\ Goto(0, "unread")
  /\ UNCHANGED <<file, border, root, cursor, array, channel, posted, aborted>>

\* CAT_BoundExchange ends when both neighbours' edges have come.
BoundExchange(r) ==
  /\ At(r, "exchange")
  /\ \A s \in Ranks : Neighboring(r, s) => s \in posted
  /\ Goto(r, "loaded")
  /\ UNCHANGED <<file, border, root, cursor, array, channel, posted, aborted>>

\* CAT_InitSimulator returns 0: it does not look at what the load returned.
InitReturns(r) ==
  /\ At(r, "loaded") \/ At(r, "unread")
  /\ Goto(r, "simulate")
  /\ UNCHANGED <<file, border, root, cursor, array, channel, posted, aborted>>

\* All ranks simulate, or the run is aborted.
Ended ==
  /\ aborted \/ \A r \in Ranks : pc[r] = "simulate"
  /\ UNCHANGED vars

RootStep ==
  \/ OpenFails \/ Fill \/ FillFails \/ NextRank \/ Send \/ SendFails
  \/ Verified \/ Mismatch \/ DigestMissing

RankStep(r) ==
  \/ Begins(r) \/ Refuses(r) \/ Receive(r) \/ ReceiveFails(r)
  \/ Received(r) \/ BoundExchange(r) \/ InitReturns(r)

Next ==
  \/ RootStep \/ SendReturns
  \/ \E r \in Ranks : RankStep(r)
  \/ Ended

Spec == Init /\ [][Next]_vars

\* Every process runs; MPI_Send returns once its message is received.
FairSpec ==
  /\ Spec
  /\ WF_vars(RootStep)
  /\ WF_vars(SendReturns /\ channel[dest] = << >>)
  /\ \A r \in Ranks : WF_vars(RankStep(r))

-----------------------------------------------------------------------------

TypeOK ==
  /\ file \in Files
  /\ border \in Borders
  /\ read \in 0 .. Fragments
  /\ fragCursor \in Nat
  /\ dest \in Ranks
  /\ cursor \in [Ranks -> Nat]
  /\ wants \in Nat
  /\ DOMAIN array = Ranks
  /\ \A r \in Ranks : array[r] \in [0 .. Part(r) - 1 -> Nat \union {Junk}]
  /\ channel \in [Ranks -> Seq([fragment : Nat \ {0}, offset : Nat])]
  /\ posted \subseteq Ranks
  /\ pc \in [Ranks -> {"header", "fill", "receive", "send", "sending", "verify",
                       "exchange", "unread", "loaded", "simulate"}]
  /\ aborted \in BOOLEAN

\* The data of every fragment decode to as many units as the file says.
SizesTrue == \A n \in 1 .. Fragments : file.lacks[n] = 0

\* What a rank has received of its part is that part of the file, in its place:
\* cursors of the root and of the rank run over the same fragments in step,
\* wherever fragments and parts begin and end.  No rank gets more than its part,
\* not even from a file whose sizes are wrong.
PartsInPlace ==
  \A r \in Ranks : cursor[r] <= Part(r) /\
    (SizesTrue => \A k \in 0 .. cursor[r] - 1 : array[r][k] = Begin(r) + k)

\* Why: the root gets on in the file as in the parts; by the sizes recorded it is
\* ahead by as many units as the fragments of its own part did not decode to,
Reached == IF read = 0 THEN 0 ELSE Offset(read) + fragCursor

Filling == pc[0] \in {"header", "fill"}

Ahead == Reached - (IF Filling THEN cursor[0] ELSE Begin(dest) + Part(dest) - wants)

RootInv ==
  /\ pc[0] \in {"header", "fill", "send", "sending", "verify", "exchange", "unread",
               "loaded", "simulate"}
  /\ Ahead \in Nat /\ (SizesTrue => Ahead = 0)
  /\ pc[0] = "header" => read = 0 /\ cursor[0] = 0
  /\ Filling => /\ dest = 0 /\ wants = 0
                /\ \A r \in Ranks \ {0} : cursor[r] = 0 /\ channel[r] = << >>
  /\ ~Filling => read > 0 /\ dest > 0 /\ cursor[0] = Part(0)
  /\ pc[0] \notin {"header", "fill", "send", "sending"} => dest = ProcSize - 1 /\ wants = 0
  /\ read > 0 => fragCursor <= Size(read)
  /\ Filling /\ read > 0 /\ cursor[0] < Part(0) => fragCursor = Decoded(read)
  /\ cursor[0] <= Part(0) /\ wants <= Part(dest)
  /\ channel[0] = << >>

\* and what is on its way to a rank goes on where the rank has got to, message
\* after message, up to what the root has sent it.
Start(m) == Offset(m.fragment) + m.offset
End(m) == file.ends[m.fragment]

Sent(r) == IF r < dest THEN Part(r) ELSE IF r = dest THEN Part(r) - wants ELSE 0

\* Where in the file the root takes rank r's part to begin.
Place(r) == Begin(r) + Ahead

ChannelInv(r) ==
  LET c == channel[r]
  IN /\ c = << >> => cursor[r] = Sent(r)
     /\ c # << >> => /\ cursor[r] < Part(r)
                     /\ Start(c[1]) = Place(r) + cursor[r]
                     /\ Least(End(c[Len(c)]), Place(r) + Part(r)) = Place(r) + Sent(r)
     /\ \A k \in 1 .. Len(c) : c[k].fragment <= Fragments /\ Start(c[k]) < End(c[k])
     /\ \A k \in 1 .. Len(c) - 1 : /\ Start(c[k + 1]) = End(c[k])
                                   /\ End(c[k]) < Place(r) + Part(r)

RankInv(r) ==
  /\ pc[r] \in {"header", "receive", "exchange", "loaded", "simulate"}
  /\ pc[r] \notin {"header", "receive"} => cursor[r] = Part(r)
  /\ ChannelInv(r)

IInv == TypeOK /\ PartsInPlace /\ RootInv /\ \A r \in Ranks \ {0} : RankInv(r)

\* A rank that goes on to exchange its edges has taken every message of the
\* load: the next message from rank 0 will be an edge and not a fragment.
NoneLeftOver ==
  \A r \in Ranks : pc[r] \in {"exchange", "loaded", "simulate"} =>
    /\ channel[r] = << >>
    /\ r # 0 => dest > r \/ (dest = r /\ wants = 0)

\* When the load is finished in all ranks the file was whole: its fragments
\* are the lattice, decode to what the file says, and its digest agrees.
OnlyWholeFiles ==
  (\A r \in Ranks : pc[r] = "simulate") =>
    /\ Offset(Fragments + 1) = SizeI * RowSize
    /\ SizesTrue
    /\ file.digest = "agrees"

\* Why: the root only sends its edges when the digest agrees, and its neighbours
\* do not go on without them.
EdgesInv ==
  /\ 0 \in posted => file.digest = "agrees"
  /\ \A r \in Ranks \ {0} :
       Neighboring(r, 0) /\ pc[r] \in {"loaded", "simulate"} => 0 \in posted

\* When CAT_InitSimulator has returned in a rank, the rank has sent its edges
\* and has those of its neighbours in its ghost rows.
SimulatesLoaded ==
  \A r, s \in Ranks : pc[r] = "simulate" /\ Neighboring(r, s) =>
    {r, s} \subseteq posted

\* The sizes of the fragments add up to the lattice at least, and no digest follows:
\* the root alone may return with an error, and its neighbours wait for its edges.
OnlyDigestLost ==
  file.digest = "missing" /\ Offset(Fragments + 1) >= SizeI * RowSize

\* CAT_InitSimulator returns in all ranks, or the run is aborted in all: when the
\* file cannot be opened, when a part is too small for the edges, when the file
\* ends early, when a fragment is empty, cannot be decompressed or has a wrong size,
\* when the digest differs.  Two files are excepted, for which it is not so: one
\* that lost nothing but its digest, and one with a fragment on which the decoder
\* makes no progress.
AllReturn ==
  ~OnlyDigestLost /\ file.endless = {} ~>
    aborted \/ \A r \in Ranks : pc[r] = "simulate"

=============================================================================
