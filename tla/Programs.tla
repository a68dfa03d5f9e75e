------------------------------ MODULE Programs ------------------------------
(***************************************************************************)
(* The programs of a model, one after the other, over one file: the        *)
(* preprocessor creates a lattice, the simulator loads it, iterates and    *)
(* saves it to the same file, the postprocessor shows it (catlib.c, the    *)
(* mains of models/, run_script).  The script goes on whatever a program   *)
(* returns.  Every program is a process of its own, which may die at any   *)
(* moment, and is compiled for a topology of its own.                      *)
(***************************************************************************)
EXTENDS CatFile, FiniteSets

CONSTANTS
  Requests,        \* what preprocessors ask for: a topology, the last cell and
                   \* how many cells there are in a meter
  OldFiles,        \* lattices in files that are there from the beginning
  MaxCreated,      \* how many lattices are created
  MaxIterations,   \* how many iterations are made of one
  MaxChanged       \* how many items of a file are changed

TopologyNames ==
  {"NONE", "LINE", "SQUARE4", "SQUARE8", "HEXAGON", "SQUARE24", "CUBE6", "CUBE12",
   "CUBE26"}
CompressionTypes == {"UNKNOWN", "UNCOMPRESSED", "LZMA", "LZMA_FRAGMENTS"}

Headers == [topology : TopologyNames, size : [1 .. 3 -> Nat],
            compressionType : CompressionTypes, iterationsDone : Nat]

IsSequence(s) == s \in Seq({s[n] : n \in DOMAIN s})

\* A header, and as many cells as it says.
IsLattice(d) ==
  /\ d = Digest(d.header, d.cells)
  /\ d.header \in Headers
  /\ IsSequence(d.cells)
  /\ Len(d.cells) = ArraySize(d.header)

ASSUME RequestsAssumption ==
  Requests \subseteq [topology : TopologyNames, cell : [1 .. 3 -> Nat],
                     cellsPerMeter : Nat \ {0}]
ASSUME OldFilesAssumption == \A d \in OldFiles : IsLattice(d)
ASSUME MaximaAssumption ==
  MaxCreated \in Nat /\ MaxIterations \in Nat /\ MaxChanged \in Nat

VARIABLES
  program,   \* the program that runs
  build,     \* the topology it is compiled for
  created    \* how many lattices have been created

vars == <<fileVars, program, build, created>>
programVars == <<program, build, created>>

Topologies == {r.topology : r \in Requests}

\* latticePeriod of a topology.
Period(topology) ==
  CASE topology = "HEXAGON" -> <<2, 1, 1>>
    [] topology = "CUBE12"  -> <<2, 2, 2>>
    [] OTHER                -> <<1, 1, 1>>

Dimension(topology) == IF topology = "CUBE12" THEN 3 ELSE 2

\* GetIndex of the coordinates of a cell.  That of CUBE12 adds its half of a
\* cell before it multiplies with cellsPerMeter.
GetIndex(r) ==
  IF r.topology # "CUBE12" THEN r.cell
  ELSE LET half(p) == (p + r.cellsPerMeter - 1) \div 2
       IN <<r.cell[1] + half(0), r.cell[2] + half(0),
            r.cell[3] + half((r.cell[1] + r.cell[2]) % 2)>>

\* Mutant: a size that is a multiple of the period gets one more of it.
RoundedBeyond(index, period) == index + 1 + period - ((index + 1) % period)

\* Mutant: the sizes are not rounded.
LastIndexPlusOne(index, period) == index + 1

\* The size that reaches the index, rounded up to the period.
Rounded(index, period) ==
  LET mod == (index + 1) % period
  IN index + 1 + (IF mod > 0 THEN period ELSE 0) - mod

LatticeSize(r) ==
  [n \in 1 .. 3 |-> IF n > Dimension(r.topology) THEN 1
                    ELSE Rounded(GetIndex(r)[n], Period(r.topology)[n])]

NewHeader(r) ==
  [topology |-> r.topology, size |-> LatticeSize(r),
   compressionType |-> "LZMA_FRAGMENTS", iterationsDone |-> 0]

\* Nothing has been given to a save yet.
NoLattice ==
  Digest([topology |-> "NONE", size |-> <<0, 0, 0>>,
          compressionType |-> "UNKNOWN", iterationsDone |-> 0], << >>)

\* What the load expects of a file without fragments, or no file.  Such files come
\* from elsewhere: CAT_FileSave does not get to the branches that would write them,
\* and these end without a digest.
OldFile(d) ==
  IF d = NoLattice THEN << >>
  ELSE << <<"header", d.header>> >>
       \o (IF d.header.compressionType = "LZMA"
             THEN << <<"sizes", Len(d.cells)>> >> ELSE << >>)
       \o << <<"data", d.cells>>, <<"digest", d>> >>

\* Cell number n of a lattice: where it comes from, and its generation.
Cell(n, origin, g) == <<n, origin, g>>

Init ==
  /\ given \in OldFiles \union {NoLattice}
  /\ disk = OldFile(given)
  /\ header = NoLattice.header
  /\ ctx = NoLattice
  /\ buffered = << >>
  /\ full = FALSE
  /\ headerPtr = "null"
  /\ array = << >>
  /\ pos = 0
  /\ curWritten = 0
  /\ flag = 0
  /\ pc = "idle"
  /\ program = "none"
  /\ build \in Topologies
  /\ created = 0

\* A process ends, and all its memory goes with it; the script does not look at
\* the code it returns.
Gone(code) ==
  /\ header' = NoLattice.header
  /\ headerPtr' = "null"
  /\ array' = << >>
  /\ ctx' = NoLattice
  /\ pos' = 0
  /\ curWritten' = 0
  /\ flag' = code
  /\ program' = "none"
  /\ Goto("idle")
  /\ UNCHANGED <<given, build, created>>

Exit(code) == Gone(code) /\ UNCHANGED <<disk, buffered, full>>

\* The script starts a program: a new process, with nothing in its globals.
Start(p, b) ==
  /\ At("idle")
  /\ p = "prep" => created < MaxCreated
  /\ program' = p
  /\ build' = b
  /\ flag' = 0
  /\ full' = FALSE
  /\ Goto(IF p = "prep" THEN "create" ELSE "load")
  /\ UNCHANGED <<disk, buffered, lattice, ctx, pos, curWritten, given, created>>

\* GetMetricSize is 0 in a direction with one cell: the preprocessor takes that
\* for an error, and ends.
HasSize(size) == \A n \in 1 .. Dimension(build) : size[n] # 1

\* CAT_InitPreprocessor, and the preprocessor puts every cell.
Create(r) ==
  /\ At("create")
  /\ r.topology = build
  /\ HasSize(LatticeSize(r))
  /\ header' = NewHeader(r)
  /\ headerPtr' = "filled"
  /\ array' = [n \in 1 .. TotalSize' |-> Cell(n, created + 1, 0)]
  /\ created' = created + 1
  /\ Goto("save")
  /\ UNCHANGED <<disk, buffered, full, ctx, pos, curWritten, flag, given, program,
                 build>>

CreateRefused(r) ==
  /\ At("create")
  /\ r.topology = build
  /\ ~HasSize(LatticeSize(r))
  /\ Exit(1)

\* Mutant: the result of the load is ignored, as in an MPI build.
SimulateWhateverLoaded ==
  /\ At("loaded")
  /\ program = "sim"
  /\ IF header.topology # build THEN Exit(-15)
     ELSE /\ Goto("iterate")
          /\ UNCHANGED <<disk, buffered, full, lattice, ctx, pos, curWritten,
                         flag, given, programVars>>

\* The rest of CAT_InitSimulator; the simulator ends if it fails.
InitSimulator ==
  /\ At("loaded")
  /\ program = "sim"
  /\ IF flag # 0 THEN Exit(flag)
     ELSE IF header.topology # build THEN Exit(-15)
     ELSE /\ Goto("iterate")
          /\ UNCHANGED <<disk, buffered, full, lattice, ctx, pos, curWritten,
                         flag, given, programVars>>

\* CAT_Iterate: one generation.
Iterate ==
  /\ At("iterate")
  /\ header.iterationsDone < MaxIterations
  /\ array' = [n \in DOMAIN array |-> Cell(n, array[n][2], array[n][3] + 1)]
  /\ header' = [header EXCEPT !.iterationsDone = @ + 1]
  /\ UNCHANGED <<disk, buffered, full, headerPtr, ctx, pos, curWritten, flag, pc,
                 given, programVars>>

\* The simulator has made its iterations and calls CAT_FinalizeSimulator.
FinalizeSimulator ==
  /\ At("iterate")
  /\ Goto("save")
  /\ UNCHANGED <<disk, buffered, full, lattice, ctx, pos, curWritten, flag, given,
                 programVars>>

\* CAT_FileSave asserts that the lattice is to be written in fragments.
SaveAborts ==
  /\ At("save")
  /\ header.compressionType # "LZMA_FRAGMENTS"
  /\ Exit(134)

\* CAT_Decompress asserts that the file records a size.
LoadAborts ==
  /\ At("readData")
  /\ NoRoom
  /\ Exit(134)

\* What CAT_FinalizePreprocessor or CAT_FinalizeSimulator frees, and the end.
Finalize ==
  /\ At("saved")
  /\ Exit(flag)

\* The postprocessor ends at once, or gets every cell and ends.
Postprocess ==
  /\ At("loaded")
  /\ program = "post"
  /\ Exit(flag)

\* The process dies, and what it has not flushed with it.
Crash ==
  /\ ~At("idle")
  /\ buffered' = << >>
  /\ Gone(flag)
  /\ UNCHANGED <<disk, full>>

\* The items of the file that are not what was written there.
Changed ==
  LET written == IF given.header.compressionType = "LZMA_FRAGMENTS" THEN WholeFile(given)
                 ELSE OldFile(given)
  IN {n \in 1 .. Len(disk) : disk[n] # written[n]}

\* What an item may become: a header with another form, topology or size, another
\* size of a fragment (none, too small or too large), other cells, or data that cannot
\* be decoded.
Forms(item) ==
  CASE item[1] = "header" ->
         {<<"header", [item[2] EXCEPT !.compressionType = type]>> :
            type \in {"LZMA", "UNKNOWN"}}
         \union {<<"header", [item[2] EXCEPT !.topology = topology]>> :
                   topology \in Topologies}
         \union {<<"header", [item[2] EXCEPT !.size = LatticeSize(r)]>> : r \in Requests}
    [] item[1] = "sizes" -> {<<"sizes", size>> : size \in {0, 1, FragmentSize + 1}}
    [] item[1] = "data" ->
         {<<kind, [m \in DOMAIN item[2] |-> Damaged]>> :
            kind \in {"data", "undecodable", "endless"}}
    [] OTHER -> {}

\* Between two programs the file loses its end, or some of its bytes change.
Damage ==
  /\ At("idle")
  /\ \E n \in 1 .. Len(disk) :
       \/ disk' = SubSeq(disk, 1, n - 1)
       \/ /\ Cardinality(Changed) < MaxChanged
          /\ \E item \in Forms(disk[n]) : disk' = [disk EXCEPT ![n] = item]
  /\ UNCHANGED <<buffered, full, lattice, ctx, pos, curWritten, flag, pc, given,
                 programVars>>

ProgramStep ==
  \/ FileStep /\ UNCHANGED programVars
  \/ \E r \in Requests : Create(r) \/ CreateRefused(r)
  \/ InitSimulator \/ Iterate \/ FinalizeSimulator \/ SaveAborts \/ LoadAborts
  \/ Finalize \/ Postprocess

Next ==
  \/ \E p \in {"prep", "sim", "post"}, b \in Topologies : Start(p, b)
  \/ ProgramStep
  \/ (Flush \/ DiskFills) /\ UNCHANGED programVars
  \/ Crash
  \/ Damage

Spec == Init /\ [][Next]_vars

\* Every process runs until it ends or dies.
FairSpec == Spec /\ WF_vars(ProgramStep)

-----------------------------------------------------------------------------

TypeOK ==
  /\ headerPtr \in {"null", "allocated", "filled", "freed"}
  /\ full \in BOOLEAN
  /\ pos \in 0 .. Len(disk)
  /\ curWritten \in 0 .. TotalSize
  /\ flag \in {0, 1, 2, 134, -2, -3, -6, -7, -15}
  /\ pc \in {"idle", "create", "load", "readHeader", "readData", "loaded",
             "iterate", "save", "writeHeader", "writeSizes", "writeData",
             "close", "saved"}
  /\ program \in {"none", "prep", "sim", "post"}
  /\ (program = "none") = (pc = "idle")
  /\ build \in Topologies
  /\ created \in 0 .. MaxCreated

\* A load that returns 0 has loaded the lattice, header and cells, of the last
\* save that opened the file: never a part of it, an older one or a changed one,
\* whatever the disk, a crash or damage has done to the file.
LoadedIsLast ==
  At("loaded") /\ flag = 0 => Digest(header, array) = given

\* A file that a save wrote to its end can be loaded, however its cells divide
\* into fragments.
WholeFilesLoad ==
  At("loaded") /\ disk = WholeFile(given) => flag \in {0, -2}

\* If the disk was not full, a save that returns 0 leaves the lattice's file.
SavedWhole ==
  At("saved") /\ flag = 0 /\ ~full => disk = WholeFile(given)

\* Why loads can be trusted: the only digests on their way to the file, or in it,
\* are those of the lattice given to the last save, which the digest in the making
\* follows cell by cell, and a program only saves a whole lattice.
Right(item, d) ==
  /\ item[1] = "digest" => item[2] = d
  /\ item[1] = "header" => item[2] \in Headers

Written(items, d) ==
  /\ IsSequence(items)
  /\ \A n \in DOMAIN items : Right(items[n], d)

LoadInv ==
  /\ At("readData") => headerPtr = "filled" /\ ctx = Digest(header, array)
  /\ At("loaded") /\ flag = 0 => headerPtr = "filled" /\ Digest(header, array) = given
  /\ At("iterate") \/ At("save") =>
       headerPtr = "filled" /\ IsLattice(Digest(header, array))

SaveInv ==
  Writing =>
    /\ given = Digest(header, array)
    /\ curWritten \in 0 .. TotalSize
    /\ At("writeData") => curWritten < TotalSize
    /\ ctx = Digest(header, SubSeq(array, 1, curWritten))

IInv ==
  /\ IsLattice(given)
  /\ Written(disk, given) /\ Written(buffered, given)
  /\ buffered # << >> => Writing
  /\ pos \in Nat
  /\ LoadInv
  /\ SaveInv

\* Why TypeOK holds: a header always says how many cells there are, and the cursors
\* are where the load and the save have left them.
CursorInv ==
  /\ header \in Headers
  /\ At("idle") \/ At("readHeader") \/ Writing => pos = 0
  /\ ~Writing /\ ~At("saved") => curWritten = 0
  /\ At("create") => created < MaxCreated

\* Why a save that meets no full disk leaves the whole file, and a whole file can be
\* loaded: what is written or read is, fragment after fragment, the beginning of it.
CellsIn(fragments, total) ==
  IF fragments * FragmentSize < total THEN fragments * FragmentSize ELSE total

\* So many fragments, the last of which is not empty, hold so many of the cells.
InFragments(fragments, cells, total) ==
  /\ cells = CellsIn(fragments, total)
  /\ fragments > 0 => (fragments - 1) * FragmentSize < total

\* The first n items of the lattice's file.
Begins(items, d, n) ==
  /\ Len(items) = n /\ n <= Len(WholeFile(d))
  /\ \A m \in 1 .. n : items[m] = WholeFile(d)[m]

SavedInv ==
  /\ Writing => given.header.compressionType = "LZMA_FRAGMENTS"
  /\ At("writeHeader") => curWritten = 0
  /\ At("writeHeader") /\ ~full => disk \o buffered = << >>
  /\ At("writeSizes") => \E n \in Nat :
       /\ InFragments(n, curWritten, TotalSize)
       /\ ~full => Begins(disk \o buffered, given, 2 * n + 1)
  /\ At("writeData") => \E n \in Nat :
       /\ InFragments(n, curWritten, TotalSize)
       /\ ~full => Begins(disk \o buffered, given, 2 * n + 2)
  /\ At("close") /\ flag = 0 /\ ~full => disk \o buffered = WholeFile(given)
  /\ SavedWhole

\* A file of an older form that looks like one of fragments has one of them.
OldInv ==
  given.header.compressionType # "LZMA_FRAGMENTS" =>
    /\ Len(disk) <= 4
    /\ Len(disk) > 1 => disk[2][1] # "digest"
    /\ Len(disk) > 1 /\ given.header.compressionType # "LZMA" => disk[2][1] # "sizes"

LoadedInv ==
  /\ At("readData") /\ disk = WholeFile(given) =>
       /\ header = given.header
       /\ \E n \in Nat :
            /\ InFragments(n, Len(array), Len(given.cells))
            /\ array = SubSeq(given.cells, 1, Len(array))
            /\ pos = 2 * n + 1
  /\ WholeFilesLoad

WholeInv == SavedInv /\ OldInv /\ LoadedInv

\* The same of every save that returns 0.
SaveReported ==
  At("saved") /\ flag = 0 => disk = WholeFile(given)

\* A program iterates over, shows or saves only a lattice that it created or
\* that a load has given it: never one behind a header a failed load has freed.
OnlyLoadedUsed ==
  At("iterate") \/ At("save") \/ (At("loaded") /\ flag = 0) =>
    headerPtr = "filled" /\ Len(array) = TotalSize

\* A new lattice has the cell at the requested coordinates, and less than a
\* period of rows and columns beyond it.
SizeFits ==
  At("save") /\ program = "prep" =>
    \E r \in Requests :
      /\ r.topology = build
      /\ \A n \in 1 .. Dimension(build) :
           header.size[n] - r.cell[n] \in 1 .. Period(build)[n]

\* Why it has: only the preprocessor goes from a new lattice to a save.
PlacesInv ==
  /\ At("create") => program = "prep"
  /\ pc \in {"load", "readHeader", "readData", "loaded", "iterate"} => program # "prep"

\* A program that is not killed comes to an end, by itself or by an assertion, whatever
\* has become of sizes, header, data and digest of the file, unless its decoder is
\* given data without an end.
ProgramsEnd == ~At("idle") ~> At("idle") \/ Stalled

=============================================================================
