------------------------------ MODULE CatFile ------------------------------
(***************************************************************************)
(* How a process of catlib loads a lattice from a file and saves it again  *)
(* (CAT_FileRead and CAT_FileSave of catfile.c, with the fragments of      *)
(* catfragment.c), when writes are buffered, the disk may fill up, the     *)
(* process may die and the file may be cut short or changed.               *)
(*                                                                         *)
(* A file is the sequence of what was written to it: <<"header", h>>,      *)
(* <<"sizes", n>> and <<"data", cells>> for a fragment, and                *)
(* <<"digest", d>>.  Compression keeps its data, and equal digests mean    *)
(* equal headers, sizes and cells.  Data that was changed may be           *)
(* "undecodable", or "endless": the decoder takes it without an error and  *)
(* without coming to its end.                                              *)
(***************************************************************************)
EXTENDS Integers, Sequences

CONSTANTS
  FragmentSize,   \* CAT_FragmentSize, in cells
  Damaged         \* a cell of no lattice

ASSUME FragmentSizeAssumption == FragmentSize \in Nat \ {0}

VARIABLES
  disk,        \* the items that have reached the file
  buffered,    \* items written that stdio has not flushed
  full,        \* nothing more reaches the disk
  header,      \* what the global header points to
  headerPtr,   \* what the pointer is worth
  array,       \* cellularArray, as far as it is filled
  ctx,         \* the digest of what has been read or written
  pos,         \* items read from the file
  curWritten,  \* cells written to the file
  flag,        \* what the load or save returns
  pc,          \* where the process is
  given        \* history: the lattice given to the save that opened the file last

lattice == <<header, headerPtr, array>>
fileVars == <<disk, buffered, full, header, headerPtr, array, ctx, pos,
              curWritten, flag, pc, given>>

At(place) == pc = place
Goto(place) == pc' = place

\* getArraySize, in cells.
ArraySize(h) == h.size[1] * h.size[2] * h.size[3]
TotalSize == ArraySize(header)

Digest(h, cells) == [header |-> h, cells |-> cells]

-----------------------------------------------------------------------------
(* CAT_FileRead *)

\* fread finds what belongs in the next place of the file.
Finds(kinds) ==
  /\ pos + Len(kinds) <= Len(disk)
  /\ \A n \in 1 .. Len(kinds) : disk[pos + n][1] = kinds[n]

\* A header is allocated before the file is opened, and stays when it is not.
OpenRead ==
  /\ At("load")
  /\ headerPtr' = "allocated"
  /\ pos' = 0
  /\ \/ Goto("readHeader") /\ UNCHANGED flag
     \/ Goto("loaded") /\ flag' = -2
  /\ UNCHANGED <<disk, buffered, full, header, array, ctx, curWritten, given>>

ReadHeader ==
  /\ At("readHeader")
  /\ Finds(<<"header">>)
  /\ header' = disk[pos + 1][2]
  /\ headerPtr' = "filled"
  /\ array' = << >>
  /\ ctx' = Digest(header', << >>)
  /\ pos' = pos + 1
  /\ Goto("readData")
  /\ UNCHANGED <<disk, buffered, full, curWritten, flag, given>>

NoHeader ==
  /\ At("readHeader")
  /\ ~Finds(<<"header">>)
  /\ flag' = -3
  /\ Goto("loaded")
  /\ UNCHANGED <<disk, buffered, full, lattice, ctx, pos, curWritten, given>>

\* Mutant: fragments are read as long as a whole one is missing.
WantedWholeFragments ==
  CASE header.compressionType = "LZMA_FRAGMENTS" ->
         IF Len(array) + FragmentSize <= TotalSize THEN <<"sizes", "data">>
                                                   ELSE <<"digest">>
    [] OTHER -> << >>

\* What CAT_ReadData takes from the file next, by header->compressionType.
Wanted ==
  CASE header.compressionType = "LZMA_FRAGMENTS" ->
         IF Len(array) < TotalSize THEN <<"sizes", "data">> ELSE <<"digest">>
    [] header.compressionType = "LZMA" ->
         IF array = << >> THEN <<"sizes", "data">> ELSE <<"digest">>
    [] header.compressionType = "UNCOMPRESSED" ->
         IF array = << >> THEN <<"data">> ELSE <<"digest">>
    [] OTHER -> << >>

\* The cells in the data that is read next, and the size the file records for them.
Decoded == disk[pos + Len(Wanted)][2]
Recorded == disk[pos + 1][2]

\* Without compression the data has to be as long as the header says, and with it
\* to find room in the recorded size.
Readable ==
  /\ Finds(Wanted)
  /\ IF Wanted = <<"data">> THEN Len(Decoded) = TotalSize
     ELSE Recorded > 0 /\ Recorded >= Len(Decoded)

\* memcpy takes the recorded size for the length of a fragment, and reads on behind a
\* shorter one.  What it finds there is nobody's cell; it may also kill the process.
Behind ==
  IF header.compressionType = "LZMA_FRAGMENTS"
    THEN [n \in 1 .. Recorded - Len(Decoded) |-> Damaged] ELSE << >>

\* A fragment, or all cells of a file without fragments, is read, hashed and
\* copied behind what is there.
ReadFragment ==
  /\ At("readData")
  /\ Wanted \notin {<<"digest">>, << >>}
  /\ Readable
  /\ array' = array \o Decoded \o Behind
  /\ ctx' = Digest(ctx.header, ctx.cells \o Decoded \o Behind)
  /\ pos' = pos + Len(Wanted)
  /\ UNCHANGED <<disk, buffered, full, header, headerPtr, curWritten, flag, pc,
                 given>>

\* CAT_Decompress is called with some data.
Decodes(kind) == Wanted = <<"sizes", "data">> /\ Finds(<<"sizes", kind>>)

\* It asserts that it is given room for the cells.
NoRoom ==
  /\ \E kind \in {"data", "undecodable", "endless"} : Decodes(kind)
  /\ Recorded = 0

\* Its loop takes nothing from the data any more, and goes on.
Stalled == At("readData") /\ Decodes("endless") /\ Recorded # 0

DigestAgrees == Finds(<<"digest">>) /\ disk[pos + 1] = <<"digest", ctx>>

\* Mutant: a digest is looked for and not compared.
DigestFound ==
  /\ At("readData")
  /\ Wanted = <<"digest">>
  /\ Finds(<<"digest">>)
  /\ flag' = 0
  /\ Goto("loaded")
  /\ UNCHANGED <<disk, buffered, full, lattice, ctx, pos, curWritten, given>>

ReadDigest ==
  /\ At("readData")
  /\ Wanted = <<"digest">>
  /\ DigestAgrees
  /\ flag' = 0
  /\ Goto("loaded")
  /\ UNCHANGED <<disk, buffered, full, lattice, ctx, pos, curWritten, given>>

\* Mutant: at the end of the file the loop goes on, as if there was more to come.
ReadOn ==
  /\ At("readData")
  /\ \/ Wanted = << >>
     \/ Wanted = <<"digest">> /\ ~DigestAgrees
     \/ Wanted \notin {<<"digest">>, << >>} /\ ~Readable /\ ~NoRoom /\ ~Stalled
  /\ pos < Len(disk)
  /\ headerPtr' = "freed"
  /\ flag' = -3
  /\ Goto("loaded")
  /\ UNCHANGED <<disk, buffered, full, header, array, ctx, pos, curWritten, given>>

\* CAT_ReadData fails, and CAT_FileRead frees the header its caller has.
ReadFails ==
  /\ At("readData")
  /\ \/ Wanted = << >>
     \/ Wanted = <<"digest">> /\ ~DigestAgrees
     \/ Wanted \notin {<<"digest">>, << >>} /\ ~Readable /\ ~NoRoom /\ ~Stalled
  /\ headerPtr' = "freed"
  /\ flag' = IF Wanted = << >> THEN -7
             ELSE IF header.compressionType = "LZMA"
                     /\ (Decodes("data") \/ Decodes("undecodable")) THEN -6
             ELSE -3
  /\ Goto("loaded")
  /\ UNCHANGED <<disk, buffered, full, header, array, ctx, pos, curWritten, given>>

-----------------------------------------------------------------------------
(* CAT_FileSave *)

\* fopen for writing cuts the file to nothing, if it succeeds.
OpenWrite ==
  /\ At("save")
  /\ header.compressionType = "LZMA_FRAGMENTS"
  /\ \/ /\ Goto("saved")
        /\ flag' = 1
        /\ UNCHANGED <<disk, ctx, pos, curWritten, given>>
     \/ /\ Goto("writeHeader")
        /\ disk' = << >>
        /\ pos' = 0
        /\ ctx' = Digest(header, << >>)
        /\ curWritten' = 0
        /\ given' = Digest(header, array)
        /\ UNCHANGED flag
  /\ UNCHANGED <<buffered, full, lattice>>

\* fwrite puts an item into the buffer; it may notice that the disk is full.
Write(item) == buffered' = Append(buffered, item)
WriteRefused == full /\ UNCHANGED buffered

WriteHeader ==
  /\ At("writeHeader")
  /\ \/ Write(<<"header", header>>) /\ Goto("writeSizes") /\ UNCHANGED flag
     \/ WriteRefused /\ Goto("close") /\ flag' = 2
  /\ UNCHANGED <<disk, full, lattice, ctx, pos, curWritten, given>>

\* How many cells the next fragment takes of those left.
Consume(left) == IF left < FragmentSize THEN left ELSE FragmentSize

Fragment == SubSeq(array, curWritten + 1, curWritten + Consume(TotalSize - curWritten))

\* Mutant: the cells of a last, smaller fragment are counted as a whole one.
WholeFragmentDone ==
  /\ ctx' = Digest(ctx.header, ctx.cells \o Fragment)
  /\ curWritten' = curWritten + FragmentSize
  /\ Goto("writeSizes")

\* The digest takes the fragment, written or not.
FragmentDone ==
  /\ ctx' = Digest(ctx.header, ctx.cells \o Fragment)
  /\ curWritten' = curWritten + Len(Fragment)
  /\ Goto("writeSizes")

\* The two writes of CAT_FileWriteCompressedFragment, whose result is ignored.
WriteSizes ==
  /\ At("writeSizes")
  /\ curWritten < TotalSize
  /\ \/ Write(<<"sizes", Len(Fragment)>>) /\ Goto("writeData")
        /\ UNCHANGED <<ctx, curWritten>>
     \/ WriteRefused /\ FragmentDone
  /\ UNCHANGED <<disk, full, lattice, pos, flag, given>>

WriteData ==
  /\ At("writeData")
  /\ Write(<<"data", Fragment>>) \/ WriteRefused
  /\ FragmentDone
  /\ UNCHANGED <<disk, full, lattice, pos, flag, given>>

\* CAT_CompressFragment finds no memory: the file stays without its end.
CompressFails ==
  /\ At("writeSizes")
  /\ curWritten < TotalSize
  /\ flag' = 2
  /\ Goto("close")
  /\ UNCHANGED <<disk, buffered, full, lattice, ctx, pos, curWritten, given>>

\* Mutant: no digest is written, as in the other two branches of CAT_WriteData.
WriteNoDigest ==
  /\ At("writeSizes")
  /\ curWritten >= TotalSize
  /\ flag' = 0
  /\ Goto("close")
  /\ UNCHANGED <<disk, buffered, full, lattice, ctx, pos, curWritten, given>>

WriteDigest ==
  /\ At("writeSizes")
  /\ curWritten >= TotalSize
  /\ \/ Write(<<"digest", ctx>>) /\ flag' = 0
     \/ WriteRefused /\ flag' = 2
  /\ Goto("close")
  /\ UNCHANGED <<disk, full, lattice, ctx, pos, curWritten, given>>

\* fclose flushes what it can; its result is ignored.
Close ==
  /\ At("close")
  /\ disk' = IF full THEN disk ELSE disk \o buffered
  /\ buffered' = << >>
  /\ Goto("saved")
  /\ UNCHANGED <<full, lattice, ctx, pos, curWritten, flag, given>>

FileStep ==
  \/ OpenRead \/ ReadHeader \/ NoHeader \/ ReadFragment \/ ReadDigest \/ ReadFails
  \/ OpenWrite \/ WriteHeader \/ WriteSizes \/ WriteData \/ CompressFails
  \/ WriteDigest \/ Close

-----------------------------------------------------------------------------
(* What happens to the file meanwhile and afterwards *)

Writing == pc \in {"writeHeader", "writeSizes", "writeData", "close"}

\* stdio hands the oldest item of its buffer to the disk.
Flush ==
  /\ buffered # << >>
  /\ ~full
  /\ disk' = Append(disk, Head(buffered))
  /\ buffered' = Tail(buffered)
  /\ UNCHANGED <<full, lattice, ctx, pos, curWritten, flag, pc, given>>

DiskFills ==
  /\ Writing
  /\ full' = TRUE
  /\ UNCHANGED <<disk, buffered, lattice, ctx, pos, curWritten, flag, pc, given>>

\* The items of a lattice's file: the header, two for each fragment, the digest.
WholeFile(d) ==
  LET total == Len(d.cells)
      fragments == (total + FragmentSize - 1) \div FragmentSize
      begin(n) == ((n - 2) \div 2) * FragmentSize
      cells(n) == SubSeq(d.cells, begin(n) + 1, begin(n) + Consume(total - begin(n)))
  IN [n \in 1 .. 2 * fragments + 2 |->
        IF n = 1 THEN <<"header", d.header>>
        ELSE IF n = 2 * fragments + 2 THEN <<"digest", d>>
        ELSE IF n % 2 = 0 THEN <<"sizes", Len(cells(n))>>
        ELSE <<"data", cells(n)>>]

=============================================================================
