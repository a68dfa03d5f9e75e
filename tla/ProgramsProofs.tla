--------------------------- MODULE ProgramsProofs ---------------------------
(***************************************************************************)
(* A load that succeeds gives the lattice of the last save, and programs   *)
(* use no other; a save that reports success leaves the whole file unless  *)
(* the disk filled up, and a whole file can be loaded; new lattices have   *)
(* the size of their request, and in those that are simulated              *)
(* neighbourhoods are mutual.  All this for lattices, fragments and files  *)
(* of any size.                                                            *)
(***************************************************************************)
EXTENDS Shapes, SequenceTheorems, TLAPS

-----------------------------------------------------------------------------
(* What is written to a file *)

LEMMA SequencesAreSequences ==
  ASSUME NEW S, NEW s \in Seq(S)
  PROVE  /\ IsSequence(s)
         /\ Len(s) \in Nat
         /\ DOMAIN s = 1 .. Len(s)
PROOF
<1>1. Len(s) \in Nat /\ DOMAIN s = 1 .. Len(s) /\ s \in [1 .. Len(s) -> S]
  BY LenProperties
<1> DEFINE R == {s[n] : n \in DOMAIN s}
<1>2. s \in [1 .. Len(s) -> R]
  BY <1>1
<1> HIDE DEF R
<1>3. s \in Seq(R)
  BY <1>1, <1>2, SeqDef
<1> QED
  BY <1>1, <1>3 DEF IsSequence, R

\* Two sequences are sequences over one set.
LEMMA CommonSet ==
  ASSUME NEW s, NEW t, IsSequence(s), IsSequence(t)
  PROVE  \E S : s \in Seq(S) /\ t \in Seq(S)
PROOF
<1> DEFINE A == {s[n] : n \in DOMAIN s}
           B == {t[n] : n \in DOMAIN t}
<1>1. s \in Seq(A) /\ t \in Seq(B)
  BY DEF IsSequence
<1> HIDE DEF A, B
<1>2. s \in Seq(A \union B) /\ t \in Seq(A \union B)
  BY <1>1, SeqMonotonic
<1> QED
  BY <1>2

\* What a save of a lattice writes is right.
LEMMA RightItems ==
  ASSUME NEW d
  PROVE  /\ \A h \in Headers : Right(<<"header", h>>, d)
         /\ \A x : Right(<<"sizes", x>>, d)
         /\ \A x : Right(<<"data", x>>, d)
         /\ \A x : Right(<<"undecodable", x>>, d)
         /\ \A x : Right(<<"endless", x>>, d)
         /\ Right(<<"digest", d>>, d)
PROOF
<1>1. \A k, x : <<k, x>>[1] = k /\ <<k, x>>[2] = x
  OBVIOUS
<1> QED
  BY <1>1 DEF Right

LEMMA WrittenNothing ==
  ASSUME NEW d
  PROVE  Written(<< >>, d)
PROOF
<1>1. << >> \in Seq({}) /\ Len(<< >>) = 0
  BY EmptySeq
<1>2. IsSequence(<< >>) /\ DOMAIN << >> = 1 .. 0
  BY <1>1, SequencesAreSequences
<1>3. DOMAIN << >> = {}
  BY <1>2
<1> QED
  BY <1>2, <1>3 DEF Written

LEMMA WrittenOne ==
  ASSUME NEW d, NEW x, Right(x, d)
  PROVE  Written(<<x>>, d)
PROOF
<1> DEFINE s == <<x>>
<1>1. s \in Seq({x}) /\ Len(s) = 1 /\ s[1] = x
  OBVIOUS
<1>2. IsSequence(s) /\ DOMAIN s = 1 .. 1
  <2> HIDE DEF s
  <2> QED
    BY <1>1, SequencesAreSequences
<1>3. s[1] = x
  BY <1>1
<1> HIDE DEF s
<1>4. \A n \in DOMAIN s : n = 1
  BY <1>2
<1>5. Written(s, d)
  BY <1>2, <1>3, <1>4 DEF Written
<1> QED
  BY <1>5 DEF s

LEMMA WrittenTwo ==
  ASSUME NEW d, NEW x, NEW y, Right(x, d), Right(y, d)
  PROVE  Written(<<x, y>>, d)
PROOF
<1> DEFINE s == <<x, y>>
<1>1. s \in Seq({x, y}) /\ Len(s) = 2 /\ s[1] = x /\ s[2] = y
  OBVIOUS
<1> HIDE DEF s
<1>2. IsSequence(s) /\ DOMAIN s = 1 .. 2
  BY <1>1, SequencesAreSequences
<1>3. \A n \in DOMAIN s : n = 1 \/ n = 2
  BY <1>2
<1>4. Written(s, d)
  BY <1>1, <1>2, <1>3 DEF Written
<1> QED
  BY <1>4 DEF s

LEMMA WrittenConcat ==
  ASSUME NEW d, NEW s, NEW t, Written(s, d), Written(t, d)
  PROVE  Written(s \o t, d)
PROOF
<1>1. PICK S : s \in Seq(S) /\ t \in Seq(S)
  BY CommonSet DEF Written
<1>2. /\ s \o t \in Seq(S)
      /\ Len(s \o t) = Len(s) + Len(t)
      /\ \A n \in 1 .. Len(s) + Len(t) :
           (s \o t)[n] = IF n <= Len(s) THEN s[n] ELSE t[n - Len(s)]
  BY <1>1, ConcatProperties
<1>3. /\ Len(s) \in Nat /\ DOMAIN s = 1 .. Len(s)
      /\ Len(t) \in Nat /\ DOMAIN t = 1 .. Len(t)
      /\ IsSequence(s \o t) /\ DOMAIN (s \o t) = 1 .. Len(s \o t)
  BY <1>1, <1>2, SequencesAreSequences
<1>4. ASSUME NEW n \in 1 .. Len(s) + Len(t)
      PROVE  Right((s \o t)[n], d)
  <2>1. CASE n <= Len(s)
    BY <1>2, <1>3, <1>4, <2>1 DEF Written
  <2>2. CASE ~(n <= Len(s))
    <3>1. n - Len(s) \in DOMAIN t
      BY <1>3, <1>4, <2>2
    <3> QED
      BY <1>2, <1>4, <2>2, <3>1 DEF Written
  <2> QED
    BY <2>1, <2>2
<1> QED
  BY <1>2, <1>3, <1>4 DEF Written

LEMMA WrittenAppend ==
  ASSUME NEW d, NEW s, NEW x, Written(s, d), Right(x, d)
  PROVE  Written(Append(s, x), d)
PROOF
<1>1. Written(<<x>>, d)
  BY WrittenOne
<1>2. PICK S : s \in Seq(S) /\ <<x>> \in Seq(S)
  BY <1>1, CommonSet DEF Written
<1>3. x \in S
  BY <1>2, ElementOfSeq
<1>4. Append(s, x) = s \o <<x>>
  BY <1>2, <1>3, AppendIsConcat
<1> QED
  BY <1>1, <1>4, WrittenConcat

LEMMA WrittenHeadTail ==
  ASSUME NEW d, NEW s, Written(s, d), s # << >>
  PROVE  /\ Written(Tail(s), d)
         /\ Right(Head(s), d)
PROOF
<1>1. PICK S : s \in Seq(S)
  BY DEF Written, IsSequence
<1>2. /\ Len(s) \in Nat \ {0} /\ DOMAIN s = 1 .. Len(s)
      /\ Tail(s) \in Seq(S)
      /\ Len(Tail(s)) = Len(s) - 1
      /\ \A n \in 1 .. Len(Tail(s)) : Tail(s)[n] = s[n + 1]
  BY <1>1, EmptySeq, HeadTailProperties, SequencesAreSequences
<1>3. IsSequence(Tail(s)) /\ DOMAIN Tail(s) = 1 .. Len(Tail(s))
  BY <1>2, SequencesAreSequences
<1>4. \A n \in DOMAIN Tail(s) : n + 1 \in DOMAIN s /\ Tail(s)[n] = s[n + 1]
  BY <1>2, <1>3
<1>5. Head(s) = s[1] /\ 1 \in DOMAIN s
  BY <1>1, <1>2
<1> QED
  BY <1>3, <1>4, <1>5 DEF Written

LEMMA WrittenCut ==
  ASSUME NEW d, NEW s, Written(s, d), NEW n \in 1 .. Len(s)
  PROVE  Written(SubSeq(s, 1, n - 1), d)
PROOF
<1>1. PICK S : s \in Seq(S)
  BY DEF Written, IsSequence
<1>2. Len(s) \in Nat /\ DOMAIN s = 1 .. Len(s) /\ s \in [1 .. Len(s) -> S]
  BY <1>1, LenProperties
<1> DEFINE t == SubSeq(s, 1, n - 1)
<1>3. /\ t \in Seq(S)
      /\ Len(t) = IF 1 <= n - 1 THEN n - 1 ELSE 0
      /\ \A m \in 1 .. n - 1 : t[m] = s[m]
  <2>1. \A m \in 1 .. n - 1 : s[m] \in S
    BY <1>2
  <2>2. 1 \in Int /\ n - 1 \in Int
    BY <1>2
  <2>3. /\ t \in Seq(S)
        /\ Len(t) = IF 1 <= n - 1 THEN n - 1 - 1 + 1 ELSE 0
        /\ \A m \in 1 .. n - 1 - 1 + 1 : t[m] = s[1 + m - 1]
    BY <2>1, <2>2, SubSeqProperties
  <2> QED
    BY <2>2, <2>3
<1> HIDE DEF t
<1>4. IsSequence(t) /\ DOMAIN t = 1 .. Len(t)
  BY <1>3, SequencesAreSequences
<1>5. \A m \in DOMAIN t : m \in DOMAIN s /\ t[m] = s[m]
  BY <1>2, <1>3, <1>4
<1>6. Written(t, d)
  BY <1>4, <1>5 DEF Written
<1> QED
  BY <1>6 DEF t

LEMMA WrittenChanged ==
  ASSUME NEW d, NEW s, Written(s, d), NEW n \in 1 .. Len(s), NEW x, Right(x, d)
  PROVE  Written([s EXCEPT ![n] = x], d)
PROOF
<1>1. PICK S : s \in Seq(S)
  BY DEF Written, IsSequence
<1> DEFINE t == [s EXCEPT ![n] = x]
<1>2. s \in Seq(S \union {x})
  BY <1>1, SeqMonotonic
<1>3. /\ t \in Seq(S \union {x})
      /\ Len(t) = Len(s)
      /\ \A m \in 1 .. Len(s) : t[m] = IF m = n THEN x ELSE s[m]
  BY <1>2, ExceptSeq
<1> HIDE DEF t
<1>4. IsSequence(t) /\ DOMAIN t = 1 .. Len(s) /\ DOMAIN s = 1 .. Len(s)
  BY <1>2, <1>3, SequencesAreSequences
<1>5. Written(t, d)
  BY <1>3, <1>4 DEF Written
<1> QED
  BY <1>5 DEF t

-----------------------------------------------------------------------------
(* Fragments follow each other *)

LEMMA FragmentsJoin ==
  ASSUME NEW s, IsSequence(s), NEW c \in 0 .. Len(s) - 1,
         NEW k \in 1 .. Len(s) - c
  PROVE  /\ SubSeq(s, 1, c) \o SubSeq(s, c + 1, c + k) = SubSeq(s, 1, c + k)
         /\ IsSequence(SubSeq(s, c + 1, c + k)) /\ Len(SubSeq(s, c + 1, c + k)) = k
PROOF
<1>1. PICK S : s \in Seq(S)
  BY DEF IsSequence
<1>2. Len(s) \in Nat /\ s \in [1 .. Len(s) -> S]
  BY <1>1, LenProperties
<1>3. ASSUME NEW m \in 1 .. Len(s), NEW n \in 0 .. Len(s)
      PROVE  /\ SubSeq(s, m, n) \in Seq(S)
             /\ Len(SubSeq(s, m, n)) = IF m <= n THEN n - m + 1 ELSE 0
             /\ \A i \in 1 .. n - m + 1 : SubSeq(s, m, n)[i] = s[m + i - 1]
  <2>1. m \in Int /\ n \in Int /\ \A i \in m .. n : s[i] \in S
    BY <1>2
  <2> QED
    BY <2>1, SubSeqProperties
<1> DEFINE a == SubSeq(s, 1, c)
           b == SubSeq(s, c + 1, c + k)
           u == SubSeq(s, 1, c + k)
<1>4. a \in Seq(S) /\ Len(a) = c /\ \A i \in 1 .. c : a[i] = s[i]
  <2>1. 1 \in 1 .. Len(s) /\ c \in 0 .. Len(s)
    BY <1>2
  <2>2. /\ a \in Seq(S) /\ Len(a) = IF 1 <= c THEN c - 1 + 1 ELSE 0
        /\ \A i \in 1 .. c - 1 + 1 : a[i] = s[1 + i - 1]
    BY <1>3, <2>1
  <2> HIDE DEF a
  <2> QED
    BY <2>1, <2>2
<1>5. b \in Seq(S) /\ Len(b) = k /\ \A i \in 1 .. k : b[i] = s[c + i]
  <2>1. c + 1 \in 1 .. Len(s) /\ c + k \in 0 .. Len(s)
    BY <1>2
  <2>2. /\ b \in Seq(S)
        /\ Len(b) = IF c + 1 <= c + k THEN (c + k) - (c + 1) + 1 ELSE 0
        /\ \A i \in 1 .. (c + k) - (c + 1) + 1 : b[i] = s[(c + 1) + i - 1]
    BY <1>3, <2>1
  <2> HIDE DEF b
  <2> QED
    BY <2>1, <2>2
<1>6. u \in Seq(S) /\ Len(u) = c + k /\ \A i \in 1 .. c + k : u[i] = s[i]
  <2>1. 1 \in 1 .. Len(s) /\ c + k \in 1 .. Len(s)
    BY <1>2
  <2>2. /\ u \in Seq(S) /\ Len(u) = IF 1 <= c + k THEN (c + k) - 1 + 1 ELSE 0
        /\ \A i \in 1 .. (c + k) - 1 + 1 : u[i] = s[1 + i - 1]
    BY <1>3, <2>1
  <2> HIDE DEF u
  <2> QED
    BY <2>1, <2>2
<1> HIDE DEF a, b, u
<1>7. /\ a \o b \in Seq(S) /\ Len(a \o b) = c + k
      /\ \A i \in 1 .. c + k : (a \o b)[i] = IF i <= c THEN a[i] ELSE b[i - c]
  BY <1>4, <1>5, ConcatProperties
<1>8. \A i \in 1 .. c + k : (a \o b)[i] = u[i]
  BY <1>2, <1>4, <1>5, <1>6, <1>7
<1>9. a \o b = u
  BY <1>6, <1>7, <1>8, SeqEqual
<1>10. IsSequence(b)
  BY <1>5, SequencesAreSequences
<1> QED
  BY <1>5, <1>9, <1>10 DEF a, b, u

-----------------------------------------------------------------------------
(* Sizes of lattices *)

LEMMA SizesMultiply ==
  ASSUME NEW h, h.size \in [1 .. 3 -> Nat]
  PROVE  ArraySize(h) \in Nat
PROOF
<1>1. h.size[1] \in Nat /\ h.size[2] \in Nat /\ h.size[3] \in Nat
  OBVIOUS
<1>2. \A a, b, c \in Nat : a * b * c \in Nat
  OBVIOUS
<1> QED
  BY <1>1, <1>2 DEF ArraySize

LEMMA RoundedIsSize ==
  ASSUME NEW i \in Nat, NEW period \in {1, 2}
  PROVE  Rounded(i, period) \in Nat
PROOF
<1>1. CASE period = 1
  BY <1>1 DEF Rounded
<1>2. CASE period = 2
  BY <1>2 DEF Rounded
<1> QED
  BY <1>1, <1>2

LEMMA NewHeaderIsHeader ==
  ASSUME NEW r \in Requests
  PROVE  NewHeader(r) \in Headers
PROOF
<1>1. /\ r.topology \in TopologyNames /\ r.cell \in [1 .. 3 -> Nat]
      /\ r.cellsPerMeter \in Nat \ {0}
  BY RequestsAssumption
<1>2. ASSUME NEW n \in 1 .. 3
      PROVE  GetIndex(r)[n] \in Nat
  <2>1. CASE r.topology # "CUBE12"
    BY <1>1, <2>1 DEF GetIndex
  <2>2. CASE r.topology = "CUBE12"
    <3> DEFINE half(p) == (p + r.cellsPerMeter - 1) \div 2
    <3>1. half(0) \in Nat /\ half(1) \in Nat
      BY <1>1
    <3>2. (r.cell[1] + r.cell[2]) % 2 \in {0, 1}
      BY <1>1
    <3>3. half((r.cell[1] + r.cell[2]) % 2) \in Nat
      BY <3>1, <3>2
    <3>4. GetIndex(r) = <<r.cell[1] + half(0), r.cell[2] + half(0),
                          r.cell[3] + half((r.cell[1] + r.cell[2]) % 2)>>
      BY <2>2 DEF GetIndex
    <3> HIDE DEF half
    <3> QED
      BY <1>1, <3>1, <3>3, <3>4
  <2> QED
    BY <2>1, <2>2
<1>3. ASSUME NEW n \in 1 .. 3
      PROVE  LatticeSize(r)[n] \in Nat
  <2>1. Period(r.topology)[n] \in {1, 2}
    BY DEF Period
  <2> QED
    BY <1>2, <2>1, RoundedIsSize DEF LatticeSize
<1>4. LatticeSize(r) \in [1 .. 3 -> Nat]
  BY <1>3 DEF LatticeSize
<1> QED
  BY <1>1, <1>4 DEF NewHeader, Headers, CompressionTypes

LEMMA ListsAreSequences ==
  ASSUME NEW k \in Nat, NEW s, s = [n \in 1 .. k |-> s[n]]
  PROVE  IsSequence(s) /\ Len(s) = k
PROOF
<1> DEFINE S == {s[n] : n \in 1 .. k}
<1>1. s \in [1 .. k -> S]
  OBVIOUS
<1>2. s \in Seq(S)
  <2> HIDE DEF S
  <2> QED
    BY <1>1, SeqDef
<1> HIDE DEF S
<1>3. DOMAIN s = 1 .. Len(s) /\ Len(s) \in Nat /\ DOMAIN s = 1 .. k
  BY <1>1, <1>2, LenProperties
<1>4. \A m, n \in Nat : 1 .. m = 1 .. n => m = n
  <2> SUFFICES ASSUME NEW m \in Nat, NEW n \in Nat, 1 .. m = 1 .. n PROVE m = n
    OBVIOUS
  <2>1. m > 0 => m \in 1 .. n
    OBVIOUS
  <2>2. n > 0 => n \in 1 .. m
    OBVIOUS
  <2> QED
    BY <2>1, <2>2
<1>5. Len(s) = k
  BY <1>3, <1>4
<1> QED
  BY <1>2, <1>5, SequencesAreSequences

\* The header of the lattice a save is given is not touched by its iterations.
LEMMA LatticeFields ==
  ASSUME NEW h, NEW cells
  PROVE  /\ Digest(h, cells).header = h
         /\ Digest(h, cells).cells = cells
         /\ IsLattice(Digest(h, cells)) <=>
              h \in Headers /\ IsSequence(cells) /\ Len(cells) = ArraySize(h)
PROOF
  BY DEF Digest, IsLattice

LEMMA NoLatticeIsOne == IsLattice(NoLattice)
PROOF
<1> DEFINE h == [topology |-> "NONE", size |-> <<0, 0, 0>>,
                 compressionType |-> "UNKNOWN", iterationsDone |-> 0]
<1>1. IsSequence(<< >>) /\ Len(<< >>) = 0
  BY WrittenNothing, EmptySeq DEF Written
<1>2. <<0, 0, 0>> \in [1 .. 3 -> Nat]
  OBVIOUS
<1>3. h \in Headers
  BY <1>2 DEF Headers, TopologyNames, CompressionTypes
<1>4. h.size = <<0, 0, 0>>
  OBVIOUS
<1>5. ArraySize(h) = 0
  BY <1>4 DEF ArraySize
<1> HIDE DEF h
<1>6. IsLattice(Digest(h, << >>))
  BY <1>1, <1>3, <1>5, LatticeFields
<1> QED
  BY <1>6 DEF NoLattice, h

-----------------------------------------------------------------------------
(* The invariant *)

LEMMA InitEstablishes == Init => IInv
PROOF
<1> SUFFICES ASSUME Init PROVE IInv
  OBVIOUS
<1>1. IsLattice(given)
  BY OldFilesAssumption, NoLatticeIsOne DEF Init
<1>2. Written(disk, given)
  <2>1. CASE given = NoLattice
    BY <2>1, WrittenNothing DEF Init, OldFile
  <2>2. CASE given # NoLattice
    <3> DEFINE sizes == IF given.header.compressionType = "LZMA"
                          THEN << <<"sizes", Len(given.cells)>> >> ELSE << >>
               start == << <<"header", given.header>> >>
               end == << <<"data", given.cells>>, <<"digest", given>> >>
    <3>1. Written(start, given)
      BY <1>1, WrittenOne, RightItems DEF IsLattice
    <3>2. Written(sizes, given)
      BY WrittenNothing, WrittenOne, RightItems
    <3>3. Written(end, given)
      BY WrittenTwo, RightItems
    <3>4. disk = start \o sizes \o end
      BY <2>2 DEF Init, OldFile
    <3> HIDE DEF start, sizes, end
    <3> QED
      BY <3>1, <3>2, <3>3, <3>4, WrittenConcat
  <2> QED
    BY <2>1, <2>2
<1>3. Written(buffered, given) /\ buffered = << >> /\ pos \in Nat
  BY WrittenNothing DEF Init
<1>4. LoadInv /\ SaveInv
  BY DEF Init, LoadInv, SaveInv, At, Writing
<1> QED
  BY <1>1, <1>2, <1>3, <1>4 DEF IInv

\* What a load leaves alone, and what it establishes.
LEMMA LoadKeeps ==
  ASSUME IInv,
         OpenRead \/ ReadHeader \/ NoHeader \/ ReadFragment \/ ReadDigest \/ ReadFails
  PROVE  IInv'
PROOF
<1>1. /\ UNCHANGED <<disk, buffered, given>>
      /\ pc \in {"load", "readHeader", "readData"}
      /\ pc' \in {"readHeader", "readData", "loaded"}
  BY DEF OpenRead, ReadHeader, NoHeader, ReadFragment, ReadDigest, ReadFails, At, Goto
<1>2. buffered' = << >> /\ ~Writing'
  BY <1>1 DEF IInv, Writing
<1>3. LoadInv'
  <2>1. CASE OpenRead
    BY <2>1 DEF OpenRead, LoadInv, At, Goto
  <2>2. CASE ReadHeader
    BY <2>2 DEF ReadHeader, LoadInv, At, Goto
  <2>3. CASE NoHeader
    BY <2>3 DEF NoHeader, LoadInv, At, Goto
  <2>4. CASE ReadFragment
    BY <2>4, LatticeFields DEF ReadFragment, IInv, LoadInv, At, Goto
  <2>5. CASE ReadDigest
    <3>1. /\ headerPtr = "filled" /\ ctx = Digest(header, array)
          /\ UNCHANGED <<header, headerPtr, array>> /\ pc' = "loaded"
      BY <2>5 DEF ReadDigest, IInv, LoadInv, At, Goto, lattice
    <3>2. disk[pos + 1] = <<"digest", ctx>> /\ pos + 1 \in DOMAIN disk
      <4>1. pos + 1 <= Len(disk) /\ disk[pos + 1][1] = "digest"
        BY <2>5 DEF ReadDigest, DigestAgrees, Finds
      <4>2. disk[pos + 1] = <<"digest", ctx>>
        BY <2>5 DEF ReadDigest, DigestAgrees
      <4>3. PICK S : disk \in Seq(S)
        BY DEF IInv, Written, IsSequence
      <4>4. DOMAIN disk = 1 .. Len(disk) /\ Len(disk) \in Nat
        BY <4>3, LenProperties
      <4> QED
        BY <4>1, <4>2, <4>4 DEF IInv
    <3>3. ctx = given
      <4>1. Right(<<"digest", ctx>>, given)
        BY <3>2 DEF IInv, Written
      <4> QED
        BY <4>1 DEF Right
    <3> QED
      BY <1>1, <3>1, <3>3 DEF LoadInv, At
  <2>6. CASE ReadFails
    BY <2>6 DEF ReadFails, LoadInv, At, Goto
  <2> QED
    BY <2>1, <2>2, <2>3, <2>4, <2>5, <2>6
<1>4. SaveInv'
  BY <1>2 DEF SaveInv
<1>5. pos' \in Nat
  <2>1. Len(Wanted) \in Nat
    BY DEF Wanted
  <2>2. pos' \in {pos, 0, pos + 1, pos + Len(Wanted)}
    BY DEF OpenRead, ReadHeader, NoHeader, ReadFragment, ReadDigest, ReadFails
  <2> QED
    BY <2>1, <2>2 DEF IInv
<1> QED
  BY <1>1, <1>2, <1>3, <1>4, <1>5 DEF IInv

LEMMA OpenKeeps ==
  ASSUME IInv, OpenWrite
  PROVE  IInv'
PROOF
<1>1. buffered = << >> /\ UNCHANGED <<buffered, header, headerPtr, array>>
  BY DEF OpenWrite, IInv, Writing, At, lattice
<1>2. CASE pc' = "saved"
  <2>1. UNCHANGED <<disk, pos, given>>
    BY <1>2 DEF OpenWrite, Goto
  <2>2. LoadInv' /\ SaveInv' /\ ~Writing'
    BY <1>2 DEF LoadInv, SaveInv, Writing, At
  <2> QED
    BY <1>1, <2>1, <2>2 DEF IInv
<1>3. CASE pc' = "writeHeader"
  <2>1. /\ disk' = << >> /\ pos' = 0 /\ curWritten' = 0
        /\ ctx' = Digest(header, << >>) /\ given' = Digest(header, array)
    BY <1>3 DEF OpenWrite, Goto
  <2>2. IsLattice(Digest(header, array))
    BY DEF OpenWrite, IInv, LoadInv
  <2>3. Written(disk', given') /\ Written(buffered', given')
    BY <1>1, <2>1, WrittenNothing
  <2>4. SaveInv'
    <3>1. SubSeq(array, 1, 0) = << >>
      BY SubSeqEmpty
    <3>2. TotalSize' = TotalSize /\ TotalSize \in Nat
      BY <1>1, <2>2, LatticeFields, SizesMultiply DEF TotalSize, Headers
    <3>3. curWritten' \in 0 .. TotalSize'
      BY <2>1, <3>2
    <3>4. ctx' = Digest(header', SubSeq(array', 1, curWritten'))
      BY <1>1, <2>1, <3>1
    <3> QED
      BY <1>1, <1>3, <2>1, <3>3, <3>4 DEF SaveInv, At
  <2>5. LoadInv' /\ Writing'
    BY <1>3 DEF LoadInv, Writing, At
  <2> QED
    BY <1>1, <2>1, <2>2, <2>3, <2>4, <2>5 DEF IInv
<1> QED
  BY <1>2, <1>3 DEF OpenWrite, Goto

\* While a lattice is written: what the digest has taken grows by a fragment at a
\* time, until it has taken all.
LEMMA FragmentsTaken ==
  ASSUME IInv, Writing, curWritten < TotalSize, FragmentDone,
         UNCHANGED <<header, array, given>>
  PROVE  SaveInv'
PROOF
<1>1. /\ given = Digest(header, array) /\ curWritten \in 0 .. TotalSize
      /\ ctx = Digest(header, SubSeq(array, 1, curWritten))
  BY DEF IInv, SaveInv
<1>2. IsSequence(array) /\ Len(array) = TotalSize /\ TotalSize \in Nat
  BY <1>1, LatticeFields, SizesMultiply DEF IInv, TotalSize, Headers
<1> DEFINE k == Consume(TotalSize - curWritten)
<1>3. k \in 1 .. TotalSize - curWritten
  BY <1>1, <1>2, FragmentSizeAssumption DEF Consume
<1>4. Fragment = SubSeq(array, curWritten + 1, curWritten + k)
  BY DEF Fragment
<1> HIDE DEF k
<1>5. /\ Len(Fragment) = k
      /\ SubSeq(array, 1, curWritten) \o Fragment = SubSeq(array, 1, curWritten + k)
  BY <1>1, <1>2, <1>3, <1>4, FragmentsJoin
<1>6. /\ curWritten' = curWritten + k
      /\ ctx' = Digest(header, SubSeq(array, 1, curWritten + k))
  BY <1>1, <1>5, LatticeFields DEF FragmentDone
<1>7. TotalSize' = TotalSize
  BY DEF TotalSize
<1>8. curWritten' \in 0 .. TotalSize' /\ pc' = "writeSizes"
  BY <1>1, <1>2, <1>3, <1>6, <1>7 DEF FragmentDone, Goto
<1> QED
  BY <1>1, <1>6, <1>8 DEF SaveInv, At

\* At the end the digest is the one of the lattice.
LEMMA AllTaken ==
  ASSUME IInv, Writing, curWritten >= TotalSize
  PROVE  ctx = given
PROOF
<1>1. /\ given = Digest(header, array) /\ curWritten \in 0 .. TotalSize
      /\ ctx = Digest(header, SubSeq(array, 1, curWritten))
  BY DEF IInv, SaveInv
<1>2. IsSequence(array) /\ Len(array) = TotalSize /\ TotalSize \in Nat
  BY <1>1, LatticeFields, SizesMultiply DEF IInv, TotalSize, Headers
<1>3. curWritten = Len(array)
  BY <1>1, <1>2
<1>4. SubSeq(array, 1, Len(array)) = array
  BY <1>2, SubSeqFull DEF IsSequence
<1> QED
  BY <1>1, <1>3, <1>4

LEMMA SaveKeeps ==
  ASSUME IInv,
         WriteHeader \/ WriteSizes \/ WriteData \/ CompressFails \/ WriteDigest
  PROVE  IInv'
PROOF
<1>1. /\ Writing /\ Writing'
      /\ UNCHANGED <<disk, header, headerPtr, array, pos, given>>
  BY DEF WriteHeader, WriteSizes, WriteData, CompressFails, WriteDigest, FragmentDone,
         At, Goto, Writing, lattice
<1>2. LoadInv'
  BY <1>1 DEF LoadInv, Writing, At
<1>3. SaveInv' /\ Written(buffered', given')
  <2>1. TotalSize' = TotalSize
    BY <1>1 DEF TotalSize
  <2>2. CASE WriteHeader
    <3>1. Written(buffered', given)
      <4>1. header \in Headers
        BY <1>1, LatticeFields DEF IInv, SaveInv
      <4> QED
        BY <2>2, <4>1, WrittenAppend, RightItems DEF WriteHeader, Write, WriteRefused, IInv
    <3>2. UNCHANGED <<ctx, curWritten>> /\ pc' # "writeData"
      BY <2>2 DEF WriteHeader, Goto
    <3> QED
      BY <1>1, <2>1, <3>1, <3>2 DEF IInv, SaveInv, At
  <2>3. CASE WriteSizes
    <3>1. Written(buffered', given)
      BY <2>3, WrittenAppend, RightItems DEF WriteSizes, Write, WriteRefused, IInv
    <3>2. CASE FragmentDone
      BY <1>1, <2>3, <3>1, <3>2, FragmentsTaken DEF WriteSizes
    <3>3. CASE pc' = "writeData" /\ UNCHANGED <<ctx, curWritten>>
      BY <1>1, <2>1, <2>3, <3>1, <3>3 DEF WriteSizes, IInv, SaveInv, At
    <3> QED
      BY <2>3, <3>2, <3>3 DEF WriteSizes, Goto
  <2>4. CASE WriteData
    <3>1. Written(buffered', given)
      BY <2>4, WrittenAppend, RightItems DEF WriteData, Write, WriteRefused, IInv
    <3>2. curWritten < TotalSize
      BY <1>1, <2>4 DEF WriteData, IInv, SaveInv, At
    <3> QED
      BY <1>1, <2>4, <3>1, <3>2, FragmentsTaken DEF WriteData
  <2>5. CASE CompressFails
    BY <1>1, <2>1, <2>5 DEF CompressFails, IInv, SaveInv, At, Goto
  <2>6. CASE WriteDigest
    <3>1. ctx = given
      BY <1>1, <2>6, AllTaken DEF WriteDigest
    <3>2. Written(buffered', given)
      BY <2>6, <3>1, WrittenAppend, RightItems DEF WriteDigest, Write, WriteRefused, IInv
    <3>3. UNCHANGED <<ctx, curWritten>> /\ pc' # "writeData"
      BY <2>6 DEF WriteDigest, Goto
    <3> QED
      BY <1>1, <2>1, <3>2, <3>3 DEF IInv, SaveInv, At
  <2> QED
    BY <2>2, <2>3, <2>4, <2>5, <2>6
<1> QED
  BY <1>1, <1>2, <1>3 DEF IInv

LEMMA CloseKeeps ==
  ASSUME IInv, Close
  PROVE  IInv'
PROOF
<1>1. buffered' = << >> /\ UNCHANGED <<pos, given>> /\ pc' = "saved"
  BY DEF Close, Goto
<1>2. Written(disk', given') /\ Written(buffered', given')
  BY <1>1, WrittenConcat, WrittenNothing DEF Close, IInv
<1>3. LoadInv' /\ SaveInv'
  BY <1>1 DEF LoadInv, SaveInv, Writing, At
<1> QED
  BY <1>1, <1>2, <1>3 DEF IInv

\* The disk takes from the buffer, or takes no more.
LEMMA DiskKeeps ==
  ASSUME IInv, Flush \/ DiskFills
  PROVE  IInv'
PROOF
<1>1. UNCHANGED <<header, headerPtr, array, ctx, pos, curWritten, flag, pc, given>>
  BY DEF Flush, DiskFills, lattice
<1>2. LoadInv' /\ SaveInv' /\ (Writing' <=> Writing)
  BY <1>1 DEF IInv, LoadInv, SaveInv, Writing, At, TotalSize
<1>3. Written(disk', given) /\ Written(buffered', given)
  <2>1. CASE Flush
    BY <2>1, WrittenHeadTail, WrittenAppend DEF Flush, IInv
  <2>2. CASE DiskFills
    BY <2>2 DEF DiskFills, IInv
  <2> QED
    BY <2>1, <2>2
<1>4. buffered' # << >> => buffered # << >>
  BY DEF Flush, DiskFills
<1> QED
  BY <1>1, <1>2, <1>3, <1>4 DEF IInv

\* A process that ends, dies or is not there yet leaves nothing but the file.
LEMMA GoneKeeps ==
  ASSUME IInv, NEW code, Gone(code), UNCHANGED disk,
         buffered' = << >> \/ (UNCHANGED buffered /\ ~Writing)
  PROVE  IInv'
PROOF
<1>1. pos' = 0 /\ pc' = "idle" /\ UNCHANGED given
  BY DEF Gone, Goto
<1>2. LoadInv' /\ SaveInv'
  BY <1>1 DEF LoadInv, SaveInv, Writing, At
<1>3. buffered' = << >>
  BY DEF IInv
<1> QED
  BY <1>1, <1>2, <1>3, WrittenNothing DEF IInv

LEMMA DamageKeeps ==
  ASSUME IInv, Damage
  PROVE  IInv'
PROOF
<1>1. UNCHANGED <<buffered, header, headerPtr, array, ctx, pos, curWritten, flag, pc,
                  given>>
  BY DEF Damage, lattice
<1>2. LoadInv' /\ SaveInv' /\ (Writing' <=> Writing)
  BY <1>1 DEF IInv, LoadInv, SaveInv, Writing, At, TotalSize
<1>3. Written(disk', given)
  <2>1. PICK n \in 1 .. Len(disk) :
          \/ disk' = SubSeq(disk, 1, n - 1)
          \/ \E x : Right(x, given) /\ disk' = [disk EXCEPT ![n] = x]
    <3>1. PICK n \in 1 .. Len(disk) :
            \/ disk' = SubSeq(disk, 1, n - 1)
            \/ \E x \in Forms(disk[n]) : disk' = [disk EXCEPT ![n] = x]
      BY DEF Damage
    <3>2. ASSUME disk[n][1] = "header"
          PROVE  /\ \A type \in {"LZMA", "UNKNOWN"} :
                      [disk[n][2] EXCEPT !.compressionType = type] \in Headers
                 /\ \A topology \in Topologies :
                      [disk[n][2] EXCEPT !.topology = topology] \in Headers
                 /\ \A r \in Requests :
                      [disk[n][2] EXCEPT !.size = LatticeSize(r)] \in Headers
      <4>1. n \in DOMAIN disk
        BY LenProperties DEF IInv, Written, IsSequence
      <4>2. disk[n][2] \in Headers
        BY <3>2, <4>1 DEF IInv, Written, Right
      <4>3. Topologies \subseteq TopologyNames
        BY RequestsAssumption DEF Topologies
      <4>4. \A r \in Requests : LatticeSize(r) \in [1 .. 3 -> Nat]
        BY NewHeaderIsHeader DEF NewHeader, Headers
      <4> QED
        BY <4>2, <4>3, <4>4 DEF Headers, CompressionTypes
    <3>3. ASSUME NEW x \in Forms(disk[n])
          PROVE  Right(x, given)
      <4>1. CASE disk[n][1] = "header"
        BY <3>2, <3>3, <4>1, RightItems DEF Forms
      <4>2. CASE disk[n][1] = "sizes"
        BY <3>3, <4>2, RightItems DEF Forms
      <4>3. CASE disk[n][1] = "data"
        BY <3>3, <4>3, RightItems DEF Forms
      <4> QED
        BY <3>3, <4>1, <4>2, <4>3 DEF Forms
    <3> QED
      BY <3>1, <3>3
  <2>2. Written(disk, given)
    BY DEF IInv
  <2>3. CASE disk' = SubSeq(disk, 1, n - 1)
    BY <2>2, <2>3, WrittenCut
  <2>4. CASE \E x : Right(x, given) /\ disk' = [disk EXCEPT ![n] = x]
    <3>1. PICK x : Right(x, given) /\ disk' = [disk EXCEPT ![n] = x]
      BY <2>4
    <3>2. Written([disk EXCEPT ![n] = x], given)
      BY <2>2, <3>1, WrittenChanged
    <3> QED
      BY <3>1, <3>2
  <2> QED
    BY <2>1, <2>3, <2>4
<1> QED
  BY <1>1, <1>2, <1>3 DEF IInv

-----------------------------------------------------------------------------
(* The programs *)

LEMMA StartKeeps ==
  ASSUME IInv, NEW p, NEW b, Start(p, b)
  PROVE  IInv'
PROOF
<1>1. UNCHANGED <<disk, buffered, pos, given>> /\ pc = "idle" /\ pc' \in {"create", "load"}
  BY DEF Start, At, Goto
<1>2. LoadInv' /\ SaveInv' /\ ~Writing
  BY <1>1 DEF LoadInv, SaveInv, Writing, At
<1> QED
  BY <1>1, <1>2 DEF IInv

LEMMA CreateKeeps ==
  ASSUME IInv, NEW r \in Requests, Create(r)
  PROVE  IInv'
PROOF
<1>1. /\ UNCHANGED <<disk, buffered, pos, given>>
      /\ pc = "create" /\ pc' = "save" /\ headerPtr' = "filled"
      /\ header' = NewHeader(r)
      /\ array' = [n \in 1 .. TotalSize' |-> Cell(n, created + 1, 0)]
  BY DEF Create, At, Goto
<1>2. header' \in Headers /\ ArraySize(header') \in Nat
  BY <1>1, NewHeaderIsHeader, SizesMultiply DEF Headers
<1>3. TotalSize' = ArraySize(header')
  BY DEF TotalSize
<1>4. IsSequence(array') /\ Len(array') = ArraySize(header')
  BY <1>1, <1>2, <1>3, ListsAreSequences
<1>5. IsLattice(Digest(header', array'))
  BY <1>2, <1>4, LatticeFields
<1>6. LoadInv'
  BY <1>1, <1>5 DEF LoadInv, At, IsLattice, Digest, Headers
<1>7. SaveInv' /\ ~Writing
  BY <1>1 DEF SaveInv, Writing, At
<1> QED
  BY <1>1, <1>6, <1>7 DEF IInv

LEMMA IterateKeeps ==
  ASSUME IInv, Iterate
  PROVE  IInv'
PROOF
<1>1. /\ UNCHANGED <<disk, buffered, headerPtr, pos, pc, given>> /\ pc = "iterate"
      /\ header' = [header EXCEPT !.iterationsDone = @ + 1]
      /\ array' = [n \in DOMAIN array |-> Cell(n, array[n][2], array[n][3] + 1)]
  BY DEF Iterate, At
<1>2. /\ headerPtr = "filled"
      /\ header \in Headers /\ IsSequence(array) /\ Len(array) = ArraySize(header)
  BY <1>1, LatticeFields DEF IInv, LoadInv, At
<1>3. header' \in Headers /\ ArraySize(header') = ArraySize(header)
  <2>1. header' \in Headers /\ header'.size = header.size
    BY <1>1, <1>2 DEF Headers
  <2> QED
    BY <2>1 DEF ArraySize
<1>4. IsSequence(array') /\ Len(array') = Len(array)
  <2>1. DOMAIN array = 1 .. Len(array) /\ Len(array) \in Nat
    BY <1>2, LenProperties DEF IsSequence
  <2> QED
    BY <1>1, <2>1, ListsAreSequences
<1>5. IsLattice(Digest(header', array'))
  BY <1>2, <1>3, <1>4, LatticeFields
<1>6. LoadInv'
  BY <1>1, <1>2, <1>5 DEF LoadInv, At, IsLattice, Digest, Headers
<1>7. SaveInv' /\ ~Writing
  BY <1>1 DEF SaveInv, Writing, At
<1> QED
  BY <1>1, <1>6, <1>7 DEF IInv

LEMMA SimulatorKeeps ==
  ASSUME IInv, InitSimulator \/ FinalizeSimulator
  PROVE  IInv'
PROOF
<1>1. CASE \E code : Exit(code) /\ At("loaded")
  BY <1>1, GoneKeeps DEF Exit, Writing, At
<1>2. CASE /\ UNCHANGED <<disk, buffered, header, headerPtr, array, pos, given>>
           /\ At("iterate") \/ (At("loaded") /\ flag = 0)
           /\ pc' \in {"iterate", "save"}
  <2>1. headerPtr = "filled" /\ IsLattice(Digest(header, array))
    BY <1>2 DEF IInv, LoadInv
  <2>2. LoadInv'
    BY <1>2, <2>1 DEF LoadInv, At, IsLattice, Digest, Headers
  <2>3. SaveInv' /\ ~Writing
    BY <1>2 DEF SaveInv, Writing, At
  <2> QED
    BY <1>2, <2>2, <2>3 DEF IInv
<1> QED
  BY <1>1, <1>2 DEF InitSimulator, FinalizeSimulator, Goto, lattice

LEMMA Inductive == Spec => []IInv
PROOF
<1>1. IInv /\ [Next]_vars => IInv'
  <2> SUFFICES ASSUME IInv, [Next]_vars PROVE IInv'
    OBVIOUS
  <2>1. CASE FileStep
    BY <2>1, LoadKeeps, OpenKeeps, SaveKeeps, CloseKeeps DEF FileStep
  <2>2. CASE Flush \/ DiskFills
    BY <2>2, DiskKeeps
  <2>3. CASE Damage
    BY <2>3, DamageKeeps
  <2>4. CASE Crash
    BY <2>4, GoneKeeps DEF Crash
  <2>5. CASE \E p \in {"prep", "sim", "post"}, b \in Topologies : Start(p, b)
    BY <2>5, StartKeeps
  <2>6. CASE \E r \in Requests : Create(r)
    BY <2>6, CreateKeeps
  <2>7. CASE \/ \E r \in Requests : CreateRefused(r)
             \/ SaveAborts \/ LoadAborts \/ Finalize \/ Postprocess
    <3>1. PICK code : Exit(code)
      BY <2>7 DEF CreateRefused, SaveAborts, LoadAborts, Finalize, Postprocess
    <3>2. ~Writing
      BY <2>7 DEF CreateRefused, SaveAborts, LoadAborts, Finalize, Postprocess, Writing, At
    <3> QED
      BY <3>1, <3>2, GoneKeeps DEF Exit
  <2>8. CASE InitSimulator \/ FinalizeSimulator
    BY <2>8, SimulatorKeeps
  <2>9. CASE Iterate
    BY <2>9, IterateKeeps
  <2>10. CASE UNCHANGED vars
    BY <2>10 DEF vars, fileVars, IInv, LoadInv, SaveInv, Writing, At, TotalSize
  <2> QED
    BY <2>1, <2>2, <2>3, <2>4, <2>5, <2>6, <2>7, <2>8, <2>9, <2>10
    DEF Next, ProgramStep
<1> QED
  BY <1>1, InitEstablishes, PTL DEF Spec

\* Whatever a crash, the disk or damage has done to the file, a load that returns 0
\* has the header and the cells that were given to the last save.
THEOREM LoadsAreTrue == Spec => []LoadedIsLast
PROOF
<1>1. IInv => LoadedIsLast
  BY DEF IInv, LoadInv, LoadedIsLast
<1> QED
  BY <1>1, Inductive, PTL

\* A program never iterates over, shows or saves what a failed load left behind.
THEOREM FailedLoadsUnused == Spec => []OnlyLoadedUsed
PROOF
<1>1. IInv => OnlyLoadedUsed
  BY LatticeFields DEF IInv, LoadInv, OnlyLoadedUsed, TotalSize
<1> QED
  BY <1>1, Inductive, PTL

-----------------------------------------------------------------------------
(* Types *)

\* What a header says of the size is a number, and so are the lengths of files.
LEMMA Sizes ==
  ASSUME IInv, CursorInv
  PROVE  /\ TotalSize \in Nat
         /\ Len(disk) \in Nat /\ DOMAIN disk = 1 .. Len(disk)
         /\ pos \in Nat
PROOF
<1>1. TotalSize \in Nat
  BY SizesMultiply DEF CursorInv, TotalSize, Headers
<1>2. Len(disk) \in Nat /\ DOMAIN disk = 1 .. Len(disk)
  BY SequencesAreSequences DEF IInv, Written, IsSequence
<1> QED
  BY <1>1, <1>2 DEF IInv

\* A load moves its cursor over what it finds, and takes its header from the file.
LEMMA LoadKeepsTypes ==
  ASSUME IInv, IInv', TypeOK, CursorInv, UNCHANGED programVars,
         OpenRead \/ ReadHeader \/ NoHeader \/ ReadFragment \/ ReadDigest \/ ReadFails
  PROVE  TypeOK' /\ CursorInv'
PROOF
<1>1. /\ UNCHANGED <<disk, buffered, full, given, program, build, created, curWritten>>
      /\ pc \in {"load", "readHeader", "readData"}
      /\ pc' \in {"readHeader", "readData", "loaded"}
  BY DEF OpenRead, ReadHeader, NoHeader, ReadFragment, ReadDigest, ReadFails, At, Goto,
         programVars
<1>2. curWritten = 0
  BY <1>1 DEF CursorInv, Writing, At
<1>3. header' \in Headers
  <2>1. CASE ReadHeader
    <3>1. /\ pos + 1 <= Len(disk) /\ disk[pos + 1][1] = "header"
          /\ header' = disk[pos + 1][2]
      BY <2>1 DEF ReadHeader, Finds
    <3>2. pos + 1 \in DOMAIN disk
      BY <3>1, Sizes
    <3> QED
      BY <3>1, <3>2 DEF IInv, Written, Right
  <2>2. CASE ~ReadHeader
    BY <2>2 DEF OpenRead, NoHeader, ReadFragment, ReadDigest, ReadFails, lattice, CursorInv
  <2> QED
    BY <2>1, <2>2
<1>4. TotalSize' \in Nat
  BY <1>3, SizesMultiply DEF TotalSize, Headers
<1>5. /\ pos' \in 0 .. Len(disk)
      /\ pc' = "readHeader" => pos' = 0
  <2>1. CASE ReadFragment
    <3>1. PICK k \in Nat : k = Len(Wanted)
      BY DEF Wanted
    <3>2. pos' = pos + k /\ pos + k <= Len(disk) /\ pc' = "readData"
      BY <2>1, <3>1 DEF ReadFragment, Readable, Finds, At
    <3> QED
      BY <3>1, <3>2, Sizes
  <2>2. CASE ReadHeader
    BY <2>2, Sizes DEF ReadHeader, Finds, Goto
  <2>3. CASE OpenRead
    BY <2>3, Sizes DEF OpenRead
  <2>4. CASE NoHeader \/ ReadDigest \/ ReadFails
    BY <2>4 DEF NoHeader, ReadDigest, ReadFails, Goto, TypeOK
  <2> QED
    BY <2>1, <2>2, <2>3, <2>4
<1>6. flag' \in {flag, 0, -2, -3, -6, -7}
  BY DEF OpenRead, ReadHeader, NoHeader, ReadFragment, ReadDigest, ReadFails
<1>7. headerPtr' \in {headerPtr, "allocated", "filled", "freed"}
  BY DEF OpenRead, ReadHeader, NoHeader, ReadFragment, ReadDigest, ReadFails, lattice
<1>8. TypeOK'
  BY <1>1, <1>2, <1>4, <1>5, <1>6, <1>7 DEF TypeOK
<1>9. CursorInv'
  BY <1>1, <1>2, <1>3, <1>5 DEF CursorInv, Writing, At
<1> QED
  BY <1>8, <1>9

\* A save leaves the cursor of loads at the beginning.
LEMMA SaveKeepsTypes ==
  ASSUME IInv, IInv', TypeOK, CursorInv, UNCHANGED programVars,
         \/ OpenWrite \/ WriteHeader \/ WriteSizes \/ WriteData \/ CompressFails
         \/ WriteDigest \/ Close
  PROVE  TypeOK' /\ CursorInv'
PROOF
<1>1. /\ UNCHANGED <<full, header, headerPtr, array, program, build, created>>
      /\ pc \in {"save", "writeHeader", "writeSizes", "writeData", "close"}
      /\ pc' \in {"writeHeader", "writeSizes", "writeData", "close", "saved"}
  BY DEF OpenWrite, WriteHeader, WriteSizes, WriteData, CompressFails, WriteDigest,
         Close, FragmentDone, At, Goto, lattice, programVars
<1>2. TotalSize' = TotalSize /\ TotalSize \in Nat
  BY <1>1, Sizes DEF TotalSize
<1>3. Len(disk') \in Nat
  BY SequencesAreSequences DEF IInv, Written, IsSequence
<1>4. /\ pos' \in 0 .. Len(disk')
      /\ Writing' => pos' = 0
  <2>1. CASE OpenWrite
    <3>1. CASE UNCHANGED <<disk, pos>> /\ pc' = "saved"
      BY <3>1 DEF TypeOK, Writing
    <3>2. CASE pos' = 0
      BY <1>3, <3>2
    <3> QED
      BY <2>1, <3>1, <3>2 DEF OpenWrite, Goto
  <2>2. CASE ~OpenWrite
    <3>1. Writing /\ pos' = pos
      BY <2>2 DEF WriteHeader, WriteSizes, WriteData, CompressFails, WriteDigest, Close,
                  Writing, At
    <3> QED
      BY <1>3, <3>1 DEF CursorInv
  <2> QED
    BY <2>1, <2>2
<1>5. curWritten' \in 0 .. TotalSize'
  <2>1. CASE Writing'
    BY <2>1 DEF IInv, SaveInv
  <2>2. CASE ~Writing'
    <3>1. curWritten' = curWritten
      <4>1. CASE OpenWrite
        BY <2>2, <4>1 DEF OpenWrite, Writing, Goto
      <4>2. CASE Close
        BY <4>2 DEF Close
      <4> QED
        BY <2>2, <4>1, <4>2 DEF WriteHeader, WriteSizes, WriteData, CompressFails,
           WriteDigest, FragmentDone, Writing, Goto
    <3> QED
      BY <1>2, <3>1 DEF TypeOK
  <2> QED
    BY <2>1, <2>2
<1>6. flag' \in {flag, 0, 1, 2}
  BY DEF OpenWrite, WriteHeader, WriteSizes, WriteData, CompressFails, WriteDigest, Close
<1>7. TypeOK'
  BY <1>1, <1>4, <1>5, <1>6 DEF TypeOK
<1>8. CursorInv'
  BY <1>1, <1>4 DEF CursorInv, Writing, At
<1> QED
  BY <1>7, <1>8

\* A process that is gone has no cursors.
LEMMA GoneKeepsTypes ==
  ASSUME IInv, TypeOK, CursorInv, NEW code \in {0, 1, 2, 134, -2, -3, -6, -7, -15},
         Gone(code), UNCHANGED <<disk, full>>
  PROVE  TypeOK' /\ CursorInv'
PROOF
<1>1. NoLattice.header \in Headers
  BY NoLatticeIsOne DEF IsLattice
<1>2. TotalSize' \in Nat
  BY <1>1, SizesMultiply DEF TotalSize, Gone, Headers
<1>3. 0 \in 0 .. Len(disk) /\ 0 \in 0 .. TotalSize'
  BY <1>2, Sizes
<1>4. TypeOK'
  BY <1>3 DEF TypeOK, Gone, Goto
<1>5. CursorInv'
  BY <1>1 DEF CursorInv, Gone, Goto, Writing, At
<1> QED
  BY <1>4, <1>5

\* The steps of the programs between loads and saves.
LEMMA ProgramKeepsTypes ==
  ASSUME IInv, TypeOK, CursorInv,
         \/ \E p \in {"prep", "sim", "post"}, b \in Topologies : Start(p, b)
         \/ \E r \in Requests : Create(r)
         \/ Iterate
         \/ FinalizeSimulator
         \/ InitSimulator /\ pc' = "iterate"
  PROVE  TypeOK' /\ CursorInv'
PROOF
<1>1. /\ UNCHANGED <<disk, pos, curWritten>>
      /\ pc \in {"idle", "create", "iterate", "loaded"}
      /\ pc' \in {"create", "load", "save", "iterate"}
  BY DEF Start, Create, Iterate, FinalizeSimulator, InitSimulator, Exit, Gone, At, Goto
<1>2. curWritten = 0
  BY <1>1 DEF CursorInv, Writing, At
<1>3. header' \in Headers
  <2>1. CASE \E r \in Requests : Create(r)
    BY <2>1, NewHeaderIsHeader DEF Create
  <2>2. CASE Iterate
    BY <2>2 DEF Iterate, CursorInv, Headers
  <2>3. CASE header' = header
    BY <2>3 DEF CursorInv
  <2> QED
    BY <2>1, <2>2, <2>3 DEF Start, FinalizeSimulator, InitSimulator, lattice, Exit, Gone, Goto
<1>4. TotalSize' \in Nat
  BY <1>3, SizesMultiply DEF TotalSize, Headers
<1>5. /\ headerPtr' \in {headerPtr, "filled"} /\ full' \in {full, FALSE}
      /\ flag' \in {flag, 0}
  BY <1>1 DEF Start, Create, Iterate, FinalizeSimulator, InitSimulator, Exit, Gone, Goto,
              lattice
<1>6. /\ program' \in {"none", "prep", "sim", "post"}
      /\ (program' = "none") = (pc' = "idle")
      /\ build' \in Topologies
      /\ created' \in 0 .. MaxCreated
      /\ pc' = "create" => created' < MaxCreated
  <2>1. CASE \E p \in {"prep", "sim", "post"}, b \in Topologies : Start(p, b)
    BY <2>1 DEF Start, TypeOK, Goto
  <2>2. CASE \E r \in Requests : Create(r)
    <3>1. created < MaxCreated /\ created \in 0 .. MaxCreated
      BY <2>2 DEF Create, CursorInv, TypeOK, At
    <3>2. created' = created + 1 /\ UNCHANGED <<program, build>> /\ pc = "create"
          /\ pc' = "save"
      BY <2>2 DEF Create, At, Goto
    <3> QED
      BY <3>1, <3>2, MaximaAssumption DEF TypeOK
  <2>3. CASE Iterate \/ FinalizeSimulator \/ (InitSimulator /\ pc' = "iterate")
    <3>1. UNCHANGED <<program, build, created>> /\ pc # "idle" /\ pc' \in {"iterate", "save"}
      BY <2>3 DEF Iterate, FinalizeSimulator, InitSimulator, Exit, Gone, At, Goto, programVars
    <3> QED
      BY <3>1 DEF TypeOK
  <2> QED
    BY <2>1, <2>2, <2>3
<1>7. TypeOK'
  <2>1. full' \in BOOLEAN
    BY <1>5, Zenon DEF TypeOK
  <2>2. curWritten' = 0 /\ 0 \in 0 .. TotalSize'
    BY <1>1, <1>2, <1>4
  <2>3. /\ headerPtr' \in {"null", "allocated", "filled", "freed"}
        /\ flag' \in {0, 1, 2, 134, -2, -3, -6, -7, -15}
        /\ pos' \in 0 .. Len(disk')
    BY <1>1, <1>5 DEF TypeOK
  <2> QED
    BY <1>1, <1>6, <2>1, <2>2, <2>3 DEF TypeOK
<1>8. CursorInv'
  BY <1>1, <1>2, <1>3, <1>6 DEF CursorInv, Writing, At
<1> QED
  BY <1>7, <1>8

\* What happens to the file meanwhile and between programs.
LEMMA DiskKeepsTypes ==
  ASSUME IInv, IInv', TypeOK, CursorInv, UNCHANGED programVars,
         Flush \/ DiskFills \/ Damage
  PROVE  TypeOK' /\ CursorInv'
PROOF
<1>1. /\ UNCHANGED <<header, headerPtr, pos, curWritten, flag, pc, program, build, created>>
      /\ full' \in {full, TRUE}
  BY DEF Flush, DiskFills, Damage, lattice, programVars
<1>2. Len(disk') \in Nat
  BY SequencesAreSequences DEF IInv, Written, IsSequence
<1>3. pos' \in 0 .. Len(disk')
  <2>1. CASE UNCHANGED disk
    BY <1>1, <2>1 DEF TypeOK
  <2>2. CASE Flush \/ Damage
    <3>1. pos = 0
      BY <2>2 DEF Flush, Damage, IInv, CursorInv
    <3> QED
      BY <1>1, <1>2, <3>1
  <2> QED
    BY <2>1, <2>2 DEF DiskFills
<1>4. full' \in BOOLEAN /\ TotalSize' = TotalSize
  BY <1>1 DEF TypeOK, TotalSize
<1>5. TypeOK'
  BY <1>1, <1>3, <1>4 DEF TypeOK
<1>6. CursorInv'
  BY <1>1 DEF CursorInv, Writing, At
<1> QED
  BY <1>5, <1>6

LEMMA TypesInductive == Spec => [](TypeOK /\ CursorInv)
PROOF
<1>1. Init => TypeOK /\ CursorInv
  <2> SUFFICES ASSUME Init PROVE TypeOK /\ CursorInv
    OBVIOUS
  <2>1. NoLattice.header \in Headers
    BY NoLatticeIsOne DEF IsLattice
  <2>2. CursorInv
    BY <2>1 DEF Init, CursorInv, Writing, At
  <2>3. 0 \in 0 .. Len(disk) /\ 0 \in 0 .. TotalSize
    BY <2>2, InitEstablishes, Sizes
  <2>4. TypeOK
    <3>1. created \in 0 .. MaxCreated /\ build \in Topologies
      BY MaximaAssumption DEF Init
    <3>2. full \in BOOLEAN
      BY Zenon DEF Init
    <3>3. pos \in 0 .. Len(disk) /\ curWritten \in 0 .. TotalSize
      BY <2>3 DEF Init
    <3>4. headerPtr = "null" /\ flag = 0 /\ pc = "idle" /\ program = "none"
      BY DEF Init
    <3> QED
      BY <3>1, <3>2, <3>3, <3>4 DEF TypeOK
  <2> QED
    BY <2>2, <2>4
<1>2. IInv /\ IInv' /\ TypeOK /\ CursorInv /\ [Next]_vars => TypeOK' /\ CursorInv'
  <2> SUFFICES ASSUME IInv, IInv', TypeOK, CursorInv, [Next]_vars
               PROVE  TypeOK' /\ CursorInv'
    OBVIOUS
  <2>1. CASE FileStep /\ UNCHANGED programVars
    BY <2>1, LoadKeepsTypes, SaveKeepsTypes DEF FileStep
  <2>2. CASE (Flush \/ DiskFills) /\ UNCHANGED programVars
    BY <2>2, DiskKeepsTypes
  <2>3. CASE Damage
    BY <2>3, DiskKeepsTypes DEF Damage
  <2>4. CASE Crash
    BY <2>4, GoneKeepsTypes DEF Crash, TypeOK
  <2>5. CASE \/ \E p \in {"prep", "sim", "post"}, b \in Topologies : Start(p, b)
             \/ \E r \in Requests : Create(r)
             \/ Iterate
             \/ FinalizeSimulator
    BY <2>5, ProgramKeepsTypes
  <2>6. CASE \/ \E r \in Requests : CreateRefused(r)
             \/ SaveAborts \/ LoadAborts \/ Finalize \/ Postprocess \/ InitSimulator
    <3>1. CASE \E code \in {0, 1, 2, 134, -2, -3, -6, -7, -15} : Exit(code)
      BY <3>1, GoneKeepsTypes DEF Exit
    <3>2. CASE InitSimulator /\ pc' = "iterate"
      BY <3>2, ProgramKeepsTypes
    <3>3. flag \in {0, 1, 2, 134, -2, -3, -6, -7, -15}
      BY DEF TypeOK
    <3> QED
      BY <2>6, <3>1, <3>2, <3>3
      DEF CreateRefused, SaveAborts, LoadAborts, Finalize, Postprocess, InitSimulator, Goto
  <2>7. CASE UNCHANGED vars
    BY <2>7 DEF vars, fileVars, TypeOK, CursorInv, Writing, At, TotalSize
  <2> QED
    BY <2>1, <2>2, <2>3, <2>4, <2>5, <2>6, <2>7 DEF Next, ProgramStep
<1> QED
  BY <1>1, <1>2, Inductive, PTL DEF Spec

\* The variables of the programs keep their types: a load never reads beyond the end
\* of the file, and a save never counts more cells than there are.
THEOREM TypeCorrect == Spec => []TypeOK
PROOF
  BY TypesInductive, PTL

-----------------------------------------------------------------------------
(* The file of a lattice, item by item *)

\* More fragments of the full size hold no fewer cells.
LEMMA MultiplesOrdered ==
  ASSUME NEW m \in Nat, NEW n \in Nat, m <= n
  PROVE  m * FragmentSize \in Nat /\ m * FragmentSize <= n * FragmentSize
PROOF
<1>1. PICK F \in Nat \ {0} : F = FragmentSize
  BY FragmentSizeAssumption
<1>2. n - m \in Nat /\ (n - m) * F \in Nat /\ m * F \in Nat
  BY <1>1
<1>3. n * F = m * F + (n - m) * F
  BY <1>1
<1> QED
  BY <1>1, <1>2, <1>3

\* How many fragments the cells need.
Fragments(total) == (total + FragmentSize - 1) \div FragmentSize

\* Cells are left after n full fragments just when there are more fragments than n.
LEMMA FragmentCount ==
  ASSUME NEW total \in Nat, NEW n \in Nat
  PROVE  /\ Fragments(total) \in Nat
         /\ n * FragmentSize \in Nat
         /\ n * FragmentSize < total <=> n < Fragments(total)
PROOF
<1>1. PICK F \in Nat \ {0} : F = FragmentSize
  BY FragmentSizeAssumption
<1>2. PICK f : f = Fragments(total)
  OBVIOUS
<1>3. f \in Nat /\ f * F <= total + F - 1 /\ total + F - 1 < f * F + F
  <2>1. f = (total + F - 1) \div F
    BY <1>1, <1>2 DEF Fragments
  <2>2. total + F - 1 \in Nat
    OBVIOUS
  <2> QED
    BY <2>1, <2>2
<1>4. (f - 1) * F = f * F - F /\ f * F \in Nat /\ n * F \in Nat
  BY <1>3
<1>5. n < f => n * F <= f * F - F
  <2> SUFFICES ASSUME n < f PROVE n * F <= f * F - F
    OBVIOUS
  <2>1. f - 1 \in Nat /\ n <= f - 1
    BY <1>3
  <2>2. n * F <= (f - 1) * F
    BY <1>1, <2>1, MultiplesOrdered
  <2> QED
    BY <1>4, <2>2
<1>6. ~(n < f) => f * F <= n * F
  <2> SUFFICES ASSUME ~(n < f) PROVE f * F <= n * F
    OBVIOUS
  <2>1. f <= n
    BY <1>3
  <2> QED
    BY <1>1, <1>3, <2>1, MultiplesOrdered
<1>7. n * F < total <=> n < f
  BY <1>3, <1>4, <1>5, <1>6
<1> QED
  BY <1>1, <1>2, <1>3, <1>4, <1>7

\* The cells of fragment n + 1.
Part(d, n) ==
  SubSeq(d.cells, n * FragmentSize + 1,
         n * FragmentSize + Consume(Len(d.cells) - n * FragmentSize))

\* Where the items of a file of n fragments are: the header, two of each fragment, and
\* the digest.
LEMMA WholeFileItems ==
  ASSUME NEW d, IsSequence(d.cells)
  PROVE  /\ IsSequence(WholeFile(d))
         /\ Len(WholeFile(d)) = 2 * Fragments(Len(d.cells)) + 2
         /\ DOMAIN WholeFile(d) = 1 .. Len(WholeFile(d))
         /\ WholeFile(d)[1] = <<"header", d.header>>
         /\ WholeFile(d)[Len(WholeFile(d))] = <<"digest", d>>
         /\ \A n \in Nat : n < Fragments(Len(d.cells)) =>
              /\ WholeFile(d)[2 * n + 2] = <<"sizes", Len(Part(d, n))>>
              /\ WholeFile(d)[2 * n + 3] = <<"data", Part(d, n)>>
PROOF
<1>1. Len(d.cells) \in Nat
  BY SequencesAreSequences DEF IsSequence
<1> DEFINE total == Len(d.cells)
           f == Fragments(total)
           begin(n) == ((n - 2) \div 2) * FragmentSize
           cells(n) == SubSeq(d.cells, begin(n) + 1, begin(n) + Consume(total - begin(n)))
           item(n) == IF n = 1 THEN <<"header", d.header>>
                      ELSE IF n = 2 * f + 2 THEN <<"digest", d>>
                      ELSE IF n % 2 = 0 THEN <<"sizes", Len(cells(n))>>
                      ELSE <<"data", cells(n)>>
<1>2. f \in Nat
  BY <1>1, FragmentCount
<1>3. WholeFile(d) = [n \in 1 .. 2 * f + 2 |-> item(n)]
  BY DEF WholeFile, Fragments
<1>4. \A n \in Nat : cells(2 * n + 2) = Part(d, n) /\ cells(2 * n + 3) = Part(d, n)
  <2> TAKE n \in Nat
  <2>1. ((2 * n + 2) - 2) \div 2 = n /\ ((2 * n + 3) - 2) \div 2 = n
    OBVIOUS
  <2> QED
    BY <2>1 DEF Part
<1> DEFINE W == WholeFile(d)
<1> HIDE DEF f, cells
<1>5. W = [n \in 1 .. 2 * f + 2 |-> W[n]]
  BY <1>3
<1>6. W[1] = <<"header", d.header>> /\ W[2 * f + 2] = <<"digest", d>>
  <2>1. 1 \in 1 .. 2 * f + 2 /\ 2 * f + 2 \in 1 .. 2 * f + 2 /\ 2 * f + 2 # 1
    BY <1>2
  <2> QED
    BY <1>3, <2>1
<1>7. ASSUME NEW n \in Nat, n < f
      PROVE  W[2 * n + 2] = <<"sizes", Len(Part(d, n))>> /\ W[2 * n + 3] = <<"data", Part(d, n)>>
  <2>1. /\ 2 * n + 2 \in 1 .. 2 * f + 2 /\ 2 * n + 3 \in 1 .. 2 * f + 2
        /\ 2 * n + 2 # 1 /\ 2 * n + 2 # 2 * f + 2 /\ 2 * n + 3 # 1 /\ 2 * n + 3 # 2 * f + 2
        /\ (2 * n + 2) % 2 = 0 /\ (2 * n + 3) % 2 # 0
    BY <1>2, <1>7
  <2>2. item(2 * n + 2) = <<"sizes", Len(cells(2 * n + 2))>>
    BY <2>1
  <2>3. item(2 * n + 3) = <<"data", cells(2 * n + 3)>>
    BY <2>1
  <2>4. W[2 * n + 2] = item(2 * n + 2) /\ W[2 * n + 3] = item(2 * n + 3)
    <3> HIDE DEF item, W
    <3> QED
      BY <1>3, <2>1 DEF W
  <2> QED
    BY <1>4, <2>2, <2>3, <2>4
<1> HIDE DEF W
<1>8. 2 * f + 2 \in Nat
  BY <1>2
<1>9. IsSequence(W) /\ Len(W) = 2 * f + 2
  BY <1>5, <1>8, ListsAreSequences
<1>10. DOMAIN W = 1 .. Len(W)
  BY <1>5, <1>9
<1> QED
  BY <1>6, <1>7, <1>9, <1>10 DEF W, f

\* The fragment after the first n is one more of the lattice's fragments, if cells
\* are left, and otherwise there are no more.
LEMMA NextFragment ==
  ASSUME NEW total \in Nat, NEW n \in Nat, NEW c, InFragments(n, c, total), c < total
  PROVE  /\ c = n * FragmentSize /\ c \in Nat
         /\ n < Fragments(total)
         /\ Consume(total - c) \in 1 .. total - c
         /\ InFragments(n + 1, c + Consume(total - c), total)
PROOF
<1>1. PICK F \in Nat \ {0} : F = FragmentSize
  BY FragmentSizeAssumption
<1>2. PICK m \in Nat : m = n * F
  BY <1>1
<1>3. (n + 1) * F = m + F
  BY <1>1, <1>2
<1>4. c = m /\ m < total
  BY <1>1, <1>2 DEF InFragments, CellsIn
<1>5. n < Fragments(total)
  BY <1>1, <1>2, <1>4, FragmentCount
<1>6. Consume(total - c) = IF total - m < F THEN total - m ELSE F
  BY <1>1, <1>4 DEF Consume
<1>7. InFragments(n + 1, c + Consume(total - c), total)
  <2>1. CellsIn(n + 1, total) = IF m + F < total THEN m + F ELSE total
    BY <1>1, <1>3 DEF CellsIn
  <2>2. c + Consume(total - c) = CellsIn(n + 1, total)
    BY <1>4, <1>6, <2>1
  <2>3. (n + 1 - 1) * FragmentSize < total
    BY <1>1, <1>2, <1>4
  <2> QED
    BY <2>2, <2>3 DEF InFragments
<1> QED
  BY <1>1, <1>2, <1>4, <1>5, <1>6, <1>7

\* All cells are in the fragments when there are no more of them.
LEMMA LastFragment ==
  ASSUME NEW total \in Nat, NEW n \in Nat, NEW c, InFragments(n, c, total)
  PROVE  /\ c \in 0 .. total
         /\ n <= Fragments(total)
         /\ n = Fragments(total) <=> c >= total
PROOF
<1>1. PICK f \in Nat : f = Fragments(total)
  BY FragmentCount
<1>2. PICK m \in Nat : m = n * FragmentSize
  BY FragmentCount
<1>3. m < total <=> n < f
  BY <1>1, <1>2, FragmentCount
<1>4. c = IF m < total THEN m ELSE total
  BY <1>2 DEF InFragments, CellsIn
<1>5. n <= f
  <2>1. CASE n = 0
    BY <2>1
  <2>2. CASE n > 0
    <3>1. n - 1 \in Nat /\ (n - 1) * FragmentSize < total
      BY <2>2 DEF InFragments
    <3>2. n - 1 < f
      BY <1>1, <3>1, FragmentCount
    <3> QED
      BY <3>2
  <2> QED
    BY <2>1, <2>2
<1> QED
  BY <1>1, <1>3, <1>4, <1>5

\* Before the first fragment there are no cells.
LEMMA NoFragment ==
  ASSUME NEW total \in Nat
  PROVE  InFragments(0, 0, total)
PROOF
<1>1. 0 * FragmentSize = 0
  BY FragmentSizeAssumption
<1> QED
  BY <1>1 DEF InFragments, CellsIn

\* Writing to the end of the buffer is writing to the end of the file, and a flush
\* only moves what is between them.
LEMMA AppendJoins ==
  ASSUME NEW s, NEW b, NEW x, IsSequence(s), IsSequence(b)
  PROVE  /\ IsSequence(s \o b)
         /\ s \o Append(b, x) = Append(s \o b, x)
PROOF
<1>1. PICK S : s \in Seq(S) /\ b \in Seq(S)
  BY CommonSet
<1> DEFINE T == S \union {x}
<1>2. s \in Seq(T) /\ b \in Seq(T) /\ x \in T
  BY <1>1, SeqMonotonic
<1> HIDE DEF T
<1>3. s \o b \in Seq(T) /\ <<x>> \in Seq(T)
  BY <1>2, ConcatProperties
<1>4. Append(b, x) = b \o <<x>> /\ Append(s \o b, x) = (s \o b) \o <<x>>
  BY <1>2, <1>3, AppendIsConcat
<1>5. (s \o b) \o <<x>> = s \o (b \o <<x>>)
  BY <1>2, <1>3, ConcatAssociative
<1> QED
  BY <1>3, <1>4, <1>5, SequencesAreSequences

LEMMA FlushJoins ==
  ASSUME NEW s, NEW b, IsSequence(s), IsSequence(b), b # << >>
  PROVE  Append(s, Head(b)) \o Tail(b) = s \o b
PROOF
<1>1. PICK S : s \in Seq(S) /\ b \in Seq(S)
  BY CommonSet
<1>2. /\ Head(b) \in S /\ Tail(b) \in Seq(S) /\ Len(Tail(b)) = Len(b) - 1
      /\ \A i \in 1 .. Len(Tail(b)) : Tail(b)[i] = b[i + 1]
  BY <1>1, HeadTailProperties
<1> DEFINE h == <<Head(b)>>
<1>3. h \in Seq(S) /\ Len(h) = 1 /\ h[1] = Head(b)
  BY <1>2
<1>4. Head(b) = b[1] /\ Len(b) \in Nat \ {0}
  BY <1>1, EmptySeq
<1>5. Append(s, Head(b)) = s \o h
  BY <1>1, <1>2, AppendIsConcat
<1> HIDE DEF h
<1>6. (s \o h) \o Tail(b) = s \o (h \o Tail(b))
  <2>1. PICK t \in Seq(S) : t = Tail(b)
    BY <1>2
  <2>2. (s \o h) \o t = s \o (h \o t)
    BY ONLY <1>1, <1>3, t \in Seq(S), ConcatAssociative
  <2> QED
    BY <2>1, <2>2
<1>7. h \o Tail(b) = b
  <2>1. PICK l \in Nat : l = Len(Tail(b))
    BY <1>2, LenProperties
  <2> DEFINE t == h \o Tail(b)
  <2>2. /\ t \in Seq(S) /\ Len(t) = Len(h) + Len(Tail(b))
        /\ \A i \in 1 .. Len(h) + Len(Tail(b)) :
             t[i] = IF i <= Len(h) THEN h[i] ELSE Tail(b)[i - Len(h)]
    <3>1. Tail(b) \in Seq(S)
      BY <1>2
    <3> QED
      BY ONLY <1>3, <3>1, ConcatProperties, Zenon
  <2> HIDE DEF t
  <2>3. Len(b) = 1 + l /\ Len(t) = 1 + l
    BY <1>2, <1>3, <1>4, <2>1, <2>2
  <2>4. ASSUME NEW i \in 1 .. 1 + l
        PROVE  t[i] = b[i]
    <3>1. CASE i = 1
      BY <1>3, <1>4, <2>1, <2>2, <3>1
    <3>2. CASE i > 1
      <4>1. i - 1 \in 1 .. l /\ (i - 1) + 1 = i /\ ~(i <= 1)
        BY <3>2
      <4>2. t[i] = Tail(b)[i - 1]
        BY <1>3, <2>1, <2>2, <4>1
      <4>3. Tail(b)[i - 1] = b[(i - 1) + 1]
        BY <1>2, <2>1, <4>1
      <4> QED
        BY <4>1, <4>2, <4>3
    <3> QED
      BY <3>1, <3>2
  <2>5. t = b
    BY <1>1, <2>2, <2>3, <2>4, SeqEqual
  <2> QED
    BY <2>5 DEF t
<1> QED
  BY <1>5, <1>6, <1>7

\* What is written begins the lattice's file, item after item, until it is the file.
LEMMA BeginsNext ==
  ASSUME NEW d, IsSequence(d.cells), NEW s, NEW b, IsSequence(s), IsSequence(b),
         NEW n \in Nat, Begins(s \o b, d, n), n + 1 <= Len(WholeFile(d)),
         NEW x, x = WholeFile(d)[n + 1]
  PROVE  Begins(s \o Append(b, x), d, n + 1)
PROOF
<1> DEFINE i == s \o b
           a == Append(i, x)
<1>1. IsSequence(i) /\ s \o Append(b, x) = a
  <2>1. IsSequence(s) /\ IsSequence(b)
    OBVIOUS
  <2>2. IsSequence(s \o b)
    BY ONLY <2>1, AppendJoins
  <2>3. s \o Append(b, x) = Append(s \o b, x)
    BY ONLY <2>1, AppendJoins
  <2> QED
    BY <2>2, <2>3
<1>2. Len(i) = n /\ \A m \in 1 .. n : i[m] = WholeFile(d)[m]
  BY DEF Begins
<1> HIDE DEF i
<1>3. PICK S : i \in Seq(S)
  BY <1>1 DEF IsSequence
<1>4. i \in Seq(S \union {x}) /\ x \in S \union {x}
  BY <1>3, SeqMonotonic
<1>5. /\ Len(a) = Len(i) + 1
      /\ \A m \in 1 .. Len(i) : a[m] = i[m]
      /\ a[Len(i) + 1] = x
  BY <1>4, AppendProperties
<1> HIDE DEF a
<1>6. ASSUME NEW m \in 1 .. n + 1
      PROVE  a[m] = WholeFile(d)[m]
  <2>1. CASE m = n + 1
    BY <1>2, <1>5, <2>1
  <2>2. CASE m \in 1 .. n
    BY <1>2, <1>5, <2>2
  <2> QED
    BY <2>1, <2>2
<1>7. Begins(a, d, n + 1)
  BY <1>2, <1>5, <1>6 DEF Begins
<1> QED
  BY <1>1, <1>7

\* What begins the file and is as long as it is the file.
LEMMA BeginsAll ==
  ASSUME NEW d, IsSequence(d.cells), NEW s, IsSequence(s),
         Begins(s, d, Len(WholeFile(d)))
  PROVE  s = WholeFile(d)
PROOF
<1>1. IsSequence(WholeFile(d))
  BY WholeFileItems
<1>2. PICK S : s \in Seq(S) /\ WholeFile(d) \in Seq(S)
  BY <1>1, CommonSet
<1>3. Len(s) = Len(WholeFile(d)) /\ \A m \in 1 .. Len(s) : s[m] = WholeFile(d)[m]
  BY DEF Begins
<1> QED
  BY <1>2, <1>3, SeqEqual

-----------------------------------------------------------------------------
(* Saves leave the whole file *)

\* What a save knows of the lattice it writes.
LEMMA Saving ==
  ASSUME IInv, Writing
  PROVE  /\ given = Digest(header, array)
         /\ given.header = header /\ given.cells = array
         /\ IsSequence(given.cells)
         /\ TotalSize \in Nat /\ Len(given.cells) = TotalSize
PROOF
<1>1. given = Digest(header, array) /\ IsLattice(given)
  BY DEF IInv, SaveInv
<1>2. given.header = header /\ given.cells = array
  BY <1>1, LatticeFields
<1>3. header \in Headers /\ IsSequence(array) /\ Len(array) = ArraySize(header)
  BY <1>1, LatticeFields
<1>4. ArraySize(header) \in Nat
  BY <1>3, SizesMultiply DEF Headers
<1> QED
  BY <1>1, <1>2, <1>3, <1>4 DEF TotalSize

\* Nothing is said of a save that is not made or has failed.
LEMMA SavedElsewhere ==
  ASSUME pc' \notin {"writeHeader", "writeSizes", "writeData", "close"},
         pc' # "saved" \/ flag' # 0
  PROVE  SavedInv'
PROOF
  BY DEF SavedInv, SavedWhole, Writing, At

\* A save begins with an empty file and an empty buffer.
LEMMA OpenSaves ==
  ASSUME IInv, OpenWrite
  PROVE  SavedInv'
PROOF
<1>1. buffered' = << >> /\ UNCHANGED <<header, array>>
  BY DEF OpenWrite, IInv, Writing, At, lattice
<1>2. CASE pc' = "saved" /\ flag' = 1
  BY <1>2, SavedElsewhere
<1>3. CASE pc' = "writeHeader" /\ disk' = << >> /\ curWritten' = 0 /\ given' = Digest(header, array)
  <2>1. given'.header = header
    BY <1>3, LatticeFields
  <2>2. header.compressionType = "LZMA_FRAGMENTS"
    BY DEF OpenWrite
  <2>3. << >> \in Seq({})
    BY EmptySeq
  <2>4. << >> \o << >> = << >>
    BY <2>3, ConcatEmptySeq
  <2>5. disk' \o buffered' = << >>
    BY <1>1, <1>3, <2>4
  <2> QED
    BY <1>3, <2>1, <2>2, <2>5 DEF SavedInv, SavedWhole, Writing, At
<1> QED
  BY <1>2, <1>3 DEF OpenWrite, Goto

\* The header is the first item of the file.
LEMMA HeaderSaved ==
  ASSUME IInv, SavedInv, WriteHeader
  PROVE  SavedInv'
PROOF
<1>1. /\ pc = "writeHeader" /\ Writing
      /\ UNCHANGED <<disk, full, header, array, curWritten, given>>
  BY DEF WriteHeader, At, Writing, lattice
<1>2. curWritten = 0 /\ given.header.compressionType = "LZMA_FRAGMENTS"
  BY <1>1 DEF SavedInv, At
<1>3. TotalSize' = TotalSize
  BY <1>1 DEF TotalSize
<1>4. CASE WriteRefused /\ pc' = "close" /\ flag' = 2
  BY <1>1, <1>2, <1>4 DEF SavedInv, SavedWhole, At, Writing
<1>5. CASE Write(<<"header", header>>) /\ pc' = "writeSizes"
  <2>1. InFragments(0, curWritten', TotalSize')
    BY <1>1, <1>2, <1>3, Saving, NoFragment
  <2>2. ASSUME ~full
        PROVE  Begins(disk' \o buffered', given', 1)
    <3>1. disk \o buffered = << >>
      BY <1>1, <2>2 DEF SavedInv, At
    <3>2. IsSequence(given.cells) /\ given.header = header
      BY <1>1, Saving
    <3>3. Fragments(Len(given.cells)) \in Nat
      BY <1>1, Saving, FragmentCount
    <3>4. /\ Len(WholeFile(given)) = 2 * Fragments(Len(given.cells)) + 2
          /\ WholeFile(given)[1] = <<"header", header>>
      BY <3>2, WholeFileItems
    <3>5. Len(WholeFile(given)) \in Nat /\ 1 <= Len(WholeFile(given))
      BY <3>3, <3>4
    <3>6. Begins(disk \o buffered, given, 0)
      BY <3>1, <3>5, EmptySeq DEF Begins
    <3>7. IsSequence(disk) /\ IsSequence(buffered)
      BY DEF IInv, Written
    <3>8. Begins(disk \o Append(buffered, <<"header", header>>), given, 0 + 1)
      BY <3>2, <3>4, <3>5, <3>6, <3>7, BeginsNext
    <3> QED
      BY <1>1, <1>5, <3>8 DEF Write
  <2> QED
    BY <1>1, <1>2, <1>5, <2>1, <2>2 DEF SavedInv, SavedWhole, At, Writing
<1> QED
  BY <1>4, <1>5 DEF WriteHeader, Goto

\* The next item that is due is written.
LEMMA ItemSaved ==
  ASSUME IInv, Writing, NEW n \in Nat, Begins(disk \o buffered, given, n),
         n + 1 <= Len(WholeFile(given)), NEW x, x = WholeFile(given)[n + 1],
         Write(x), UNCHANGED <<disk, given>>
  PROVE  Begins(disk' \o buffered', given', n + 1)
PROOF
<1>1. IsSequence(given.cells)
  BY Saving
<1>2. IsSequence(disk) /\ IsSequence(buffered)
  BY DEF IInv, Written
<1>3. Begins(disk \o Append(buffered, x), given, n + 1)
  BY <1>1, <1>2, BeginsNext
<1> QED
  BY <1>3 DEF Write

\* The fragment that is due is the one of the file.
LEMMA FragmentDue ==
  ASSUME IInv, Writing, NEW n \in Nat, InFragments(n, curWritten, TotalSize),
         curWritten < TotalSize
  PROVE  /\ 2 * n + 3 < Len(WholeFile(given)) /\ Len(WholeFile(given)) \in Nat
         /\ WholeFile(given)[2 * n + 2] = <<"sizes", Len(Fragment)>>
         /\ WholeFile(given)[2 * n + 3] = <<"data", Fragment>>
         /\ InFragments(n + 1, curWritten + Len(Fragment), TotalSize)
PROOF
<1>1. /\ given.cells = array /\ IsSequence(array)
      /\ TotalSize \in Nat /\ Len(array) = TotalSize
  BY Saving
<1>2. PICK f \in Nat : f = Fragments(TotalSize)
  BY <1>1, FragmentCount
<1> DEFINE k == Consume(TotalSize - curWritten)
<1>3. /\ curWritten = n * FragmentSize /\ curWritten \in Nat /\ n < f
      /\ k \in 1 .. TotalSize - curWritten
      /\ InFragments(n + 1, curWritten + k, TotalSize)
  BY <1>1, <1>2, NextFragment
<1>4. Fragment = Part(given, n)
  BY <1>1, <1>3 DEF Fragment, Part
<1>5. Len(Fragment) = k
  <2>1. Fragment = SubSeq(array, curWritten + 1, curWritten + k)
    BY DEF Fragment
  <2> HIDE DEF k
  <2>2. curWritten \in 0 .. Len(array) - 1 /\ k \in 1 .. Len(array) - curWritten
    BY <1>1, <1>3
  <2> QED
    BY <1>1, <2>1, <2>2, FragmentsJoin
<1>6. /\ Len(WholeFile(given)) = 2 * f + 2
      /\ WholeFile(given)[2 * n + 2] = <<"sizes", Len(Part(given, n))>>
      /\ WholeFile(given)[2 * n + 3] = <<"data", Part(given, n)>>
  BY <1>1, <1>2, <1>3, WholeFileItems
<1>7. 2 * n + 3 < 2 * f + 2 /\ 2 * f + 2 \in Nat
  BY <1>2, <1>3
<1> QED
  BY <1>3, <1>4, <1>5, <1>6, <1>7

\* Sizes and data follow fragment after fragment, or the disk is full.
LEMMA FragmentSaved ==
  ASSUME IInv, SavedInv, WriteSizes \/ WriteData
  PROVE  SavedInv'
PROOF
<1>1. /\ pc \in {"writeSizes", "writeData"} /\ Writing /\ curWritten < TotalSize
      /\ UNCHANGED <<disk, full, header, array, given>>
      /\ pc' \in {"writeSizes", "writeData"}
  BY DEF WriteSizes, WriteData, FragmentDone, At, Goto, Writing, lattice, IInv, SaveInv
<1>2. given.header.compressionType = "LZMA_FRAGMENTS"
  BY <1>1 DEF SavedInv
<1>3. TotalSize' = TotalSize
  BY <1>1 DEF TotalSize
<1>4. CASE WriteSizes
  <2>1. PICK n \in Nat :
          /\ InFragments(n, curWritten, TotalSize)
          /\ ~full => Begins(disk \o buffered, given, 2 * n + 1)
    BY <1>4 DEF SavedInv, WriteSizes, At
  <2>2. /\ 2 * n + 3 < Len(WholeFile(given)) /\ Len(WholeFile(given)) \in Nat
        /\ WholeFile(given)[2 * n + 2] = <<"sizes", Len(Fragment)>>
        /\ InFragments(n + 1, curWritten + Len(Fragment), TotalSize)
    BY <1>1, <2>1, FragmentDue
  <2>3. CASE WriteRefused /\ FragmentDone
    <3>1. curWritten' = curWritten + Len(Fragment) /\ pc' = "writeSizes" /\ full'
      BY <1>1, <2>3 DEF FragmentDone, WriteRefused, Goto
    <3>2. n + 1 \in Nat /\ InFragments(n + 1, curWritten', TotalSize')
      BY <1>3, <2>2, <3>1
    <3> QED
      BY <1>1, <1>2, <3>1, <3>2 DEF SavedInv, SavedWhole, At, Writing
  <2>4. CASE Write(<<"sizes", Len(Fragment)>>) /\ pc' = "writeData" /\ UNCHANGED curWritten
    <3>1. ASSUME ~full
          PROVE  Begins(disk' \o buffered', given', 2 * n + 2)
      <4>1. /\ 2 * n + 1 \in Nat /\ (2 * n + 1) + 1 = 2 * n + 2
            /\ (2 * n + 1) + 1 <= Len(WholeFile(given))
        BY <2>2
      <4>2. Begins(disk' \o buffered', given', (2 * n + 1) + 1)
        BY <1>1, <2>1, <2>2, <2>4, <3>1, <4>1, ItemSaved
      <4> QED
        BY <4>1, <4>2
    <3>2. InFragments(n, curWritten', TotalSize')
      BY <1>3, <2>1, <2>4
    <3> QED
      BY <1>1, <1>2, <2>4, <3>1, <3>2 DEF SavedInv, SavedWhole, At, Writing
  <2> QED
    BY <1>4, <2>3, <2>4 DEF WriteSizes, Goto
<1>5. CASE WriteData
  <2>1. PICK n \in Nat :
          /\ InFragments(n, curWritten, TotalSize)
          /\ ~full => Begins(disk \o buffered, given, 2 * n + 2)
    BY <1>5 DEF SavedInv, WriteData, At
  <2>2. /\ 2 * n + 3 < Len(WholeFile(given)) /\ Len(WholeFile(given)) \in Nat
        /\ WholeFile(given)[2 * n + 3] = <<"data", Fragment>>
        /\ InFragments(n + 1, curWritten + Len(Fragment), TotalSize)
    BY <1>1, <2>1, FragmentDue
  <2>3. curWritten' = curWritten + Len(Fragment) /\ pc' = "writeSizes"
    BY <1>5 DEF WriteData, FragmentDone, Goto
  <2>4. ASSUME ~full
        PROVE  Begins(disk' \o buffered', given', 2 * (n + 1) + 1)
    <3>1. /\ 2 * n + 2 \in Nat /\ (2 * n + 2) + 1 = 2 * n + 3
          /\ (2 * n + 2) + 1 = 2 * (n + 1) + 1
          /\ (2 * n + 2) + 1 <= Len(WholeFile(given))
      BY <2>2
    <3>2. Write(<<"data", Fragment>>)
      BY <1>5, <2>4 DEF WriteData, WriteRefused
    <3>3. Begins(disk' \o buffered', given', (2 * n + 2) + 1)
      BY <1>1, <2>1, <2>2, <2>4, <3>1, <3>2, ItemSaved
    <3> QED
      BY <3>1, <3>3
  <2>5. n + 1 \in Nat /\ InFragments(n + 1, curWritten', TotalSize')
    BY <1>3, <2>2, <2>3
  <2> QED
    BY <1>1, <1>2, <2>3, <2>4, <2>5 DEF SavedInv, SavedWhole, At, Writing
<1> QED
  BY <1>4, <1>5

\* The digest ends the file: a save that failed before has its code.
LEMMA DigestSaved ==
  ASSUME IInv, IInv', SavedInv, WriteDigest \/ CompressFails
  PROVE  SavedInv'
PROOF
<1>1. /\ pc = "writeSizes" /\ pc' = "close" /\ Writing
      /\ UNCHANGED <<disk, full, given>>
  BY DEF WriteDigest, CompressFails, At, Goto, Writing
<1>2. given.header.compressionType = "LZMA_FRAGMENTS"
  BY <1>1 DEF SavedInv
<1>3. CASE flag' = 2
  BY <1>1, <1>2, <1>3 DEF SavedInv, SavedWhole, At, Writing
<1>4. CASE WriteDigest /\ Write(<<"digest", ctx>>)
  <2>1. PICK n \in Nat :
          /\ InFragments(n, curWritten, TotalSize)
          /\ ~full => Begins(disk \o buffered, given, 2 * n + 1)
    BY <1>1 DEF SavedInv, At
  <2>2. ctx = given /\ curWritten >= TotalSize
    BY <1>1, <1>4, AllTaken DEF WriteDigest
  <2>3. IsSequence(given.cells) /\ TotalSize \in Nat /\ Len(given.cells) = TotalSize
    BY <1>1, Saving
  <2>4. n = Fragments(TotalSize)
    BY <2>1, <2>2, <2>3, LastFragment
  <2>5. /\ Len(WholeFile(given)) = 2 * n + 2
        /\ WholeFile(given)[Len(WholeFile(given))] = <<"digest", given>>
    BY <2>3, <2>4, WholeFileItems
  <2>6. ASSUME ~full
        PROVE  disk' \o buffered' = WholeFile(given')
    <3>1. /\ 2 * n + 1 \in Nat /\ (2 * n + 1) + 1 = 2 * n + 2
          /\ (2 * n + 1) + 1 <= Len(WholeFile(given))
      BY <2>5
    <3>2. <<"digest", ctx>> = WholeFile(given)[(2 * n + 1) + 1]
      BY <2>2, <2>5, <3>1
    <3>3. Begins(disk' \o buffered', given', (2 * n + 1) + 1)
      BY <1>1, <1>4, <2>1, <2>6, <3>1, <3>2, ItemSaved
    <3>4. Begins(disk' \o buffered', given', Len(WholeFile(given')))
      BY <1>1, <2>5, <3>1, <3>3
    <3>5. IsSequence(disk' \o buffered')
      <4>1. IsSequence(disk') /\ IsSequence(buffered')
        BY DEF IInv, Written
      <4> QED
        BY ONLY <4>1, AppendJoins
    <3> QED
      BY <1>1, <2>3, <3>4, <3>5, BeginsAll
  <2> QED
    BY <1>1, <1>2, <2>6 DEF SavedInv, SavedWhole, At, Writing
<1> QED
  BY <1>3, <1>4 DEF WriteDigest, CompressFails

\* fclose brings to a disk with room what the buffer still has.
LEMMA CloseSaves ==
  ASSUME IInv, SavedInv, Close
  PROVE  SavedInv'
PROOF
<1>1. /\ pc = "close" /\ pc' = "saved" /\ UNCHANGED <<full, flag, given>>
      /\ disk' = IF full THEN disk ELSE disk \o buffered
  BY DEF Close, At, Goto
<1>2. flag = 0 /\ ~full => disk' = WholeFile(given)
  BY <1>1 DEF SavedInv, At
<1> QED
  BY <1>1, <1>2 DEF SavedInv, SavedWhole, At, Writing

\* A flush changes nothing of disk and buffer together.
LEMMA DiskSaves ==
  ASSUME IInv, SavedInv, Flush \/ DiskFills
  PROVE  SavedInv'
PROOF
<1>1. /\ Writing
      /\ UNCHANGED <<header, curWritten, flag, pc, given>>
  BY DEF Flush, DiskFills, IInv, lattice
<1>2. TotalSize' = TotalSize /\ pc # "saved" /\ Writing'
  BY <1>1 DEF TotalSize, Writing
<1>3. ~full' => ~full /\ disk' \o buffered' = disk \o buffered
  <2>1. CASE DiskFills
    BY <2>1 DEF DiskFills
  <2>2. CASE Flush
    <3>1. IsSequence(disk) /\ IsSequence(buffered) /\ buffered # << >>
      BY <2>2 DEF Flush, IInv, Written
    <3>2. Append(disk, Head(buffered)) \o Tail(buffered) = disk \o buffered
      BY <3>1, FlushJoins
    <3> QED
      BY <2>2, <3>2 DEF Flush
  <2> QED
    BY <2>1, <2>2
<1> QED
  BY <1>1, <1>2, <1>3 DEF SavedInv, SavedWhole, At

-----------------------------------------------------------------------------
(* Files of older forms *)

\* A change to one item, or the loss of the end, makes no file of fragments of an
\* older one.
LEMMA DamageKeepsOld ==
  ASSUME IInv, OldInv, Damage
  PROVE  OldInv'
PROOF
<1>1. given' = given
  BY DEF Damage
<1>2. PICK n \in 1 .. Len(disk) :
        \/ disk' = SubSeq(disk, 1, n - 1)
        \/ \E k \in {"header", "sizes", "data", "undecodable", "endless"} : \E x :
             /\ disk' = [disk EXCEPT ![n] = <<k, x>>]
             /\ k = "sizes" => disk[n][1] = "sizes"
  <2>1. PICK n \in 1 .. Len(disk) :
          \/ disk' = SubSeq(disk, 1, n - 1)
          \/ \E x \in Forms(disk[n]) : disk' = [disk EXCEPT ![n] = x]
    BY DEF Damage
  <2>2. ASSUME NEW i \in Forms(disk[n])
        PROVE  \E k \in {"header", "sizes", "data", "undecodable", "endless"} : \E x :
                 i = <<k, x>> /\ (k = "sizes" => disk[n][1] = "sizes")
    <3>1. CASE disk[n][1] = "header"
      <4>1. \E x : i = <<"header", x>>
        BY <2>2, <3>1 DEF Forms
      <4> QED
        BY <4>1
    <3>2. CASE disk[n][1] = "sizes"
      <4>1. \E x : i = <<"sizes", x>>
        BY <2>2, <3>2 DEF Forms
      <4> QED
        BY <3>2, <4>1
    <3>3. CASE disk[n][1] = "data"
      <4>1. PICK k \in {"data", "undecodable", "endless"} :
              i = <<k, [m \in DOMAIN disk[n][2] |-> Damaged]>>
        BY <2>2, <3>3 DEF Forms
      <4>2. k \in {"header", "sizes", "data", "undecodable", "endless"} /\ k # "sizes"
        OBVIOUS
      <4>3. \E x : i = <<k, x>>
        BY <4>1
      <4> QED
        BY <4>2, <4>3
    <3> QED
      BY <2>2, <3>1, <3>2, <3>3 DEF Forms
  <2>3. CASE disk' = SubSeq(disk, 1, n - 1)
    BY <2>3
  <2>4. CASE \E i \in Forms(disk[n]) : disk' = [disk EXCEPT ![n] = i]
    <3>1. PICK i \in Forms(disk[n]) : disk' = [disk EXCEPT ![n] = i]
      BY <2>4
    <3>2. PICK k \in {"header", "sizes", "data", "undecodable", "endless"} : \E x :
            i = <<k, x>> /\ (k = "sizes" => disk[n][1] = "sizes")
      BY <2>2
    <3>3. PICK x : i = <<k, x>> /\ (k = "sizes" => disk[n][1] = "sizes")
      BY <3>2
    <3>4. /\ disk' = [disk EXCEPT ![n] = <<k, x>>]
          /\ k = "sizes" => disk[n][1] = "sizes"
      BY <3>1, <3>3
    <3> QED
      BY <3>4
  <2> QED
    BY <2>1, <2>3, <2>4
<1>3. PICK S : disk \in Seq(S)
  BY DEF IInv, Written, IsSequence
<1>4. Len(disk) \in Nat /\ disk \in [1 .. Len(disk) -> S]
  BY <1>3, LenProperties
<1>5. CASE disk' = SubSeq(disk, 1, n - 1)
  <2>1. 1 \in Int /\ n - 1 \in Int /\ \A i \in 1 .. n - 1 : disk[i] \in S
    BY <1>4
  <2>2. /\ Len(disk') = IF 1 <= n - 1 THEN n - 1 - 1 + 1 ELSE 0
        /\ \A i \in 1 .. n - 1 - 1 + 1 : disk'[i] = disk[1 + i - 1]
    BY <1>5, <2>1, SubSeqProperties
  <2>3. Len(disk') <= Len(disk) /\ (Len(disk') > 1 => Len(disk) > 1 /\ disk'[2] = disk[2])
    BY <1>4, <2>2
  <2> QED
    BY <1>1, <1>4, <2>2, <2>3 DEF OldInv
<1>6. CASE \E k \in {"header", "sizes", "data", "undecodable", "endless"} : \E x :
             /\ disk' = [disk EXCEPT ![n] = <<k, x>>]
             /\ k = "sizes" => disk[n][1] = "sizes"
  <2> PICK k \in {"header", "sizes", "data", "undecodable", "endless"} : \E x :
         /\ disk' = [disk EXCEPT ![n] = <<k, x>>]
         /\ k = "sizes" => disk[n][1] = "sizes"
    BY <1>6
  <2>1. PICK x : /\ disk' = [disk EXCEPT ![n] = <<k, x>>]
                 /\ k = "sizes" => disk[n][1] = "sizes"
    OBVIOUS
  <2>2. disk \in Seq(S \union {<<k, x>>})
    BY <1>3, SeqMonotonic
  <2>3. /\ Len(disk') = Len(disk)
        /\ \A i \in 1 .. Len(disk) : disk'[i] = IF i = n THEN <<k, x>> ELSE disk[i]
    BY <2>1, <2>2, ExceptSeq
  <2>4. <<k, x>>[1] = k
    OBVIOUS
  <2>5. Len(disk) > 1 => disk'[2] = disk[2] \/ (disk'[2] = <<k, x>> /\ n = 2)
    BY <1>4, <2>3
  <2>6. k # "digest" /\ (k = "sizes" => disk[n][1] = "sizes")
    BY <2>1
  <2> QED
    BY <1>1, <2>3, <2>4, <2>5, <2>6 DEF OldInv
<1> QED
  BY <1>2, <1>5, <1>6

\* The second item of the two older forms.
LEMMA SecondItems ==
  ASSUME NEW h, NEW z, NEW c, NEW g
  PROVE  /\ Len(<<h>> \o <<z>> \o <<c, g>>) = 4
         /\ (<<h>> \o <<z>> \o <<c, g>>)[2] = z
         /\ Len(<<h>> \o << >> \o <<c, g>>) = 3
         /\ (<<h>> \o << >> \o <<c, g>>)[2] = c
PROOF
<1> DEFINE S == {h, z, c, g}
           a == <<h>>
           b == <<z>>
           e == <<c, g>>
<1>1. /\ a \in Seq(S) /\ Len(a) = 1
      /\ b \in Seq(S) /\ Len(b) = 1 /\ b[1] = z
      /\ e \in Seq(S) /\ Len(e) = 2 /\ e[1] = c
  OBVIOUS
<1> HIDE DEF S, a, b, e
<1> DEFINE j == a \o b
<1>2. /\ j \in Seq(S) /\ Len(j) = Len(a) + Len(b)
      /\ \A i \in 1 .. Len(a) + Len(b) :
           j[i] = IF i <= Len(a) THEN a[i] ELSE b[i - Len(a)]
  BY ONLY <1>1, ConcatProperties
<1> HIDE DEF j
<1>3. Len(j) = 2 /\ j[2] = z
  BY <1>1, <1>2
<1>4. /\ Len(j \o e) = Len(j) + Len(e)
      /\ \A i \in 1 .. Len(j) + Len(e) :
           (j \o e)[i] = IF i <= Len(j) THEN j[i] ELSE e[i - Len(j)]
  BY ONLY <1>1, <1>2, ConcatProperties
<1>5. Len(j \o e) = 4 /\ (j \o e)[2] = z
  BY <1>1, <1>3, <1>4
<1>6. a \o << >> = a
  BY <1>1, ConcatEmptySeq
<1>7. /\ Len(a \o e) = Len(a) + Len(e)
      /\ \A i \in 1 .. Len(a) + Len(e) :
           (a \o e)[i] = IF i <= Len(a) THEN a[i] ELSE e[i - Len(a)]
  BY ONLY <1>1, ConcatProperties
<1>8. Len(a \o << >> \o e) = 3 /\ (a \o << >> \o e)[2] = c
  BY <1>1, <1>6, <1>7
<1> QED
  BY <1>5, <1>8 DEF a, b, e, j

\* The files that are there from the beginning.
LEMMA OldInitially ==
  ASSUME Init
  PROVE  OldInv
PROOF
<1>1. CASE given = NoLattice
  <2>1. Len(disk) = 0
    BY <1>1, EmptySeq DEF Init, OldFile
  <2> QED
    BY <2>1 DEF OldInv
<1>2. CASE given # NoLattice /\ given.header.compressionType = "LZMA"
  <2> DEFINE h == <<"header", given.header>>
             z == <<"sizes", Len(given.cells)>>
             c == <<"data", given.cells>>
             g == <<"digest", given>>
  <2>1. disk = <<h>> \o <<z>> \o <<c, g>>
    BY <1>2 DEF Init, OldFile
  <2>2. z[1] = "sizes"
    OBVIOUS
  <2> HIDE DEF h, z, c, g
  <2>3. Len(disk) = 4 /\ disk[2] = z
    BY <2>1, SecondItems
  <2> QED
    BY <1>2, <2>2, <2>3 DEF OldInv
<1>3. CASE given # NoLattice /\ given.header.compressionType # "LZMA"
  <2> DEFINE h == <<"header", given.header>>
             c == <<"data", given.cells>>
             g == <<"digest", given>>
  <2>1. disk = <<h>> \o << >> \o <<c, g>>
    BY <1>3 DEF Init, OldFile
  <2>2. c[1] = "data"
    OBVIOUS
  <2> HIDE DEF h, c, g
  <2>3. Len(disk) = 3 /\ disk[2] = c
    BY <2>1, SecondItems
  <2> QED
    BY <1>3, <2>2, <2>3 DEF OldInv
<1> QED
  BY <1>1, <1>2, <1>3

\* Only a save, which writes a file of fragments, and damage change the file.
LEMMA OldKept ==
  ASSUME IInv, SavedInv, OldInv, [Next]_vars
  PROVE  OldInv'
PROOF
<1>1. CASE UNCHANGED <<disk, given>>
  BY <1>1 DEF OldInv
<1>2. CASE Damage
  BY <1>2, DamageKeepsOld
<1>3. CASE OpenWrite /\ pc' # "saved"
  <2>1. given'.header = header /\ header.compressionType = "LZMA_FRAGMENTS"
    BY <1>3, LatticeFields DEF OpenWrite, Goto
  <2> QED
    BY <2>1 DEF OldInv
<1>4. CASE Flush \/ Close
  <2>1. Writing /\ given' = given
    BY <1>4 DEF Flush, Close, IInv, Writing, At
  <2> QED
    BY <2>1 DEF OldInv, SavedInv
<1> QED
  BY <1>1, <1>2, <1>3, <1>4
  DEF Next, ProgramStep, FileStep, OpenRead, ReadHeader, NoHeader, ReadFragment,
      ReadDigest, ReadFails, OpenWrite, WriteHeader, WriteSizes, WriteData,
      CompressFails, WriteDigest, DiskFills, Crash, Start, Create, CreateRefused,
      InitSimulator, Iterate, FinalizeSimulator, SaveAborts, LoadAborts, Finalize, Postprocess,
      Exit, Gone, Goto, vars, fileVars

-----------------------------------------------------------------------------
(* Whole files load *)

\* A file of fragments of which the lattice says it is older has one fragment.
LEMMA OldIsWhole ==
  ASSUME IInv, OldInv, disk = WholeFile(given),
         given.header.compressionType # "LZMA_FRAGMENTS"
  PROVE  /\ given.header.compressionType = "LZMA"
         /\ Fragments(Len(given.cells)) = 1
PROOF
<1>1. IsSequence(given.cells) /\ Len(given.cells) \in Nat
  BY SequencesAreSequences DEF IInv, IsLattice, IsSequence
<1>2. PICK f \in Nat : f = Fragments(Len(given.cells))
  BY <1>1, FragmentCount
<1>3. /\ Len(disk) = 2 * f + 2
      /\ disk[Len(disk)] = <<"digest", given>>
      /\ \A n \in Nat : n < f => disk[2 * n + 2] = <<"sizes", Len(Part(given, n))>>
  BY <1>1, <1>2, WholeFileItems
<1>4. /\ Len(disk) <= 4 /\ Len(disk) > 1
      /\ disk[2][1] # "digest"
      /\ given.header.compressionType # "LZMA" => disk[2][1] # "sizes"
  BY <1>2, <1>3 DEF OldInv
<1>5. <<"digest", given>>[1] = "digest" /\ <<"sizes", Len(Part(given, 0))>>[1] = "sizes"
  OBVIOUS
<1>6. f # 0
  <2>1. f = 0 => Len(disk) = 2
    BY <1>3
  <2>2. f = 0 => disk[2] = <<"digest", given>>
    BY <1>3, <2>1
  <2> QED
    BY <1>4, <1>5, <2>2
<1>7. f <= 1
  BY <1>2, <1>3, <1>4
<1>8. 0 < f /\ 2 * 0 + 2 = 2 /\ f = 1
  BY <1>2, <1>6, <1>7
<1>9. disk[2 * 0 + 2] = <<"sizes", Len(Part(given, 0))>>
  BY <1>3, <1>8
<1>10. disk[2][1] = "sizes"
  BY <1>5, <1>8, <1>9
<1> QED
  BY <1>2, <1>4, <1>8, <1>10

\* What a load wants next of a whole file is what comes next.
LEMMA WholeWanted ==
  ASSUME IInv, OldInv, disk = WholeFile(given), header = given.header,
         IsSequence(array),
         NEW n \in Nat, InFragments(n, Len(array), Len(given.cells))
  PROVE  \/ Wanted = <<"sizes", "data">> /\ Len(array) < Len(given.cells)
         \/ Wanted = <<"digest">> /\ Len(array) = Len(given.cells)
PROOF
<1>1. /\ Len(given.cells) \in Nat /\ TotalSize = Len(given.cells)
  BY SequencesAreSequences DEF IInv, IsLattice, IsSequence, TotalSize
<1>2. PICK total \in Nat : total = Len(given.cells)
  BY <1>1
<1>3. PICK c : c = Len(array)
  OBVIOUS
<1>4. InFragments(n, c, total)
  BY <1>2, <1>3
<1>5. c \in 0 .. total /\ n <= Fragments(total) /\ (n = Fragments(total) <=> c >= total)
  BY ONLY <1>2, <1>4, n \in Nat, LastFragment
<1>6. CASE header.compressionType = "LZMA_FRAGMENTS"
  <2>1. Wanted = IF c < total THEN <<"sizes", "data">> ELSE <<"digest">>
    BY <1>1, <1>2, <1>3, <1>6 DEF Wanted
  <2> QED
    BY <1>2, <1>3, <1>5, <2>1
<1>7. CASE header.compressionType # "LZMA_FRAGMENTS"
  <2>1. header.compressionType = "LZMA" /\ Fragments(total) = 1
    BY <1>2, <1>7, OldIsWhole
  <2>2. Wanted = IF array = << >> THEN <<"sizes", "data">> ELSE <<"digest">>
    BY <2>1 DEF Wanted
  <2>3. n <= 1 /\ (n = 1 <=> c >= total)
    BY ONLY <1>5, <2>1
  <2>4. 0 * FragmentSize = 0 /\ (1 - 1) * FragmentSize = 0
    BY FragmentSizeAssumption
  <2>5. n = 0 => c = 0 /\ c < total
    <3>1. n = 0 => c = IF 0 < total THEN 0 ELSE total
      BY ONLY <1>4, <2>4 DEF InFragments, CellsIn
    <3> QED
      BY ONLY <1>2, <1>5, <2>3, <3>1
  <2>6. n = 1 => c = total /\ c > 0
    <3>1. n = 1 => 0 < total
      BY ONLY <1>4, <2>4 DEF InFragments
    <3> QED
      BY ONLY <1>2, <1>5, <2>3, <3>1
  <2>7. array = << >> <=> c = 0
    BY <1>1, <1>3, EmptySeq DEF IsSequence
  <2>8. n = 0 \/ n = 1
    BY ONLY <2>3, n \in Nat
  <2>9. CASE n = 0
    BY <1>2, <1>3, <2>2, <2>5, <2>7, <2>9
  <2>10. CASE n = 1
    BY <1>2, <1>3, <2>2, <2>6, <2>7, <2>10
  <2> QED
    BY <2>8, <2>9, <2>10
<1> QED
  BY <1>6, <1>7

\* A fragment of its recorded size can be read, and nothing behind it is.
LEMMA NothingBehind ==
  ASSUME NEW s, IsSequence(s), NEW cells, IsSequence(cells), Len(cells) \in Nat \ {0},
         Wanted = <<"sizes", "data">>, Finds(Wanted),
         disk[pos + 1] = <<"sizes", Len(cells)>>, disk[pos + 2] = <<"data", cells>>
  PROVE  Readable /\ s \o Decoded \o Behind = s \o cells
PROOF
<1>1. Len(<<"sizes", "data">>) = 2 /\ <<"sizes", "data">> # <<"data">>
  OBVIOUS
<1>2. Len(Wanted) = 2 /\ Wanted # <<"data">>
  BY <1>1
<1>3. \A k, x : <<k, x>>[2] = x
  OBVIOUS
<1>4. Decoded = cells /\ Recorded = Len(cells)
  BY <1>2, <1>3 DEF Decoded, Recorded
<1>5. Readable
  BY <1>2, <1>4 DEF Readable
<1>6. Behind = << >>
  <2> DEFINE b == [n \in 1 .. 0 |-> Damaged]
  <2>1. b = [n \in 1 .. 0 |-> b[n]]
    OBVIOUS
  <2> HIDE DEF b
  <2>2. IsSequence(b) /\ Len(b) = 0
    BY <2>1, ListsAreSequences
  <2>3. b = << >>
    BY <2>2, EmptySeq DEF IsSequence
  <2>4. Recorded - Len(Decoded) = 0
    BY <1>4
  <2> QED
    BY <2>3, <2>4 DEF Behind, b
<1>7. PICK S : s \in Seq(S) /\ cells \in Seq(S)
  BY CommonSet
<1>8. s \o cells \in Seq(S)
  BY <1>7, ConcatProperties
<1>9. (s \o cells) \o << >> = s \o cells
  BY <1>8, ConcatEmptySeq
<1> QED
  BY <1>4, <1>5, <1>6, <1>9

\* The items of a whole file that a load meets after n fragments.
LEMMA WholeFinds ==
  ASSUME IInv, OldInv, LoadedInv, At("readData"), disk = WholeFile(given)
  PROVE  /\ header = given.header
         /\ \E n \in Nat :
              /\ pos = 2 * n + 1
              /\ array = SubSeq(given.cells, 1, Len(array))
              /\ \/ /\ Wanted = <<"sizes", "data">> /\ Readable
                    /\ array \o Decoded \o Behind = array \o Part(given, n)
                    /\ Len(array) = n * FragmentSize
                    /\ Consume(Len(given.cells) - Len(array)) \in 1 .. Len(given.cells) - Len(array)
                    /\ InFragments(n + 1,
                         Len(array) + Consume(Len(given.cells) - Len(array)), Len(given.cells))
                 \/ Wanted = <<"digest">> /\ DigestAgrees
PROOF
<1>1. header = given.header
  BY DEF LoadedInv
<1>2. PICK n \in Nat :
        /\ InFragments(n, Len(array), Len(given.cells))
        /\ array = SubSeq(given.cells, 1, Len(array))
        /\ pos = 2 * n + 1
  BY DEF LoadedInv
<1>3. IsSequence(given.cells) /\ Len(given.cells) \in Nat
  BY SequencesAreSequences DEF IInv, IsLattice, IsSequence
<1>4. PICK total \in Nat : total = Len(given.cells)
  BY <1>3
<1>5. PICK c : c = Len(array)
  OBVIOUS
<1>6. InFragments(n, c, total) /\ array = SubSeq(given.cells, 1, c)
  BY <1>2, <1>4, <1>5
<1>7. c \in 0 .. total /\ n <= Fragments(total) /\ (n = Fragments(total) <=> c >= total)
  BY ONLY <1>4, <1>6, n \in Nat, LastFragment
<1>8. PICK f \in Nat : f = Fragments(total)
  BY <1>4, FragmentCount
<1>9. IsSequence(array)
  <2>1. PICK S : given.cells \in Seq(S)
    BY <1>3 DEF IsSequence
  <2>2. 1 \in Int /\ c \in Int /\ \A i \in 1 .. c : given.cells[i] \in S
    BY <1>4, <1>7, <2>1
  <2>3. SubSeq(given.cells, 1, c) \in Seq(S)
    BY <2>2, SubSeqProperties
  <2> QED
    BY <1>6, <2>3, SequencesAreSequences
<1>10. /\ Len(disk) = 2 * f + 2
       /\ disk[Len(disk)] = <<"digest", given>>
       /\ \A m \in Nat : m < f =>
            /\ disk[2 * m + 2] = <<"sizes", Len(Part(given, m))>>
            /\ disk[2 * m + 3] = <<"data", Part(given, m)>>
  BY <1>3, <1>4, <1>8, WholeFileItems
<1>11. \A k, x : <<k, x>>[1] = k /\ <<k, x>>[2] = x
  OBVIOUS
<1>12. CASE Wanted = <<"sizes", "data">> /\ c < total
  <2>1. /\ c = n * FragmentSize /\ Consume(total - c) \in 1 .. total - c
        /\ InFragments(n + 1, c + Consume(total - c), total)
        /\ n < f
    BY <1>4, <1>6, <1>8, <1>12, NextFragment
  <2>2. /\ disk[2 * n + 2] = <<"sizes", Len(Part(given, n))>>
        /\ disk[2 * n + 3] = <<"data", Part(given, n)>>
    BY <1>10, <2>1
  <2>3. pos + 1 = 2 * n + 2 /\ pos + 2 = 2 * n + 3 /\ pos + 2 <= Len(disk)
    BY <1>2, <1>8, <1>10, <2>1
  <2>4. disk[pos + 1][1] = "sizes" /\ disk[pos + 2][1] = "data"
    BY <1>11, <2>2, <2>3
  <2>5. Finds(Wanted)
    <3>1. Finds(<<"sizes", "data">>)
      BY <2>3, <2>4 DEF Finds
    <3> QED
      BY <1>12, <3>1
  <2>6. /\ disk[pos + 1] = <<"sizes", Len(Part(given, n))>>
        /\ disk[pos + 2] = <<"data", Part(given, n)>>
    BY <2>2, <2>3
  <2>7. IsSequence(Part(given, n)) /\ Len(Part(given, n)) \in Nat \ {0}
    <3>1. PICK k \in 1 .. total - c : k = Consume(total - c)
      BY <2>1
    <3>2. Part(given, n) = SubSeq(given.cells, c + 1, c + k)
      BY <1>4, <2>1, <3>1 DEF Part
    <3>3. c \in 0 .. Len(given.cells) - 1 /\ k \in 1 .. Len(given.cells) - c
      BY <1>4, <1>7, <1>12
    <3>4. k \in Nat \ {0}
      BY <1>4, <1>7
    <3>5. /\ IsSequence(SubSeq(given.cells, c + 1, c + k))
          /\ Len(SubSeq(given.cells, c + 1, c + k)) = k
      BY <1>3, <3>3, FragmentsJoin
    <3> QED
      BY <3>2, <3>4, <3>5
  <2>8. Readable /\ array \o Decoded \o Behind = array \o Part(given, n)
    BY <1>9, <1>12, <2>5, <2>6, <2>7, NothingBehind
  <2> QED
    BY <1>1, <1>2, <1>4, <1>5, <1>12, <2>1, <2>8
<1>13. CASE Wanted = <<"digest">> /\ c = total
  <2>1. n = f
    BY <1>4, <1>7, <1>8, <1>13
  <2>2. pos + 1 = Len(disk)
    BY <1>2, <1>10, <2>1
  <2>3. disk[pos + 1] = <<"digest", given>>
    BY <1>10, <2>2
  <2>4. ctx = given
    <3>1. SubSeq(given.cells, 1, total) = given.cells
      BY <1>3, <1>4, SubSeqFull DEF IsSequence
    <3>2. array = given.cells
      BY <1>6, <1>13, <3>1
    <3>3. given = Digest(given.header, given.cells) /\ ctx = Digest(header, array)
      BY DEF IInv, IsLattice, LoadInv
    <3> QED
      BY <1>1, <3>2, <3>3
  <2>5. DigestAgrees
    <3>1. disk[pos + 1][1] = "digest" /\ disk[pos + 1] = <<"digest", ctx>>
      BY <1>11, <2>3, <2>4
    <3>2. Finds(<<"digest">>)
      BY <1>8, <1>10, <2>2, <3>1 DEF Finds
    <3> QED
      BY <3>1, <3>2 DEF DigestAgrees
  <2> QED
    BY <1>1, <1>2, <1>13, <2>5
<1>14. \/ Wanted = <<"sizes", "data">> /\ c < total
       \/ Wanted = <<"digest">> /\ c = total
  BY <1>1, <1>2, <1>4, <1>5, <1>9, WholeWanted
<1> QED
  BY <1>12, <1>13, <1>14

\* Nothing is said of a process that is not loading or has loaded.
LEMMA LoadedElsewhere ==
  ASSUME pc' \notin {"readData", "loaded"} \/ (pc' = "loaded" /\ flag' \in {0, -2})
  PROVE  LoadedInv'
PROOF
  BY DEF LoadedInv, WholeFilesLoad, At

\* A load takes a whole file fragment after fragment, and finds its digest.
LEMMA LoadKeepsWhole ==
  ASSUME IInv, CursorInv, OldInv, LoadedInv,
         OpenRead \/ ReadHeader \/ NoHeader \/ ReadFragment \/ ReadDigest \/ ReadFails
  PROVE  LoadedInv'
PROOF
<1>1. UNCHANGED <<disk, given>>
  BY DEF OpenRead, ReadHeader, NoHeader, ReadFragment, ReadDigest, ReadFails
<1>2. CASE OpenRead \/ ReadDigest
  BY <1>2, LoadedElsewhere DEF OpenRead, ReadDigest, Goto
<1>3. CASE disk # WholeFile(given)
  BY <1>1, <1>3 DEF LoadedInv, WholeFilesLoad
<1>4. CASE disk = WholeFile(given) /\ (ReadHeader \/ NoHeader)
  <2>1. pc = "readHeader" /\ pos = 0
    BY <1>4 DEF ReadHeader, NoHeader, At, CursorInv
  <2>2. IsSequence(given.cells)
    BY DEF IInv, IsLattice
  <2>3. PICK total \in Nat : total = Len(given.cells)
    BY <2>2, SequencesAreSequences DEF IsSequence
  <2>4. PICK f \in Nat : f = Fragments(total)
    BY <2>3, FragmentCount
  <2>5. Len(disk) = 2 * f + 2 /\ disk[1] = <<"header", given.header>>
    BY <1>4, <2>2, <2>3, <2>4, WholeFileItems
  <2>6. disk[1][1] = "header" /\ disk[1][2] = given.header
    BY <2>5
  <2>7. Finds(<<"header">>)
    BY <2>1, <2>4, <2>5, <2>6 DEF Finds
  <2>8. ReadHeader
    BY <1>4, <2>7 DEF NoHeader
  <2>9. header' = given.header /\ array' = << >> /\ pos' = 1 /\ pc' = "readData"
    BY <2>1, <2>6, <2>8 DEF ReadHeader, Goto
  <2>10. Len(array') = 0 /\ array' = SubSeq(given.cells, 1, 0)
    BY <2>9, EmptySeq, SubSeqEmpty
  <2>11. InFragments(0, 0, total)
    BY <2>3, NoFragment
  <2>12. /\ InFragments(0, Len(array'), Len(given'.cells))
         /\ array' = SubSeq(given'.cells, 1, Len(array'))
         /\ pos' = 2 * 0 + 1
    BY <1>1, <2>3, <2>9, <2>10, <2>11
  <2> QED
    BY <1>1, <2>9, <2>12 DEF LoadedInv, WholeFilesLoad, At
<1>5. CASE disk = WholeFile(given) /\ ReadFragment
  <2>1. At("readData") /\ Wanted # <<"digest">> /\ pc' = "readData"
    BY <1>5 DEF ReadFragment, At
  <2>2. PICK n \in Nat :
          /\ pos = 2 * n + 1
          /\ array = SubSeq(given.cells, 1, Len(array))
          /\ Wanted = <<"sizes", "data">>
          /\ array \o Decoded \o Behind = array \o Part(given, n)
          /\ Len(array) = n * FragmentSize
          /\ Consume(Len(given.cells) - Len(array)) \in 1 .. Len(given.cells) - Len(array)
          /\ InFragments(n + 1,
               Len(array) + Consume(Len(given.cells) - Len(array)), Len(given.cells))
    BY <1>5, <2>1, WholeFinds
  <2>3. header = given.header
    BY <1>5, <2>1, WholeFinds
  <2>4. IsSequence(given.cells)
    BY DEF IInv, IsLattice
  <2>5. PICK total \in Nat : total = Len(given.cells)
    BY <2>4, SequencesAreSequences DEF IsSequence
  <2>6. PICK c \in Nat : c = Len(array)
    BY <2>2, FragmentCount
  <2>7. PICK k \in 1 .. total - c : k = Consume(total - c)
    BY <2>2, <2>5, <2>6
  <2>8. array = SubSeq(given.cells, 1, c) /\ Part(given, n) = SubSeq(given.cells, c + 1, c + k)
    BY <2>2, <2>5, <2>6, <2>7 DEF Part
  <2>9. array' = array \o Part(given, n) /\ header' = header /\ pos' = pos + 2
    <3>1. Len(<<"sizes", "data">>) = 2
      OBVIOUS
    <3>2. Len(Wanted) = 2
      BY <2>2, <3>1
    <3> QED
      BY <1>5, <2>2, <3>2 DEF ReadFragment
  <2>10. c \in 0 .. Len(given.cells) - 1 /\ k \in 1 .. Len(given.cells) - c
    BY <2>5, <2>6, <2>7
  <2>11. array' = SubSeq(given.cells, 1, c + k)
    BY <2>4, <2>8, <2>9, <2>10, FragmentsJoin
  <2>12. Len(array') = c + k
    <3>1. PICK S : given.cells \in Seq(S)
      BY <2>4 DEF IsSequence
    <3>2. 1 \in Int /\ c + k \in Int /\ \A i \in 1 .. c + k : given.cells[i] \in S
      BY <2>5, <2>10, <3>1
    <3>3. Len(SubSeq(given.cells, 1, c + k)) = IF 1 <= c + k THEN c + k - 1 + 1 ELSE 0
      BY <3>2, SubSeqProperties
    <3> QED
      BY <2>6, <2>10, <2>11, <3>3
  <2>13. InFragments(n + 1, Len(array'), Len(given'.cells))
    BY <1>1, <2>2, <2>5, <2>6, <2>7, <2>12
  <2>14. n + 1 \in Nat /\ pos' = 2 * (n + 1) + 1
    BY <2>2, <2>9
  <2>15. array' = SubSeq(given'.cells, 1, Len(array')) /\ header' = given'.header
    BY <1>1, <2>3, <2>9, <2>11, <2>12
  <2> QED
    BY <2>1, <2>13, <2>14, <2>15 DEF LoadedInv, WholeFilesLoad, At
<1>6. CASE disk = WholeFile(given) /\ ReadFails
  <2>1. At("readData")
    BY <1>6 DEF ReadFails
  <2>2. \/ Wanted = <<"sizes", "data">> /\ Readable
        \/ Wanted = <<"digest">> /\ DigestAgrees
    BY <1>6, <2>1, WholeFinds
  <2>3. <<"sizes", "data">> # <<"digest">> /\ <<"sizes", "data">> # << >> /\ <<"digest">> # << >>
    OBVIOUS
  <2> QED
    BY <1>6, <2>2, <2>3 DEF ReadFails
<1> QED
  BY <1>2, <1>3, <1>4, <1>5, <1>6

-----------------------------------------------------------------------------
(* Together *)

\* Saves, old files and loads at once: the loads take what the saves have left.
LEMMA WholeInductive == Spec => []WholeInv
PROOF
<1>1. Init => WholeInv
  <2> SUFFICES ASSUME Init PROVE WholeInv
    OBVIOUS
  <2>1. pc = "idle"
    BY DEF Init
  <2>2. SavedInv /\ LoadedInv
    BY <2>1 DEF SavedInv, SavedWhole, LoadedInv, WholeFilesLoad, Writing, At
  <2> QED
    BY <2>2, OldInitially DEF WholeInv
<1>2. IInv /\ IInv' /\ CursorInv /\ WholeInv /\ [Next]_vars => WholeInv'
  <2> SUFFICES ASSUME IInv, IInv', CursorInv, WholeInv, [Next]_vars PROVE WholeInv'
    OBVIOUS
  <2>1. SavedInv /\ OldInv /\ LoadedInv
    BY DEF WholeInv
  <2>2. OldInv'
    BY <2>1, OldKept
  <2>3. CASE OpenRead \/ ReadHeader \/ NoHeader \/ ReadFragment \/ ReadDigest \/ ReadFails
    <3>1. pc' \in {"readHeader", "readData", "loaded"}
      BY <2>3 DEF OpenRead, ReadHeader, NoHeader, ReadFragment, ReadDigest, ReadFails, At, Goto
    <3>2. SavedInv'
      BY <3>1, SavedElsewhere
    <3>3. LoadedInv'
      BY <2>1, <2>3, LoadKeepsWhole
    <3> QED
      BY <2>2, <3>2, <3>3 DEF WholeInv
  <2>4. CASE \/ OpenWrite \/ WriteHeader \/ WriteSizes \/ WriteData \/ CompressFails
             \/ WriteDigest \/ Close
    <3>1. pc' \in {"writeHeader", "writeSizes", "writeData", "close", "saved"}
      BY <2>4 DEF OpenWrite, WriteHeader, WriteSizes, WriteData, CompressFails,
         WriteDigest, Close, FragmentDone, Goto
    <3>2. LoadedInv'
      BY <3>1, LoadedElsewhere
    <3>3. SavedInv'
      BY <2>1, <2>4, OpenSaves, HeaderSaved, FragmentSaved, DigestSaved, CloseSaves
    <3> QED
      BY <2>2, <3>2, <3>3 DEF WholeInv
  <2>5. CASE Flush \/ DiskFills
    <3>1. SavedInv'
      BY <2>1, <2>5, DiskSaves
    <3>2. pc' \in {"writeHeader", "writeSizes", "writeData", "close"}
      BY <2>5 DEF Flush, DiskFills, IInv, Writing
    <3>3. LoadedInv'
      BY <3>2, LoadedElsewhere
    <3> QED
      BY <2>2, <3>1, <3>3 DEF WholeInv
  <2>6. CASE pc' \in {"idle", "create", "load", "iterate", "save"}
    <3>1. SavedInv'
      BY <2>6, SavedElsewhere
    <3>2. LoadedInv'
      BY <2>6, LoadedElsewhere
    <3> QED
      BY <2>2, <3>1, <3>2 DEF WholeInv
  <2>7. CASE UNCHANGED vars
    BY <2>7 DEF vars, fileVars, WholeInv, SavedInv, SavedWhole, OldInv, LoadedInv,
       WholeFilesLoad, Writing, At, TotalSize
  <2>8. \/ UNCHANGED vars \/ FileStep \/ Flush \/ DiskFills
        \/ pc' \in {"idle", "create", "load", "iterate", "save"}
    BY DEF Next, ProgramStep, Start, Create, CreateRefused, InitSimulator, Iterate,
       FinalizeSimulator, SaveAborts, LoadAborts, Finalize, Postprocess, Crash, Damage, Exit, Gone,
       At, Goto
  <2> QED
    BY <2>3, <2>4, <2>5, <2>6, <2>7, <2>8 DEF FileStep
<1> QED
  BY <1>1, <1>2, Inductive, TypesInductive, PTL DEF Spec

\* A save that returns 0, and during which the disk did not fill up, has left the file
\* of its lattice: the header, every fragment and the digest.
THEOREM SavesAreWhole == Spec => []SavedWhole
PROOF
<1>1. WholeInv => SavedWhole
  BY DEF WholeInv, SavedInv
<1> QED
  BY <1>1, WholeInductive, PTL

\* Such a file can be loaded, however its cells divide into fragments, unless it
\* cannot be opened.
THEOREM WholeFilesCanBeLoaded == Spec => []WholeFilesLoad
PROOF
<1>1. WholeInv => WholeFilesLoad
  BY DEF WholeInv, LoadedInv
<1> QED
  BY <1>1, WholeInductive, PTL

-----------------------------------------------------------------------------
(* The size of a new lattice *)

\* A size rounded up to a period goes less than the period beyond the last cell.
LEMMA RoundedFits ==
  ASSUME NEW i \in Nat, NEW period \in {1, 2}
  PROVE  Rounded(i, period) - i \in 1 .. period
PROOF
<1>1. CASE period = 1
  BY <1>1 DEF Rounded
<1>2. CASE period = 2
  BY <1>2 DEF Rounded
<1> QED
  BY <1>1, <1>2

\* GetIndex gives back the coordinates of every topology but CUBE12, and of that
\* with one cell in a meter.
LEMMA IndexIsCell ==
  ASSUME NEW r \in Requests, r.topology = "CUBE12" => r.cellsPerMeter = 1
  PROVE  GetIndex(r) = r.cell
PROOF
<1>1. r.cell \in [1 .. 3 -> Nat] /\ r.cellsPerMeter \in Nat \ {0}
  BY RequestsAssumption
<1>2. CASE r.topology # "CUBE12"
  BY <1>2 DEF GetIndex
<1>3. CASE r.topology = "CUBE12"
  <2> DEFINE half(p) == (p + r.cellsPerMeter - 1) \div 2
  <2>1. half(0) = 0 /\ half(1) = 0
    BY <1>3
  <2>2. (r.cell[1] + r.cell[2]) % 2 \in {0, 1}
    BY <1>1
  <2>3. GetIndex(r) = <<r.cell[1] + half(0), r.cell[2] + half(0),
                        r.cell[3] + half((r.cell[1] + r.cell[2]) % 2)>>
    BY <1>3 DEF GetIndex
  <2>4. half((r.cell[1] + r.cell[2]) % 2) = 0
    BY <2>1, <2>2
  <2> HIDE DEF half
  <2>5. GetIndex(r) = <<r.cell[1], r.cell[2], r.cell[3]>>
    BY <1>1, <2>1, <2>3, <2>4
  <2>6. <<r.cell[1], r.cell[2], r.cell[3]>> = r.cell
    BY <1>1
  <2> QED
    BY <2>5, <2>6
<1> QED
  BY <1>2, <1>3

\* The preprocessor saves a lattice that has the last cell of its request, and less
\* than a period of rows and columns beyond it, for every request of which GetIndex
\* gives back the coordinates.
THEOREM NewLatticesFit ==
  ASSUME \A r \in Requests : r.topology = "CUBE12" => r.cellsPerMeter = 1
  PROVE  Spec => []SizeFits
PROOF
<1>1. Init => PlacesInv /\ SizeFits
  BY DEF Init, PlacesInv, SizeFits, At
<1>2. PlacesInv /\ SizeFits /\ [Next]_vars => PlacesInv' /\ SizeFits'
  <2> SUFFICES ASSUME PlacesInv, SizeFits, [Next]_vars
               PROVE  PlacesInv' /\ SizeFits'
    OBVIOUS
  <2>1. CASE FileStep /\ UNCHANGED programVars
    <3>1. /\ UNCHANGED <<program, build>>
          /\ \/ /\ pc \in {"load", "readHeader", "readData"}
                /\ pc' \in {"readHeader", "readData", "loaded"}
             \/ pc' \in {"writeHeader", "writeSizes", "writeData", "close", "saved"}
      BY <2>1 DEF FileStep, OpenRead, ReadHeader, NoHeader, ReadFragment, ReadDigest,
         ReadFails, OpenWrite, WriteHeader, WriteSizes, WriteData, CompressFails,
         WriteDigest, Close, FragmentDone, At, Goto, programVars
    <3> QED
      BY <3>1 DEF PlacesInv, SizeFits, At
  <2>2. CASE \E p \in {"prep", "sim", "post"}, b \in Topologies : Start(p, b)
    BY <2>2 DEF Start, PlacesInv, SizeFits, At, Goto
  <2>3. CASE \E r \in Requests : Create(r)
    <3>1. PICK r \in Requests : Create(r)
      BY <2>3
    <3>2. /\ UNCHANGED <<program, build>> /\ pc' = "save"
          /\ r.topology = build /\ header' = NewHeader(r)
      BY <3>1 DEF Create, Goto
    <3>3. /\ r.topology \in TopologyNames /\ r.cell \in [1 .. 3 -> Nat]
          /\ GetIndex(r) = r.cell
      BY RequestsAssumption, IndexIsCell
    <3>4. ASSUME NEW n \in 1 .. Dimension(build)
          PROVE  header'.size[n] - r.cell[n] \in 1 .. Period(build)[n]
      <4>1. n \in 1 .. 3 /\ ~(n > Dimension(build))
        BY DEF Dimension
      <4>2. Period(build)[n] \in {1, 2} /\ r.cell[n] \in Nat
        BY <3>3, <4>1 DEF Period
      <4>3. header'.size[n] = Rounded(r.cell[n], Period(build)[n])
        BY <3>2, <3>3, <4>1 DEF NewHeader, LatticeSize
      <4> QED
        BY <4>2, <4>3, RoundedFits
    <3>5. SizeFits'
      BY <3>2, <3>4 DEF SizeFits
    <3> QED
      BY <3>2, <3>5 DEF PlacesInv, At
  <2>4. CASE \E code : Gone(code)
    BY <2>4 DEF Gone, PlacesInv, SizeFits, At, Goto
  <2>5. CASE InitSimulator \/ Iterate \/ FinalizeSimulator
    <3>1. CASE \E code : Exit(code)
      BY <3>1, <2>4 DEF Exit
    <3>2. CASE /\ pc \in {"loaded", "iterate"} /\ pc' \in {"iterate", "save"}
               /\ UNCHANGED <<program, build>>
      BY <3>2 DEF PlacesInv, SizeFits, At
    <3> QED
      BY <2>5, <3>1, <3>2 DEF InitSimulator, Iterate, FinalizeSimulator, At, Goto, programVars
  <2>6. CASE (Flush \/ DiskFills \/ Damage) /\ UNCHANGED programVars
    BY <2>6 DEF Flush, DiskFills, Damage, PlacesInv, SizeFits, At, lattice, programVars
  <2>7. CASE UNCHANGED vars
    BY <2>7 DEF vars, fileVars, PlacesInv, SizeFits, At
  <2> QED
    BY <2>1, <2>2, <2>3, <2>4, <2>5, <2>6, <2>7
    DEF Next, ProgramStep, Crash, CreateRefused, SaveAborts, LoadAborts, Finalize, Postprocess, Exit,
        Damage
<1> QED
  BY <1>1, <1>2, PTL DEF Spec

-----------------------------------------------------------------------------
(* Torus indices *)

\* An index that leaves the torus on one side comes back on the other.
LEMMA Wrapped ==
  ASSUME NEW n \in Nat \ {0}, NEW x \in 0 .. n - 1
  PROVE  x % n = x /\ (x - n) % n = x /\ (x + n) % n = x
<1>1. x % n = x
  OBVIOUS
<1>2. (x - n) % n = x
  OBVIOUS
<1>3. (x + n) % n = x
  OBVIOUS
<1> QED BY <1>1, <1>2, <1>3

\* The step d leads from the index x to z on a torus of n.
Leads(n, x, d, z) == z = (x + d) % n

\* A step can be undone, even where the torus is so short that it leads around it.
LEMMA StepBack ==
  ASSUME NEW n \in Nat \ {0}, NEW x \in 0 .. n - 1, NEW d \in {-2, -1, 0, 1, 2},
         NEW z, Leads(n, x, d, z)
  PROVE  z \in 0 .. n - 1 /\ Leads(n, z, -d, x)
<1> SUFFICES z \in 0 .. n - 1 /\ (z - d) % n = x
  <2>1. n \in Nat \ {0} => (x + d) % n \in 0 .. n - 1
    OBVIOUS
  <2>2. z \in Int
    BY <2>1 DEF Leads
  <2>3. z + (-d) = z - d
    BY <2>2
  <2> QED BY <2>3 DEF Leads
<1>0. z = (x + d) % n
  BY DEF Leads
<1>1. CASE n = 1
  BY <1>0, <1>1
<1>2. CASE n = 2
  <2>1. z \in {0, 1} /\ x \in {0, 1}
    BY <1>0, <1>2
  <2>2. (z - d) % 2 = x
    BY <1>0, <1>2, <2>1
  <2> QED BY <1>2, <2>1, <2>2
<1>3. CASE n > 2
  <2>1. CASE x + d \in 0 .. n - 1
    <3>1. z = x + d
      BY <1>0, <2>1
    <3> QED BY <2>1, <3>1, Wrapped
  <2>2. CASE x + d < 0
    <3>1. x + d + n \in 0 .. n - 1
      BY <1>3, <2>2
    <3>2. ((x + d + n) - n) % n = x + d + n
      BY <3>1, Wrapped
    <3>3. z = x + d + n
      BY <1>0, <3>2
    <3>4. z - d = x + n
      BY <3>3
    <3> QED BY <3>1, <3>3, <3>4, Wrapped
  <2>3. CASE x + d >= n
    <3>1. x + d - n \in 0 .. n - 1
      BY <1>3, <2>3
    <3>2. ((x + d - n) + n) % n = x + d - n
      BY <3>1, Wrapped
    <3>3. z = x + d - n
      BY <1>0, <3>2
    <3>4. z - d = x - n
      BY <3>3
    <3> QED BY <3>1, <3>3, <3>4, Wrapped
  <2> QED BY <2>1, <2>2, <2>3
<1> QED BY <1>1, <1>2, <1>3

\* No step leads nowhere.
LEMMA StandStill ==
  ASSUME NEW n \in Nat \ {0}, NEW x \in 0 .. n - 1, NEW z, Leads(n, x, 0, z)
  PROVE  z = x
<1>1. x + 0 = x
  OBVIOUS
<1> QED BY <1>1, Wrapped DEF Leads

\* On a torus with an even number of rows a step changes the parity of a row.
LEMMA ParityStep ==
  ASSUME NEW n \in Nat \ {0}, n % 2 = 0, NEW x \in 0 .. n - 1, NEW d \in {-1, 1},
         NEW z, Leads(n, x, d, z)
  PROVE  z % 2 = 1 - (x % 2)
<1>0. z = (x + d) % n
  BY DEF Leads
<1>1. CASE x + d \in 0 .. n - 1
  <2>1. z = x + d
    BY <1>0, <1>1
  <2> QED BY <2>1
<1>2. CASE x + d < 0
  <2>1. x = 0 /\ d = -1 /\ n - 1 \in 0 .. n - 1
    BY <1>2
  <2>2. ((n - 1) - n) % n = n - 1
    BY <2>1, Wrapped
  <2>3. z = n - 1
    BY <1>0, <2>1, <2>2
  <2> QED BY <2>1, <2>3
<1>3. CASE x + d >= n
  <2>1. x = n - 1 /\ d = 1 /\ 0 \in 0 .. n - 1
    BY <1>3
  <2>2. (0 + n) % n = 0
    BY <2>1, Wrapped
  <2>3. z = 0
    BY <1>0, <2>1, <2>2
  <2> QED BY <2>1, <2>3
<1> QED BY <1>1, <1>2, <1>3

-----------------------------------------------------------------------------
(* Neighbourhoods *)

\* The steps from a cell in a row of parity p to its neighbours in the plane.
PlaneSteps(topology, p) ==
  CASE topology = "SQUARE4"  -> {<<0, 0>>, <<-1, 0>>, <<0, 1>>, <<1, 0>>, <<0, -1>>}
    [] topology = "SQUARE8"  -> (-1 .. 1) \X (-1 .. 1)
    [] topology = "SQUARE24" -> (-2 .. 2) \X (-2 .. 2)
    [] topology = "HEXAGON"  -> {<<0, 0>>, <<0, 1>>, <<0, -1>>, <<-1, p>>, <<1, p>>,
                                 <<-1, p - 1>>, <<1, p - 1>>}

\* The offset of a slot of the cell c.
IsOffset(topology, i, j, c, d) ==
  \E n \in Plane(topology, i, j)!Slots : d = Plane(topology, i, j)!NeighborOffsets(c)[n]

\* The slots of a topology are those steps.
LEMMA SlotsAreSteps ==
  ASSUME NEW topology \in {"SQUARE4", "SQUARE8", "SQUARE24", "HEXAGON"},
         NEW i, NEW j, NEW c, c[1] % 2 \in Int, NEW d
  PROVE  d \in PlaneSteps(topology, c[1] % 2) <=> IsOffset(topology, i, j, c, d)
<1>1. {Plane(topology, i, j)!NeighborOffsets(c)[n] : n \in Plane(topology, i, j)!Slots}
        = PlaneSteps(topology, c[1] % 2)
  <2>1. CASE topology = "SQUARE4"
    BY <2>1 DEF Plane!NeighborOffsets, Plane!Slots, Plane!SlotCount, Plane!Square4Offsets,
       PlaneSteps
  <2>2. CASE topology = "SQUARE8"
    BY <2>2 DEF Plane!NeighborOffsets, Plane!Slots, Plane!SlotCount, Plane!Square8Offsets,
       PlaneSteps
  <2>3. CASE topology = "SQUARE24"
    BY <2>3 DEF Plane!NeighborOffsets, Plane!Slots, Plane!SlotCount, Plane!Square24Offsets,
       Plane!Window, PlaneSteps
  <2>4. CASE topology = "HEXAGON"
    BY <2>4 DEF Plane!NeighborOffsets, Plane!Slots, Plane!SlotCount, Plane!HexagonOffsets,
       PlaneSteps
  <2> QED BY <2>1, <2>2, <2>3, <2>4
<1> QED BY <1>1 DEF IsOffset

\* So a cell is near another in the plane if a step leads to it.
LEMMA NearInPlane ==
  ASSUME NEW topology \in {"SQUARE4", "SQUARE8", "SQUARE24", "HEXAGON"},
         NEW size \in [1 .. 3 -> Nat \ {0}], NEW c \in CellsOf(size), NEW b
  PROVE  b \in Near(topology, size, c) <=>
           \E d \in PlaneSteps(topology, c[1] % 2) :
             b = <<(c[1] + d[1]) % size[1], (c[2] + d[2]) % size[2], 0>>
<1>1. PICK i \in Nat \ {0}, j \in Nat \ {0} : i = size[1] /\ j = size[2]
  OBVIOUS
<1>2. PICK x \in 0 .. i - 1, y \in 0 .. j - 1 : x = c[1] /\ y = c[2]
  BY <1>1 DEF CellsOf
<1>3. PICK a : a = <<x, y>>
  OBVIOUS
<1>4. a[1] = x /\ a[2] = y /\ x % 2 \in Int
  BY <1>3
<1>5. a \in Plane(topology, i, j)!Cells
  BY <1>3 DEF Plane!Cells
<1>6. PICK O : O = Plane(topology, i, j)!NeighborOffsets(a)
  OBVIOUS
<1>7. PICK S : S = Plane(topology, i, j)!Slots
  OBVIOUS
<1>8. PICK H : H = Plane(topology, i, j)!Hood[a]
  OBVIOUS
<1>9. H = {<<(x + O[n][1]) % i, (y + O[n][2]) % j>> : n \in S}
  BY <1>4, <1>5, <1>6, <1>7, <1>8 DEF Plane!Hood, Plane!Neighbors, Plane!Shift
<1>10. \A d : d \in PlaneSteps(topology, x % 2) <=> \E n \in S : d = O[n]
  <2>1. a[1] % 2 \in Int
    BY <1>4
  <2>2. \A d : d \in PlaneSteps(topology, a[1] % 2) <=> IsOffset(topology, i, j, a, d)
    BY <2>1, SlotsAreSteps
  <2> QED BY <1>4, <1>6, <1>7, <2>2 DEF IsOffset
<1>11. Near(topology, size, c) = {<<h[1], h[2], 0>> : h \in H}
  BY <1>1, <1>2, <1>3, <1>8 DEF Near
<1>12. ASSUME NEW h \in H, b = <<h[1], h[2], 0>>
       PROVE  \E n \in S : b = <<(x + O[n][1]) % i, (y + O[n][2]) % j, 0>>
  <2>1. PICK n \in S : h = <<(x + O[n][1]) % i, (y + O[n][2]) % j>>
    BY <1>9
  <2> QED BY <1>12, <2>1
<1>13. ASSUME NEW n \in S, b = <<(x + O[n][1]) % i, (y + O[n][2]) % j, 0>>
       PROVE  \E h \in H : b = <<h[1], h[2], 0>>
  <2>1. PICK h \in H : h = <<(x + O[n][1]) % i, (y + O[n][2]) % j>>
    BY <1>9
  <2> QED BY <1>13, <2>1
<1>14. (\E d \in PlaneSteps(topology, x % 2) : b = <<(x + d[1]) % i, (y + d[2]) % j, 0>>)
         <=> \E n \in S : b = <<(x + O[n][1]) % i, (y + O[n][2]) % j, 0>>
  BY <1>10
<1>15. b \in Near(topology, size, c) <=> \E h \in H : b = <<h[1], h[2], 0>>
  BY <1>11
<1> QED BY ONLY <1>1, <1>2, <1>12, <1>13, <1>14, <1>15

\* The steps of the plane topologies lead both ways, and in the hexagonal one a step
\* between rows of different parity too.
LEMMA StepsBothWays ==
  ASSUME NEW topology \in {"SQUARE4", "SQUARE8", "SQUARE24", "HEXAGON"},
         NEW p \in {0, 1}, NEW d \in PlaneSteps(topology, p)
  PROVE  /\ d[1] \in {-2, -1, 0, 1, 2} /\ d[2] \in {-2, -1, 0, 1, 2}
         /\ topology = "HEXAGON" => d[1] \in {-1, 0, 1}
         /\ <<-d[1], -d[2]>> \in
              PlaneSteps(topology, IF topology = "HEXAGON" /\ d[1] # 0 THEN 1 - p ELSE p)
<1>1. CASE topology = "SQUARE4"
  BY <1>1 DEF PlaneSteps
<1>2. CASE topology = "SQUARE8"
  BY <1>2 DEF PlaneSteps
<1>3. CASE topology = "SQUARE24"
  BY <1>3 DEF PlaneSteps
<1>4. CASE topology = "HEXAGON"
  BY <1>4 DEF PlaneSteps
<1> QED BY <1>1, <1>2, <1>3, <1>4

\* Only hexagonal steps look at the parity.
LEMMA StepsOfRows ==
  ASSUME NEW topology, topology # "HEXAGON", NEW p, NEW q
  PROVE  PlaneSteps(topology, p) = PlaneSteps(topology, q)
BY DEF PlaneSteps

\* A step back leads from every neighbour in the plane to the cell.
LEMMA MutualInPlane ==
  ASSUME NEW topology \in {"SQUARE4", "SQUARE8", "SQUARE24", "HEXAGON"},
         NEW size \in [1 .. 3 -> Nat \ {0}], size[3] = 1,
         topology = "HEXAGON" => size[1] % 2 = 0,
         NEW b \in CellsOf(size), NEW c \in CellsOf(size), b \in Near(topology, size, c)
  PROVE  c \in Near(topology, size, b)
<1>1. PICK d \in PlaneSteps(topology, c[1] % 2) :
        b = <<(c[1] + d[1]) % size[1], (c[2] + d[2]) % size[2], 0>>
  BY NearInPlane
<1>2. PICK i \in Nat \ {0}, j \in Nat \ {0} : i = size[1] /\ j = size[2]
  OBVIOUS
<1>3. PICK x \in 0 .. i - 1, y \in 0 .. j - 1 : c = <<x, y, 0>>
  BY <1>2 DEF CellsOf
<1>4. PICK p \in {0, 1} : p = x % 2
  BY <1>3
<1>5. PICK v, w : v = d[1] /\ w = d[2]
  OBVIOUS
<1>6. /\ v \in {-2, -1, 0, 1, 2} /\ w \in {-2, -1, 0, 1, 2}
      /\ topology = "HEXAGON" => v \in {-1, 0, 1}
      /\ <<-v, -w>> \in
           PlaneSteps(topology, IF topology = "HEXAGON" /\ v # 0 THEN 1 - p ELSE p)
  <2>1. d \in PlaneSteps(topology, p)
    BY <1>1, <1>3, <1>4
  <2> QED BY <1>5, <2>1, StepsBothWays
<1>7. PICK s, t : Leads(i, x, v, s) /\ Leads(j, y, w, t)
  BY DEF Leads
<1>8. b = <<s, t, 0>>
  BY <1>1, <1>2, <1>3, <1>5, <1>7 DEF Leads
<1>9. /\ s \in 0 .. i - 1 /\ Leads(i, s, -v, x)
      /\ t \in 0 .. j - 1 /\ Leads(j, t, -w, y)
  BY <1>6, <1>7, StepBack
<1>10. <<-v, -w>> \in PlaneSteps(topology, s % 2)
  <2>1. CASE topology = "HEXAGON" /\ v # 0
    <3>1. s % 2 = 1 - p
      BY <1>2, <1>4, <1>6, <1>7, <2>1, ParityStep
    <3> QED BY <1>6, <2>1, <3>1
  <2>2. CASE topology = "HEXAGON" /\ v = 0
    <3>1. s % 2 = p
      BY <1>4, <1>7, <2>2, Wrapped DEF Leads
    <3> QED BY <1>6, <2>2, <3>1
  <2>3. CASE topology # "HEXAGON"
    BY <1>6, <2>3, StepsOfRows
  <2> QED BY <2>1, <2>2, <2>3
<1>11. c = <<(s + (-v)) % i, (t + (-w)) % j, 0>>
  BY <1>3, <1>9 DEF Leads
<1>12. PICK e \in PlaneSteps(topology, b[1] % 2) : e = <<-v, -w>>
  BY <1>8, <1>10
<1>13. c = <<(b[1] + e[1]) % size[1], (b[2] + e[2]) % size[2], 0>>
  BY <1>2, <1>8, <1>11, <1>12
<1> QED BY <1>13, NearInPlane

\* The steps of CUBE12 from a column of parity p.
SpaceSteps(p) ==
  ({-1, 1} \X {-1, 1} \X {0}) \union ({0} \X {-1, 1} \X {p, p - 1})
    \union ({-1, 1} \X {0} \X {p, p - 1})

\* They lead both ways: those that change a single one of the first two indices, and
\* so the parity of the column, are the ones that look at it.
LEMMA SpaceStepsBothWays ==
  ASSUME NEW p \in {0, 1}, NEW d \in SpaceSteps(p)
  PROVE  /\ d = <<d[1], d[2], d[3]>>
         /\ d[1] \in {-1, 0, 1} /\ d[2] \in {-1, 0, 1} /\ d[3] \in {-1, 0, 1}
         /\ <<-d[1], -d[2], -d[3]>> \in
              SpaceSteps(IF d[1] # 0 /\ d[2] # 0 THEN p ELSE 1 - p)
         /\ d[1] # 0 \/ d[2] # 0
<1>1. CASE d \in {-1, 1} \X {-1, 1} \X {0}
  BY <1>1 DEF SpaceSteps
<1>2. CASE d \in {0} \X {-1, 1} \X {p, p - 1}
  BY <1>2 DEF SpaceSteps
<1>3. CASE d \in {-1, 1} \X {0} \X {p, p - 1}
  BY <1>3 DEF SpaceSteps
<1> QED BY <1>1, <1>2, <1>3 DEF SpaceSteps

\* And from every neighbour in space.
LEMMA MutualInSpace ==
  ASSUME NEW size \in [1 .. 3 -> Nat \ {0}], size[1] % 2 = 0, size[2] % 2 = 0,
         NEW b \in CellsOf(size), NEW c \in CellsOf(size), b \in Near("CUBE12", size, c)
  PROVE  c \in Near("CUBE12", size, b)
<1>1. \A a : Near("CUBE12", size, a) = {a} \union Cube12Hood(a, size)
  BY DEF Near
<1>2. CASE b = c
  BY <1>1, <1>2
<1>3. CASE b # c
  <2>1. PICK d \in Cube12Offsets(c) : b = [n \in 1 .. 3 |-> (c[n] + d[n]) % size[n]]
    BY <1>1, <1>3 DEF Cube12Hood
  <2>2. PICK i \in Nat \ {0}, j \in Nat \ {0}, k \in Nat \ {0} :
          i = size[1] /\ j = size[2] /\ k = size[3]
    OBVIOUS
  <2>3. PICK x \in 0 .. i - 1, y \in 0 .. j - 1, z \in 0 .. k - 1 : c = <<x, y, z>>
    BY <2>2 DEF CellsOf
  <2>4. PICK p \in {0, 1} : p = (x + y) % 2
    BY <2>3
  <2>5. d \in SpaceSteps(p)
    BY <2>1, <2>3, <2>4 DEF Cube12Offsets, SpaceSteps
  <2>6. PICK u, v, w : u = d[1] /\ v = d[2] /\ w = d[3]
    OBVIOUS
  <2>7. /\ u \in {-1, 0, 1} /\ v \in {-1, 0, 1} /\ w \in {-1, 0, 1}
        /\ <<-u, -v, -w>> \in SpaceSteps(IF u # 0 /\ v # 0 THEN p ELSE 1 - p)
        /\ u # 0 \/ v # 0
    BY <2>5, <2>6, SpaceStepsBothWays
  <2>8. PICK r, s, t : Leads(i, x, u, r) /\ Leads(j, y, v, s) /\ Leads(k, z, w, t)
    BY DEF Leads
  <2>9. b[1] = r /\ b[2] = s /\ b[3] = t
    BY <2>1, <2>2, <2>3, <2>6, <2>8 DEF Leads
  <2>10. /\ r \in 0 .. i - 1 /\ Leads(i, r, -u, x)
         /\ s \in 0 .. j - 1 /\ Leads(j, s, -v, y)
         /\ t \in 0 .. k - 1 /\ Leads(k, t, -w, z)
    BY <2>7, <2>8, StepBack
  <2>11. /\ r % 2 = IF u = 0 THEN x % 2 ELSE 1 - (x % 2)
         /\ s % 2 = IF v = 0 THEN y % 2 ELSE 1 - (y % 2)
    <3>1. u = 0 => r = x
      BY <2>8, StandStill
    <3>2. u # 0 => r % 2 = 1 - (x % 2)
      BY <2>2, <2>7, <2>8, ParityStep
    <3>3. v = 0 => s = y
      BY <2>8, StandStill
    <3>4. v # 0 => s % 2 = 1 - (y % 2)
      BY <2>2, <2>7, <2>8, ParityStep
    <3> QED BY <3>1, <3>2, <3>3, <3>4
  <2>12. (r + s) % 2 = IF u # 0 /\ v # 0 THEN p ELSE 1 - p
    BY <2>4, <2>7, <2>10, <2>11
  <2>13. PICK e \in Cube12Offsets(b) : e = <<-u, -v, -w>>
    BY <2>7, <2>9, <2>12 DEF Cube12Offsets, SpaceSteps
  <2>14. c = [n \in 1 .. 3 |-> (b[n] + e[n]) % size[n]]
    <3>1. /\ x = (r + (-u)) % i /\ y = (s + (-v)) % j /\ z = (t + (-w)) % k
      BY <2>10 DEF Leads
    <3>2. /\ (b[1] + e[1]) % size[1] = x
          /\ (b[2] + e[2]) % size[2] = y
          /\ (b[3] + e[3]) % size[3] = z
      BY <2>2, <2>9, <2>13, <3>1
    <3>3. \A n \in 1 .. 3 : (b[n] + e[n]) % size[n] = c[n]
      BY <2>3, <3>2
    <3>4. c = [n \in 1 .. 3 |-> c[n]]
      BY <2>3
    <3> QED BY <3>3, <3>4
  <2> QED BY <1>1, <2>13, <2>14 DEF Cube12Hood
<1> QED BY <1>2, <1>3

\* In a lattice of its shape every topology's neighbourhoods are mutual.
LEMMA FittingIsMutual ==
  ASSUME NEW topology \in Topologies, NEW size, Fits(topology, size)
  PROVE  <<topology, size>> \in MutualShapes
<1>1. topology \in {"SQUARE4", "SQUARE8", "SQUARE24", "HEXAGON"} \union {"CUBE12"}
  BY ShapesAssumption
<1>2. /\ size \in [1 .. 3 -> 1 .. MaxSide]
      /\ \A n \in 1 .. 3 : IF n > Dimension(topology) THEN size[n] = 1
                           ELSE size[n] % Period(topology)[n] = 0
  BY DEF Fits
<1>3. size \in [1 .. 3 -> Nat \ {0}]
  BY <1>2, ShapesAssumption
<1>4. ASSUME NEW b \in CellsOf(size), NEW c \in CellsOf(size), b \in Near(topology, size, c)
      PROVE  c \in Near(topology, size, b)
  <2>1. CASE topology = "CUBE12"
    <3>1. size[1] % 2 = 0 /\ size[2] % 2 = 0
      BY <1>2, <2>1 DEF Dimension, Period
    <3> QED BY <1>3, <1>4, <2>1, <3>1, MutualInSpace
  <2>2. CASE topology # "CUBE12"
    <3>1. size[3] = 1 /\ (topology = "HEXAGON" => size[1] % 2 = 0)
      BY <1>2, <2>2 DEF Dimension, Period
    <3>2. topology \in {"SQUARE4", "SQUARE8", "SQUARE24", "HEXAGON"}
      BY <1>1, <2>2
    <3> QED BY <1>3, <1>4, <3>1, <3>2, MutualInPlane
  <2> QED BY <2>1, <2>2
<1>5. PICK shape \in Topologies \X [1 .. 3 -> 1 .. MaxSide] : shape = <<topology, size>>
  BY <1>2
<1>6. shape[1] = topology /\ shape[2] = size
  BY <1>5
<1> QED BY <1>4, <1>5, <1>6 DEF MutualShapes

\* Sizes are multiples of the period.
LEMMA RoundedToPeriod ==
  ASSUME NEW i \in Nat, NEW period \in {1, 2}
  PROVE  Rounded(i, period) \in Nat \ {0} /\ Rounded(i, period) % period = 0
<1>1. CASE period = 1
  BY <1>1 DEF Rounded
<1>2. CASE period = 2
  BY <1>2 DEF Rounded
<1> QED BY <1>1, <1>2

\* GetIndex gives numbers.
LEMMA IndexIsNumber ==
  ASSUME NEW r \in Requests, NEW n \in 1 .. 3
  PROVE  GetIndex(r)[n] \in Nat
<1>1. r.cell \in [1 .. 3 -> Nat] /\ r.cellsPerMeter \in Nat \ {0}
  BY RequestsAssumption
<1> DEFINE half(p) == (p + r.cellsPerMeter - 1) \div 2
<1>2. \A p \in {0, 1} : half(p) \in Nat
  BY <1>1
<1>3. (r.cell[1] + r.cell[2]) % 2 \in {0, 1}
  BY <1>1
<1>4. GetIndex(r) = IF r.topology # "CUBE12" THEN r.cell
                    ELSE <<r.cell[1] + half(0), r.cell[2] + half(0),
                           r.cell[3] + half((r.cell[1] + r.cell[2]) % 2)>>
  BY DEF GetIndex
<1> HIDE DEF half
<1> QED BY <1>1, <1>2, <1>3, <1>4

\* The preprocessor's lattices have the shape of their topology.
LEMMA NewFits ==
  ASSUME NEW r \in Requests
  PROVE  Fits(r.topology, LatticeSize(r))
<1> DEFINE size == LatticeSize(r)
<1>1. size = [n \in 1 .. 3 |-> IF n > Dimension(r.topology) THEN 1
                               ELSE Rounded(GetIndex(r)[n], Period(r.topology)[n])]
  BY DEF LatticeSize
<1>2. ASSUME NEW n \in 1 .. 3
      PROVE  /\ size[n] \in 1 .. MaxSide
             /\ IF n > Dimension(r.topology) THEN size[n] = 1
                ELSE size[n] % Period(r.topology)[n] = 0
  <2>1. size[n] <= MaxSide /\ MaxSide \in Nat
    BY ShapesAssumption
  <2>2. CASE n > Dimension(r.topology)
    BY <1>1, <2>1, <2>2
  <2>3. CASE ~(n > Dimension(r.topology))
    <3>1. PICK period \in {1, 2} : period = Period(r.topology)[n]
      BY DEF Period
    <3>2. PICK index \in Nat : index = GetIndex(r)[n]
      BY IndexIsNumber
    <3>3. Rounded(index, period) \in Nat \ {0} /\ Rounded(index, period) % period = 0
      BY RoundedToPeriod
    <3>4. size[n] = Rounded(index, period)
      BY <1>1, <2>3, <3>1, <3>2
    <3> HIDE DEF size
    <3> QED BY <2>1, <2>3, <3>1, <3>3, <3>4
  <2> QED BY <2>2, <2>3
<1>3. size \in [1 .. 3 -> 1 .. MaxSide]
  BY <1>1, <1>2
<1>4. r.topology = "SQUARE24" => size[1] >= 5 /\ size[2] >= 5
  BY ShapesAssumption
<1> QED BY <1>2, <1>3, <1>4 DEF Fits

\* A simulator iterates only over lattices whose cells see each other.
THEOREM LatticesMutual == Spec => []NeighborsMutual
<1>1. Init => ShapesInv
  BY ShapesAssumption DEF Init, ShapesInv, At
<1>2. TypeOK /\ IInv /\ ShapesInv /\ [Next]_vars => ShapesInv'
  <2> SUFFICES ASSUME TypeOK, IInv, ShapesInv, [Next]_vars PROVE ShapesInv'
    OBVIOUS
  <2>1. CASE FileStep /\ UNCHANGED programVars
    <3>1. CASE OpenWrite
      BY <3>1 DEF OpenWrite, ShapesInv, At, Goto, Digest, lattice
    <3>2. CASE ~OpenWrite
      <4>1. given' = given /\ pc' \notin {"iterate", "save"}
        BY <2>1, <3>2 DEF FileStep, OpenRead, ReadHeader, NoHeader, ReadFragment, ReadDigest,
           ReadFails, WriteHeader, WriteSizes, WriteData, CompressFails,
           WriteDigest, Close, FragmentDone, At, Goto
      <4> QED BY <4>1 DEF ShapesInv, At
    <3> QED BY <3>1, <3>2
  <2>2. CASE \E p \in {"prep", "sim", "post"}, b \in Topologies : Start(p, b)
    BY <2>2 DEF Start, ShapesInv, At, Goto
  <2>3. CASE \E r \in Requests : Create(r)
    <3>1. PICK r \in Requests : Create(r)
      BY <2>3
    <3>2. pc' = "save" /\ given' = given /\ header' = NewHeader(r)
      BY <3>1 DEF Create, Goto
    <3>3. header'.topology = r.topology /\ header'.size = LatticeSize(r)
      BY <3>2 DEF NewHeader
    <3> QED BY <3>2, <3>3, NewFits DEF ShapesInv, At
  <2>4. CASE \E code : Gone(code)
    BY <2>4 DEF Gone, ShapesInv, At, Goto
  <2>5. CASE InitSimulator
    <3>1. CASE \E code : Exit(code)
      BY <3>1, <2>4 DEF Exit
    <3>2. CASE ~\E code : Exit(code)
      <4>1. /\ At("loaded") /\ flag = 0 /\ header.topology = build
            /\ pc' = "iterate" /\ UNCHANGED <<header, given, build>>
        BY <2>5, <3>2 DEF InitSimulator, Goto, lattice, programVars
      <4>2. header = given.header
        BY <4>1 DEF IInv, LoadInv, Digest
      <4>3. build # "NONE"
        BY ShapesAssumption DEF TypeOK
      <4>4. given # NoLattice
        BY <4>1, <4>2, <4>3 DEF NoLattice, Digest
      <4> QED BY <4>1, <4>2, <4>4 DEF ShapesInv, At
    <3> QED BY <3>1, <3>2
  <2>6. CASE Iterate
    <3>1. At("iterate") /\ UNCHANGED <<pc, given, build>>
      BY <2>6 DEF Iterate, programVars
    <3>2. header \in Headers
      BY <3>1 DEF IInv, LoadInv, IsLattice, Digest
    <3>3. header' = [header EXCEPT !.iterationsDone = @ + 1]
      BY <2>6 DEF Iterate
    <3>4. header'.topology = header.topology /\ header'.size = header.size
      BY <3>2, <3>3 DEF Headers
    <3> QED BY <3>1, <3>4 DEF ShapesInv, At
  <2>7. CASE FinalizeSimulator
    BY <2>7 DEF FinalizeSimulator, ShapesInv, At, Goto, lattice, programVars
  <2>8. CASE (Flush \/ DiskFills \/ Damage) /\ UNCHANGED programVars
    BY <2>8 DEF Flush, DiskFills, Damage, ShapesInv, At, lattice, programVars
  <2>9. CASE UNCHANGED vars
    BY <2>9 DEF vars, fileVars, ShapesInv, At
  <2> QED
    BY <2>1, <2>2, <2>3, <2>4, <2>5, <2>6, <2>7, <2>8, <2>9
    DEF Next, ProgramStep, Crash, CreateRefused, SaveAborts, LoadAborts, Finalize, Postprocess, Exit,
        Damage
<1>3. TypeOK /\ ShapesInv => NeighborsMutual
  <2> SUFFICES ASSUME TypeOK, ShapesInv, At("iterate")
               PROVE  <<build, header.size>> \in MutualShapes
    BY DEF NeighborsMutual
  <2> QED BY FittingIsMutual DEF ShapesInv, TypeOK
<1> QED
  BY <1>1, <1>2, <1>3, Inductive, TypesInductive, PTL DEF Spec

=============================================================================
