-------------------------- MODULE ParallelLoadProofs --------------------------
(***************************************************************************)
(* Every rank gets its part of the file, for any number of ranks and any   *)
(* fragments: the root's cursor and those of the ranks run over the file   *)
(* in step, and no message of the load is left over.                       *)
(***************************************************************************)
EXTENDS ParallelLoad, PartitionProofs, SequenceTheorems

-----------------------------------------------------------------------------
(* Parts and files *)

LEMMA ProductOfNats ==
  /\ \A a, b \in Nat : a * b \in Nat
  /\ \A a, b \in Nat \ {0} : a * b \in Nat \ {0}
  /\ \A a, b, c \in Nat : (a + b) * c = a * c + b * c
PROOF
<1>1. \A a, b \in Nat : a * b \in Nat
  OBVIOUS
<1>2. \A a, b \in Nat \ {0} : a * b \in Nat \ {0}
  OBVIOUS
<1>3. \A a, b, c \in Nat : (a + b) * c = a * c + b * c
  OBVIOUS
<1> QED
  BY <1>1, <1>2, <1>3

\* No part is empty, and a part begins where the one before it ends.
LEMMA PartFacts ==
  /\ \A r \in Ranks : Part(r) \in Nat \ {0} /\ Begin(r) \in Nat
  /\ \A r \in Ranks : r + 1 \in Ranks => Begin(r + 1) = Begin(r) + Part(r)
  /\ Begin(0) = 0
  /\ Begin(ProcSize - 1) + Part(ProcSize - 1) = SizeI * RowSize
PROOF
<1>1. /\ SizeI \in Nat /\ PeriodI \in Nat \ {0} /\ RowSize \in Nat \ {0}
      /\ SizeI % PeriodI = 0 /\ SizeI \div PeriodI >= ProcSize
      /\ ProcSize \in Nat /\ ProcSize > 1
  BY SizeAssumption, ProcSizeAssumption
<1>2. /\ PartBegin(SizeI, 0, PeriodI) = 0
      /\ \A r \in Ranks : PartBegin(SizeI, r + 1, PeriodI)
                            = PartBegin(SizeI, r, PeriodI) + PartSize(SizeI, r, PeriodI)
      /\ PartBegin(SizeI, ProcSize, PeriodI) = SizeI
  BY <1>1, PartsCoverLattice
<1> DEFINE b == Base(SizeI, PeriodI)
           l == Left(SizeI, PeriodI)
<1>3. b \in Nat \ {0} /\ l \in Nat
  <2>1. /\ b \in Nat /\ l \in 0 .. ProcSize - 1
        /\ SizeI \div PeriodI = ProcSize * b + l
    BY <1>1, Shares
  <2>2. b # 0
    <3> SUFFICES ASSUME b = 0 PROVE FALSE
      OBVIOUS
    <3>1. ProcSize * b = 0
      BY <1>1
    <3> HIDE DEF b, l
    <3> QED
      BY <1>1, <2>1, <3>1
  <2> HIDE DEF b, l
  <2> QED
    BY <1>1, <2>1, <2>2
<1>4. ASSUME NEW r \in Ranks
      PROVE  /\ PartSize(SizeI, r, PeriodI) \in Nat \ {0}
             /\ PartBegin(SizeI, r, PeriodI) \in Nat
  <2> DEFINE share == b + (IF r < l THEN 1 ELSE 0)
             before == b * r + (IF r < l THEN r ELSE l)
  <2>1. r \in Nat
    BY <1>1 DEF Ranks
  <2>2. share \in Nat \ {0}
    <3> HIDE DEF b, l
    <3> QED
      BY <1>3, <2>1
  <2>3. before \in Nat
    <3> HIDE DEF b, l
    <3>1. b * r \in Nat
      BY <1>3, <2>1, ProductOfNats
    <3> QED
      BY <1>3, <2>1, <3>1
  <2>4. /\ PartSize(SizeI, r, PeriodI) = share * PeriodI
        /\ PartBegin(SizeI, r, PeriodI) = before * PeriodI
    BY DEF PartSize, PartBegin
  <2> HIDE DEF share, before
  <2> QED
    BY <1>1, <2>2, <2>3, <2>4, ProductOfNats
<1>5. \A r \in Ranks : Part(r) \in Nat \ {0} /\ Begin(r) \in Nat
  BY <1>1, <1>4, ProductOfNats DEF Part, Begin
<1>6. ASSUME NEW r \in Ranks
      PROVE  PartBegin(SizeI, r + 1, PeriodI) * RowSize = Begin(r) + Part(r)
  BY <1>1, <1>2, <1>4, ProductOfNats DEF Part, Begin
<1>7. \A r \in Ranks : r + 1 \in Ranks => Begin(r + 1) = Begin(r) + Part(r)
  BY <1>6 DEF Begin
<1>8. Begin(0) = 0
  BY <1>1, <1>2 DEF Begin
<1>9. Begin(ProcSize - 1) + Part(ProcSize - 1) = SizeI * RowSize
  <2>1. ProcSize - 1 \in Ranks /\ (ProcSize - 1) + 1 = ProcSize
    BY <1>1 DEF Ranks
  <2> QED
    BY <1>2, <1>6, <2>1
<1> QED
  BY <1>5, <1>7, <1>8, <1>9

\* Fragments follow each other in the file.
LEMMA FileFacts ==
  ASSUME file \in Files
  PROVE  /\ Fragments \in Nat
         /\ \A n \in 1 .. Fragments :
              /\ Offset(n) \in Nat /\ file.ends[n] \in Nat /\ Offset(n) <= file.ends[n]
              /\ Size(n) \in Nat /\ Size(n) = file.ends[n] - Offset(n)
              /\ Decoded(n) \in Nat /\ Decoded(n) <= Size(n)
              /\ SizesTrue => Decoded(n) = Size(n)
         /\ \A n \in 1 .. Fragments : Offset(n + 1) = file.ends[n]
         /\ Offset(1) = 0
PROOF
<1>1. /\ file.ends \in Seq(Nat) /\ file.lacks \in Seq(Nat)
      /\ Len(file.lacks) = Fragments
      /\ \A n \in 1 .. Fragments : file.lacks[n] <= file.ends[n] - Offset(n)
  BY FilesAssumption DEF Fragments, Offset
<1>2. /\ Fragments \in Nat
      /\ \A n \in 1 .. Fragments : file.ends[n] \in Nat /\ file.lacks[n] \in Nat
  BY <1>1, LenProperties, ElementOfSeq DEF Fragments
<1>3. ASSUME NEW n \in 1 .. Fragments
      PROVE  /\ Offset(n) \in Nat /\ Offset(n) <= file.ends[n]
             /\ Size(n) \in Nat
             /\ Decoded(n) \in Nat /\ Decoded(n) <= Size(n)
             /\ SizesTrue => Decoded(n) = Size(n)
  <2>1. Offset(n) \in Nat
    <3>1. CASE n = 1
      BY <3>1 DEF Offset, BeginOf
    <3>2. CASE n # 1
      <4>1. n - 1 \in 1 .. Fragments
        BY <1>2, <3>2
      <4> QED
        BY <1>2, <3>2, <4>1 DEF Offset, BeginOf
    <3> QED
      BY <3>1, <3>2
  <2>2. PICK o, e, l : o = Offset(n) /\ e = file.ends[n] /\ l = file.lacks[n]
    OBVIOUS
  <2>3. o \in Nat /\ e \in Nat /\ l \in Nat /\ l <= e - o
    BY <1>1, <1>2, <2>1, <2>2
  <2>4. Size(n) = e - o /\ Decoded(n) = (e - o) - l
    BY <2>2 DEF Size, Decoded
  <2>5. SizesTrue => l = 0
    BY <2>2 DEF SizesTrue
  <2> QED
    BY <2>1, <2>2, <2>3, <2>4, <2>5
<1>4. \A n \in 1 .. Fragments : Offset(n + 1) = file.ends[n]
  BY <1>2 DEF Offset, BeginOf
<1>5. Offset(1) = 0
  BY DEF Offset, BeginOf
<1> QED
  BY <1>2, <1>3, <1>4, <1>5 DEF Size

-----------------------------------------------------------------------------
(* What does not concern the messages of a rank leaves its invariant alone *)

LEMMA RankFacts ==
  /\ 0 \in Ranks /\ 1 \in Ranks /\ ProcSize - 1 \in Ranks /\ ProcSize - 1 > 0
  /\ \A r \in Ranks : r \in Nat /\ r <= ProcSize - 1
  /\ \A r \in Ranks \ {0} : r > 0
PROOF
  BY SizeAssumption, ProcSizeAssumption DEF Ranks

LEMMA AheadSame ==
  ASSUME UNCHANGED <<file, read, fragCursor, dest, wants>>, cursor'[0] = cursor[0],
         Filling' <=> Filling
  PROVE  Reached' = Reached /\ Ahead' = Ahead
PROOF
<1>1. Reached' = Reached
  BY DEF Reached, Offset, BeginOf
<1>2. Begin(dest)' = Begin(dest) /\ Part(dest)' = Part(dest)
  BY DEF Begin, Part
<1> QED
  BY <1>1, <1>2 DEF Ahead

LEMMA ChannelSame ==
  ASSUME NEW r \in Ranks \ {0}, ChannelInv(r),
         UNCHANGED file, channel'[r] = channel[r], cursor'[r] = cursor[r],
         Sent(r)' = Sent(r), Ahead' = Ahead
  PROVE  ChannelInv(r)'
PROOF
<1>1. Place(r)' = Place(r)
  BY DEF Place
<1>2. Fragments' = Fragments /\ \A x : Start(x)' = Start(x) /\ End(x)' = End(x)
  BY DEF Start, End, Offset, BeginOf, Fragments
<1> QED
  BY <1>1, <1>2 DEF ChannelInv, Least

LEMMA ReachedType ==
  ASSUME IInv
  PROVE  Reached \in Nat
PROOF
<1>1. CASE read = 0
  BY <1>1 DEF Reached
<1>2. CASE read # 0
  <2>1. read \in 1 .. Fragments /\ fragCursor \in Nat
    BY <1>2, FileFacts DEF IInv, TypeOK
  <2>2. Offset(read) \in Nat
    BY <2>1, FileFacts DEF IInv, TypeOK
  <2> QED
    BY <1>2, <2>1, <2>2 DEF Reached
<1> QED
  BY <1>1, <1>2

\* Steps that copy nothing and send nothing.
LEMMA NothingMoves ==
  ASSUME IInv, UNCHANGED <<file, border, read, fragCursor, dest, cursor, wants, array, channel>>,
         posted' \subseteq Ranks, aborted' \in BOOLEAN,
         pc' \in [Ranks -> {"header", "fill", "receive", "send", "sending", "verify",
                            "exchange", "unread", "loaded", "simulate"}],
         \/ pc'[0] = pc[0]
         \/ pc[0] = "header" /\ pc'[0] = "fill"
         \/ pc[0] = "sending" /\ pc'[0] = "send"
         \/ /\ pc[0] \in {"verify", "exchange", "unread", "loaded"}
            /\ pc'[0] \in {"exchange", "unread", "loaded", "simulate"},
         \A r \in Ranks \ {0} :
           \/ pc'[r] = pc[r]
           \/ pc[r] = "header" /\ pc'[r] = "receive"
           \/ cursor[r] = Part(r) /\ pc'[r] \in {"exchange", "loaded", "simulate"}
  PROVE  IInv'
PROOF
<1>1. TypeOK'
  BY DEF IInv, TypeOK, Fragments
<1>2. PartsInPlace'
  BY DEF IInv, PartsInPlace, SizesTrue, Fragments
<1>3. Filling' <=> Filling
  BY DEF Filling
<1>4. Reached' = Reached /\ Ahead' = Ahead
  BY <1>3, AheadSame
<1>5. RootInv'
  <2>1. /\ Size(read)' = Size(read) /\ Decoded(read)' = Decoded(read)
        /\ SizesTrue' = SizesTrue
    BY DEF Size, Decoded, Offset, BeginOf, SizesTrue, Fragments
  <2>2. /\ pc'[0] \in {"header", "fill", "send", "sending", "verify", "exchange", "unread",
                       "loaded", "simulate"}
        /\ pc'[0] = "header" => pc[0] = "header"
        /\ pc'[0] \notin {"header", "fill", "send", "sending"} =>
             pc[0] \notin {"header", "fill", "send", "sending"}
    BY DEF IInv, RootInv
  <2> HIDE DEF Filling
  <2> QED
    BY <1>3, <1>4, <2>1, <2>2 DEF IInv, RootInv
<1>6. ASSUME NEW r \in Ranks \ {0}
      PROVE  RankInv(r)'
  <2>1. ChannelInv(r)'
    BY <1>4, ChannelSame DEF IInv, RankInv, Sent
  <2> QED
    BY <2>1 DEF IInv, RankInv
<1> QED
  BY <1>1, <1>2, <1>5, <1>6 DEF IInv

\* The copy of count units from where the rank has got to, which are the next of
\* its part.
LEMMA CopyKeeps ==
  ASSUME IInv, UNCHANGED file,
         NEW r \in Ranks, NEW n \in 1 .. Fragments, NEW offset \in Nat, NEW count \in Nat,
         Copy(r, n, offset, count),
         cursor[r] + count <= Part(r),
         offset + count <= Size(n),
         SizesTrue => Offset(n) + offset = Begin(r) + cursor[r]
  PROVE  /\ PartsInPlace'
         /\ cursor' = [cursor EXCEPT ![r] = @ + count]
         /\ cursor' \in [Ranks -> Nat]
         /\ \A s \in Ranks : array'[s] \in [0 .. Part(s) - 1 -> Nat \union {Junk}]
         /\ DOMAIN array' = Ranks
PROOF
<1>1. /\ cursor \in [Ranks -> Nat] /\ DOMAIN array = Ranks
      /\ \A s \in Ranks : array[s] \in [0 .. Part(s) - 1 -> Nat \union {Junk}]
      /\ \A s \in Ranks : Part(s) \in Nat \ {0} /\ Begin(s) \in Nat
  BY PartFacts DEF IInv, TypeOK
<1>2. /\ cursor' = [cursor EXCEPT ![r] = @ + count]
      /\ cursor'[r] = cursor[r] + count /\ cursor' \in [Ranks -> Nat]
      /\ \A s \in Ranks \ {r} : cursor'[s] = cursor[s]
  BY <1>1 DEF Copy
<1>0. /\ Offset(n) \in Nat /\ Decoded(n) \in Nat
      /\ SizesTrue => Decoded(n) = Size(n)
  BY FileFacts DEF IInv, TypeOK
<1>3. /\ \A s \in Ranks \ {r} : array'[s] = array[s]
      /\ array'[r] = [k \in 0 .. Part(r) - 1 |->
                        IF k \notin cursor[r] .. cursor[r] + count - 1 THEN array[r][k]
                        ELSE IF offset + k - cursor[r] < Decoded(n)
                               THEN Offset(n) + offset + k - cursor[r]
                        ELSE Junk]
  BY <1>1 DEF Copy
<1>4. ASSUME NEW k \in 0 .. Part(r) - 1
      PROVE  /\ array'[r][k] \in Nat \union {Junk}
             /\ SizesTrue /\ k < cursor[r] + count => array'[r][k] = Begin(r) + k
  <2>1. CASE k \in cursor[r] .. cursor[r] + count - 1
    <3>1. array'[r][k] = IF offset + k - cursor[r] < Decoded(n)
                           THEN Offset(n) + offset + k - cursor[r] ELSE Junk
      BY <1>3, <2>1
    <3>2. PICK c, b, o, z : c = cursor[r] /\ b = Begin(r) /\ o = Offset(n) /\ z = Decoded(n)
      OBVIOUS
    <3>3. c \in Nat /\ b \in Nat /\ o \in Nat /\ z \in Nat /\ k \in c .. c + count - 1
      BY <1>0, <1>1, <2>1, <3>2
    <3>4. array'[r][k] = IF offset + k - c < z THEN o + offset + k - c ELSE Junk
      BY <3>1, <3>2
    <3>5. o + offset + k - c \in Nat
      BY ONLY <3>3, offset \in Nat, count \in Nat
    <3>6. SizesTrue => offset + k - c < z /\ o + offset + k - c = b + k
      <4> SUFFICES ASSUME SizesTrue PROVE offset + k - c < z /\ o + offset + k - c = b + k
        OBVIOUS
      <4>1. o + offset = b + c /\ offset + count <= z
        BY <1>0, <3>2
      <4> QED
        BY ONLY <3>3, <4>1, offset \in Nat, count \in Nat
    <3>7. array'[r][k] \in Nat \union {Junk}
      BY ONLY <3>4, <3>5
    <3>8. SizesTrue => array'[r][k] = b + k
      BY ONLY <3>4, <3>6
    <3> QED
      BY <3>2, <3>7, <3>8
  <2>2. CASE k \notin cursor[r] .. cursor[r] + count - 1
    <3>1. array'[r][k] = array[r][k]
      BY <1>3, <2>2
    <3>2. k < cursor[r] + count => k \in 0 .. cursor[r] - 1
      BY <1>1, <2>2
    <3> QED
      BY <1>1, <3>1, <3>2 DEF IInv, PartsInPlace
  <2> QED
    BY <2>1, <2>2
<1>5. PartsInPlace'
  <2>0. SizesTrue' <=> SizesTrue
    BY DEF SizesTrue, Fragments
  <2> SUFFICES ASSUME NEW s \in Ranks
               PROVE  /\ cursor'[s] <= Part(s)
                      /\ SizesTrue => \A k \in 0 .. cursor'[s] - 1 : array'[s][k] = Begin(s) + k
    BY <2>0 DEF PartsInPlace
  <2>1. CASE s = r
    <3>1. \A k \in 0 .. cursor'[r] - 1 : k \in 0 .. Part(r) - 1 /\ k < cursor[r] + count
      BY <1>1, <1>2
    <3>2. cursor'[r] <= Part(r)
      BY <1>2
    <3>3. SizesTrue => \A k \in 0 .. cursor'[r] - 1 : array'[r][k] = Begin(r) + k
      BY <1>4, <3>1
    <3> QED
      BY <2>1, <3>2, <3>3
  <2>2. CASE s # r
    <3>1. s \in Ranks \ {r} /\ cursor'[s] = cursor[s] /\ array'[s] = array[s]
      BY <1>2, <1>3, <2>2
    <3>2. /\ cursor[s] <= Part(s)
          /\ SizesTrue => \A k \in 0 .. cursor[s] - 1 : array[s][k] = Begin(s) + k
      BY DEF IInv, PartsInPlace
    <3> QED
      BY ONLY <3>1, <3>2
  <2> QED
    BY <2>1, <2>2
<1>6. \A s \in Ranks : array'[s] \in [0 .. Part(s) - 1 -> Nat \union {Junk}]
  <2>1. array'[r] \in [0 .. Part(r) - 1 -> Nat \union {Junk}]
    BY <1>3, <1>4
  <2> QED
    BY <1>1, <1>3, <2>1
<1>7. DOMAIN array' = Ranks
  BY <1>1 DEF Copy
<1> QED
  BY <1>2, <1>5, <1>6, <1>7

-----------------------------------------------------------------------------
(* The steps of the load *)

LEMMA InitEstablishes == Init => IInv
PROOF
<1> SUFFICES ASSUME Init PROVE IInv
  OBVIOUS
<1>1. TypeOK
  <2>1. Fragments \in Nat
    BY FileFacts DEF Init
  <2>2. channel \in [Ranks -> Seq([fragment : Nat \ {0}, offset : Nat])]
    BY EmptySeq DEF Init
  <2>3. \A r \in Ranks : array[r] \in [0 .. Part(r) - 1 -> Nat \union {Junk}]
    BY DEF Init
  <2>4. /\ cursor \in [Ranks -> Nat] /\ DOMAIN array = Ranks
        /\ pc \in [Ranks -> {"header", "fill", "receive", "send", "sending", "verify",
                             "exchange", "unread", "loaded", "simulate"}]
    BY DEF Init
  <2>5. /\ file \in Files /\ border \in Borders
        /\ read \in 0 .. Fragments /\ fragCursor \in Nat
        /\ dest \in Ranks /\ wants \in Nat /\ posted \subseteq Ranks
    BY <2>1, RankFacts DEF Init
  <2>6. aborted \in BOOLEAN
    BY Zenon DEF Init
  <2> QED
    BY <2>2, <2>3, <2>4, <2>5, <2>6 DEF TypeOK
<1>2. PartsInPlace
  BY PartFacts DEF Init, PartsInPlace
<1>3. RootInv
  <2>1. Filling /\ pc[0] = "header" /\ read = 0 /\ cursor[0] = 0 /\ Reached = 0
    BY RankFacts DEF Init, Filling, Reached
  <2>2. Ahead = 0
    BY <2>1 DEF Ahead
  <2>3. Part(0) \in Nat /\ dest = 0 /\ wants = 0
    BY PartFacts, RankFacts DEF Init
  <2>4. \A r \in Ranks : cursor[r] = 0 /\ channel[r] = << >>
    BY DEF Init
  <2> QED
    BY <2>1, <2>2, <2>3, <2>4, RankFacts DEF RootInv
<1>4. ASSUME NEW r \in Ranks \ {0}
      PROVE  RankInv(r)
  <2>1. channel[r] = << >> /\ cursor[r] = 0 /\ Len(channel[r]) = 0 /\ Sent(r) = 0
    BY RankFacts DEF Init, Sent
  <2>2. ChannelInv(r)
    BY <2>1 DEF ChannelInv
  <2> QED
    BY <2>2 DEF Init, RankInv
<1> QED
  BY <1>1, <1>2, <1>3, <1>4 DEF IInv

LEMMA FillKeeps ==
  ASSUME IInv, Fill
  PROVE  IInv'
PROOF
<1> DEFINE n == read + 1
           toCopy == Least(Decoded(n), Part(0) - cursor[0])
<1>1. /\ pc[0] = "fill" /\ cursor[0] < Part(0) /\ n <= Fragments
      /\ read' = n /\ fragCursor' = toCopy
      /\ Copy(0, n, 0, toCopy)
      /\ UNCHANGED <<file, border, dest, wants, channel, posted, pc, aborted>>
  BY DEF Fill, At
<1>2. Filling /\ Filling'
  BY <1>1 DEF Filling
<1>3. /\ file \in Files /\ read \in Nat /\ cursor[0] \in Nat /\ Part(0) \in Nat
      /\ Begin(0) = 0 /\ dest = 0 /\ wants = 0
      /\ Reached - cursor[0] \in Nat /\ (SizesTrue => Reached - cursor[0] = 0)
      /\ read > 0 => fragCursor = Decoded(read)
      /\ \A r \in Ranks \ {0} : cursor[r] = 0 /\ channel[r] = << >>
  <2>1. Ahead = Reached - cursor[0]
    BY <1>2 DEF Ahead
  <2>2. /\ file \in Files /\ read \in Nat /\ cursor[0] \in Nat /\ Part(0) \in Nat
        /\ Begin(0) = 0
    BY FileFacts, PartFacts, RankFacts DEF IInv, TypeOK
  <2> HIDE DEF n
  <2> QED
    BY <1>1, <1>2, <2>1, <2>2 DEF IInv, RootInv
<1>4. /\ n \in 1 .. Fragments
      /\ Offset(n) \in Nat /\ Size(n) \in Nat /\ Decoded(n) \in Nat
      /\ Decoded(n) <= Size(n) /\ (SizesTrue => Decoded(n) = Size(n))
      /\ Offset(1) = 0
      /\ read > 0 => /\ Offset(n) = file.ends[read] /\ Size(read) = file.ends[read] - Offset(read)
                     /\ Offset(read) \in Nat /\ file.ends[read] \in Nat
                     /\ Decoded(read) \in Nat /\ Decoded(read) <= Size(read)
                     /\ SizesTrue => Decoded(read) = Size(read)
  BY <1>1, <1>3, FileFacts
<1>5. Offset(n) - cursor[0] \in Nat /\ (SizesTrue => Offset(n) = cursor[0])
  <2>1. CASE read = 0
    <3>1. Reached = 0 /\ n = 1
      BY <2>1 DEF Reached
    <3> QED
      BY <1>3, <1>4, <3>1
  <2>2. CASE read > 0
    <3>1. Reached = Offset(read) + Decoded(read)
      BY <1>3, <2>2 DEF Reached
    <3> QED
      BY <1>3, <1>4, <2>2, <3>1
  <2> QED
    BY <1>3, <2>1, <2>2
<1>6. /\ toCopy \in Nat /\ cursor[0] + toCopy <= Part(0) /\ toCopy <= Decoded(n)
      /\ cursor[0] + toCopy < Part(0) => toCopy = Decoded(n)
  BY <1>1, <1>3, <1>4 DEF Least
<1> HIDE DEF toCopy
<1>7. /\ PartsInPlace' /\ cursor'[0] = cursor[0] + toCopy /\ cursor' \in [Ranks -> Nat]
      /\ \A s \in Ranks \ {0} : cursor'[s] = cursor[s]
      /\ \A s \in Ranks : array'[s] \in [0 .. Part(s) - 1 -> Nat \union {Junk}]
      /\ DOMAIN array' = Ranks
  <2>1. /\ SizesTrue => Offset(n) + 0 = Begin(0) + cursor[0]
        /\ 0 + toCopy <= Size(n)
    BY <1>3, <1>4, <1>5, <1>6
  <2> HIDE DEF n
  <2>2. /\ PartsInPlace'
        /\ cursor' = [cursor EXCEPT ![0] = @ + toCopy]
        /\ cursor' \in [Ranks -> Nat]
        /\ \A s \in Ranks : array'[s] \in [0 .. Part(s) - 1 -> Nat \union {Junk}]
        /\ DOMAIN array' = Ranks
    BY <1>1, <1>4, <1>6, <2>1, CopyKeeps, RankFacts
  <2>3. cursor \in [Ranks -> Nat] /\ 0 \in Ranks
    BY RankFacts DEF IInv, TypeOK
  <2>4. cursor'[0] = cursor[0] + toCopy /\ \A s \in Ranks \ {0} : cursor'[s] = cursor[s]
    BY <2>2, <2>3
  <2> QED
    BY <2>2, <2>4
<1>8. TypeOK'
  <2>1. Fragments' = Fragments /\ read' \in 0 .. Fragments
    BY <1>1, <1>3 DEF Fragments
  <2> QED
    BY <1>1, <1>6, <1>7, <2>1 DEF IInv, TypeOK
<1>9. RootInv'
  <2>1. /\ Size(read)' = Size(n) /\ Decoded(read)' = Decoded(n)
        /\ SizesTrue' <=> SizesTrue
    BY <1>1 DEF Offset, BeginOf, Size, Decoded, SizesTrue, Fragments
  <2>2. Reached' = Offset(n) + toCopy
    BY <1>1, <1>3 DEF Reached, Offset, BeginOf
  <2>3. Ahead' = Offset(n) - cursor[0]
    <3>1. Ahead' = Reached' - cursor'[0]
      BY <1>2 DEF Ahead
    <3> HIDE DEF n
    <3> QED
      BY <1>3, <1>4, <1>6, <1>7, <2>2, <3>1
  <2>4. /\ pc'[0] = "fill" /\ dest' = 0 /\ wants' = 0 /\ channel' = channel
        /\ wants' <= Part(dest')
    BY <1>1, <1>3
  <2>5. fragCursor' <= Size(read)' /\ (cursor'[0] < Part(0) => fragCursor' = Decoded(read)')
    BY <1>1, <1>4, <1>6, <1>7, <2>1
  <2>6. cursor'[0] <= Part(0)
    BY <1>6, <1>7
  <2>7. channel[0] = << >>
    BY DEF IInv, RootInv
  <2>8. Ahead' \in Nat /\ (SizesTrue' => Ahead' = 0)
    <3> HIDE DEF n
    <3> QED
      BY <1>3, <1>4, <1>5, <2>1, <2>3
  <2>9. \A r \in Ranks \ {0} : cursor'[r] = 0 /\ channel'[r] = << >>
    BY <1>1, <1>3, <1>7
  <2> HIDE DEF n
  <2> QED
    BY <1>2, <2>4, <2>5, <2>6, <2>7, <2>8, <2>9 DEF RootInv
<1>10. ASSUME NEW r \in Ranks \ {0}
       PROVE  RankInv(r)'
  <2>1. /\ channel'[r] = << >> /\ cursor'[r] = 0 /\ Len(channel'[r]) = 0
        /\ Sent(r)' = 0
    <3>1. dest' = 0 /\ r > 0 /\ r \in Nat
      BY <1>1, <1>3, RankFacts
    <3>2. Sent(r)' = 0
      BY <3>1 DEF Sent
    <3>3. channel'[r] = << >> /\ cursor'[r] = 0
      BY <1>1, <1>3, <1>7
    <3> QED
      BY <3>2, <3>3
  <2>2. ChannelInv(r)'
    <3>1. PICK c : c = channel'[r]
      OBVIOUS
    <3>2. c = << >> /\ 1 .. Len(c) = {} /\ 1 .. Len(c) - 1 = {}
      BY <2>1, <3>1
    <3> QED
      BY <2>1, <3>1, <3>2 DEF ChannelInv
  <2>3. cursor'[r] = cursor[r] /\ pc'[r] = pc[r]
    BY <1>1, <1>7
  <2> QED
    BY <2>2, <2>3 DEF IInv, RankInv
<1> QED
  BY <1>7, <1>8, <1>9, <1>10 DEF IInv

LEMMA NextRankKeeps ==
  ASSUME IInv, NextRank
  PROVE  IInv'
PROOF
<1>1. /\ UNCHANGED <<file, border, read, fragCursor, cursor, array, channel, posted, aborted>>
      /\ pc[0] \in {"fill", "send"}
      /\ pc[0] = "fill" => cursor[0] = Part(0)
      /\ pc[0] = "send" => wants = 0
  BY DEF NextRank, At
<1>2. /\ dest \in Ranks /\ dest \in Nat /\ cursor[0] \in Nat /\ wants = 0
      /\ \A r \in Ranks : Part(r) \in Nat \ {0} /\ Begin(r) \in Nat
      /\ Begin(0) = 0
      /\ Ahead \in Nat /\ Reached \in Nat
  BY <1>1, PartFacts, RankFacts, ReachedType DEF IInv, TypeOK, RootInv, Filling
<1>3. /\ read > 0 /\ read \in Nat /\ cursor[0] = Part(0)
      /\ Reached = Ahead + Begin(dest) + Part(dest)
  <2>1. CASE pc[0] = "fill"
    <3>1. Filling
      BY <2>1 DEF Filling
    <3>2. dest = 0 /\ Ahead = Reached - cursor[0] /\ cursor[0] = Part(0) /\ Part(0) > 0
      BY <1>1, <1>2, <2>1, <3>1, RankFacts DEF IInv, RootInv, Ahead
    <3>3. Reached = Ahead + Begin(dest) + Part(dest)
      BY ONLY <1>2, <3>2
    <3>4. Reached > 0
      BY ONLY <1>2, <3>2
    <3>5. read > 0 /\ read \in Nat
      BY <3>4, FileFacts DEF Reached, IInv, TypeOK
    <3> QED
      BY <3>2, <3>3, <3>5
  <2>2. CASE pc[0] = "send"
    <3>1. ~Filling
      BY <2>2 DEF Filling
    <3>2. read > 0 /\ read \in Nat /\ cursor[0] = Part(0)
      BY <3>1, FileFacts DEF IInv, RootInv, TypeOK
    <3>3. Ahead = Reached - (Begin(dest) + Part(dest) - 0)
      BY <1>2, <3>1 DEF Ahead
    <3>4. Begin(dest) \in Nat /\ Part(dest) \in Nat
      BY <1>2
    <3>5. Reached = Ahead + Begin(dest) + Part(dest)
      BY ONLY <1>2, <3>3, <3>4
    <3> QED
      BY <3>2, <3>5
  <2> QED
    BY <1>1, <2>1, <2>2
<1>4. /\ dest' \in Ranks /\ dest' > 0 /\ wants' \in Nat /\ wants' <= Part(dest')
      /\ Reached = Ahead + Begin(dest') + Part(dest') - wants'
      /\ \A r \in Ranks \ {0} : Sent(r)' = Sent(r)
      /\ \E place \in {"send", "verify"} : pc' = [pc EXCEPT ![0] = place]
      /\ pc'[0] = "verify" => dest' = ProcSize - 1 /\ wants' = 0
  <2>1. CASE dest + 1 < ProcSize
    <3>1. dest' = dest + 1 /\ wants' = Part(dest + 1) /\ pc' = [pc EXCEPT ![0] = "send"]
      BY <2>1 DEF NextRank, Goto
    <3>2. dest + 1 \in Ranks
      BY <1>2, <2>1, ProcSizeAssumption DEF Ranks
    <3>3. Begin(dest + 1) = Begin(dest) + Part(dest)
      BY <1>2, <3>2, PartFacts
    <3>4. \A r \in Ranks \ {0} : Sent(r)' = Sent(r)
      BY <1>2, <3>1, <3>2, RankFacts DEF Sent
    <3>5. pc'[0] = "send"
      BY <3>1, RankFacts DEF IInv, TypeOK
    <3>6. /\ Part(dest + 1) \in Nat /\ Begin(dest + 1) \in Nat /\ dest + 1 > 0
          /\ Begin(dest) \in Nat /\ Part(dest) \in Nat
      BY <1>2, <3>2
    <3>7. Reached = Ahead + Begin(dest + 1) + Part(dest + 1) - Part(dest + 1)
      BY ONLY <1>2, <1>3, <3>3, <3>6
    <3>8. /\ wants' \in Nat /\ wants' <= Part(dest')
          /\ Reached = Ahead + Begin(dest') + Part(dest') - wants'
      BY ONLY <3>1, <3>6, <3>7
    <3> QED
      BY <3>1, <3>2, <3>4, <3>5, <3>6, <3>8
  <2>2. CASE ~(dest + 1 < ProcSize)
    <3>1. UNCHANGED <<dest, wants>> /\ pc' = [pc EXCEPT ![0] = "verify"]
      BY <2>2 DEF NextRank, Goto
    <3>2. dest = ProcSize - 1 /\ dest > 0
      BY <1>2, <2>2, RankFacts, SizeAssumption, ProcSizeAssumption
    <3>3. pc'[0] = "verify"
      BY <3>1, RankFacts DEF IInv, TypeOK
    <3>4. \A r \in Ranks \ {0} : Sent(r)' = Sent(r)
      BY <3>1 DEF Sent
    <3>5. /\ dest' = dest /\ wants' = 0 /\ Part(dest) \in Nat /\ Begin(dest) \in Nat
      BY <1>2, <3>1
    <3>6. Reached = Ahead + Begin(dest') + Part(dest') - wants'
      BY ONLY <1>2, <1>3, <3>5
    <3> QED
      BY <1>2, <3>1, <3>2, <3>3, <3>4, <3>5, <3>6
  <2> QED
    BY <2>1, <2>2
<1>5. TypeOK'
  <2>1. pc' \in [Ranks -> {"header", "fill", "receive", "send", "sending", "verify",
                           "exchange", "unread", "loaded", "simulate"}]
    BY <1>4 DEF IInv, TypeOK
  <2> QED
    BY <1>1, <1>4, <2>1 DEF IInv, TypeOK, Fragments
<1>6. PartsInPlace'
  BY <1>1 DEF IInv, PartsInPlace, SizesTrue, Fragments
<1>7. pc'[0] \in {"send", "verify"} /\ ~Filling'
  BY <1>4, RankFacts DEF IInv, TypeOK, Filling
<1>8. Ahead' = Ahead
  <2>1. Reached' = Reached
    BY <1>1 DEF Reached, Offset, BeginOf
  <2>2. Ahead' = Reached - (Begin(dest') + Part(dest') - wants')
    BY <1>7, <2>1 DEF Ahead, Begin, Part
  <2>3. Begin(dest') \in Nat /\ Part(dest') \in Nat /\ wants' \in Nat
    BY <1>2, <1>4
  <2>4. PICK b, p, w : b = Begin(dest') /\ p = Part(dest') /\ w = wants'
    OBVIOUS
  <2> QED
    BY <1>2, <1>4, <2>2, <2>3, <2>4
<1>9. RootInv'
  <2>1. /\ Size(read)' = Size(read) /\ (SizesTrue' <=> SizesTrue)
    BY <1>1 DEF Size, Offset, BeginOf, SizesTrue, Fragments
  <2>2. Part(dest)' = Part(dest') /\ Part(0)' = Part(0)
    BY DEF Part
  <2> QED
    BY <1>1, <1>3, <1>4, <1>7, <1>8, <2>1, <2>2 DEF IInv, RootInv
<1>10. ASSUME NEW r \in Ranks \ {0}
       PROVE  RankInv(r)'
  <2>1. ChannelInv(r)'
    BY <1>1, <1>4, <1>8, ChannelSame DEF IInv, RankInv
  <2>2. pc'[r] = pc[r]
    BY <1>4, RankFacts DEF IInv, TypeOK
  <2> QED
    BY <1>1, <2>1, <2>2 DEF IInv, RankInv
<1> QED
  BY <1>5, <1>6, <1>9, <1>10 DEF IInv

\* A fragment sent to dest from where the root has got to.
LEMMA FragmentSent ==
  ASSUME IInv, pc[0] = "send", wants > 0,
         NEW n \in 1 .. Fragments, NEW from \in Nat,
         Offset(n) + from = Reached, Offset(n) + from < file.ends[n],
         SendFragment(n, from)
  PROVE  IInv'
PROOF
<1> DEFINE consumed == Least(Size(n) - from, wants)
           m == [fragment |-> n, offset |-> from]
           c == channel[dest]
<1>1. /\ channel' = [channel EXCEPT ![dest] = Append(@, m)]
      /\ fragCursor' = from + consumed /\ wants' = wants - consumed /\ read' = n
      /\ pc' = [pc EXCEPT ![0] = "sending"]
      /\ UNCHANGED <<file, border, dest, cursor, array, posted, aborted>>
  BY DEF SendFragment, Goto
<1>2. /\ file \in Files /\ dest \in Ranks \ {0} /\ wants \in Nat /\ wants <= Part(dest)
      /\ Reached = Place(dest) + Part(dest) - wants
      /\ Part(dest) \in Nat /\ Place(dest) \in Nat /\ Begin(dest) \in Nat
      /\ Ahead \in Nat /\ Reached \in Nat /\ ~Filling
      /\ cursor \in [Ranks -> Nat] /\ cursor[dest] <= Part(dest)
      /\ cursor[0] = Part(0)
  <2>0. ~Filling
    BY DEF Filling
  <2>1. dest \in Ranks /\ dest > 0 /\ dest \in Ranks \ {0}
    BY <2>0, RankFacts DEF IInv, TypeOK, RootInv
  <2>2. Part(dest) \in Nat /\ Begin(dest) \in Nat
    BY <2>1, PartFacts
  <2>3. Ahead \in Nat /\ Reached \in Nat /\ wants \in Nat
    BY ReachedType DEF IInv, RootInv, TypeOK
  <2>4. Ahead = Reached - (Begin(dest) + Part(dest) - wants)
    BY <2>0 DEF Ahead
  <2>5. Place(dest) = Begin(dest) + Ahead
    BY DEF Place
  <2>6. Reached = Place(dest) + Part(dest) - wants /\ Place(dest) \in Nat
    BY ONLY <2>2, <2>3, <2>4, <2>5
  <2> QED
    BY <2>0, <2>1, <2>2, <2>3, <2>6 DEF IInv, TypeOK, RootInv, PartsInPlace
<1>3. /\ Fragments \in Nat /\ n \in Nat \ {0} /\ n <= Fragments
      /\ Offset(n) \in Nat /\ Size(n) \in Nat /\ file.ends[n] \in Nat
      /\ Size(n) = file.ends[n] - Offset(n)
  BY <1>2, FileFacts
<1>4. /\ consumed \in Nat /\ consumed > 0 /\ consumed <= wants
      /\ from + consumed <= Size(n)
      /\ Least(file.ends[n], Place(dest) + Part(dest)) = Reached + consumed
  <2>1. CASE Size(n) - from <= wants
    BY <1>2, <1>3, <2>1 DEF Least
  <2>2. CASE ~(Size(n) - from <= wants)
    BY <1>2, <1>3, <2>2 DEF Least
  <2> QED
    BY <2>1, <2>2
<1> HIDE DEF consumed
<1>5. /\ channel \in [Ranks -> Seq([fragment : Nat \ {0}, offset : Nat])]
      /\ c \in Seq([fragment : Nat \ {0}, offset : Nat])
      /\ m \in [fragment : Nat \ {0}, offset : Nat]
      /\ m.fragment = n /\ m.offset = from
  BY <1>2, <1>3 DEF IInv, TypeOK
<1>6. /\ channel'[dest] = Append(c, m)
      /\ \A r \in Ranks \ {dest} : channel'[r] = channel[r]
  BY <1>1, <1>2, <1>5
<1> HIDE DEF m
<1>7. TypeOK'
  <2>1. channel' \in [Ranks -> Seq([fragment : Nat \ {0}, offset : Nat])]
    BY <1>1, <1>2, <1>5, AppendProperties
  <2>2. pc' \in [Ranks -> {"header", "fill", "receive", "send", "sending", "verify",
                           "exchange", "unread", "loaded", "simulate"}]
    BY <1>1 DEF IInv, TypeOK
  <2>3. fragCursor' \in Nat /\ wants' \in Nat /\ read' \in 0 .. Fragments'
    <3>1. Fragments' = Fragments
      BY <1>1 DEF Fragments
    <3>2. read' \in 0 .. Fragments
      BY <1>1, <1>3
    <3>3. fragCursor' \in Nat /\ wants' \in Nat
      BY <1>1, <1>2, <1>4
    <3> QED
      BY <3>1, <3>2, <3>3
  <2> QED
    BY <1>1, <2>1, <2>2, <2>3 DEF IInv, TypeOK
<1>8. PartsInPlace'
  BY <1>1 DEF IInv, PartsInPlace, SizesTrue, Fragments
<1>9. Reached' = Offset(n) + from + consumed /\ Ahead' = Ahead
  <2>1. pc'[0] = "sending" /\ ~Filling'
    BY <1>1, RankFacts DEF IInv, TypeOK, Filling
  <2>2. Reached' = Offset(n) + fragCursor'
    BY <1>1, <1>3 DEF Reached, Offset, BeginOf
  <2>3. Ahead' = Reached' - (Begin(dest) + Part(dest) - wants')
    BY <1>1, <2>1 DEF Ahead, Begin, Part
  <2>4. Ahead = Reached - (Begin(dest) + Part(dest) - wants)
    BY <1>2 DEF Ahead
  <2>5. Reached' = Reached + consumed /\ wants' = wants - consumed
    BY <1>1, <1>3, <1>4, <2>2
  <2>6. Reached' = Offset(n) + from + consumed
    BY <1>1, <1>3, <1>4, <2>2
  <2>7. Ahead' = Ahead
    BY ONLY <1>2, <1>4, <2>3, <2>4, <2>5
  <2> QED
    BY <2>6, <2>7
<1>10. RootInv'
  <2>1. pc'[0] = "sending"
    BY <1>1, RankFacts DEF IInv, TypeOK
  <2>2. Size(read)' = Size(n) /\ (SizesTrue' <=> SizesTrue) /\ ~Filling'
    BY <1>1, <2>1 DEF Size, Offset, BeginOf, SizesTrue, Fragments, Filling
  <2>4. Ahead' = Ahead
    BY <1>9
  <2>5. channel'[0] = << >>
    BY <1>2, <1>6, RankFacts DEF IInv, RootInv
  <2>6. wants' <= Part(dest) /\ fragCursor' <= Size(n) /\ read' > 0
    BY <1>1, <1>2, <1>3, <1>4
  <2>7. cursor[0] <= Part(0) /\ dest > 0
    BY <1>2, RankFacts DEF IInv, RootInv
  <2> QED
    BY <1>1, <1>2, <2>1, <2>2, <2>4, <2>5, <2>6, <2>7 DEF RootInv, IInv, Part
<1>11. \A r \in Ranks \ {0, dest} : Sent(r)' = Sent(r)
  BY <1>1 DEF Sent
<1>12. ChannelInv(dest)'
  <2>0. PICK d : d = Append(c, m)
    OBVIOUS
  <2>1. /\ Len(c) \in Nat /\ Len(d) = Len(c) + 1 /\ d # << >>
        /\ \A k \in 1 .. Len(c) : d[k] = c[k]
        /\ d[Len(d)] = m
    <3> HIDE DEF c
    <3>1. Len(c) \in Nat
      BY <1>5, LenProperties
    <3>2. /\ Len(d) = Len(c) + 1 /\ d # << >>
          /\ \A k \in 1 .. Len(c) : d[k] = c[k]
          /\ d[Len(c) + 1] = m
      BY <1>5, <2>0, AppendProperties
    <3> QED
      BY <3>1, <3>2
  <2>2. /\ \A x : Start(x)' = Start(x) /\ End(x)' = End(x)
        /\ Start(m) = Reached /\ End(m) = file.ends[n]
    BY <1>1, <1>5 DEF Start, End, Offset, BeginOf
  <2>3. /\ Sent(dest) = Part(dest) - wants /\ Sent(dest)' = Part(dest) - wants'
    BY <1>1, <1>2, RankFacts DEF Sent
  <2>4. /\ Place(dest) + Sent(dest) = Reached
        /\ Place(dest) + Sent(dest)' = Reached + consumed
    BY <1>1, <1>2, <1>4, <2>3
  <2>5. /\ c = << >> => cursor[dest] = Sent(dest)
        /\ c # << >> => /\ cursor[dest] < Part(dest)
                        /\ Start(c[1]) = Place(dest) + cursor[dest]
                        /\ Least(End(c[Len(c)]), Place(dest) + Part(dest))
                             = Place(dest) + Sent(dest)
        /\ \A k \in 1 .. Len(c) : c[k].fragment <= Fragments /\ Start(c[k]) < End(c[k])
        /\ \A k \in 1 .. Len(c) - 1 : /\ Start(c[k + 1]) = End(c[k])
                                      /\ End(c[k]) < Place(dest) + Part(dest)
    BY <1>2 DEF IInv, RankInv, ChannelInv
  <2>6. /\ cursor[dest] < Part(dest)
        /\ Start(d[1]) = Place(dest) + cursor[dest]
    <3>1. CASE c = << >>
      <4>1. Len(c) = 0 /\ d[1] = m
        BY <2>1, <3>1
      <4>2. cursor[dest] = Part(dest) - wants
        BY <2>3, <2>5, <3>1
      <4> QED
        BY <1>2, <2>2, <2>3, <2>4, <4>1, <4>2
    <3>2. CASE c # << >>
      <4>1. 1 \in 1 .. Len(c)
        BY <1>5, <2>1, <3>2, EmptySeq
      <4> QED
        BY <2>1, <2>5, <3>2, <4>1
    <3> QED
      BY <3>1, <3>2
  <2>7. Least(End(d[Len(d)]), Place(dest) + Part(dest)) = Place(dest) + Sent(dest)'
    BY <1>4, <2>1, <2>2, <2>4
  <2>8. \A k \in 1 .. Len(d) : d[k].fragment <= Fragments /\ Start(d[k]) < End(d[k])
    <3> SUFFICES ASSUME NEW k \in 1 .. Len(d)
                 PROVE  d[k].fragment <= Fragments /\ Start(d[k]) < End(d[k])
      OBVIOUS
    <3>1. CASE k = Len(d)
      BY <1>3, <1>5, <2>1, <2>2, <3>1
    <3>2. CASE k # Len(d)
      <4>1. k \in 1 .. Len(c) /\ d[k] = c[k]
        BY <2>1, <3>2
      <4> QED
        BY <2>5, <4>1
    <3> QED
      BY <3>1, <3>2
  <2>9. ASSUME NEW k \in 1 .. Len(d) - 1
        PROVE  Start(d[k + 1]) = End(d[k]) /\ End(d[k]) < Place(dest) + Part(dest)
    <3>1. k \in 1 .. Len(c) /\ d[k] = c[k]
      BY <2>1
    <3>2. CASE k = Len(c)
      <4>1. c # << >> /\ d[k + 1] = m
        BY <2>1, <3>1, <3>2, EmptySeq
      <4>2. Least(End(c[k]), Place(dest) + Part(dest)) = Reached
        BY <2>4, <2>5, <3>2, <4>1
      <4>3. Reached < Place(dest) + Part(dest)
        BY <1>2
      <4>4. End(c[k]) = Reached
        BY <1>2, <4>2, <4>3 DEF Least
      <4> QED
        BY <2>2, <3>1, <4>1, <4>3, <4>4
    <3>3. CASE k # Len(c)
      <4>1. k \in 1 .. Len(c) - 1 /\ k + 1 \in 1 .. Len(c) /\ d[k + 1] = c[k + 1]
        BY <2>1, <3>1, <3>3
      <4> QED
        BY <2>5, <3>1, <4>1
    <3> QED
      BY <3>2, <3>3
  <2>10. /\ channel'[dest'] = d /\ dest' = dest /\ cursor' = cursor /\ Fragments' = Fragments
         /\ Place(dest)' = Place(dest) /\ Part(dest)' = Part(dest)
    BY <1>1, <1>6, <1>9, <2>0 DEF Fragments, Place, Begin, Part
  <2> HIDE DEF c
  <2>11. /\ d # << >> /\ channel'[dest] = d
         /\ \A k \in 1 .. Len(d) : d[k].fragment <= Fragments' /\ Start(d[k])' < End(d[k])'
    BY <2>1, <2>2, <2>8, <2>10
  <2> QED
    BY <2>2, <2>6, <2>7, <2>9, <2>10, <2>11 DEF ChannelInv, Start, End, Offset, BeginOf, Least
<1>13. ASSUME NEW r \in Ranks \ {0}
       PROVE  RankInv(r)'
  <2>1. pc'[r] = pc[r]
    BY <1>1, RankFacts DEF IInv, TypeOK
  <2>2. ChannelInv(r)'
    <3>1. CASE r = dest
      BY <1>1, <1>12, <3>1
    <3>2. CASE r # dest
      BY <1>1, <1>6, <1>11, <1>9, <3>2, ChannelSame DEF IInv, RankInv
    <3> QED
      BY <3>1, <3>2
  <2> QED
    BY <1>1, <2>1, <2>2 DEF IInv, RankInv
<1> QED
  BY <1>7, <1>8, <1>10, <1>13 DEF IInv

LEMMA SendKeeps ==
  ASSUME IInv, Send
  PROVE  IInv'
PROOF
<1>1. pc[0] = "send" /\ wants > 0
  BY DEF Send, At
<1>2. /\ file \in Files /\ read \in 1 .. Fragments /\ fragCursor \in Nat
      /\ fragCursor <= Size(read) /\ Reached = Offset(read) + fragCursor
  <2>1. read > 0 /\ read \in 0 .. Fragments /\ file \in Files /\ fragCursor \in Nat
    BY <1>1 DEF IInv, RootInv, TypeOK, Filling
  <2> QED
    BY <2>1, FileFacts DEF IInv, RootInv, Reached
<1>3. /\ Fragments \in Nat /\ Offset(read) \in Nat /\ file.ends[read] \in Nat
      /\ Size(read) = file.ends[read] - Offset(read)
      /\ Offset(read + 1) = file.ends[read]
  BY <1>2, FileFacts
<1>4. CASE UsedUp
  <2>1. read + 1 \in 1 .. Fragments /\ Size(read + 1) # 0 /\ SendFragment(read + 1, 0)
    BY <1>2, <1>3, <1>4 DEF Send, NothingToSend
  <2>2. Offset(read + 1) + 0 = Reached
    BY <1>2, <1>3, <1>4 DEF UsedUp
  <2>3. Offset(read + 1) + 0 < file.ends[read + 1]
    BY <1>2, <2>1, FileFacts
  <2>4. PICK n \in 1 .. Fragments : n = read + 1
    BY <2>1
  <2> QED
    BY <1>1, <2>1, <2>2, <2>3, <2>4, FragmentSent
<1>5. CASE ~UsedUp
  <2>1. SendFragment(read, fragCursor)
    BY <1>5 DEF Send
  <2>2. Offset(read) + fragCursor < file.ends[read]
    BY <1>2, <1>3, <1>5 DEF UsedUp
  <2>3. PICK n \in 1 .. Fragments, from \in Nat : n = read /\ from = fragCursor
    BY <1>2
  <2> QED
    BY <1>1, <1>2, <2>1, <2>2, <2>3, FragmentSent
<1> QED
  BY <1>4, <1>5

LEMMA ReceiveKeeps ==
  ASSUME IInv, NEW r \in Ranks, Receive(r)
  PROVE  IInv'
PROOF
<1>1. PICK c : c = channel[r]
  OBVIOUS
<1>2. PICK n, offset, count :
        /\ n = Head(c).fragment /\ offset = Head(c).offset
        /\ count = Least(Size(n) - offset, Part(r) - cursor[r])
  OBVIOUS
<1>3. /\ pc[r] = "receive" /\ cursor[r] < Part(r) /\ c # << >>
      /\ Copy(r, n, offset, count)
      /\ channel' = [channel EXCEPT ![r] = Tail(@)]
      /\ UNCHANGED <<file, border, read, fragCursor, dest, wants, posted, pc, aborted>>
  BY <1>1, <1>2 DEF Receive, Share, At, root
<1>4. r \in Ranks \ {0}
  BY <1>3 DEF IInv, RootInv
<1>5. /\ channel \in [Ranks -> Seq([fragment : Nat \ {0}, offset : Nat])]
      /\ c \in Seq([fragment : Nat \ {0}, offset : Nat])
      /\ cursor \in [Ranks -> Nat] /\ file \in Files
  BY <1>1 DEF IInv, TypeOK
<1>6. PICK t : t = Tail(c)
  OBVIOUS
<1>7. /\ Len(c) \in Nat \ {0} /\ t \in Seq([fragment : Nat \ {0}, offset : Nat])
      /\ Len(t) = Len(c) - 1
      /\ \A k \in 1 .. Len(t) : t[k] = c[k + 1]
      /\ Head(c) = c[1]
  BY <1>3, <1>5, <1>6, EmptySeq, HeadTailProperties
<1>8. /\ cursor[r] < Part(r) /\ Start(c[1]) = Place(r) + cursor[r]
      /\ Least(End(c[Len(c)]), Place(r) + Part(r)) = Place(r) + Sent(r)
      /\ \A k \in 1 .. Len(c) : c[k].fragment <= Fragments /\ Start(c[k]) < End(c[k])
      /\ \A k \in 1 .. Len(c) - 1 : /\ Start(c[k + 1]) = End(c[k])
                                    /\ End(c[k]) < Place(r) + Part(r)
  BY <1>1, <1>3, <1>4 DEF IInv, RankInv, ChannelInv
<1>9. /\ n \in 1 .. Fragments /\ offset \in Nat
      /\ Offset(n) + offset = Place(r) + cursor[r]
      /\ Start(c[1]) = Offset(n) + offset /\ End(c[1]) = file.ends[n]
      /\ Offset(n) + offset < file.ends[n]
  <2>1. c[1] \in [fragment : Nat \ {0}, offset : Nat] /\ 1 \in 1 .. Len(c)
    <3>1. 1 \in 1 .. Len(c)
      BY <1>7
    <3> QED
      BY ONLY <1>5, <3>1, ElementOfSeq
  <2>2. n = c[1].fragment /\ offset = c[1].offset
    BY <1>2, <1>7
  <2>3. n \in Nat \ {0} /\ n <= Fragments /\ offset \in Nat
    BY <1>8, <2>1, <2>2
  <2>4. Start(c[1]) = Offset(n) + offset /\ End(c[1]) = file.ends[n]
    BY <2>2 DEF Start, End
  <2>5. Start(c[1]) < End(c[1])
    BY <1>8, <2>1
  <2> QED
    BY <1>5, <1>8, <2>3, <2>4, <2>5, FileFacts
<1>10. /\ Offset(n) \in Nat /\ file.ends[n] \in Nat
       /\ Size(n) = file.ends[n] - Offset(n)
       /\ Part(r) \in Nat /\ Place(r) \in Nat /\ cursor[r] \in Nat
       /\ SizesTrue => Place(r) = Begin(r)
  <2>1. Part(r) \in Nat /\ Begin(r) \in Nat
    BY PartFacts
  <2>2. Ahead \in Nat /\ (SizesTrue => Ahead = 0)
    BY DEF IInv, RootInv
  <2>3. Place(r) \in Nat /\ (SizesTrue => Place(r) = Begin(r))
    BY <2>1, <2>2 DEF Place
  <2> QED
    BY <1>5, <1>9, <2>1, <2>3, FileFacts
<1>11. /\ count \in Nat /\ cursor[r] + count <= Part(r) /\ offset + count <= Size(n)
       /\ Place(r) + (cursor[r] + count) = Least(End(c[1]), Place(r) + Part(r))
  <2>1. CASE Size(n) - offset <= Part(r) - cursor[r]
    <3>1. count = Size(n) - offset
      BY <1>2, <2>1 DEF Least
    <3>2. file.ends[n] <= Place(r) + Part(r)
      BY <1>9, <1>10, <2>1
    <3> QED
      BY <1>9, <1>10, <2>1, <3>1, <3>2 DEF Least
  <2>2. CASE ~(Size(n) - offset <= Part(r) - cursor[r])
    <3>1. count = Part(r) - cursor[r]
      BY <1>2, <2>2 DEF Least
    <3>2. ~(file.ends[n] <= Place(r) + Part(r))
      BY <1>9, <1>10, <2>2
    <3>3. Least(End(c[1]), Place(r) + Part(r)) = Place(r) + Part(r)
      BY <1>9, <3>2 DEF Least
    <3>4. cursor[r] < Part(r)
      BY <1>8
    <3>5. offset + count <= Size(n)
      <4>1. PICK z, a : z = Size(n) /\ a = Part(r) - cursor[r]
        OBVIOUS
      <4>2. z \in Int /\ a \in Int /\ offset \in Nat /\ ~(z - offset <= a) /\ count = a
        BY <1>9, <1>10, <2>2, <3>1, <4>1
      <4> QED
        BY ONLY <4>1, <4>2
    <3> QED
      BY ONLY <1>10, <3>1, <3>3, <3>4, <3>5
  <2> QED
    BY <2>1, <2>2
<1>12. /\ PartsInPlace'
       /\ cursor' = [cursor EXCEPT ![r] = @ + count]
       /\ cursor' \in [Ranks -> Nat]
       /\ \A s \in Ranks : array'[s] \in [0 .. Part(s) - 1 -> Nat \union {Junk}]
       /\ DOMAIN array' = Ranks
  <2>1. SizesTrue => Offset(n) + offset = Begin(r) + cursor[r]
    BY <1>9, <1>10
  <2> QED
    BY <1>3, <1>9, <1>11, <2>1, CopyKeeps
<1>13. /\ cursor'[r] = cursor[r] + count
       /\ \A s \in Ranks \ {r} : cursor'[s] = cursor[s]
       /\ channel'[r] = t
       /\ \A s \in Ranks \ {r} : channel'[s] = channel[s]
       /\ channel' \in [Ranks -> Seq([fragment : Nat \ {0}, offset : Nat])]
  BY <1>1, <1>3, <1>5, <1>6, <1>7, <1>12
<1>14. TypeOK'
  BY <1>3, <1>12, <1>13 DEF IInv, TypeOK, Fragments
<1>15. /\ (Filling' <=> Filling) /\ cursor'[0] = cursor[0] /\ channel'[0] = channel[0]
       /\ ~Filling
  <2>1. cursor'[0] = cursor[0] /\ channel'[0] = channel[0]
    BY <1>4, <1>13, RankFacts
  <2>2. ~Filling
    BY <1>1, <1>3, <1>4 DEF IInv, RootInv
  <2> QED
    BY <1>3, <2>1, <2>2 DEF Filling
<1>16. Reached' = Reached /\ Ahead' = Ahead
  BY <1>3, <1>15, AheadSame
<1>17. RootInv'
  <2>1. /\ Size(read)' = Size(read) /\ (SizesTrue' <=> SizesTrue)
        /\ Part(dest)' = Part(dest) /\ Part(0)' = Part(0)
    BY <1>3 DEF Size, Offset, BeginOf, SizesTrue, Fragments, Part
  <2> QED
    BY <1>3, <1>15, <1>16, <2>1 DEF IInv, RootInv
<1>18. \A s \in Ranks : Sent(s)' = Sent(s)
  BY <1>3 DEF Sent
<1>19. ChannelInv(r)'
  <2>1. /\ \A x : Start(x)' = Start(x) /\ End(x)' = End(x)
        /\ Fragments' = Fragments /\ Place(r)' = Place(r)
    BY <1>3, <1>16 DEF Start, End, Offset, BeginOf, Fragments, Place
  <2>2. t = << >> => cursor'[r] = Sent(r)'
    <3> SUFFICES ASSUME t = << >> PROVE cursor'[r] = Sent(r)'
      OBVIOUS
    <3>1. Len(c) = 1
      BY <1>7
    <3>2. Place(r) + cursor'[r] = Place(r) + Sent(r)
      BY <1>8, <1>11, <1>13, <3>1
    <3>3. Sent(r) \in Int
      BY <1>10 DEF Sent, IInv, TypeOK
    <3>4. PICK x : x = cursor'[r]
      OBVIOUS
    <3>5. PICK y : y = Sent(r)
      OBVIOUS
    <3>6. x \in Int
      BY <1>10, <1>11, <1>13, <3>4
    <3>7. x = y
      BY <1>10, <3>2, <3>3, <3>4, <3>5, <3>6
    <3> QED
      BY <1>18, <3>4, <3>5, <3>7
  <2>3. t # << >> => /\ cursor'[r] < Part(r)
                     /\ Start(t[1]) = Place(r) + cursor'[r]
                     /\ Least(End(t[Len(t)]), Place(r) + Part(r)) = Place(r) + Sent(r)'
    <3> SUFFICES ASSUME t # << >>
                 PROVE  /\ cursor'[r] < Part(r)
                        /\ Start(t[1]) = Place(r) + cursor'[r]
                        /\ Least(End(t[Len(t)]), Place(r) + Part(r)) = Place(r) + Sent(r)'
      OBVIOUS
    <3>1. Len(t) \in Nat \ {0}
      BY <1>7, EmptySeq
    <3>2. 1 \in 1 .. Len(c) - 1 /\ t[1] = c[1 + 1] /\ t[Len(t)] = c[Len(c)]
      BY <1>7, <3>1
    <3>3. Start(t[1]) = End(c[1]) /\ End(c[1]) < Place(r) + Part(r)
      BY <1>8, <3>2
    <3>4. Place(r) + cursor'[r] = End(c[1])
      <4>1. Least(End(c[1]), Place(r) + Part(r)) = End(c[1])
        BY <1>9, <1>10, <3>3 DEF Least
      <4> QED
        BY ONLY <1>11, <1>13, <4>1
    <3>5. Least(End(t[Len(t)]), Place(r) + Part(r)) = Place(r) + Sent(r)'
      BY <1>8, <1>18, <3>2
    <3>6. PICK z : z = cursor'[r]
      OBVIOUS
    <3>7. z \in Nat
      BY ONLY <1>12, <3>6
    <3>8. Place(r) + z = End(c[1]) /\ End(c[1]) < Place(r) + Part(r)
      BY <3>3, <3>4, <3>6
    <3>9. z < Part(r)
      BY ONLY <1>10, <3>7, <3>8
    <3>10. cursor'[r] < Part(r)
      BY ONLY <3>6, <3>9
    <3>11. Start(t[1]) = Place(r) + cursor'[r]
      BY ONLY <3>3, <3>4
    <3> QED
      BY ONLY <3>5, <3>10, <3>11
  <2>4. \A k \in 1 .. Len(t) : t[k].fragment <= Fragments /\ Start(t[k]) < End(t[k])
    <3>1. \A k \in 1 .. Len(t) : k + 1 \in 1 .. Len(c) /\ t[k] = c[k + 1]
      BY <1>7
    <3> QED
      BY <1>8, <3>1
  <2>5. \A k \in 1 .. Len(t) - 1 : /\ Start(t[k + 1]) = End(t[k])
                                   /\ End(t[k]) < Place(r) + Part(r)
    <3>1. ASSUME NEW k \in 1 .. Len(t) - 1
          PROVE  /\ k + 1 \in 1 .. Len(c) - 1
                 /\ t[k] = c[k + 1] /\ t[k + 1] = c[(k + 1) + 1]
      <4>1. Len(t) \in Nat
        BY <1>7
      <4>2. k \in 1 .. Len(t) /\ k + 1 \in 1 .. Len(t)
        BY <4>1
      <4> QED
        BY <1>7, <4>1, <4>2
    <3> QED
      BY <1>8, <3>1
  <2> QED
    BY <1>13, <2>1, <2>2, <2>3, <2>4, <2>5 DEF ChannelInv, Least
<1>20. ASSUME NEW s \in Ranks \ {0}
       PROVE  RankInv(s)'
  <2>1. ChannelInv(s)'
    <3>1. CASE s = r
      BY <1>19, <3>1
    <3>2. CASE s # r
      BY <1>3, <1>13, <1>18, <1>16, <3>2, ChannelSame DEF IInv, RankInv
    <3> QED
      BY <3>1, <3>2
  <2>2. s # r => cursor'[s] = cursor[s]
    BY <1>13
  <2> QED
    BY <1>3, <2>1, <2>2 DEF IInv, RankInv
<1> QED
  BY <1>12, <1>14, <1>17, <1>20 DEF IInv

\* The end of the load in a rank, and of the run.
LEMMA EndKeeps ==
  ASSUME IInv,
         \/ OpenFails \/ FillFails \/ SendFails \/ Mismatch
         \/ Verified \/ DigestMissing \/ SendReturns
         \/ \E r \in Ranks : \/ Begins(r) \/ Refuses(r) \/ ReceiveFails(r)
                          \/ Received(r) \/ BoundExchange(r) \/ InitReturns(r)
  PROVE  IInv'
PROOF
<1> DEFINE Fails == \/ OpenFails \/ FillFails \/ SendFails \/ Mismatch
                    \/ \E r \in Ranks : Refuses(r) \/ ReceiveFails(r)
<1>1. UNCHANGED <<file, border, read, fragCursor, dest, cursor, wants, array, channel>>
  BY DEF OpenFails, Refuses, ReceiveFails, Begins, FillFails, SendFails, Mismatch, Verified,
         DigestMissing, SendReturns, Received, BoundExchange, InitReturns, Abort, PostEdges, root
<1>2. CASE Fails
  <2>1. UNCHANGED <<posted, pc>> /\ aborted' = TRUE
    BY <1>2 DEF OpenFails, Refuses, ReceiveFails, FillFails, SendFails, Mismatch, Abort
  <2> QED
    BY <1>1, <2>1, NothingMoves DEF IInv, TypeOK
<1>3. CASE ~Fails
  <2>1. PICK r \in Ranks,
             place \in {"fill", "receive", "exchange", "unread", "send", "loaded", "simulate"} :
          /\ pc' = [pc EXCEPT ![r] = place]
          /\ posted' \in {posted, posted \union {r}}
          /\ UNCHANGED aborted
          /\ \/ pc[r] = "header" /\ place = (IF r = 0 THEN "fill" ELSE "receive")
             \/ r = 0 /\ pc[0] = "sending" /\ place = "send"
             \/ r = 0 /\ pc[0] = "verify" /\ place \in {"exchange", "unread"}
             \/ pc[r] = "receive" /\ cursor[r] = Part(r) /\ place = "exchange"
             \/ pc[r] \in {"exchange", "loaded", "unread"} /\ place \in {"loaded", "simulate"}
    BY <1>3, RankFacts DEF Begins, HeaderKnown, Verified, DigestMissing, SendReturns, Received,
         BoundExchange, InitReturns, PostEdges, At, Goto
  <2>2. pc \in [Ranks -> {"header", "fill", "receive", "send", "sending", "verify",
                          "exchange", "unread", "loaded", "simulate"}]
    BY DEF IInv, TypeOK
  <2>3. pc' \in [Ranks -> {"header", "fill", "receive", "send", "sending", "verify",
                           "exchange", "unread", "loaded", "simulate"}]
    BY <2>1, <2>2
  <2>4. posted' \subseteq Ranks /\ aborted' \in BOOLEAN
    BY <2>1 DEF IInv, TypeOK
  <2>5. \/ pc'[0] = pc[0]
        \/ pc[0] = "header" /\ pc'[0] = "fill"
        \/ pc[0] = "sending" /\ pc'[0] = "send"
        \/ /\ pc[0] \in {"verify", "exchange", "unread", "loaded"}
           /\ pc'[0] \in {"exchange", "unread", "loaded", "simulate"}
    BY <2>1, <2>2, RankFacts DEF IInv, RootInv
  <2>6. ASSUME NEW s \in Ranks \ {0}
        PROVE  \/ pc'[s] = pc[s]
               \/ pc[s] = "header" /\ pc'[s] = "receive"
               \/ cursor[s] = Part(s) /\ pc'[s] \in {"exchange", "loaded", "simulate"}
    <3>1. CASE s # r
      BY <2>1, <2>2, <3>1
    <3>2. CASE s = r
      BY <2>1, <2>2, <3>2 DEF IInv, RankInv
    <3> QED
      BY <3>1, <3>2
  <2> QED
    BY <1>1, <2>3, <2>4, <2>5, <2>6, NothingMoves
<1> QED
  BY <1>2, <1>3

LEMMA Inductive == Spec => []IInv
PROOF
<1>1. IInv /\ [Next]_vars => IInv'
  <2> SUFFICES ASSUME IInv, [Next]_vars PROVE IInv'
    OBVIOUS
  <2>1. CASE Fill \/ NextRank \/ Send
    BY <2>1, FillKeeps, NextRankKeeps, SendKeeps
  <2>2. CASE \E r \in Ranks : Receive(r)
    BY <2>2, ReceiveKeeps
  <2>3. CASE \/ OpenFails \/ FillFails \/ SendFails \/ Mismatch
             \/ Verified \/ DigestMissing \/ SendReturns
             \/ \E r \in Ranks : \/ Begins(r) \/ Refuses(r) \/ ReceiveFails(r)
                              \/ Received(r) \/ BoundExchange(r) \/ InitReturns(r)
    BY <2>3, EndKeeps
  <2>4. CASE UNCHANGED vars
    <3>1. UNCHANGED <<file, border, read, fragCursor, dest, cursor, wants, array, channel,
                      posted, pc, aborted>>
      BY <2>4 DEF vars
    <3> QED
      BY <3>1, NothingMoves DEF IInv, TypeOK
  <2> QED
    BY <2>1, <2>2, <2>3, <2>4 DEF Next, RootStep, RankStep, Ended
<1> QED
  BY <1>1, InitEstablishes, PTL DEF Spec

-----------------------------------------------------------------------------

\* The variables of the load keep their types.
THEOREM TypeCorrect == Spec => []TypeOK
PROOF
<1>1. IInv => TypeOK
  BY DEF IInv
<1> QED
  BY <1>1, Inductive, PTL

\* Every rank has, of its part, the units of the file that belong there, however the
\* file is cut into fragments and the lattice into parts.
THEOREM PartsLoaded == Spec => []PartsInPlace
PROOF
<1>1. IInv => PartsInPlace
  BY DEF IInv
<1> QED
  BY <1>1, Inductive, PTL

LEMMA InvariantLeavesNone == IInv => NoneLeftOver
PROOF
<1> SUFFICES ASSUME IInv, NEW r \in Ranks, pc[r] \in {"exchange", "loaded", "simulate"}
             PROVE  /\ channel[r] = << >>
                    /\ r # 0 => dest > r \/ (dest = r /\ wants = 0)
  BY DEF NoneLeftOver
<1>1. CASE r = 0
  BY <1>1 DEF IInv, RootInv
<1>2. CASE r # 0
  <2>1. r \in Ranks \ {0} /\ cursor[r] = Part(r) /\ ChannelInv(r)
    BY <1>2 DEF IInv, RankInv
  <2>2. Part(r) \in Nat \ {0} /\ dest \in Nat /\ r \in Nat /\ wants \in Nat
    BY PartFacts, RankFacts DEF IInv, TypeOK
  <2>3. channel[r] = << >> /\ Part(r) = Sent(r)
    BY <2>1, <2>2 DEF ChannelInv
  <2> QED
    BY <2>2, <2>3 DEF Sent
<1> QED
  BY <1>1, <1>2

\* A rank that exchanges its edges has taken all messages of the load, so that the
\* next one from rank 0 is an edge.
THEOREM NoMessageLeft == Spec => []NoneLeftOver
PROOF
  BY Inductive, InvariantLeavesNone, PTL

-----------------------------------------------------------------------------

LEMMA EdgesKept ==
  ASSUME IInv, EdgesInv, [Next]_vars
  PROVE  EdgesInv'
PROOF
<1>1. pc \in [Ranks -> {"header", "fill", "receive", "send", "sending", "verify",
                        "exchange", "unread", "loaded", "simulate"}]
  BY DEF IInv, TypeOK
<1>2. CASE Verified
  <2>1. posted' = posted \union {0} /\ pc' = [pc EXCEPT ![0] = "exchange"] /\ file' = file
    BY <1>2 DEF Verified, PostEdges, Goto
  <2>2. file.digest = "agrees"
    BY <1>2 DEF Verified, DigestFound
  <2> QED
    BY <2>1, <2>2 DEF EdgesInv
<1>3. ASSUME NEW r \in Ranks, Received(r)
      PROVE  EdgesInv'
  <2>1. /\ posted' = posted \union {r} /\ pc' = [pc EXCEPT ![r] = "exchange"]
        /\ file' = file /\ pc[r] = "receive"
    BY <1>3 DEF Received, PostEdges, Goto, At
  <2>2. r # 0
    BY <2>1 DEF IInv, RootInv
  <2>3. \A s \in Ranks : pc'[s] \in {"loaded", "simulate"} => pc'[s] = pc[s]
    BY <1>1, <2>1
  <2> QED
    BY <2>1, <2>2, <2>3 DEF EdgesInv
<1>4. ASSUME NEW r \in Ranks, BoundExchange(r)
      PROVE  EdgesInv'
  <2>1. /\ posted' = posted /\ pc' = [pc EXCEPT ![r] = "loaded"] /\ file' = file
        /\ Neighboring(r, 0) => 0 \in posted
    BY <1>4, RankFacts DEF BoundExchange, Goto
  <2> QED
    BY <1>1, <2>1 DEF EdgesInv
<1>5. ASSUME NEW r \in Ranks, InitReturns(r)
      PROVE  EdgesInv'
  <2>1. /\ posted' = posted /\ pc' = [pc EXCEPT ![r] = "simulate"] /\ file' = file
        /\ pc[r] \in {"loaded", "unread"}
    BY <1>5 DEF InitReturns, Goto, At
  <2>2. r # 0 => pc[r] = "loaded"
    BY <2>1 DEF IInv, RankInv
  <2> QED
    BY <1>1, <2>1, <2>2 DEF EdgesInv
<1>6. ASSUME NEW r \in Ranks, Begins(r)
      PROVE  EdgesInv'
  <2>1. /\ posted' = posted /\ file' = file
        /\ pc' = [pc EXCEPT ![r] = IF r = 0 THEN "fill" ELSE "receive"]
    BY <1>6 DEF Begins, Goto
  <2> QED
    BY <1>1, <2>1 DEF EdgesInv
<1>7. CASE \/ OpenFails \/ Fill \/ FillFails \/ NextRank \/ Send \/ SendFails \/ Mismatch
           \/ DigestMissing \/ SendReturns \/ UNCHANGED vars
           \/ \E r \in Ranks : Refuses(r) \/ Receive(r) \/ ReceiveFails(r)
  <2>1. /\ posted' = posted /\ file' = file
        /\ \/ pc' = pc
           \/ \E place \in {"send", "sending", "verify", "unread"} :
                pc' = [pc EXCEPT ![0] = place]
    BY <1>7 DEF OpenFails, Refuses, ReceiveFails, Fill, FillFails, NextRank, Send, SendFails,
         Mismatch, DigestMissing, SendReturns, SendFragment, Receive, Abort, Goto, vars
  <2>2. \A s \in Ranks \ {0} : pc'[s] = pc[s]
    BY <1>1, <2>1
  <2> QED
    BY <2>1, <2>2 DEF EdgesInv
<1> QED
  BY <1>2, <1>3, <1>4, <1>5, <1>6, <1>7 DEF Next, RootStep, RankStep, Ended

LEMMA EdgesMeanWhole ==
  ASSUME IInv, EdgesInv
  PROVE  OnlyWholeFiles
PROOF
<1> SUFFICES ASSUME \A r \in Ranks : pc[r] = "simulate"
             PROVE  /\ Offset(Fragments + 1) = SizeI * RowSize
                    /\ SizesTrue
                    /\ file.digest = "agrees"
  BY DEF OnlyWholeFiles
<1>1. 1 \in Ranks \ {0} /\ Neighboring(1, 0)
  BY SizeAssumption, ProcSizeAssumption DEF Ranks, Neighboring
<1>2. file.digest = "agrees"
  BY <1>1 DEF EdgesInv
<1>3. file \in Files /\ file.ends \in Seq(Nat)
  BY FilesAssumption DEF IInv, TypeOK
<1>4. /\ file.ends # << >> /\ file.ends[Len(file.ends)] = SizeI * RowSize
      /\ \A n \in 1 .. Len(file.ends) : file.lacks[n] = 0
  BY <1>2, <1>3, DigestAssumption
<1>5. Len(file.ends) \in Nat \ {0}
  BY <1>3, <1>4, EmptySeq
<1>6. Fragments + 1 # 1 /\ (Fragments + 1) - 1 = Len(file.ends)
  BY <1>5 DEF Fragments
<1> QED
  BY <1>2, <1>4, <1>6 DEF Offset, BeginOf, SizesTrue, Fragments

\* All ranks go on to simulate only if the file is whole and its digest agrees: an
\* error that only the root sees keeps at least its neighbours back.
THEOREM OnlyWholeSimulated == Spec => []OnlyWholeFiles
PROOF
<1>1. Init => EdgesInv
  <2> SUFFICES ASSUME Init PROVE EdgesInv
    OBVIOUS
  <2>1. posted = {} /\ \A r \in Ranks : pc[r] = "header"
    BY DEF Init
  <2> QED
    BY <2>1 DEF EdgesInv
<1>2. IInv /\ EdgesInv /\ [Next]_vars => EdgesInv'
  BY EdgesKept
<1>3. IInv /\ EdgesInv => OnlyWholeFiles
  BY EdgesMeanWhole
<1> QED
  BY <1>1, <1>2, <1>3, Inductive, PTL DEF Spec
=============================================================================
