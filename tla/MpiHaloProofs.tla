---------------------------- MODULE MpiHaloProofs ----------------------------
(***************************************************************************)
(* For any lattice, any number of processes and any number of calls:       *)
(* whatever the global CAT_Bound_size is, neighbours keep in step and the  *)
(* ghost rows are right after the load.  The first follows from a balance: *)
(* what is under way between two ranks is what the one has posted more     *)
(* than the other (CountInv); the second from knowing the messages a rank  *)
(* still awaits (AwaitedInv).  If the global is the border of the topology *)
(* the parts are right after the first call, and the file gets the parts:  *)
(* the messages under way are known by their distance from the youngest    *)
(* (RecvsInv, SendsInv), and so the oldest fits the oldest receive.        *)
(***************************************************************************)
EXTENDS MpiHalo, PartitionProofs, SequenceTheorems

\* The part of a rank is a number of rows that holds both its edges.
LEMMA PartHoldsEdges ==
  ASSUME NEW r \in Ranks
  PROVE  Part(r) \in Int /\ Part(r) >= 2 * BorderI
PROOF
<1>1. /\ Base(SizeI, PeriodI) \in Nat
      /\ PeriodI \in Nat \ {0}
      /\ Part(r) >= 2 * BorderI
  BY Shares, SizeAssumption
<1> DEFINE share == Base(SizeI, PeriodI) + (IF r < Left(SizeI, PeriodI) THEN 1 ELSE 0)
<1>2. share \in Nat
  <2> HIDE DEF Base
  <2> QED
    BY <1>1
<1>3. share * PeriodI \in Int
  <2> HIDE DEF share
  <2> QED
    BY <1>1, <1>2
<1> QED
  BY <1>1, <1>3 DEF Part, PartSize

-----------------------------------------------------------------------------
(* Ranks and parts *)

\* Above and below are converse, in a ring of two ranks as in a larger one.
LEMMA Neighbours ==
  /\ 0 \in Ranks
  /\ \A r \in Ranks : r \in Nat /\ r < ProcSize /\ Up(r) \in Ranks /\ Down(r) \in Ranks
  /\ \A s, r \in Ranks : r = Up(s) <=> s = Down(r)
PROOF
<1>1. ProcSize \in Nat /\ ProcSize > 1 /\ Ranks = 0 .. ProcSize - 1
  BY SizeAssumption, ProcSizeAssumption DEF Ranks
<1>2. \A r \in Ranks : Down(r) = IF r = ProcSize - 1 THEN 0 ELSE r + 1
  <2> SUFFICES ASSUME NEW r \in Ranks
               PROVE  Down(r) = IF r = ProcSize - 1 THEN 0 ELSE r + 1
    OBVIOUS
  <2>1. CASE r = ProcSize - 1
    BY <1>1, <2>1 DEF Down
  <2>2. CASE r # ProcSize - 1
    <3>1. r + 1 \in 0 .. ProcSize - 1
      BY <1>1, <2>2
    <3> QED
      BY <1>1, <2>2, <3>1 DEF Down
  <2> QED
    BY <2>1, <2>2
<1> QED
  BY <1>1, <1>2 DEF Up

\* A product of natural numbers grows with its factors.
LEMMA ProductsOrdered ==
  ASSUME NEW a \in Nat, NEW b \in Nat, NEW c \in Nat, a <= b
  PROVE  a * c \in Nat /\ c * a \in Nat /\ a * c <= b * c /\ c * a <= c * b
PROOF
<1>1. PICK d \in Nat : b = a + d
  <2>1. b - a \in Nat /\ b = a + (b - a)
    OBVIOUS
  <2> QED
    BY <2>1
<1>2. a * c \in Nat /\ d * c \in Nat /\ c * a \in Nat /\ c * d \in Nat
  OBVIOUS
<1>3. b * c = a * c + d * c /\ c * b = c * a + c * d
  BY <1>1
<1> QED
  BY <1>2, <1>3

\* A part lies in the lattice.
LEMMA PartInLattice ==
  ASSUME NEW r \in Ranks
  PROVE  Begin(r) \in Nat /\ Part(r) \in Nat /\ Begin(r) + Part(r) <= SizeI
PROOF
<1>1. SizeI \in Nat /\ PeriodI \in Nat \ {0} /\ SizeI % PeriodI = 0
  BY SizeAssumption
<1> DEFINE b == Base(SizeI, PeriodI)
           l == Left(SizeI, PeriodI)
           before(k) == b * k + (IF k < l THEN k ELSE l)
<1>2. b \in Nat /\ l \in 0 .. ProcSize - 1 /\ ProcSize \in Nat \ {0}
  BY <1>1, Shares, ProcSizeAssumption
<1>3. r \in Nat /\ r + 1 \in Nat /\ r + 1 <= ProcSize
  BY <1>2 DEF Ranks
<1>4. /\ before(r) \in Nat /\ before(r + 1) \in Nat /\ before(ProcSize) \in Nat
      /\ before(r + 1) <= before(ProcSize)
  <2>1. /\ b * r \in Nat /\ b * (r + 1) \in Nat /\ b * ProcSize \in Nat
        /\ b * (r + 1) <= b * ProcSize
    BY ONLY <1>2, <1>3, ProductsOrdered
  <2> HIDE DEF b, l
  <2> QED
    BY <1>2, <1>3, <2>1
<1>5. /\ PartBegin(SizeI, r, PeriodI) = before(r) * PeriodI
      /\ PartBegin(SizeI, r + 1, PeriodI) = before(r + 1) * PeriodI
      /\ PartBegin(SizeI, ProcSize, PeriodI) = before(ProcSize) * PeriodI
  BY DEF PartBegin
<1> HIDE DEF before
<1>6. /\ before(r) * PeriodI \in Nat
      /\ before(r + 1) * PeriodI <= before(ProcSize) * PeriodI
  BY ONLY <1>1, <1>4, ProductsOrdered
<1>7. /\ PartBegin(SizeI, ProcSize, PeriodI) = SizeI
      /\ PartBegin(SizeI, r + 1, PeriodI) = Begin(r) + Part(r)
  BY <1>1, PartsCoverLattice DEF Begin, Part
<1>8. Part(r) \in Nat
  BY PartHoldsEdges, SizeAssumption
<1> QED
  BY <1>5, <1>6, <1>7, <1>8 DEF Begin

\* A queue with two requests more, one or none.
LEMMA Appended ==
  ASSUME NEW T, NEW w \in Seq(T), NEW a \in Seq(T), NEW b \in Seq(T)
  PROVE  /\ (w \o a) \o b \in Seq(T)
         /\ Len((w \o a) \o b) = (Len(w) + Len(a)) + Len(b)
PROOF
<1>1. w \o a \in Seq(T) /\ Len(w \o a) = Len(w) + Len(a)
  BY ConcatProperties
<1>2. /\ (w \o a) \o b \in Seq(T)
      /\ Len((w \o a) \o b) = Len(w \o a) + Len(b)
  BY ONLY <1>1, b \in Seq(T), ConcatProperties
<1> QED
  BY <1>1, <1>2

-----------------------------------------------------------------------------
(* Types *)

\* A row of memory, and a message.
LEMMA RowFacts ==
  /\ Junk \in Rows
  /\ BorderI \in Nat \ {0}
  /\ \A n \in Nat : n >= BorderI => [1 .. n -> Rows] \subseteq Messages
PROOF
<1>1. BorderI \in Nat \ {0}
  BY SizeAssumption
<1> QED
  BY <1>1 DEF Rows, Messages

\* The first rows of a message are rows.
LEMMA MessageFacts ==
  ASSUME NEW rows \in Messages, NEW k \in 1 .. BorderI
  PROVE  rows[k] \in Rows
PROOF
<1>1. PICK n \in {l \in Nat : l >= BorderI} : rows \in [1 .. n -> Rows]
  BY DEF Messages
<1>2. k \in 1 .. n
  BY <1>1, RowFacts
<1> QED
  BY <1>1, <1>2

\* What a rank sends is a message.
LEMMA SliceIsMessage ==
  ASSUME NEW r \in Ranks, NEW a \in [Memory(r) -> Rows], NEW m
  PROVE  Slice(r, a, m) \in Messages
PROOF
<1>1. Slice(r, a, m) \in [1 .. BorderI -> Rows]
  BY RowFacts DEF Slice
<1> QED
  BY <1>1, RowFacts

\* So is what it contributes to the file.
LEMMA ContributionIsMessage ==
  ASSUME TypeOK, MemoryInv, NEW r \in Ranks
  PROVE  Contribution(r) \in Messages
PROOF
<1>1. arrays[r][current[r]] \in [Memory(r) -> Rows]
  BY DEF TypeOK, MemoryInv
<1>2. Contribution(r) \in [1 .. Part(r) -> Rows]
  BY <1>1, RowFacts DEF Contribution
<1>3. Part(r) \in Nat /\ Part(r) >= BorderI
  BY PartInLattice, PartHoldsEdges, RowFacts
<1> QED
  BY <1>2, <1>3, RowFacts

\* One of the arrays of a rank is written.
LEMMA ArrayReplaced ==
  ASSUME MemoryInv, NEW r \in Ranks, NEW x \in {0, 1}, NEW b \in [Memory(r) -> Rows],
         arrays' = [arrays EXCEPT ![r][x] = b]
  PROVE  /\ DOMAIN arrays' = Ranks
         /\ \A q \in Ranks : arrays'[q] \in [{0, 1} -> [Memory(q) -> Rows]]
PROOF
<1>1. DOMAIN arrays = Ranks /\ \A q \in Ranks : arrays[q] \in [{0, 1} -> [Memory(q) -> Rows]]
  BY DEF MemoryInv
<1>2. arrays' = [arrays EXCEPT ![r] = [arrays[r] EXCEPT ![x] = b]]
  BY <1>1
<1>3. [arrays[r] EXCEPT ![x] = b] \in [{0, 1} -> [Memory(r) -> Rows]]
  BY <1>1
<1> QED
  BY ONLY <1>1, <1>2, <1>3

\* Every row of memory is one.
LEMMA ArraysTyped ==
  ASSUME MemoryInv
  PROVE  \A r \in Ranks : \A x \in {0, 1} : \A m \in Memory(r) : arrays[r][x][m] \in Rows
PROOF
  BY DEF MemoryInv

\* The next generation of some rows is one of rows.
LEMMA IteratedRowsAreRows ==
  ASSUME TypeOK, MemoryInv, NEW r \in Ranks, iterationsDone[r] < Calls,
         NEW down \in Int, NEW up \in Int, down >= 0, up <= Part(r),
         IteratePart(r, down, up)
  PROVE  /\ DOMAIN arrays' = Ranks
         /\ \A q \in Ranks : arrays'[q] \in [{0, 1} -> [Memory(q) -> Rows]]
PROOF
<1> DEFINE a == arrays[r][current[r]]
           old == arrays[r][1 - current[r]]
           g == iterationsDone[r]
           row(m) == IF \A d \in -BorderI .. BorderI :
                          a[(m + d + SizeI) % SizeI]
                            = <<(Begin(r) + m - BorderI + d) % SizeI, g>>
                       THEN <<Begin(r) + m - BorderI, g + 1>> ELSE Junk
           new == [m \in Memory(r) |->
                     IF m \in down + BorderI .. up + BorderI - 1 THEN row(m) ELSE old[m]]
<1>1. current[r] \in {0, 1} /\ 1 - current[r] \in {0, 1} /\ g \in 0 .. Calls
  BY DEF TypeOK
<1>2. old \in [Memory(r) -> Rows]
  BY <1>1 DEF MemoryInv
<1>3. ASSUME NEW m \in down + BorderI .. up + BorderI - 1
      PROVE  row(m) \in Rows
  <2>1. Begin(r) + m - BorderI \in 0 .. SizeI - 1
    BY PartInLattice, RowFacts, SizeAssumption
  <2>2. g + 1 \in 0 .. Calls
    BY <1>1, CallsAssumption
  <2> QED
    BY <2>1, <2>2, RowFacts DEF Rows
<1>4. new \in [Memory(r) -> Rows]
  <2> HIDE DEF row, old
  <2> QED
    BY <1>2, <1>3
<1>5. arrays' = [arrays EXCEPT ![r][1 - current[r]] = new]
  BY DEF IteratePart
<1> HIDE DEF new
<1> QED
  BY <1>1, <1>4, <1>5, ArrayReplaced

-----------------------------------------------------------------------------
(* What is counted *)

\* What the balance adds up is numbers.
LEMMA CountsAreNumbers ==
  ASSUME TypeOK, MemoryInv
  PROVE  /\ \A r \in Ranks : SendsMade(r) \in Int /\ RecvsMade(r) \in Int
         /\ \A s, r \in Ranks : InTransit(s, r) \in Int
         /\ \A s, r \in Ranks : Len(sends[s][r]) \in Nat /\ Len(recvs[s][r]) \in Nat
PROOF
<1>1. \A r \in Ranks : iterationsDone[r] \in Int
  BY CallsAssumption DEF TypeOK
<1>2. \A r \in Ranks : SendsMade(r) \in Int /\ RecvsMade(r) \in Int
  BY <1>1 DEF SendsMade, RecvsMade
<1>3. \A s, r \in Ranks : InTransit(s, r) \in Int
  BY DEF InTransit
<1>4. \A s, r \in Ranks : sends[s][r] \in Seq(Messages)
                          /\ recvs[s][r] \in Seq(Requests)
  BY DEF MemoryInv
<1>5. \A s, r \in Ranks : Len(sends[s][r]) \in Nat /\ Len(recvs[s][r]) \in Nat
  BY <1>4, LenProperties
<1> QED
  BY <1>2, <1>3, <1>5

\* Rank r posts x sends and y receives for each of its edges, or none.
LEMMA CountAfter ==
  ASSUME TypeOK, MemoryInv, CountInv, NEW r \in Ranks, NEW x \in {0, 1}, NEW y \in {0, 1},
         \A s, t \in Ranks : Len(sends'[s][t]) =
           Len(sends[s][t]) + (IF s = r THEN Edges(s, t, x) ELSE 0),
         \A s, t \in Ranks : Len(recvs'[t][s]) =
           Len(recvs[t][s]) + (IF t = r THEN Edges(s, t, y) ELSE 0),
         \A q \in Ranks : SendsMade(q)' = SendsMade(q) + (IF q = r THEN x ELSE 0),
         \A q \in Ranks : RecvsMade(q)' = RecvsMade(q) + (IF q = r THEN y ELSE 0),
         \A s, t \in Ranks : InTransit(s, t)' = InTransit(s, t),
         \A t \in Ranks \ {r} : pc'[t] = pc[t],
         \A s \in Ranks : Len(recvs'[r][s]) <=
           IF pc'[r] \in Calling \union {"exchange"} THEN Edges(s, r, 1) ELSE 0
  PROVE  CountInv'
PROOF
<1> SUFFICES ASSUME NEW s \in Ranks, NEW t \in Ranks
             PROVE  /\ Len(sends'[s][t]) = Len(recvs'[t][s])
                         + Edges(s, t, SendsMade(s)' - RecvsMade(t)') + InTransit(s, t)'
                    /\ Len(recvs'[t][s]) <= IF pc'[t] \in Calling \union {"exchange"}
                                              THEN Edges(s, t, 1) ELSE 0
  BY DEF CountInv, Edges
<1>1. PICK sent \in Int, received \in Int, made \in Int, wanted \in Int, transit \in Int :
        /\ sent = Len(sends[s][t]) /\ received = Len(recvs[t][s])
        /\ made = SendsMade(s) /\ wanted = RecvsMade(t) /\ transit = InTransit(s, t)
  <2>1. /\ Len(sends[s][t]) \in Int /\ Len(recvs[t][s]) \in Int
        /\ SendsMade(s) \in Int /\ RecvsMade(t) \in Int /\ InTransit(s, t) \in Int
    BY ONLY TypeOK, MemoryInv, s \in Ranks, t \in Ranks, CountsAreNumbers
  <2> QED
    BY ONLY <2>1
<1>2. sent = received + Edges(s, t, made - wanted) + transit
  BY <1>1 DEF CountInv
<1>3. /\ Len(sends'[s][t]) = sent + (IF s = r THEN Edges(s, t, x) ELSE 0)
      /\ Len(recvs'[t][s]) = received + (IF t = r THEN Edges(s, t, y) ELSE 0)
      /\ SendsMade(s)' = made + (IF s = r THEN x ELSE 0)
      /\ RecvsMade(t)' = wanted + (IF t = r THEN y ELSE 0)
      /\ InTransit(s, t)' = transit
  BY <1>1
<1>4. sent + (IF s = r THEN Edges(s, t, x) ELSE 0) =
        received + (IF t = r THEN Edges(s, t, y) ELSE 0)
          + Edges(s, t, (made + (IF s = r THEN x ELSE 0)) - (wanted + (IF t = r THEN y ELSE 0)))
          + transit
  BY <1>2 DEF Edges
<1>5. Len(recvs'[t][s]) <= IF pc'[t] \in Calling \union {"exchange"} THEN Edges(s, t, 1) ELSE 0
  <2>1. CASE t = r
    BY <2>1
  <2>2. CASE t # r
    <3>1. Len(recvs'[t][s]) = Len(recvs[t][s]) /\ pc'[t] = pc[t]
      BY <1>1, <1>3, <2>2
    <3> QED
      BY <3>1 DEF CountInv
  <2> QED
    BY <2>1, <2>2
<1> QED
  BY <1>3, <1>4, <1>5

\* A rank whose receives are all completed is at most a call ahead of its neighbours.
LEMMA CountKeepsInStep ==
  ASSUME TypeOK, MemoryInv, PlacesInv, CountInv, NEW s \in Ranks, NEW r \in Ranks,
         s = Up(r) \/ s = Down(r)
  PROVE  iterationsDone[r] <= iterationsDone[s] + 1
PROOF
<1>1. r = Up(s) \/ r = Down(s)
  BY Neighbours
<1>2. PICK sent \in Nat, received \in Nat, made \in Int, wanted \in Int, transit \in Int :
        /\ sent = Len(sends[s][r]) /\ received = Len(recvs[r][s])
        /\ made = SendsMade(s) /\ wanted = RecvsMade(r) /\ transit = InTransit(s, r)
  BY CountsAreNumbers
<1>3. /\ sent = received + Edges(s, r, made - wanted) + transit
      /\ received <= IF pc[r] \in Calling \union {"exchange"} THEN Edges(s, r, 1) ELSE 0
  BY <1>2 DEF CountInv
<1>4. /\ iterationsDone[r] \in 0 .. Calls /\ iterationsDone[s] \in 0 .. Calls
      /\ Calls \in Nat
  BY CallsAssumption DEF TypeOK
<1>5. made <= iterationsDone[s] + 2
  BY <1>2, <1>4 DEF SendsMade
<1>6. /\ pc[s] \in {"sent", "done"} => iterationsDone[s] = Calls
      /\ pc[r] \in {"load", "exchange"} => iterationsDone[r] = 0
  BY DEF PlacesInv
<1>7. pc[s] \notin {"sent", "done"} => transit <= 0
  <2>1. s \in Nat /\ Len(file) \in Nat
    BY Neighbours, LenProperties DEF MemoryInv
  <2> QED
    BY <1>2, <2>1 DEF InTransit
<1>8. CASE pc[s] \in {"sent", "done"} \/ pc[r] \in {"load", "exchange"}
  BY <1>4, <1>6, <1>8
<1>9. CASE pc[s] \notin {"sent", "done"} /\ pc[r] \in Calling
  <2>1. wanted = iterationsDone[r] + 2
    BY <1>2, <1>9 DEF RecvsMade, Calling
  <2>2. 0 <= Edges(s, r, 1) + Edges(s, r, made - wanted)
    <3>1. Edges(s, r, 1) \in Int /\ Edges(s, r, made - wanted) \in Int
      BY DEF Edges
    <3> QED
      BY <1>3, <1>7, <1>9, <3>1
  <2>3. wanted <= made + 1
    BY <1>1, <2>2 DEF Edges
  <2> QED
    BY <1>4, <1>5, <2>1, <2>3
<1>10. CASE pc[s] \notin {"sent", "done"} /\ pc[r] \notin Calling \union {"load", "exchange"}
  <2>1. wanted = iterationsDone[r] + 1
    BY <1>2, <1>10 DEF RecvsMade
  <2>2. 0 <= Edges(s, r, made - wanted)
    <3>1. Edges(s, r, made - wanted) \in Int
      BY DEF Edges
    <3> QED
      BY <1>3, <1>7, <1>10, <3>1
  <2>3. wanted <= made
    BY <1>1, <2>2 DEF Edges
  <2> QED
    BY <1>4, <1>5, <2>1, <2>3
<1> QED
  BY <1>8, <1>9, <1>10

-----------------------------------------------------------------------------
(* The steps *)

\* What is known as long as the run is not aborted.
Good == TypeOK /\ MemoryInv /\ PlacesInv /\ CountInv

\* Neighbours are in step as long as the balance holds.
LEMMA GoodInStep == Good => InStep
PROOF
<1> SUFFICES ASSUME Good PROVE InStep
  OBVIOUS
<1> USE DEF Good
<1>1. ASSUME NEW r \in Ranks
      PROVE  iterationsDone[r] - iterationsDone[Up(r)] \in -1 .. 1
  <2>1. Up(r) \in Ranks /\ r = Down(Up(r))
    BY <1>1, Neighbours
  <2>2. iterationsDone[r] \in 0 .. Calls /\ iterationsDone[Up(r)] \in 0 .. Calls /\ Calls \in Nat
    BY <1>1, <2>1, CallsAssumption DEF TypeOK
  <2>3. iterationsDone[r] <= iterationsDone[Up(r)] + 1
    BY <1>1, <2>1, CountKeepsInStep
  <2>4. iterationsDone[Up(r)] <= iterationsDone[r] + 1
    BY <1>1, <2>1, CountKeepsInStep
  <2> QED
    BY ONLY <2>2, <2>3, <2>4
<1>2. ASSUME \A r \in Ranks : pc[r] = "done", NEW s \in Ranks, NEW r \in Ranks
      PROVE  sends[s][r] = << >>
  <2>1. iterationsDone[s] = Calls /\ iterationsDone[r] = Calls /\ Calls \in Nat
    BY <1>2, CallsAssumption DEF PlacesInv
  <2>2. SendsMade(s) - RecvsMade(r) = 0
    BY <1>2, <2>1 DEF SendsMade, RecvsMade, Calling
  <2>3. InTransit(s, r) = 0
    <3>1. Len(file) = ProcSize /\ ProcSize > s
      BY <1>2, Neighbours DEF PlacesInv
    <3> QED
      BY <1>2, <3>1 DEF InTransit
  <2>4. Len(recvs[r][s]) <= 0 /\ Len(recvs[r][s]) \in Nat /\ Len(sends[s][r]) \in Nat
    BY <1>2, CountsAreNumbers DEF CountInv, Calling
  <2>5. Len(sends[s][r]) = 0
    BY <1>2, <2>2, <2>3, <2>4 DEF CountInv, Edges
  <2>6. sends[s][r] \in Seq(Messages)
    BY DEF MemoryInv
  <2> QED
    BY <2>5, <2>6, EmptySeq
<1> QED
  BY <1>1, <1>2 DEF InStep

\* Steps that post, receive and write nothing.
LEMMA QuietStep ==
  ASSUME Good, NEW r \in Ranks, NEW to,
         pc' = [pc EXCEPT ![r] = to], UNCHANGED <<iterationsDone, sends, recvs, file>>,
         pc[r] # "load", to # "load",
         pc[r] \in Calling <=> to \in Calling,
         pc[r] \in {"inner", "wait"} <=> to \in {"inner", "wait"},
         r = 0 \/ (pc[r] \in {"sent", "done"} <=> to \in {"sent", "done"}),
         to \in Calling \/ pc[r] \notin Calling \union {"exchange"} \/ AllReceived(r)
  PROVE  CountInv'
PROOF
<1> USE DEF Good
<1>1. /\ pc'[r] = to
      /\ \A q \in Ranks \ {r} : pc'[q] = pc[q]
  BY DEF TypeOK
<1>2. \A q \in Ranks : SendsMade(q)' = SendsMade(q) /\ RecvsMade(q)' = RecvsMade(q)
  BY <1>1 DEF SendsMade, RecvsMade
<1>3. \A s, t \in Ranks : InTransit(s, t)' = InTransit(s, t)
  BY <1>1 DEF InTransit
<1>4. ASSUME NEW s \in Ranks
      PROVE  Len(recvs'[r][s]) <=
               IF pc'[r] \in Calling \union {"exchange"} THEN Edges(s, r, 1) ELSE 0
  <2>1. recvs'[r][s] = recvs[r][s] /\ Edges(s, r, 1) \in Nat /\ Len(<< >>) = 0
    BY DEF Edges
  <2>2. Len(recvs[r][s]) <= IF pc[r] \in Calling \union {"exchange"} THEN Edges(s, r, 1) ELSE 0
    BY DEF CountInv
  <2>3. CASE AllReceived(r)
    <3>1. recvs[r][s] = << >>
      BY <2>3 DEF AllReceived
    <3> QED
      BY <2>1, <3>1
  <2>4. CASE to \in Calling
    BY <1>1, <2>1, <2>2, <2>4
  <2>5. CASE pc[r] \notin Calling \union {"exchange"}
    <3>1. Len(recvs[r][s]) <= 0 /\ Len(recvs[r][s]) \in Nat
      BY <2>2, <2>5, CountsAreNumbers
    <3> QED
      BY <2>1, <3>1
  <2> QED
    BY <2>3, <2>4, <2>5
<1>5. \A s, t \in Ranks : Edges(s, t, 0) = 0
  BY DEF Edges
<1>6. \A q \in Ranks : SendsMade(q)' = SendsMade(q) + 0 /\ RecvsMade(q)' = RecvsMade(q) + 0
  BY <1>2, CountsAreNumbers
<1>7. \A s, t \in Ranks : /\ Len(sends'[s][t]) = Len(sends[s][t]) + 0
                          /\ Len(recvs'[t][s]) = Len(recvs[t][s]) + 0
  BY CountsAreNumbers
<1> QED
  BY <1>1, <1>3, <1>4, <1>5, <1>6, <1>7, CountAfter

\* The steps between places that post nothing.
LEMMA QuietKeeps ==
  ASSUME Good, NEW r \in Ranks,
         Exchanged(r) \/ OpenFile(r) \/ CloseFile(r) \/ SentFragment(r)
  PROVE  Good'
PROOF
<1> USE DEF Good
<1>1. PICK to \in {"ready", "gather", "done"} :
        /\ pc' = [pc EXCEPT ![r] = to]
        /\ \/ pc[r] = "exchange" /\ to = "ready" /\ AllReceived(r)
           \/ pc[r] = "ready" /\ to = "gather" /\ r = 0 /\ iterationsDone[r] = Calls
           \/ pc[r] = "gather" /\ to = "done" /\ r = 0 /\ Len(file) = ProcSize
           \/ pc[r] = "sent" /\ to = "done"
  BY DEF Exchanged, OpenFile, CloseFile, SentFragment, Goto
<1>2. UNCHANGED <<arrays, current, iterationsDone, sends, recvs, file>>
  BY DEF Exchanged, OpenFile, CloseFile, SentFragment
<1>3. pc'[r] = to /\ \A q \in Ranks \ {r} : pc'[q] = pc[q]
  BY <1>1 DEF TypeOK
<1>4. CountInv'
  <2>1. pc[r] # "load" /\ to # "load"
    BY <1>1
  <2>2. pc[r] \in Calling <=> to \in Calling
    BY <1>1 DEF Calling
  <2>3. pc[r] \in {"inner", "wait"} <=> to \in {"inner", "wait"}
    BY <1>1
  <2>4. r = 0 \/ (pc[r] \in {"sent", "done"} <=> to \in {"sent", "done"})
    BY <1>1
  <2>5. to \in Calling \/ pc[r] \notin Calling \union {"exchange"} \/ AllReceived(r)
    BY <1>1 DEF Calling
  <2> QED
    BY <1>1, <1>2, <2>1, <2>2, <2>3, <2>4, <2>5, QuietStep
<1>5. PlacesInv'
  <2>1. r # 0 => pc'[0] = pc[0]
    BY <1>3, Neighbours
  <2>2. r = 0 => pc[r] # "sent"
    BY DEF PlacesInv
  <2> QED
    BY <1>1, <1>2, <1>3, <2>1, <2>2 DEF PlacesInv, Calling
<1>6. TypeOK' /\ MemoryInv'
  BY <1>1, <1>2 DEF TypeOK, MemoryInv
<1> QED
  BY <1>4, <1>5, <1>6

\* The three parts of the iteration.
LEMMA IterateKeeps ==
  ASSUME Good, NEW r \in Ranks, IterateUpper(r) \/ IterateLower(r) \/ IterateInner(r)
  PROVE  Good'
PROOF
<1> USE DEF Good
<1>1. PICK to \in {"down", "send", "wait"} :
        /\ pc' = [pc EXCEPT ![r] = to]
        /\ \/ pc[r] = "up" /\ to = "down"
           \/ pc[r] = "down" /\ to = "send"
           \/ pc[r] = "inner" /\ to = "wait"
  BY DEF IterateUpper, IterateLower, IterateInner, Goto
<1>2. UNCHANGED <<current, iterationsDone, sends, recvs, file>>
  BY DEF IterateUpper, IterateLower, IterateInner
<1>3. pc'[r] = to /\ \A q \in Ranks \ {r} : pc'[q] = pc[q]
  BY <1>1 DEF TypeOK
<1>4. CountInv'
  <2>1. pc[r] # "load" /\ to # "load"
    BY <1>1
  <2>2. pc[r] \in Calling /\ to \in Calling
    BY <1>1 DEF Calling
  <2>3. pc[r] \in {"inner", "wait"} <=> to \in {"inner", "wait"}
    BY <1>1
  <2>4. pc[r] \in {"sent", "done"} <=> to \in {"sent", "done"}
    BY <1>1
  <2> QED
    BY <1>1, <1>2, <2>1, <2>2, <2>3, <2>4, QuietStep
<1>5. PlacesInv'
  <2>1. r # 0 => pc'[0] = pc[0]
    BY <1>3, Neighbours
  <2> QED
    BY <1>1, <1>2, <1>3, <2>1 DEF PlacesInv, Calling
<1>6. PICK down \in Int, up \in Int :
        down >= 0 /\ up <= Part(r) /\ IteratePart(r, down, up)
  <2>1. /\ Part(r) \in Nat /\ Part(r) >= 2 * BorderI /\ BorderI \in Nat
        /\ 0 \in Int /\ Part(r) - BorderI \in Int
    BY PartHoldsEdges, PartInLattice, RowFacts
  <2>2. CASE IterateUpper(r)
    BY <2>1, <2>2 DEF IterateUpper
  <2>3. CASE IterateLower(r)
    BY <2>1, <2>3 DEF IterateLower
  <2>4. CASE IterateInner(r)
    BY <2>1, <2>4 DEF IterateInner
  <2> QED
    BY <2>2, <2>3, <2>4
<1>7. iterationsDone[r] < Calls
  BY <1>1 DEF PlacesInv, Calling
<1>8. MemoryInv'
  <2>1. /\ DOMAIN arrays' = Ranks
        /\ \A q \in Ranks : arrays'[q] \in [{0, 1} -> [Memory(q) -> Rows]]
    BY <1>6, <1>7, IteratedRowsAreRows
  <2> QED
    BY <1>2, <2>1 DEF MemoryInv
<1>9. TypeOK'
  BY <1>1, <1>2, <1>8 DEF TypeOK, MemoryInv
<1> QED
  BY <1>4, <1>5, <1>8, <1>9

\* The end of a call: what was posted for it becomes what was posted by now.
LEMMA ReturnKeeps ==
  ASSUME Good, NEW r \in Ranks, Return(r)
  PROVE  Good'
PROOF
<1> USE DEF Good
<1>1. /\ pc[r] = "wait" /\ pc' = [pc EXCEPT ![r] = "ready"] /\ AllReceived(r)
      /\ current' = [current EXCEPT ![r] = 1 - @]
      /\ iterationsDone' = [iterationsDone EXCEPT ![r] = @ + 1]
      /\ UNCHANGED <<arrays, sends, recvs, file>>
  BY DEF Return, Goto
<1>2. /\ pc'[r] = "ready" /\ iterationsDone'[r] = iterationsDone[r] + 1
      /\ \A q \in Ranks \ {r} : pc'[q] = pc[q] /\ iterationsDone'[q] = iterationsDone[q]
  BY <1>1 DEF TypeOK
<1>3. /\ iterationsDone[r] < Calls /\ iterationsDone \in [Ranks -> 0 .. Calls]
      /\ Calls \in Nat
  BY <1>1, CallsAssumption DEF PlacesInv, Calling, TypeOK
<1>4. TypeOK' /\ MemoryInv'
  <2>1. iterationsDone' \in [Ranks -> 0 .. Calls]
    BY <1>1, <1>3
  <2>2. current' \in [Ranks -> {0, 1}]
    <3>1. current \in [Ranks -> {0, 1}]
      BY DEF TypeOK
    <3>2. 1 - current[r] \in {0, 1}
      BY <3>1
    <3> QED
      BY <1>1, <3>1, <3>2
  <2> QED
    BY <1>1, <2>1, <2>2 DEF TypeOK, MemoryInv
<1>5. PlacesInv'
  <2>1. r # 0 => pc'[0] = pc[0]
    BY <1>2, Neighbours
  <2> QED
    BY <1>1, <1>2, <2>1 DEF PlacesInv, Calling
<1>6. CountInv'
  <2>1. ASSUME NEW q \in Ranks
        PROVE  SendsMade(q)' = SendsMade(q) + 0 /\ RecvsMade(q)' = RecvsMade(q) + 0
    <3>1. CASE q = r
      <4>1. /\ SendsMade(q)' = (iterationsDone[r] + 1) + 1
            /\ RecvsMade(q)' = (iterationsDone[r] + 1) + 1
            /\ SendsMade(q) = iterationsDone[r] + 2 /\ RecvsMade(q) = iterationsDone[r] + 2
        BY <1>1, <1>2, <3>1 DEF SendsMade, RecvsMade, Calling
      <4> QED
        BY <1>3, <4>1
    <3>2. CASE q # r
      <4>1. SendsMade(q)' = SendsMade(q) /\ RecvsMade(q)' = RecvsMade(q)
        BY <1>2, <3>2 DEF SendsMade, RecvsMade
      <4> QED
        BY <4>1, CountsAreNumbers
    <3> QED
      BY <3>1, <3>2
  <2>2. \A s, t \in Ranks : InTransit(s, t)' = InTransit(s, t)
    BY <1>1, <1>2 DEF InTransit
  <2>3. \A s, t \in Ranks : /\ Len(sends'[s][t]) = Len(sends[s][t]) + 0
                            /\ Len(recvs'[t][s]) = Len(recvs[t][s]) + 0
    BY <1>1, CountsAreNumbers
  <2>4. \A s \in Ranks : Len(recvs'[r][s]) <=
          IF pc'[r] \in Calling \union {"exchange"} THEN Edges(s, r, 1) ELSE 0
    BY <1>1, <1>2 DEF AllReceived, Calling
  <2>5. \A s, t \in Ranks : Edges(s, t, 0) = 0
    BY DEF Edges
  <2> QED
    BY <1>2, <2>1, <2>2, <2>3, <2>4, <2>5, CountAfter
<1> QED
  BY <1>4, <1>5, <1>6

\* The two edges a rank sends.
LEMMA SendsPosted ==
  ASSUME Good, NEW r \in Ranks, NEW n, PostSends(r, n)
  PROVE  /\ sends' \in [Ranks -> [Ranks -> Seq(Messages)]]
         /\ \A s, t \in Ranks : Len(sends'[s][t]) =
              Len(sends[s][t]) + (IF s = r THEN Edges(s, t, 1) ELSE 0)
PROOF
<1> USE DEF Good
<1>1. PICK x \in Messages, y \in Messages :
        sends' = Post(r, sends, <<Up(r), x>>, <<Down(r), y>>)
  <2>1. arrays[r][current[r]] \in [Memory(r) -> Rows]
    BY DEF TypeOK, MemoryInv
  <2> QED
    BY <2>1, SliceIsMessage DEF PostSends
<1> DEFINE a(t) == IF t = Up(r) THEN <<x>> ELSE << >>
           b(t) == IF t = Down(r) THEN <<y>> ELSE << >>
<1>2. sends \in [Ranks -> [Ranks -> Seq(Messages)]]
  BY DEF MemoryInv
<1>3. sends' = [sends EXCEPT ![r] = [t \in Ranks |-> (sends[r][t] \o a(t)) \o b(t)]]
  BY <1>1, <1>2 DEF Post
<1>4. \A t : /\ a(t) \in Seq(Messages) /\ Len(a(t)) = (IF t = Up(r) THEN 1 ELSE 0)
            /\ b(t) \in Seq(Messages) /\ Len(b(t)) = (IF t = Down(r) THEN 1 ELSE 0)
  OBVIOUS
<1> HIDE DEF a, b
<1>5. ASSUME NEW t \in Ranks
      PROVE  /\ (sends[r][t] \o a(t)) \o b(t) \in Seq(Messages)
             /\ Len((sends[r][t] \o a(t)) \o b(t)) =
                  (Len(sends[r][t]) + Len(a(t))) + Len(b(t))
  <2>1. sends[r][t] \in Seq(Messages)
    BY <1>2, <1>5
  <2> QED
    BY ONLY <1>4, <2>1, Appended
<1>6. sends' \in [Ranks -> [Ranks -> Seq(Messages)]]
  BY ONLY <1>2, <1>3, <1>5
<1>7. ASSUME NEW s \in Ranks, NEW t \in Ranks
      PROVE  Len(sends'[s][t]) = Len(sends[s][t]) + (IF s = r THEN Edges(s, t, 1) ELSE 0)
  <2>1. PICK l \in Nat : l = Len(sends[s][t])
    BY <1>7, CountsAreNumbers
  <2>2. CASE s = r
    <3>1. sends'[s][t] = (sends[r][t] \o a(t)) \o b(t)
      BY ONLY <1>2, <1>3, <1>7, <2>2
    <3>2. Len(sends'[s][t]) = (l + Len(a(t))) + Len(b(t))
      BY ONLY <1>5, <1>7, <2>1, <2>2, <3>1
    <3>3. PICK u \in Nat, v \in Nat :
            /\ u = Len(a(t)) /\ v = Len(b(t))
            /\ u = (IF t = Up(r) THEN 1 ELSE 0) /\ v = (IF t = Down(r) THEN 1 ELSE 0)
      BY ONLY <1>4
    <3>4. Len(sends'[s][t]) = l + u + v
      BY ONLY <3>2, <3>3
    <3>5. Edges(s, t, 1) = u + v
      BY ONLY <2>2, <3>3 DEF Edges
    <3>6. Len(sends'[s][t]) = l + Edges(s, t, 1)
      BY ONLY <3>3, <3>4, <3>5
    <3> QED
      BY ONLY <2>1, <2>2, <3>6
  <2>3. CASE s # r
    <3>1. sends'[s][t] = sends[s][t]
      BY ONLY <1>2, <1>3, <1>7, <2>3
    <3> QED
      BY ONLY <2>1, <2>3, <3>1
  <2> QED
    BY <2>2, <2>3
<1> QED
  BY <1>6, <1>7

\* The two ghost rows it receives.
LEMMA ReceivesPosted ==
  ASSUME Good, NEW r \in Ranks, NEW n \in Int, PostRecvs(r, n)
  PROVE  /\ recvs' \in [Ranks -> [Ranks -> Seq(Requests)]]
         /\ \A s, t \in Ranks : Len(recvs'[t][s]) =
              Len(recvs[t][s]) + (IF t = r THEN Edges(s, t, 1) ELSE 0)
PROOF
<1> USE DEF Good
<1>1. PICK x \in Requests, y \in Requests :
        recvs' = Post(r, recvs, <<Down(r), x>>, <<Up(r), y>>)
  <2> DEFINE lower == [array |-> current[r], begin |-> n - BorderI]
             upper == [array |-> current[r], begin |-> 0]
  <2>1. current[r] \in {0, 1} /\ n - BorderI \in Int
    BY RowFacts DEF TypeOK
  <2>2. lower \in Requests /\ upper \in Requests
    BY <2>1 DEF Requests
  <2>3. recvs' = Post(r, recvs, <<Down(r), lower>>, <<Up(r), upper>>)
    BY DEF PostRecvs
  <2> HIDE DEF lower, upper
  <2> QED
    BY <2>2, <2>3
<1> DEFINE a(t) == IF t = Down(r) THEN <<x>> ELSE << >>
           b(t) == IF t = Up(r) THEN <<y>> ELSE << >>
<1>2. recvs \in [Ranks -> [Ranks -> Seq(Requests)]]
  BY DEF MemoryInv, Requests
<1>3. recvs' = [recvs EXCEPT ![r] = [t \in Ranks |-> (recvs[r][t] \o a(t)) \o b(t)]]
  BY <1>1, <1>2 DEF Post
<1>4. \A t : /\ a(t) \in Seq(Requests) /\ Len(a(t)) = (IF t = Down(r) THEN 1 ELSE 0)
            /\ b(t) \in Seq(Requests) /\ Len(b(t)) = (IF t = Up(r) THEN 1 ELSE 0)
  OBVIOUS
<1> HIDE DEF a, b
<1>5. ASSUME NEW t \in Ranks
      PROVE  /\ (recvs[r][t] \o a(t)) \o b(t) \in Seq(Requests)
             /\ Len((recvs[r][t] \o a(t)) \o b(t)) =
                  (Len(recvs[r][t]) + Len(a(t))) + Len(b(t))
  <2>1. recvs[r][t] \in Seq(Requests)
    BY <1>2, <1>5
  <2> QED
    BY ONLY <1>4, <2>1, Appended
<1>6. recvs' \in [Ranks -> [Ranks -> Seq(Requests)]]
  BY ONLY <1>2, <1>3, <1>5
<1>7. ASSUME NEW s \in Ranks, NEW t \in Ranks
      PROVE  Len(recvs'[t][s]) = Len(recvs[t][s]) + (IF t = r THEN Edges(s, t, 1) ELSE 0)
  <2>1. PICK l \in Nat : l = Len(recvs[t][s])
    BY <1>7, CountsAreNumbers
  <2>2. CASE t = r
    <3>1. recvs'[t][s] = (recvs[r][s] \o a(s)) \o b(s)
      BY ONLY <1>2, <1>3, <1>7, <2>2
    <3>2. Len(recvs'[t][s]) = (l + Len(a(s))) + Len(b(s))
      BY ONLY <1>5, <1>7, <2>1, <2>2, <3>1
    <3>3. (s = Down(r) <=> t = Up(s)) /\ (s = Up(r) <=> t = Down(s))
      BY <1>7, <2>2, Neighbours
    <3>4. PICK u \in Nat, v \in Nat :
            /\ u = Len(a(s)) /\ v = Len(b(s))
            /\ u = (IF s = Down(r) THEN 1 ELSE 0) /\ v = (IF s = Up(r) THEN 1 ELSE 0)
      BY ONLY <1>4
    <3>5. Len(recvs'[t][s]) = l + u + v
      BY ONLY <3>2, <3>4
    <3>6. Edges(s, t, 1) = u + v
      BY ONLY <3>3, <3>4 DEF Edges
    <3>7. Len(recvs'[t][s]) = l + Edges(s, t, 1)
      BY ONLY <3>4, <3>5, <3>6
    <3> QED
      BY ONLY <2>1, <2>2, <3>7
  <2>3. CASE t # r
    <3>1. recvs'[t][s] = recvs[t][s]
      BY ONLY <1>2, <1>3, <1>7, <2>3
    <3> QED
      BY ONLY <2>1, <2>3, <3>1
  <2> QED
    BY <2>2, <2>3
<1> QED
  BY <1>6, <1>7

\* The exchange after the load posts both.
LEMMA ExchangeKeeps ==
  ASSUME Good, NEW r \in Ranks, BoundExchange(r)
  PROVE  Good'
PROOF
<1> USE DEF Good
<1>1. /\ pc[r] = "load" /\ pc' = [pc EXCEPT ![r] = "exchange"]
      /\ UNCHANGED <<arrays, current, iterationsDone, file>>
  BY DEF BoundExchange, Goto
<1>2. pc'[r] = "exchange" /\ \A q \in Ranks \ {r} : pc'[q] = pc[q]
  BY <1>1 DEF TypeOK
<1>3. \A s, t \in Ranks : Edges(s, t, 0) = 0
  BY DEF Edges
<1>4. /\ sends' \in [Ranks -> [Ranks -> Seq(Messages)]]
      /\ \A s, t \in Ranks : Len(sends'[s][t]) =
           Len(sends[s][t]) + (IF s = r THEN Edges(s, t, 1) ELSE 0)
  BY SendsPosted DEF BoundExchange
<1>5. /\ recvs' \in [Ranks -> [Ranks -> Seq(Requests)]]
      /\ \A s, t \in Ranks : Len(recvs'[t][s]) =
           Len(recvs[t][s]) + (IF t = r THEN Edges(s, t, 1) ELSE 0)
  <2>1. LoadedRows(r) \in Int
    BY PartInLattice, RowFacts, SizeAssumption DEF LoadedRows, IteratedRows
  <2> QED
    BY <2>1, ReceivesPosted DEF BoundExchange
<1>6. TypeOK' /\ MemoryInv'
  BY <1>1, <1>4, <1>5 DEF TypeOK, MemoryInv, Requests
<1>7. PlacesInv'
  <2>1. r # 0 => pc'[0] = pc[0]
    BY <1>2, Neighbours
  <2> QED
    BY <1>1, <1>2, <2>1 DEF PlacesInv, Calling
<1>8. \A q \in Ranks : /\ SendsMade(q)' = SendsMade(q) + (IF q = r THEN 1 ELSE 0)
                       /\ RecvsMade(q)' = RecvsMade(q) + (IF q = r THEN 1 ELSE 0)
  <2> SUFFICES ASSUME NEW q \in Ranks
               PROVE  /\ SendsMade(q)' = SendsMade(q) + (IF q = r THEN 1 ELSE 0)
                      /\ RecvsMade(q)' = RecvsMade(q) + (IF q = r THEN 1 ELSE 0)
    OBVIOUS
  <2>1. CASE q = r
    <3>1. iterationsDone[r] \in Int /\ (pc[r] = "load" => iterationsDone[r] = 0)
      BY CallsAssumption DEF TypeOK, PlacesInv
    <3> QED
      BY <1>1, <1>2, <2>1, <3>1 DEF SendsMade, RecvsMade, Calling
  <2>2. CASE q # r
    <3>1. SendsMade(q)' = SendsMade(q) /\ RecvsMade(q)' = RecvsMade(q)
      BY <1>1, <1>2, <2>2 DEF SendsMade, RecvsMade
    <3> QED
      BY <2>2, <3>1, CountsAreNumbers
  <2> QED
    BY <2>1, <2>2
<1>9. \A s, t \in Ranks : InTransit(s, t)' = InTransit(s, t)
  BY <1>1, <1>2 DEF InTransit
<1>10. ASSUME NEW s \in Ranks
       PROVE  Len(recvs'[r][s]) <=
                IF pc'[r] \in Calling \union {"exchange"} THEN Edges(s, r, 1) ELSE 0
  <2>1. pc'[r] \in Calling \union {"exchange"}
    BY <1>2 DEF Calling
  <2>2. Edges(s, r, 1) \in Nat /\ Edges(s, r, 0) = 0
    BY DEF Edges
  <2>3. Len(recvs[r][s]) <= 0 /\ Len(recvs[r][s]) \in Nat
    BY <1>1, <1>10, CountsAreNumbers DEF CountInv, Calling
  <2>4. Len(recvs'[r][s]) = Len(recvs[r][s]) + Edges(s, r, 1)
    BY <1>5, <1>10
  <2> QED
    BY <2>1, <2>2, <2>3, <2>4
<1> QED
  <2>1. CountInv'
    BY ONLY TypeOK, MemoryInv, CountInv, r \in Ranks, 1 \in {0, 1}, 1 \in {0, 1},
            <1>2, <1>4, <1>5, <1>8, <1>9, <1>10, CountAfter
  <2> QED
    BY <1>6, <1>7, <2>1

\* A call begins with its receives.
LEMMA RecvKeeps ==
  ASSUME Good, NEW r \in Ranks, BoundRecv(r)
  PROVE  Good'
PROOF
<1> USE DEF Good
<1>1. /\ pc[r] = "ready" /\ pc' = [pc EXCEPT ![r] = "up"]
      /\ UNCHANGED <<arrays, current, iterationsDone, file>>
  BY DEF BoundRecv, Goto
<1>2. pc'[r] = "up" /\ \A q \in Ranks \ {r} : pc'[q] = pc[q]
  BY <1>1 DEF TypeOK
<1>3. \A s, t \in Ranks : Edges(s, t, 0) = 0
  BY DEF Edges
<1>4. /\ sends' \in [Ranks -> [Ranks -> Seq(Messages)]]
      /\ \A s, t \in Ranks : Len(sends'[s][t]) =
           Len(sends[s][t]) + (IF s = r THEN Edges(s, t, 0) ELSE 0)
  <2>1. sends' = sends
    BY DEF BoundRecv
  <2>2. ASSUME NEW s \in Ranks, NEW t \in Ranks
        PROVE  Len(sends'[s][t]) = Len(sends[s][t]) + (IF s = r THEN Edges(s, t, 0) ELSE 0)
    <3>1. Len(sends[s][t]) \in Nat /\ Edges(s, t, 0) = 0
      BY <1>3, <2>2, CountsAreNumbers
    <3>2. PICK l \in Nat : l = Len(sends[s][t]) /\ l = Len(sends'[s][t])
      BY ONLY <2>1, <3>1
    <3>3. (IF s = r THEN Edges(s, t, 0) ELSE 0) = 0
      BY ONLY <3>1
    <3> QED
      BY ONLY <3>2, <3>3
  <2> QED
    BY <2>1, <2>2 DEF MemoryInv
<1>5. /\ recvs' \in [Ranks -> [Ranks -> Seq(Requests)]]
      /\ \A s, t \in Ranks : Len(recvs'[t][s]) =
           Len(recvs[t][s]) + (IF t = r THEN Edges(s, t, 1) ELSE 0)
  <2>1. IteratedRows(r) \in Int
    BY PartInLattice, RowFacts, SizeAssumption DEF LoadedRows, IteratedRows
  <2> QED
    BY <2>1, ReceivesPosted DEF BoundRecv
<1>6. TypeOK' /\ MemoryInv'
  BY <1>1, <1>4, <1>5 DEF TypeOK, MemoryInv, Requests
<1>7. PlacesInv'
  <2>1. r # 0 => pc'[0] = pc[0]
    BY <1>2, Neighbours
  <2>2. iterationsDone[r] < Calls
    BY DEF BoundRecv
  <2> QED
    BY <1>1, <1>2, <2>1, <2>2 DEF PlacesInv, Calling
<1>8. \A q \in Ranks : /\ SendsMade(q)' = SendsMade(q) + (IF q = r THEN 0 ELSE 0)
                       /\ RecvsMade(q)' = RecvsMade(q) + (IF q = r THEN 1 ELSE 0)
  <2> SUFFICES ASSUME NEW q \in Ranks
               PROVE  /\ SendsMade(q)' = SendsMade(q) + (IF q = r THEN 0 ELSE 0)
                      /\ RecvsMade(q)' = RecvsMade(q) + (IF q = r THEN 1 ELSE 0)
    OBVIOUS
  <2>1. CASE q = r
    <3>1. iterationsDone[r] \in Int /\ (pc[r] = "load" => iterationsDone[r] = 0)
      BY CallsAssumption DEF TypeOK, PlacesInv
    <3> QED
      BY <1>1, <1>2, <2>1, <3>1 DEF SendsMade, RecvsMade, Calling
  <2>2. CASE q # r
    <3>1. SendsMade(q)' = SendsMade(q) /\ RecvsMade(q)' = RecvsMade(q)
      BY <1>1, <1>2, <2>2 DEF SendsMade, RecvsMade
    <3> QED
      BY <2>2, <3>1, CountsAreNumbers
  <2> QED
    BY <2>1, <2>2
<1>9. \A s, t \in Ranks : InTransit(s, t)' = InTransit(s, t)
  BY <1>1, <1>2 DEF InTransit
<1>10. ASSUME NEW s \in Ranks
       PROVE  Len(recvs'[r][s]) <=
                IF pc'[r] \in Calling \union {"exchange"} THEN Edges(s, r, 1) ELSE 0
  <2>1. pc'[r] \in Calling \union {"exchange"}
    BY <1>2 DEF Calling
  <2>2. Edges(s, r, 1) \in Nat /\ Edges(s, r, 0) = 0
    BY DEF Edges
  <2>3. Len(recvs[r][s]) <= 0 /\ Len(recvs[r][s]) \in Nat
    BY <1>1, <1>10, CountsAreNumbers DEF CountInv, Calling
  <2>4. Len(recvs'[r][s]) = Len(recvs[r][s]) + Edges(s, r, 1)
    BY <1>5, <1>10
  <2> QED
    BY <2>1, <2>2, <2>3, <2>4
<1> QED
  <2>1. CountInv'
    BY ONLY TypeOK, MemoryInv, CountInv, r \in Ranks, 0 \in {0, 1}, 1 \in {0, 1},
            <1>2, <1>4, <1>5, <1>8, <1>9, <1>10, CountAfter
  <2> QED
    BY <1>6, <1>7, <2>1

\* Its sends come later.
LEMMA SendKeeps ==
  ASSUME Good, NEW r \in Ranks, BoundSend(r)
  PROVE  Good'
PROOF
<1> USE DEF Good
<1>1. /\ pc[r] = "send" /\ pc' = [pc EXCEPT ![r] = "inner"]
      /\ UNCHANGED <<arrays, current, iterationsDone, file>>
  BY DEF BoundSend, Goto
<1>2. pc'[r] = "inner" /\ \A q \in Ranks \ {r} : pc'[q] = pc[q]
  BY <1>1 DEF TypeOK
<1>3. \A s, t \in Ranks : Edges(s, t, 0) = 0
  BY DEF Edges
<1>4. /\ sends' \in [Ranks -> [Ranks -> Seq(Messages)]]
      /\ \A s, t \in Ranks : Len(sends'[s][t]) =
           Len(sends[s][t]) + (IF s = r THEN Edges(s, t, 1) ELSE 0)
  BY SendsPosted DEF BoundSend
<1>5. /\ recvs' \in [Ranks -> [Ranks -> Seq(Requests)]]
      /\ \A s, t \in Ranks : Len(recvs'[t][s]) =
           Len(recvs[t][s]) + (IF t = r THEN Edges(s, t, 0) ELSE 0)
  <2>1. recvs' = recvs
    BY DEF BoundSend
  <2>2. ASSUME NEW s \in Ranks, NEW t \in Ranks
        PROVE  Len(recvs'[t][s]) = Len(recvs[t][s]) + (IF t = r THEN Edges(s, t, 0) ELSE 0)
    <3>1. Len(recvs[t][s]) \in Nat /\ Edges(s, t, 0) = 0
      BY <1>3, <2>2, CountsAreNumbers
    <3>2. PICK l \in Nat : l = Len(recvs[t][s]) /\ l = Len(recvs'[t][s])
      BY ONLY <2>1, <3>1
    <3>3. (IF t = r THEN Edges(s, t, 0) ELSE 0) = 0
      BY ONLY <3>1
    <3> QED
      BY ONLY <3>2, <3>3
  <2> QED
    BY <2>1, <2>2 DEF MemoryInv, Requests
<1>6. TypeOK' /\ MemoryInv'
  BY <1>1, <1>4, <1>5 DEF TypeOK, MemoryInv, Requests
<1>7. PlacesInv'
  <2>1. r # 0 => pc'[0] = pc[0]
    BY <1>2, Neighbours
  <2> QED
    BY <1>1, <1>2, <2>1 DEF PlacesInv, Calling
<1>8. \A q \in Ranks : /\ SendsMade(q)' = SendsMade(q) + (IF q = r THEN 1 ELSE 0)
                       /\ RecvsMade(q)' = RecvsMade(q) + (IF q = r THEN 0 ELSE 0)
  <2> SUFFICES ASSUME NEW q \in Ranks
               PROVE  /\ SendsMade(q)' = SendsMade(q) + (IF q = r THEN 1 ELSE 0)
                      /\ RecvsMade(q)' = RecvsMade(q) + (IF q = r THEN 0 ELSE 0)
    OBVIOUS
  <2>1. CASE q = r
    <3>1. iterationsDone[r] \in Int /\ (pc[r] = "load" => iterationsDone[r] = 0)
      BY CallsAssumption DEF TypeOK, PlacesInv
    <3> QED
      BY <1>1, <1>2, <2>1, <3>1 DEF SendsMade, RecvsMade, Calling
  <2>2. CASE q # r
    <3>1. SendsMade(q)' = SendsMade(q) /\ RecvsMade(q)' = RecvsMade(q)
      BY <1>1, <1>2, <2>2 DEF SendsMade, RecvsMade
    <3> QED
      BY <2>2, <3>1, CountsAreNumbers
  <2> QED
    BY <2>1, <2>2
<1>9. \A s, t \in Ranks : InTransit(s, t)' = InTransit(s, t)
  BY <1>1, <1>2 DEF InTransit
<1>10. ASSUME NEW s \in Ranks
       PROVE  Len(recvs'[r][s]) <=
                IF pc'[r] \in Calling \union {"exchange"} THEN Edges(s, r, 1) ELSE 0
  <2>1. pc'[r] \in Calling \union {"exchange"}
    BY <1>2 DEF Calling
  <2>2. Edges(s, r, 1) \in Nat /\ Edges(s, r, 0) = 0
    BY DEF Edges
  <2>3. Len(recvs[r][s]) <= Edges(s, r, 1) /\ Len(recvs[r][s]) \in Nat
    BY <1>1, <1>10, CountsAreNumbers DEF CountInv, Calling
  <2>4. Len(recvs'[r][s]) = Len(recvs[r][s]) + Edges(s, r, 0)
    BY <1>5, <1>10
  <2> QED
    BY <2>1, <2>2, <2>3, <2>4
<1> QED
  <2>1. CountInv'
    BY ONLY TypeOK, MemoryInv, CountInv, r \in Ranks, 1 \in {0, 1}, 0 \in {0, 1},
            <1>2, <1>4, <1>5, <1>8, <1>9, <1>10, CountAfter
  <2> QED
    BY <1>6, <1>7, <2>1

\* Two ranks whose queues change together.
LEMMA PairBalanced ==
  ASSUME TypeOK, MemoryInv, CountInv, NEW s \in Ranks, NEW t \in Ranks,
         NEW d \in Int, NEW e \in Int, NEW f \in Int, d = e + f,
         Len(sends'[s][t]) = Len(sends[s][t]) + d,
         Len(recvs'[t][s]) = Len(recvs[t][s]) + e,
         InTransit(s, t)' = InTransit(s, t) + f,
         SendsMade(s)' = SendsMade(s), RecvsMade(t)' = RecvsMade(t)
  PROVE  Len(sends'[s][t]) = Len(recvs'[t][s])
           + Edges(s, t, SendsMade(s)' - RecvsMade(t)') + InTransit(s, t)'
PROOF
<1>1. PICK sent \in Int, received \in Int, edges \in Int, transit \in Int :
        /\ sent = Len(sends[s][t]) /\ received = Len(recvs[t][s])
        /\ edges = Edges(s, t, SendsMade(s) - RecvsMade(t))
        /\ transit = InTransit(s, t)
  <2>1. /\ Len(sends[s][t]) \in Int /\ Len(recvs[t][s]) \in Int
        /\ SendsMade(s) \in Int /\ RecvsMade(t) \in Int /\ InTransit(s, t) \in Int
    BY ONLY TypeOK, MemoryInv, s \in Ranks, t \in Ranks, CountsAreNumbers
  <2>2. Edges(s, t, SendsMade(s) - RecvsMade(t)) \in Int
    BY <2>1 DEF Edges
  <2> QED
    BY ONLY <2>1, <2>2
<1>2. sent = received + edges + transit
  BY <1>1 DEF CountInv
<1>3. /\ Len(sends'[s][t]) = sent + d
      /\ Len(recvs'[t][s]) = received + e
      /\ InTransit(s, t)' = transit + f
      /\ Edges(s, t, SendsMade(s)' - RecvsMade(t)') = edges
  BY <1>1
<1>4. sent + d = (received + e) + edges + (transit + f)
  BY ONLY <1>2, d = e + f, d \in Int, e \in Int, f \in Int
<1> QED
  BY ONLY <1>3, <1>4

\* A rank that is not the root sends its fragment.
LEMMA FragmentKeeps ==
  ASSUME Good, NEW r \in Ranks, SendFragment(r)
  PROVE  Good'
PROOF
<1> USE DEF Good
<1> DEFINE c == Contribution(r)
<1>1. /\ r # 0 /\ iterationsDone[r] = Calls
      /\ pc[r] = "ready" /\ pc' = [pc EXCEPT ![r] = "sent"]
      /\ sends' = [sends EXCEPT ![r][0] = Append(@, c)]
      /\ UNCHANGED <<arrays, current, iterationsDone, recvs, file>>
  BY DEF SendFragment, Goto
<1>2. c \in Messages
  BY ContributionIsMessage
<1> HIDE DEF c
<1>3. pc'[r] = "sent" /\ \A q \in Ranks \ {r} : pc'[q] = pc[q]
  BY <1>1 DEF TypeOK
<1>4. 0 \in Ranks
  BY Neighbours
<1>5. sends \in [Ranks -> [Ranks -> Seq(Messages)]]
  BY DEF MemoryInv
<1>6. /\ Append(sends[r][0], c) \in Seq(Messages)
      /\ Len(Append(sends[r][0], c)) = Len(sends[r][0]) + 1
  <2>1. sends[r][0] \in Seq(Messages)
    BY <1>4, <1>5
  <2> QED
    BY ONLY <1>2, <2>1, AppendProperties
<1>7. sends' = [sends EXCEPT ![r] = [sends[r] EXCEPT ![0] = Append(sends[r][0], c)]]
  BY <1>1
<1>8. /\ sends' \in [Ranks -> [Ranks -> Seq(Messages)]]
      /\ sends'[r][0] = Append(sends[r][0], c)
      /\ \A s, t \in Ranks : s # r \/ t # 0 => sends'[s][t] = sends[s][t]
  BY ONLY <1>4, <1>5, <1>6, <1>7, r \in Ranks
<1>9. TypeOK' /\ MemoryInv'
  BY <1>1, <1>8 DEF TypeOK, MemoryInv
<1>10. PlacesInv'
  <2>1. pc'[0] = pc[0]
    BY <1>1, <1>3, <1>4
  <2> QED
    BY <1>1, <1>3, <2>1 DEF PlacesInv, Calling
<1>11. \A q \in Ranks : SendsMade(q)' = SendsMade(q) /\ RecvsMade(q)' = RecvsMade(q)
  BY <1>1, <1>3 DEF SendsMade, RecvsMade, Calling
<1>12. ASSUME NEW s \in Ranks, NEW t \in Ranks
       PROVE  Len(sends'[s][t]) = Len(recvs'[t][s])
                + Edges(s, t, SendsMade(s)' - RecvsMade(t)') + InTransit(s, t)'
  <2>1. Len(sends[s][t]) \in Int /\ Len(recvs[t][s]) \in Int /\ InTransit(s, t) \in Int
    BY <1>12, CountsAreNumbers
  <2>2. Len(recvs'[t][s]) = Len(recvs[t][s]) + 0
    BY <1>1, <2>1
  <2>3. CASE s = r /\ t = 0
    <3>1. Len(sends'[s][t]) = Len(sends[s][t]) + 1
      BY <1>6, <1>8, <2>3
    <3>2. InTransit(s, t)' = InTransit(s, t) + 1
      BY <1>1, <1>3, <2>3 DEF InTransit
    <3> QED
      BY ONLY TypeOK, MemoryInv, CountInv, s \in Ranks, t \in Ranks,
              0 \in Int, 1 \in Int, 1 = 0 + 1, <1>11, <2>2, <3>1, <3>2, PairBalanced
  <2>4. CASE s # r \/ t # 0
    <3>1. Len(sends'[s][t]) = Len(sends[s][t]) + 0
      <4>1. sends'[s][t] = sends[s][t]
        BY <1>8, <1>12, <2>4
      <4> QED
        BY ONLY <2>1, <4>1
    <3>2. InTransit(s, t)' = InTransit(s, t) + 0
      <4>1. InTransit(s, t)' = InTransit(s, t)
        BY <1>1, <1>3, <2>4 DEF InTransit
      <4> QED
        BY <2>1, <4>1
    <3> QED
      BY ONLY TypeOK, MemoryInv, CountInv, s \in Ranks, t \in Ranks,
              0 \in Int, 0 = 0 + 0, <1>11, <2>2, <3>1, <3>2, PairBalanced
  <2> QED
    BY <2>3, <2>4
<1>13. ASSUME NEW s \in Ranks, NEW t \in Ranks
       PROVE  Len(recvs'[t][s]) <=
                IF pc'[t] \in Calling \union {"exchange"} THEN Edges(s, t, 1) ELSE 0
  <2>1. pc'[t] \in Calling \union {"exchange"} <=> pc[t] \in Calling \union {"exchange"}
    BY <1>1, <1>3, <1>13 DEF Calling
  <2> QED
    BY <1>1, <2>1 DEF CountInv
<1> QED
  BY <1>9, <1>10, <1>12, <1>13 DEF CountInv

\* The root writes its own fragment, which changes no queue.
LEMMA WriteOwnKeeps ==
  ASSUME Good, NEW r \in Ranks, WriteOwn(r)
  PROVE  Good'
PROOF
<1> USE DEF Good
<1> DEFINE c == Contribution(r)
<1>1. /\ pc[0] = "gather" /\ file = << >> /\ file' = <<c>>
      /\ UNCHANGED <<arrays, current, iterationsDone, pc, sends, recvs>>
  BY DEF WriteOwn
<1>2. c \in Messages
  BY ContributionIsMessage
<1> HIDE DEF c
<1>3. file' \in Seq(Messages) /\ Len(file) = 0 /\ Len(file') = 1
  BY ONLY <1>1, <1>2
<1>4. TypeOK' /\ MemoryInv' /\ PlacesInv'
  BY <1>1, <1>3 DEF TypeOK, MemoryInv, PlacesInv
<1>5. \A s, t \in Ranks : InTransit(s, t)' = InTransit(s, t)
  <2> SUFFICES ASSUME NEW s \in Ranks, NEW t \in Ranks
               PROVE  InTransit(s, t)' = InTransit(s, t)
    OBVIOUS
  <2>1. s \in Nat
    BY Neighbours
  <2>2. s # 0 => ((Len(file') > s) <=> (Len(file) > s))
    BY ONLY <1>3, <2>1
  <2> QED
    BY <1>1, <2>2 DEF InTransit
<1>6. CountInv'
  BY <1>1, <1>5 DEF CountInv, SendsMade, RecvsMade
<1> QED
  BY <1>4, <1>6

\* The root receives the fragment of the next rank and writes it.
LEMMA WriteReceivedKeeps ==
  ASSUME Good, NEW r \in Ranks, NEW u \in Ranks, WriteReceived(r, u)
  PROVE  Good'
PROOF
<1> USE DEF Good
<1>1. /\ r = 0 /\ pc[0] = "gather" /\ u = Len(file) /\ u # 0
      /\ sends[u][0] # << >>
      /\ file' = Append(file, Head(sends[u][0]))
      /\ sends' = [sends EXCEPT ![u][0] = Tail(@)]
      /\ UNCHANGED <<arrays, current, iterationsDone, pc, recvs>>
  BY DEF WriteReceived
<1>2. 0 \in Ranks
  BY <1>1
<1>3. sends \in [Ranks -> [Ranks -> Seq(Messages)]] /\ file \in Seq(Messages)
  BY DEF MemoryInv
<1>4. sends[u][0] \in Seq(Messages) /\ sends[u][0] # << >>
  BY <1>1, <1>2, <1>3
<1>5. /\ Head(sends[u][0]) \in Messages
      /\ Tail(sends[u][0]) \in Seq(Messages)
      /\ Len(Tail(sends[u][0])) = Len(sends[u][0]) - 1
  BY ONLY <1>4, HeadTailProperties
<1>6. file' \in Seq(Messages) /\ Len(file) \in Nat /\ Len(file') = Len(file) + 1
  BY ONLY <1>1, <1>3, <1>5, AppendProperties, LenProperties
<1>7. sends' = [sends EXCEPT ![u] = [sends[u] EXCEPT ![0] = Tail(sends[u][0])]]
  BY <1>1
<1>8. /\ sends' \in [Ranks -> [Ranks -> Seq(Messages)]]
      /\ sends'[u][0] = Tail(sends[u][0])
      /\ \A s, t \in Ranks : s # u \/ t # 0 => sends'[s][t] = sends[s][t]
  BY ONLY <1>2, <1>3, <1>5, <1>7, u \in Ranks
<1>9. TypeOK' /\ MemoryInv'
  BY <1>1, <1>6, <1>8 DEF TypeOK, MemoryInv
<1>10. PlacesInv'
  BY <1>1 DEF PlacesInv
<1>11. \A q \in Ranks : SendsMade(q)' = SendsMade(q) /\ RecvsMade(q)' = RecvsMade(q)
  BY <1>1 DEF SendsMade, RecvsMade
<1>12. ASSUME NEW s \in Ranks, NEW t \in Ranks
       PROVE  Len(sends'[s][t]) = Len(recvs'[t][s])
                + Edges(s, t, SendsMade(s)' - RecvsMade(t)') + InTransit(s, t)'
  <2>1. Len(sends[s][t]) \in Int /\ Len(recvs[t][s]) \in Int /\ InTransit(s, t) \in Int
    BY <1>12, CountsAreNumbers
  <2>2. Len(recvs'[t][s]) = Len(recvs[t][s]) + 0
    BY <1>1, <2>1
  <2>3. s \in Nat /\ u \in Nat
    BY <1>12, Neighbours
  <2>4. CASE s = u /\ t = 0
    <3>1. Len(sends'[s][t]) = Len(sends[s][t]) + (-1)
      <4>1. Len(sends'[s][t]) = Len(sends[s][t]) - 1
        BY ONLY <1>5, <1>8, <2>4
      <4> QED
        BY ONLY <2>1, <4>1
    <3>2. InTransit(s, t)' = InTransit(s, t) + (-1)
      <4>1. ~(Len(file) > s) /\ Len(file') > s
        BY ONLY <1>1, <1>6, <2>4
      <4>2. t = 0 /\ s # 0 /\ pc' = pc
        BY <1>1, <2>4
      <4> QED
        BY ONLY <4>1, <4>2 DEF InTransit
    <3> QED
      BY ONLY TypeOK, MemoryInv, CountInv, s \in Ranks, t \in Ranks,
              0 \in Int, -1 \in Int, -1 = 0 + (-1), <1>11, <2>2, <3>1, <3>2, PairBalanced
  <2>5. CASE s # u \/ t # 0
    <3>1. Len(sends'[s][t]) = Len(sends[s][t]) + 0
      <4>1. sends'[s][t] = sends[s][t]
        BY <1>8, <1>12, <2>5
      <4> QED
        BY ONLY <2>1, <4>1
    <3>2. InTransit(s, t)' = InTransit(s, t) + 0
      <4>1. t = 0 => ((Len(file') > s) <=> (Len(file) > s))
        BY ONLY <1>1, <1>6, <2>3, <2>5
      <4>2. InTransit(s, t)' = InTransit(s, t)
        BY <1>1, <4>1 DEF InTransit
      <4> QED
        BY <2>1, <4>2
    <3> QED
      BY ONLY TypeOK, MemoryInv, CountInv, s \in Ranks, t \in Ranks,
              0 \in Int, 0 = 0 + 0, <1>11, <2>2, <3>1, <3>2, PairBalanced
  <2> QED
    BY <2>4, <2>5
<1>13. \A s, t \in Ranks : Len(recvs'[t][s]) <=
         IF pc'[t] \in Calling \union {"exchange"} THEN Edges(s, t, 1) ELSE 0
  BY <1>1 DEF CountInv
<1> QED
  BY <1>9, <1>10, <1>12, <1>13 DEF CountInv

\* A message arrives, of whatever is still going on.
LEMMA DeliverTyped ==
  ASSUME TypeOK, MemoryInv, NEW u \in Ranks, NEW r \in Ranks, Deliver(u, r)
  PROVE  /\ TypeOK' /\ MemoryInv'
         /\ Len(sends'[u][r]) = Len(sends[u][r]) - 1
         /\ Len(recvs'[r][u]) = Len(recvs[r][u]) - 1
         /\ \A s, t \in Ranks : s # u \/ t # r =>
              sends'[s][t] = sends[s][t] /\ recvs'[t][s] = recvs[t][s]
PROOF
<1> DEFINE rows == Head(sends[u][r])
           to == Head(recvs[r][u])
           b == [m \in Memory(r) |-> IF m \in to.begin .. to.begin + BorderI - 1
                                       THEN rows[m - to.begin + 1] ELSE arrays[r][to.array][m]]
<1>1. sends[u][r] # << >> /\ recvs[r][u] # << >>
  BY DEF Deliver
<1>2. /\ sends' = [sends EXCEPT ![u][r] = Tail(@)]
      /\ recvs' = [recvs EXCEPT ![r][u] = Tail(@)]
      /\ UNCHANGED <<current, iterationsDone, pc, file>>
  BY DEF Deliver
<1>3. arrays' = [arrays EXCEPT ![r][to.array] = b]
  BY DEF Deliver, MemoryInv
<1>4. /\ sends \in [Ranks -> [Ranks -> Seq(Messages)]]
      /\ recvs \in [Ranks -> [Ranks -> Seq(Requests)]]
  BY DEF MemoryInv, Requests
<1>5. /\ rows \in Messages
      /\ Tail(sends[u][r]) \in Seq(Messages)
      /\ Len(Tail(sends[u][r])) = Len(sends[u][r]) - 1
  <2>1. sends[u][r] \in Seq(Messages)
    BY <1>4
  <2> QED
    BY ONLY <1>1, <2>1, HeadTailProperties
<1>6. /\ to \in Requests
      /\ Tail(recvs[r][u]) \in Seq(Requests)
      /\ Len(Tail(recvs[r][u])) = Len(recvs[r][u]) - 1
  <2>1. recvs[r][u] \in Seq(Requests)
    BY <1>4
  <2> QED
    BY ONLY <1>1, <2>1, HeadTailProperties
<1> HIDE DEF rows, to
<1>7. to.array \in {0, 1} /\ to.begin \in Int
  BY <1>6 DEF Requests
<1>8. b \in [Memory(r) -> Rows]
  <2> SUFFICES ASSUME NEW m \in Memory(r)
               PROVE  (IF m \in to.begin .. to.begin + BorderI - 1
                         THEN rows[m - to.begin + 1] ELSE arrays[r][to.array][m]) \in Rows
    OBVIOUS
  <2>1. arrays[r][to.array][m] \in Rows
    BY <1>7, ArraysTyped
  <2>2. m \in Int /\ BorderI \in Nat \ {0}
    BY RowFacts DEF Memory
  <2>3. m \in to.begin .. to.begin + BorderI - 1 => m - to.begin + 1 \in 1 .. BorderI
    BY ONLY <1>7, <2>2
  <2>4. m \in to.begin .. to.begin + BorderI - 1 => rows[m - to.begin + 1] \in Rows
    BY ONLY <1>5, <2>3, MessageFacts
  <2> QED
    BY ONLY <2>1, <2>4
<1> HIDE DEF b
<1>9. /\ DOMAIN arrays' = Ranks
      /\ \A q \in Ranks : arrays'[q] \in [{0, 1} -> [Memory(q) -> Rows]]
  BY ONLY MemoryInv, r \in Ranks, <1>3, <1>7, <1>8, ArrayReplaced
<1>10. sends' = [sends EXCEPT ![u] = [sends[u] EXCEPT ![r] = Tail(sends[u][r])]]
  BY <1>2
<1>11. recvs' = [recvs EXCEPT ![r] = [recvs[r] EXCEPT ![u] = Tail(recvs[r][u])]]
  BY <1>2
<1>12. /\ sends' \in [Ranks -> [Ranks -> Seq(Messages)]]
       /\ sends'[u][r] = Tail(sends[u][r])
       /\ \A s, t \in Ranks : s # u \/ t # r => sends'[s][t] = sends[s][t]
  BY ONLY <1>4, <1>5, <1>10, u \in Ranks, r \in Ranks
<1>13. /\ recvs' \in [Ranks -> [Ranks -> Seq(Requests)]]
       /\ recvs'[r][u] = Tail(recvs[r][u])
       /\ \A s, t \in Ranks : s # u \/ t # r => recvs'[t][s] = recvs[t][s]
  BY ONLY <1>4, <1>6, <1>11, u \in Ranks, r \in Ranks
<1>14. MemoryInv'
  BY <1>2, <1>9, <1>12, <1>13 DEF MemoryInv, Requests
<1>15. TypeOK'
  <2>1. \A q \in Ranks : \A x \in {0, 1} : \A m \in Memory(q) : arrays'[q][x][m] \in Rows
    BY ONLY <1>9
  <2> QED
    BY <1>2, <2>1 DEF TypeOK
<1>16. /\ Len(sends'[u][r]) = Len(sends[u][r]) - 1
       /\ Len(recvs'[r][u]) = Len(recvs[r][u]) - 1
  BY ONLY <1>5, <1>6, <1>12, <1>13
<1> QED
  BY <1>12, <1>13, <1>14, <1>15, <1>16

\* While the run goes on, a message that arrives leaves both queues.
LEMMA DeliverKeeps ==
  ASSUME Good, NEW u \in Ranks, NEW r \in Ranks, Deliver(u, r)
  PROVE  Good'
PROOF
<1> USE DEF Good
<1>1. /\ TypeOK' /\ MemoryInv'
      /\ Len(sends'[u][r]) = Len(sends[u][r]) - 1
      /\ Len(recvs'[r][u]) = Len(recvs[r][u]) - 1
      /\ \A s, t \in Ranks : s # u \/ t # r =>
           sends'[s][t] = sends[s][t] /\ recvs'[t][s] = recvs[t][s]
  BY DeliverTyped
<1>2. UNCHANGED <<current, iterationsDone, pc, file>>
  BY DEF Deliver
<1>3. PlacesInv'
  BY <1>2 DEF PlacesInv
<1>4. /\ \A q \in Ranks : SendsMade(q)' = SendsMade(q) /\ RecvsMade(q)' = RecvsMade(q)
      /\ \A s, t \in Ranks : InTransit(s, t)' = InTransit(s, t)
  BY <1>2 DEF SendsMade, RecvsMade, InTransit
<1>5. ASSUME NEW s \in Ranks, NEW t \in Ranks
      PROVE  /\ Len(sends'[s][t]) = Len(recvs'[t][s])
                  + Edges(s, t, SendsMade(s)' - RecvsMade(t)') + InTransit(s, t)'
             /\ Len(recvs'[t][s]) <=
                  IF pc'[t] \in Calling \union {"exchange"} THEN Edges(s, t, 1) ELSE 0
  <2>1. Len(sends[s][t]) \in Int /\ Len(recvs[t][s]) \in Int /\ InTransit(s, t) \in Int
    BY <1>5, CountsAreNumbers
  <2>2. PICK d \in {0, -1} : /\ Len(sends'[s][t]) = Len(sends[s][t]) + d
                             /\ Len(recvs'[t][s]) = Len(recvs[t][s]) + d
    <3>1. CASE s = u /\ t = r
      <4>1. Len(sends'[s][t]) = Len(sends[s][t]) - 1 /\ Len(recvs'[t][s]) = Len(recvs[t][s]) - 1
        BY <1>1, <3>1
      <4>2. /\ Len(sends'[s][t]) = Len(sends[s][t]) + (-1)
            /\ Len(recvs'[t][s]) = Len(recvs[t][s]) + (-1)
        BY ONLY <2>1, <4>1
      <4> QED
        BY ONLY <4>2
    <3>2. CASE s # u \/ t # r
      <4>1. sends'[s][t] = sends[s][t] /\ recvs'[t][s] = recvs[t][s]
        BY <1>1, <1>5, <3>2
      <4>2. /\ Len(sends'[s][t]) = Len(sends[s][t]) + 0
            /\ Len(recvs'[t][s]) = Len(recvs[t][s]) + 0
        BY ONLY <2>1, <4>1
      <4> QED
        BY ONLY <4>2
    <3> QED
      BY ONLY <3>1, <3>2
  <2>3. d \in Int /\ 0 \in Int /\ d = d + 0
    OBVIOUS
  <2>4. InTransit(s, t)' = InTransit(s, t) + 0
    BY <1>4, <1>5, <2>1
  <2>5. Len(sends'[s][t]) = Len(recvs'[t][s])
          + Edges(s, t, SendsMade(s)' - RecvsMade(t)') + InTransit(s, t)'
    BY ONLY TypeOK, MemoryInv, CountInv, s \in Ranks, t \in Ranks,
            <1>4, <2>2, <2>3, <2>4, PairBalanced
  <2>6. PICK bound \in Int :
          bound = IF pc[t] \in Calling \union {"exchange"} THEN Edges(s, t, 1) ELSE 0
    BY DEF Edges
  <2>7. Len(recvs[t][s]) <= bound
    BY <1>5, <2>6 DEF CountInv
  <2>8. Len(recvs'[t][s]) <= bound
    BY ONLY <2>1, <2>2, <2>6, <2>7
  <2> QED
    BY <1>2, <2>5, <2>6, <2>8
<1> QED
  BY <1>1, <1>3, <1>5 DEF CountInv

\* The file cannot be written, or nothing happens any more.
LEMMA AbortKeeps ==
  ASSUME IInv, WriteFails \/ Finished \/ UNCHANGED vars
  PROVE  IInv'
PROOF
<1>1. CASE WriteFails
  <2>1. /\ pc' = [q \in Ranks |-> "aborted"]
        /\ UNCHANGED <<arrays, current, iterationsDone, sends, recvs, file>>
    BY <1>1 DEF WriteFails
  <2>2. \A q \in Ranks : pc'[q] = "aborted"
    BY <2>1
  <2>3. TypeOK' /\ MemoryInv'
    BY <2>1 DEF IInv, TypeOK, MemoryInv
  <2>4. InStep'
    BY <2>1, <2>2, Neighbours DEF IInv, InStep
  <2> QED
    BY <2>2, <2>3, <2>4 DEF IInv
<1>2. CASE UNCHANGED vars
  BY <1>2 DEF vars, IInv, TypeOK, MemoryInv, InStep, PlacesInv, CountInv,
              SendsMade, RecvsMade, InTransit
<1>3. CASE Finished
  BY <1>2, <1>3 DEF Finished
<1> QED
  BY <1>1, <1>2, <1>3

\* A step that leaves the run going keeps everything.
LEMMA WorkingStepKeeps ==
  ASSUME Good, [Next]_vars
  PROVE  Good' \/ WriteFails \/ Finished \/ UNCHANGED vars
PROOF
<1>1. ASSUME NEW r \in Ranks, RankStep(r)
      PROVE  Good'
  BY <1>1, ExchangeKeeps, QuietKeeps, RecvKeeps, IterateKeeps, SendKeeps, ReturnKeeps,
     FragmentKeeps, WriteOwnKeeps, WriteReceivedKeeps DEF RankStep
<1>2. ASSUME NEW r \in Ranks, SentFragment(r)
      PROVE  Good'
  BY <1>2, QuietKeeps
<1>3. ASSUME NEW s \in Ranks, NEW r \in Ranks, Deliver(s, r)
      PROVE  Good'
  BY <1>3, DeliverKeeps
<1> QED
  BY <1>1, <1>2, <1>3 DEF Next

\* When all ranks are aborted, only messages that are under way still arrive.
LEMMA AbortedStepKeeps ==
  ASSUME IInv, \A r \in Ranks : pc[r] = "aborted", [Next]_vars
  PROVE  IInv' \/ WriteFails \/ Finished \/ UNCHANGED vars
PROOF
<1>1. ASSUME NEW r \in Ranks, RankStep(r) \/ SentFragment(r)
      PROVE  FALSE
  BY <1>1 DEF RankStep, BoundExchange, Exchanged, BoundRecv, IterateUpper, IterateLower,
     BoundSend, IterateInner, Return, SendFragment, OpenFile, WriteOwn, CloseFile,
     WriteReceived, SentFragment, Goto
<1>2. ASSUME NEW s \in Ranks, NEW r \in Ranks, Deliver(s, r)
      PROVE  IInv'
  <2>1. TypeOK' /\ MemoryInv'
    BY <1>2, DeliverTyped DEF IInv
  <2>2. iterationsDone' = iterationsDone /\ pc' = pc
    BY <1>2 DEF Deliver
  <2>3. InStep'
    BY <2>2, Neighbours DEF IInv, InStep
  <2> QED
    BY <2>1, <2>2, <2>3 DEF IInv
<1> QED
  BY <1>1, <1>2 DEF Next

\* Nothing is under way when the program starts.
LEMMA InitGood == Init => Good
PROOF
<1> SUFFICES ASSUME Init PROVE Good
  OBVIOUS
<1>1. /\ arrays = [r \in Ranks |-> [x \in {0, 1} |->
                    IF x = 0 THEN Loaded(r) ELSE [m \in Memory(r) |-> Junk]]]
      /\ current = [r \in Ranks |-> 0]
      /\ iterationsDone = [r \in Ranks |-> 0]
      /\ pc = [r \in Ranks |-> "load"]
      /\ sends = [r \in Ranks |-> [s \in Ranks |-> << >>]]
      /\ recvs = [r \in Ranks |-> [s \in Ranks |-> << >>]]
      /\ file = << >>
  BY DEF Init
<1>2. \A r \in Ranks : arrays[r] \in [{0, 1} -> [Memory(r) -> Rows]]
  <2> SUFFICES ASSUME NEW r \in Ranks
               PROVE  arrays[r] \in [{0, 1} -> [Memory(r) -> Rows]]
    OBVIOUS
  <2>1. Loaded(r) \in [Memory(r) -> Rows]
    <3> SUFFICES ASSUME NEW m \in Memory(r), m \in BorderI .. BorderI + Part(r) - 1
                 PROVE  <<Begin(r) + m - BorderI, 0>> \in Rows
      BY RowFacts DEF Loaded
    <3>1. Begin(r) + m - BorderI \in 0 .. SizeI - 1
      BY PartInLattice, RowFacts, SizeAssumption
    <3> QED
      BY <3>1, CallsAssumption DEF Rows
  <2>2. [m \in Memory(r) |-> Junk] \in [Memory(r) -> Rows]
    BY RowFacts
  <2> QED
    BY <1>1, <2>1, <2>2
<1>3. TypeOK
  BY <1>1, <1>2, CallsAssumption DEF TypeOK
<1>4. MemoryInv
  BY <1>1, <1>2 DEF MemoryInv
<1>5. PlacesInv
  BY <1>1, Neighbours DEF PlacesInv, Calling
<1>6. CountInv
  <2> SUFFICES ASSUME NEW s \in Ranks, NEW r \in Ranks
               PROVE  /\ Len(sends[s][r]) = Len(recvs[r][s])
                           + Edges(s, r, SendsMade(s) - RecvsMade(r)) + InTransit(s, r)
                      /\ Len(recvs[r][s]) <=
                           IF pc[r] \in Calling \union {"exchange"} THEN Edges(s, r, 1) ELSE 0
    BY DEF CountInv
  <2>1. Len(sends[s][r]) = 0 /\ Len(recvs[r][s]) = 0
    BY <1>1
  <2>2. SendsMade(s) = 0 /\ RecvsMade(r) = 0
    BY <1>1 DEF SendsMade, RecvsMade
  <2>3. Edges(s, r, SendsMade(s) - RecvsMade(r)) = 0
    BY <2>2 DEF Edges
  <2>4. InTransit(s, r) = 0
    <3>1. s \in Nat /\ Len(file) = 0
      BY <1>1, Neighbours
    <3> QED
      BY <1>1, <3>1 DEF InTransit
  <2>5. pc[r] \notin Calling \union {"exchange"}
    BY <1>1 DEF Calling
  <2> QED
    BY <2>1, <2>3, <2>4, <2>5
<1> QED
  BY <1>3, <1>4, <1>5, <1>6 DEF Good

-----------------------------------------------------------------------------
(* The theorems *)

\* The inductive invariant.
LEMMA Inductive == Spec => []IInv
PROOF
<1>1. Init => IInv
  BY InitGood, GoodInStep DEF Good, IInv
<1>2. IInv /\ [Next]_vars => IInv' \/ Good'
  <2> SUFFICES ASSUME IInv, [Next]_vars
               PROVE  IInv' \/ Good'
    OBVIOUS
  <2>1. Good \/ \A r \in Ranks : pc[r] = "aborted"
    BY DEF IInv, Good
  <2> QED
    BY <2>1, AbortKeeps, WorkingStepKeeps, AbortedStepKeeps
<1>3. Good => IInv
  BY GoodInStep DEF Good, IInv
<1> QED
  BY <1>1, <1>2, <1>3, PTL DEF Spec

\* Every variable keeps its type: the current array is one of the two, no rank
\* makes more calls than the program asks for, and what is in memory is a row of
\* the lattice in a generation that can be reached, or nothing known.
THEOREM TypeCorrect == Spec => []TypeOK
PROOF
<1>1. IInv => TypeOK
  BY DEF IInv
<1> QED
  BY <1>1, Inductive, PTL

\* For any lattice, any number of ranks and of calls: neighbours are never more than
\* one call of CAT_Iterate apart, though nothing but their messages keeps them
\* together, and no message is left when all ranks have finished.
THEOREM KeepInStep == Spec => []InStep
PROOF
<1>1. IInv => InStep
  BY DEF IInv
<1> QED
  BY <1>1, Inductive, PTL

-----------------------------------------------------------------------------
(* The first call *)

\* Parts follow each other in the lattice, and the last is followed by the first.
LEMMA PartsAdjoin ==
  ASSUME NEW r \in Ranks
  PROVE  \/ Begin(Down(r)) = Begin(r) + Part(r)
         \/ Begin(Down(r)) = 0 /\ Begin(r) + Part(r) = SizeI
PROOF
<1>1. SizeI \in Nat /\ PeriodI \in Nat \ {0} /\ SizeI % PeriodI = 0 /\ ProcSize \in Nat
  BY SizeAssumption, ProcSizeAssumption
<1>2. /\ PartBegin(SizeI, 0, PeriodI) = 0
      /\ PartBegin(SizeI, r + 1, PeriodI) = Begin(r) + Part(r)
      /\ PartBegin(SizeI, ProcSize, PeriodI) = SizeI
  BY <1>1, PartsCoverLattice DEF Begin, Part
<1>3. r \in 0 .. ProcSize - 1
  BY DEF Ranks
<1>4. CASE r + 1 = ProcSize
  <2>1. Down(r) = 0
    BY <1>1, <1>3, <1>4 DEF Down
  <2> QED
    BY <1>2, <1>4, <2>1 DEF Begin
<1>5. CASE r + 1 # ProcSize
  <2>1. Down(r) = r + 1
    BY <1>1, <1>3, <1>5 DEF Down
  <2> QED
    BY <1>2, <2>1 DEF Begin
<1> QED
  BY <1>4, <1>5

\* A part and both its groups of ghost rows are fewer rows than the lattice has: another
\* rank's part is at least two borders.
LEMMA MemoryFits ==
  ASSUME NEW r \in Ranks
  PROVE  /\ SizeI \in Nat /\ BorderI \in Nat \ {0}
         /\ Begin(r) \in Nat /\ Part(r) \in Nat
         /\ Part(r) >= 2 * BorderI
         /\ Begin(r) + Part(r) <= SizeI
         /\ Part(r) + 2 * BorderI <= SizeI
PROOF
<1>1. /\ SizeI \in Nat /\ BorderI \in Nat \ {0}
      /\ Begin(r) \in Nat /\ Part(r) \in Nat
      /\ Part(r) >= 2 * BorderI
      /\ Begin(r) + Part(r) <= SizeI
  BY PartInLattice, PartHoldsEdges, SizeAssumption
<1>2. Part(r) + 2 * BorderI <= SizeI
  <2>1. CASE Begin(Down(r)) = Begin(r) + Part(r)
    <3>1. Down(r) \in Ranks
      BY Neighbours
    <3>2. /\ Part(Down(r)) \in Nat /\ Part(Down(r)) >= 2 * BorderI
          /\ Begin(Down(r)) + Part(Down(r)) <= SizeI
      BY <3>1, PartInLattice, PartHoldsEdges
    <3> QED
      BY ONLY <1>1, <2>1, <3>2
  <2>2. CASE Begin(Down(r)) = 0 /\ Begin(r) + Part(r) = SizeI
    <3>1. Up(r) \in Ranks /\ r = Down(Up(r))
      BY Neighbours
    <3>2. /\ Part(Up(r)) \in Nat /\ Part(Up(r)) >= 2 * BorderI /\ Begin(Up(r)) \in Nat
      BY <3>1, PartInLattice, PartHoldsEdges
    <3>3. \/ Begin(r) = Begin(Up(r)) + Part(Up(r))
          \/ Begin(r) = 0 /\ Begin(Up(r)) + Part(Up(r)) = SizeI
      BY <3>1, PartsAdjoin
    <3>4. CASE Begin(r) = Begin(Up(r)) + Part(Up(r))
      BY ONLY <1>1, <2>2, <3>2, <3>4
    <3>5. CASE Begin(r) = 0
      <4>1. r = 0
        <5>1. SUFFICES ASSUME r # 0 PROVE FALSE
          OBVIOUS
        <5>2. Up(r) = r - 1 /\ r \in Nat
          BY <5>1, Neighbours DEF Up
        <5>3. Begin(r) = Begin(r - 1) + Part(r - 1)
          BY <3>1, <5>2, PartsCoverLattice, SizeAssumption DEF Begin, Part
        <5> QED
          BY ONLY <1>1, <3>2, <3>5, <5>2, <5>3
      <4>2. Part(r) = SizeI
        BY ONLY <1>1, <2>2, <3>5
      <4>3. Down(r) = 1 /\ 1 \in Ranks
        BY <4>1, SizeAssumption, ProcSizeAssumption DEF Down, Ranks
      <4>4. Begin(1) = Begin(0) + Part(0) /\ Part(1) \in Nat /\ Part(1) >= 2 * BorderI
        <5>1. PartBegin(SizeI, 0 + 1, PeriodI) = Begin(0) + Part(0)
          BY Neighbours, PartsCoverLattice, SizeAssumption DEF Begin, Part
        <5> QED
          BY <4>3, <5>1, PartInLattice, PartHoldsEdges DEF Begin
      <4> QED
        BY ONLY <1>1, <2>2, <3>5, <4>1, <4>2, <4>3, <4>4
    <3> QED
      BY <3>3, <3>4, <3>5
  <2> QED
    BY <2>1, <2>2, PartsAdjoin
<1> QED
  BY <1>1, <1>2

\* A row of a part is where it says it is.
LEMMA RowInLattice ==
  ASSUME NEW r \in Ranks, NEW m \in BorderI .. BorderI + Part(r) - 1
  PROVE  /\ Begin(r) + m - BorderI \in 0 .. SizeI - 1
         /\ (Begin(r) + m - BorderI) % SizeI = Begin(r) + m - BorderI
PROOF
<1>1. /\ SizeI \in Nat /\ BorderI \in Nat /\ Begin(r) \in Nat /\ Part(r) \in Nat
      /\ Begin(r) + Part(r) <= SizeI
  BY MemoryFits
<1>2. PICK i \in Int : i = Begin(r) + m - BorderI
  BY ONLY <1>1, m \in BorderI .. BorderI + Part(r) - 1
<1>3. i \in 0 .. SizeI - 1
  BY ONLY <1>1, <1>2, m \in BorderI .. BorderI + Part(r) - 1
<1>4. i % SizeI = i
  BY ONLY <1>1, <1>3
<1> QED
  BY ONLY <1>2, <1>3, <1>4

\* Before the second call the edges of a part are what the neighbours' ghost rows are
\* to be.
LEMMA EdgesMatch ==
  ASSUME NEW s \in Ranks, PartIs(s, 0, 0, BorderI, BorderI + Part(s))
  PROVE  /\ Slice(s, arrays[s][0], BorderI) = GhostRows(Up(s), Part(Up(s)) + BorderI)
         /\ Slice(s, arrays[s][0], Part(s)) = GhostRows(Down(s), 0)
PROOF
<1>1. /\ SizeI \in Nat /\ BorderI \in Nat \ {0} /\ Begin(s) \in Nat /\ Part(s) \in Nat
      /\ Part(s) >= 2 * BorderI /\ Begin(s) + Part(s) <= SizeI
  BY MemoryFits
<1>2. \A m \in BorderI .. BorderI + Part(s) - 1 :
        m \in Memory(s) /\ arrays[s][0][m] = <<Begin(s) + m - BorderI, 0>>
  <2>1. BorderI .. BorderI + Part(s) - 1 \subseteq Memory(s)
    BY ONLY <1>1 DEF Memory
  <2>2. \A m \in BorderI .. BorderI + Part(s) - 1 :
          arrays[s][0][m] = <<Begin(s) + m - BorderI, 0>>
    <3> SUFFICES ASSUME NEW m \in BorderI .. BorderI + Part(s) - 1
                 PROVE  arrays[s][0][m] = <<Begin(s) + m - BorderI, 0>>
      OBVIOUS
    <3>1. m \in BorderI .. (BorderI + Part(s)) - 1
      BY ONLY <1>1, m \in BorderI .. BorderI + Part(s) - 1
    <3> QED
      BY <3>1 DEF PartIs
  <2> QED
    BY ONLY <2>1, <2>2
<1>3. Slice(s, arrays[s][0], BorderI) = GhostRows(Up(s), Part(Up(s)) + BorderI)
  <2> DEFINE u == Up(s)
  <2>1. u \in Ranks /\ Down(u) = s
    BY Neighbours
  <2>2. Begin(u) \in Nat /\ Part(u) \in Nat
    BY <2>1, MemoryFits
  <2>3. Begin(s) = Begin(u) + Part(u) \/ (Begin(s) = 0 /\ Begin(u) + Part(u) = SizeI)
    BY <2>1, PartsAdjoin
  <2> HIDE DEF u
  <2>4. ASSUME NEW k \in 1 .. BorderI
        PROVE  (IF BorderI + k - 1 \in Memory(s) THEN arrays[s][0][BorderI + k - 1] ELSE Junk)
                 = <<(Begin(u) + (Part(u) + BorderI) + k - 1 - BorderI) % SizeI, 0>>
    <3>1. PICK m \in BorderI .. BorderI + Part(s) - 1 : m = BorderI + k - 1
      BY ONLY <1>1, <2>4
    <3>2. PICK i \in 0 .. SizeI - 1 : i = Begin(s) + m - BorderI
      BY <3>1, RowInLattice
    <3>3. i = Begin(s) + k - 1 /\ k \in Int
      BY ONLY <1>1, <2>4, <3>1, <3>2
    <3>4. PICK j \in Int : j = Begin(u) + (Part(u) + BorderI) + k - 1 - BorderI
      BY ONLY <1>1, <2>2, <2>4
    <3>5. j = i \/ j = i + SizeI
      BY ONLY <1>1, <2>2, <2>3, <3>3, <3>4
    <3>6. j % SizeI = i
      BY ONLY <1>1, <3>2, <3>4, <3>5
    <3> QED
      BY ONLY <1>2, <3>1, <3>2, <3>4, <3>6
  <2> QED
    BY ONLY <2>4 DEF Slice, GhostRows, u
<1>4. Slice(s, arrays[s][0], Part(s)) = GhostRows(Down(s), 0)
  <2> DEFINE u == Down(s)
  <2>1. u \in Ranks
    BY Neighbours
  <2>2. Begin(u) \in Nat
    BY <2>1, MemoryFits
  <2>3. Begin(u) = Begin(s) + Part(s) \/ (Begin(u) = 0 /\ Begin(s) + Part(s) = SizeI)
    BY PartsAdjoin
  <2> HIDE DEF u
  <2>4. ASSUME NEW k \in 1 .. BorderI
        PROVE  (IF Part(s) + k - 1 \in Memory(s) THEN arrays[s][0][Part(s) + k - 1] ELSE Junk)
                 = <<(Begin(u) + 0 + k - 1 - BorderI) % SizeI, 0>>
    <3>1. PICK m \in BorderI .. BorderI + Part(s) - 1 : m = Part(s) + k - 1
      BY ONLY <1>1, <2>4
    <3>2. PICK i \in 0 .. SizeI - 1 : i = Begin(s) + m - BorderI
      BY <3>1, RowInLattice
    <3>3. i = Begin(s) + Part(s) + k - 1 - BorderI /\ k \in Int
      BY ONLY <1>1, <2>4, <3>1, <3>2
    <3>4. PICK j \in Int : j = Begin(u) + 0 + k - 1 - BorderI
      BY ONLY <1>1, <2>2, <2>4
    <3>5. j = i \/ j = i - SizeI
      BY ONLY <1>1, <2>2, <2>3, <3>3, <3>4
    <3>6. j % SizeI = i
      BY ONLY <1>1, <3>2, <3>4, <3>5
    <3> QED
      BY ONLY <1>2, <3>1, <3>2, <3>4, <3>6
  <2> QED
    BY ONLY <2>4 DEF Slice, GhostRows, u
<1> QED
  BY <1>3, <1>4

\* A row of memory whose whole neighbourhood is of generation 0 gets its successor, and
\* what IteratePart does not write stays.
LEMMA FirstGeneration ==
  ASSUME TypeOK, MemoryInv, NEW r \in Ranks, current[r] = 0, iterationsDone[r] = 0,
         NEW down \in Int, NEW up \in Int, 0 <= down, up <= Part(r),
         \A m \in down .. up + 2 * BorderI - 1 :
           arrays[r][0][m] = <<(Begin(r) + m - BorderI) % SizeI, 0>>,
         IteratePart(r, down, up)
  PROVE  /\ arrays'[r][0] = arrays[r][0]
         /\ \A q \in Ranks \ {r} : arrays'[q] = arrays[q]
         /\ \A m \in down + BorderI .. up + BorderI - 1 :
              arrays'[r][1][m] = <<Begin(r) + m - BorderI, 1>>
         /\ \A m \in Memory(r) \ (down + BorderI .. up + BorderI - 1) :
              arrays'[r][1][m] = arrays[r][1][m]
PROOF
<1> DEFINE a == arrays[r][0]
           row(m) == IF \A d \in -BorderI .. BorderI :
                          a[(m + d + SizeI) % SizeI]
                            = <<(Begin(r) + m - BorderI + d) % SizeI, 0>>
                       THEN <<Begin(r) + m - BorderI, 0 + 1>> ELSE Junk
           new == [m \in Memory(r) |->
                     IF m \in down + BorderI .. up + BorderI - 1 THEN row(m)
                                                                 ELSE arrays[r][1][m]]
<1>1. /\ SizeI \in Nat /\ BorderI \in Nat \ {0} /\ Begin(r) \in Nat /\ Part(r) \in Nat
      /\ Part(r) + 2 * BorderI <= SizeI
  BY MemoryFits
<1>2. ASSUME NEW m \in down + BorderI .. up + BorderI - 1
      PROVE  row(m) = <<Begin(r) + m - BorderI, 1>> /\ m \in Memory(r)
  <2>1. ASSUME NEW d \in -BorderI .. BorderI
        PROVE  a[(m + d + SizeI) % SizeI] = <<(Begin(r) + m - BorderI + d) % SizeI, 0>>
    <3>1. PICK n \in down .. up + 2 * BorderI - 1 : n = m + d
      BY ONLY <1>1, <1>2, <2>1, down \in Int, up \in Int
    <3>2. (m + d + SizeI) % SizeI = n
      <4>1. n \in 0 .. SizeI - 1
        BY ONLY <1>1, <3>1, down \in Int, up \in Int, 0 <= down, up <= Part(r)
      <4>2. (n + SizeI) % SizeI = n
        BY ONLY <1>1, <4>1
      <4> QED
        BY ONLY <3>1, <4>2
    <3>3. Begin(r) + n - BorderI = Begin(r) + m - BorderI + d
      BY ONLY <1>1, <1>2, <2>1, <3>1, down \in Int, up \in Int
    <3>4. a[n] = <<(Begin(r) + n - BorderI) % SizeI, 0>>
      BY <3>1
    <3> QED
      BY ONLY <3>2, <3>3, <3>4
  <2>2. m \in Memory(r)
    BY ONLY <1>1, <1>2, down \in Int, up \in Int, 0 <= down, up <= Part(r) DEF Memory
  <2> HIDE DEF a
  <2> QED
    BY <2>1, <2>2
<1>3. arrays' = [arrays EXCEPT ![r][1] = new]
  <2>1. 1 - current[r] = 1
    OBVIOUS
  <2> QED
    BY <2>1 DEF IteratePart, MemoryInv
<1>4. /\ \A m \in down + BorderI .. up + BorderI - 1 :
           new[m] = <<Begin(r) + m - BorderI, 1>>
      /\ \A m \in Memory(r) \ (down + BorderI .. up + BorderI - 1) : new[m] = arrays[r][1][m]
  <2> HIDE DEF row
  <2> QED
    BY <1>2
<1> HIDE DEF new
<1>5. arrays' = [arrays EXCEPT ![r] = [arrays[r] EXCEPT ![1] = new]]
  BY <1>3
<1>6. DOMAIN arrays = Ranks /\ DOMAIN arrays[r] = {0, 1}
  BY DEF MemoryInv
<1>7. /\ arrays'[r][1] = new /\ arrays'[r][0] = arrays[r][0]
      /\ \A q \in Ranks \ {r} : arrays'[q] = arrays[q]
  BY ONLY <1>5, <1>6, r \in Ranks
<1> QED
  BY ONLY <1>4, <1>7

-----------------------------------------------------------------------------

\* What is known of messages and rows as long as the run is not aborted.
Data == RecvsInv /\ SendsInv /\ RowsInv /\ FragmentsInv

\* The rows of a rank that nothing happens to.
LEMMA RowsKept ==
  ASSUME NEW q \in Ranks, RankRows(q), arrays'[q] = arrays[q], current'[q] = current[q],
         iterationsDone'[q] = iterationsDone[q], pc'[q] = pc[q], recvs'[q] = recvs[q]
  PROVE  RankRows(q)'
PROOF
  BY DEF RankRows, FirstCall, PartIs, GhostsAre

\* A rank whose fragment is under way has saved.
Saved == {"sent", "done"}

LEMMA SenderSaved ==
  ASSUME NEW s \in Ranks, InTransit(s, 0) = 1
  PROVE  pc[s] \in Saved
PROOF
  BY DEF InTransit, Saved

\* The part of a rank whose array nothing happens to.
LEMMA OwnRowsKept ==
  ASSUME NEW r \in Ranks, arrays'[r] = arrays[r], current'[r] = current[r]
  PROVE  OwnRows(r)' = OwnRows(r)
PROOF
  BY DEF OwnRows

\* What is sent and not yet received stays right when no message is posted or taken.
LEMMA QueuesKept ==
  ASSUME SendsInv, FragmentsInv, sends' = sends,
         \A s \in Ranks : SendsMade(s)' = SendsMade(s),
         \A s, r \in Ranks : InTransit(s, r)' = InTransit(s, r),
         \A s \in Ranks : pc[s] \in Saved =>
           arrays'[s] = arrays[s] /\ current'[s] = current[s]
  PROVE  SendsInv' /\ FragmentsInv'
PROOF
<1>1. \A s, r \in Ranks : EdgesSent(s, r)' = EdgesSent(s, r)
  BY DEF EdgesSent
<1>2. SendsInv'
  <2> SUFFICES ASSUME NEW s \in Ranks, NEW r \in Ranks, SendsMade(s)' <= 2,
                      NEW n \in 1 .. EdgesSent(s, r)'
               PROVE  sends'[s][r][n] = GhostRows(r, GhostBegin(r, s, EdgesSent(s, r)' - n))
    BY DEF SendsInv, GhostRows, GhostBegin
  <2> QED
    BY <1>1 DEF SendsInv
<1>3. FragmentsInv'
  <2> SUFFICES ASSUME NEW s \in Ranks
               PROVE  /\ InTransit(s, 0)' \in {0, 1}
                      /\ InTransit(s, 0)' = 1 =>
                           sends'[s][0][Len(sends'[s][0])] = OwnRows(s)'
    BY DEF FragmentsInv
  <2>1. InTransit(s, 0)' = InTransit(s, 0) /\ InTransit(s, 0) \in {0, 1}
    BY Neighbours DEF FragmentsInv
  <2>2. ASSUME InTransit(s, 0) = 1
        PROVE  OwnRows(s)' = OwnRows(s)
    BY <2>2, SenderSaved, OwnRowsKept
  <2> QED
    BY <2>1, <2>2 DEF FragmentsInv
<1> QED
  BY <1>2, <1>3

\* The counts after a step of a rank that posts nothing.
LEMMA CountsKept ==
  ASSUME TypeOK, NEW r \in Ranks, NEW to,
         pc' = [pc EXCEPT ![r] = to], UNCHANGED <<iterationsDone, file>>,
         pc[r] # "load", to # "load",
         pc[r] \in {"inner", "wait"} <=> to \in {"inner", "wait"},
         r = 0 \/ (pc[r] \in {"sent", "done"} <=> to \in {"sent", "done"})
  PROVE  /\ pc'[r] = to
         /\ \A q \in Ranks \ {r} : pc'[q] = pc[q]
         /\ \A s \in Ranks : SendsMade(s)' = SendsMade(s)
         /\ \A s, t \in Ranks : InTransit(s, t)' = InTransit(s, t)
PROOF
<1>1. pc'[r] = to /\ \A q \in Ranks \ {r} : pc'[q] = pc[q]
  BY DEF TypeOK
<1>2. \A s \in Ranks : SendsMade(s)' = SendsMade(s)
  BY <1>1 DEF SendsMade
<1>3. \A s, t \in Ranks : InTransit(s, t)' = InTransit(s, t)
  BY <1>1 DEF InTransit
<1> QED
  BY <1>1, <1>2, <1>3

\* The receives that are posted stay right when none is posted or completed.
LEMMA RequestsKept ==
  ASSUME RecvsInv, UNCHANGED <<current, recvs>>
  PROVE  RecvsInv'
PROOF
  BY DEF RecvsInv, GhostBegin

\* The steps between places that post nothing.
LEMMA QuietKeepsData ==
  ASSUME Good, Data, NEW r \in Ranks,
         Exchanged(r) \/ OpenFile(r) \/ CloseFile(r) \/ SentFragment(r)
  PROVE  Data'
PROOF
<1> USE DEF Good, Data
<1>1. PICK to \in {"ready", "gather", "done"} :
        /\ pc' = [pc EXCEPT ![r] = to]
        /\ \/ pc[r] = "exchange" /\ to = "ready" /\ AllReceived(r)
           \/ pc[r] = "ready" /\ to = "gather" /\ r = 0
           \/ pc[r] = "gather" /\ to = "done" /\ r = 0
           \/ pc[r] = "sent" /\ to = "done"
  BY DEF Exchanged, OpenFile, CloseFile, SentFragment, Goto
<1>2. UNCHANGED <<arrays, current, iterationsDone, sends, recvs, file>>
  BY DEF Exchanged, OpenFile, CloseFile, SentFragment
<1>3. /\ pc'[r] = to
      /\ \A q \in Ranks \ {r} : pc'[q] = pc[q]
      /\ \A s \in Ranks : SendsMade(s)' = SendsMade(s)
      /\ \A s, t \in Ranks : InTransit(s, t)' = InTransit(s, t)
  <2>1. /\ pc[r] # "load" /\ to # "load"
        /\ pc[r] \in {"inner", "wait"} <=> to \in {"inner", "wait"}
        /\ r = 0 \/ (pc[r] \in {"sent", "done"} <=> to \in {"sent", "done"})
    BY <1>1
  <2> QED
    BY <1>1, <1>2, <2>1, CountsKept
<1>4. SendsInv' /\ FragmentsInv'
  BY <1>2, <1>3, QueuesKept
<1>5. RecvsInv'
  BY <1>2, RequestsKept
<1>6. RankRows(r)'
  <2>1. RankRows(r)
    BY DEF RowsInv
  <2>2. CASE pc[r] = "exchange" /\ to = "ready" /\ AllReceived(r)
    <3>1. Up(r) \in Ranks /\ Down(r) \in Ranks /\ r = Up(Down(r))
      BY Neighbours
    <3>2. recvs[r][Up(r)] = << >> /\ recvs[r][Down(r)] = << >>
      BY <2>2, <3>1 DEF AllReceived
    <3>3. Len(recvs[r][Down(r)]) < Edges(Down(r), r, 1)
      BY <3>1, <3>2 DEF Edges
    <3>4. iterationsDone[r] = 0 =>
            GhostsAre(r, 0) /\ GhostsAre(r, Part(r) + BorderI)
      BY <2>1, <2>2, <3>2, <3>3 DEF RankRows, FirstCall
    <3> QED
      BY <1>2, <1>3, <2>1, <2>2, <3>4 DEF RankRows, FirstCall, PartIs, GhostsAre
  <2>3. CASE to \in {"gather", "done"}
    BY <1>2, <1>3, <2>1, <2>3 DEF RankRows, FirstCall, PartIs
  <2> QED
    BY <1>1, <2>2, <2>3
<1>7. RowsInv'
  <2> SUFFICES ASSUME NEW q \in Ranks PROVE RankRows(q)'
    BY DEF RowsInv
  <2>1. CASE q = r
    BY <1>6, <2>1
  <2>2. CASE q # r
    <3>1. RankRows(q)
      BY DEF RowsInv
    <3> QED
      BY ONLY q \in Ranks, <1>2, <1>3, <2>2, <3>1, RowsKept
  <2> QED
    BY <2>1, <2>2
<1> QED
  BY <1>4, <1>5, <1>7

\* Before the first call is over, all rows of memory are known that an iteration between
\* its group of ghost rows and the other reads.
LEMMA RowsBelow ==
  ASSUME NEW r \in Ranks, PartIs(r, 0, 0, BorderI, BorderI + Part(r)), NEW m \in Memory(r),
         m < BorderI => GhostsAre(r, 0),
         m >= Part(r) + BorderI => GhostsAre(r, Part(r) + BorderI)
  PROVE  arrays[r][0][m] = <<(Begin(r) + m - BorderI) % SizeI, 0>>
PROOF
<1>1. /\ BorderI \in Nat \ {0} /\ Begin(r) \in Nat /\ Part(r) \in Nat
      /\ m \in 0 .. Part(r) + 2 * BorderI - 1
  BY MemoryFits DEF Memory
<1>2. CASE m < BorderI
  <2>1. PICK k \in 1 .. BorderI : m = 0 + k - 1
    <3>1. m + 1 \in 1 .. BorderI /\ m = 0 + (m + 1) - 1
      BY ONLY <1>1, <1>2
    <3> QED
      BY ONLY <3>1
  <2>2. arrays[r][0][0 + k - 1] = <<(Begin(r) + 0 + k - 1 - BorderI) % SizeI, 0>>
    BY <1>2 DEF GhostsAre
  <2>3. Begin(r) + 0 + k - 1 - BorderI = Begin(r) + m - BorderI
    BY ONLY <1>1, <2>1
  <2> QED
    BY ONLY <2>1, <2>2, <2>3
<1>3. CASE m >= Part(r) + BorderI
  <2>1. PICK k \in 1 .. BorderI : m = (Part(r) + BorderI) + k - 1
    <3>1. PICK k \in Int : k = m - Part(r) - BorderI + 1
      BY ONLY <1>1
    <3>2. k \in 1 .. BorderI /\ m = (Part(r) + BorderI) + k - 1
      BY ONLY <1>1, <1>3, <3>1
    <3> QED
      BY ONLY <3>2
  <2>2. arrays[r][0][(Part(r) + BorderI) + k - 1]
          = <<(Begin(r) + (Part(r) + BorderI) + k - 1 - BorderI) % SizeI, 0>>
    BY <1>3 DEF GhostsAre
  <2>3. Begin(r) + (Part(r) + BorderI) + k - 1 - BorderI = Begin(r) + m - BorderI
    BY ONLY <1>1, <2>1
  <2> QED
    BY ONLY <2>1, <2>2, <2>3
<1>4. CASE m >= BorderI /\ m < Part(r) + BorderI
  <2>1. m \in BorderI .. (BorderI + Part(r)) - 1 /\ m \in BorderI .. BorderI + Part(r) - 1
    BY ONLY <1>1, <1>4
  <2>2. arrays[r][0][m] = <<Begin(r) + m - BorderI, 0>>
    BY <2>1 DEF PartIs
  <2> QED
    BY ONLY <2>1, <2>2, r \in Ranks, RowInLattice
<1> QED
  BY ONLY <1>1, <1>2, <1>3, <1>4

\* An iteration does not write the current array.
LEMMA CurrentNotWritten ==
  ASSUME TypeOK, MemoryInv, NEW r \in Ranks, NEW down, NEW up, IteratePart(r, down, up)
  PROVE  /\ arrays'[r][current[r]] = arrays[r][current[r]]
         /\ \A q \in Ranks \ {r} : arrays'[q] = arrays[q]
PROOF
<1>1. PICK b : arrays' = [arrays EXCEPT ![r][1 - current[r]] = b]
  BY DEF IteratePart
<1>2. arrays' = [arrays EXCEPT ![r] = [arrays[r] EXCEPT ![1 - current[r]] = b]]
  BY <1>1
<1>3. /\ DOMAIN arrays = Ranks /\ DOMAIN arrays[r] = {0, 1}
      /\ current[r] \in {0, 1} /\ 1 - current[r] # current[r]
  BY DEF MemoryInv, TypeOK
<1> QED
  BY ONLY <1>2, <1>3, r \in Ranks

\* The three parts of the first call read what is right by then.
LEMMA FirstCallIterates ==
  ASSUME Good, NEW r \in Ranks, iterationsDone[r] = 0, FirstCall(r),
         IterateUpper(r) \/ IterateLower(r) \/ IterateInner(r)
  PROVE  FirstCall(r)'
PROOF
<1> USE DEF Good
<1>1. /\ UNCHANGED <<current, iterationsDone, sends, recvs, file>>
      /\ \/ pc[r] = "up" /\ pc'[r] = "down" /\ IteratePart(r, 0, BorderI)
         \/ pc[r] = "down" /\ pc'[r] = "send" /\ IteratePart(r, Part(r) - BorderI, Part(r))
         \/ pc[r] = "inner" /\ pc'[r] = "wait" /\ IteratePart(r, BorderI, Part(r) - BorderI)
  BY DEF IterateUpper, IterateLower, IterateInner, Goto, TypeOK
<1>2. /\ BorderI \in Nat \ {0} /\ Part(r) \in Nat /\ Part(r) >= 2 * BorderI
  BY MemoryFits
<1>3. /\ current[r] = 0 /\ PartIs(r, 0, 0, BorderI, BorderI + Part(r))
      /\ pc[r] \in {"up", "down"} => GhostsAre(r, 0) /\ GhostsAre(r, Part(r) + BorderI)
      /\ pc[r] \in {"down", "inner"} => PartIs(r, 1, 1, BorderI, 2 * BorderI)
      /\ pc[r] = "inner" => PartIs(r, 1, 1, Part(r), Part(r) + BorderI)
  BY DEF FirstCall
<1>4. PICK down \in Int, up \in Int :
        /\ IteratePart(r, down, up)
        /\ 0 <= down /\ up <= Part(r)
        /\ \/ pc[r] = "up" /\ pc'[r] = "down" /\ down = 0 /\ up = BorderI
           \/ pc[r] = "down" /\ pc'[r] = "send" /\ down = Part(r) - BorderI /\ up = Part(r)
           \/ /\ pc[r] = "inner" /\ pc'[r] = "wait"
              /\ down = BorderI /\ up = Part(r) - BorderI
  <2>1. CASE pc[r] = "up" /\ pc'[r] = "down" /\ IteratePart(r, 0, BorderI)
    <3>1. 0 \in Int /\ BorderI \in Int /\ 0 <= 0 /\ BorderI <= Part(r)
      BY ONLY <1>2
    <3> QED
      BY ONLY <2>1, <3>1
  <2>2. CASE /\ pc[r] = "down" /\ pc'[r] = "send"
             /\ IteratePart(r, Part(r) - BorderI, Part(r))
    <3>1. Part(r) - BorderI \in Int /\ Part(r) \in Int /\ 0 <= Part(r) - BorderI
          /\ Part(r) <= Part(r)
      BY ONLY <1>2
    <3> QED
      BY ONLY <2>2, <3>1
  <2>3. CASE /\ pc[r] = "inner" /\ pc'[r] = "wait"
             /\ IteratePart(r, BorderI, Part(r) - BorderI)
    <3>1. BorderI \in Int /\ Part(r) - BorderI \in Int /\ 0 <= BorderI
          /\ Part(r) - BorderI <= Part(r)
      BY ONLY <1>2
    <3> QED
      BY ONLY <2>3, <3>1
  <2> QED
    BY <1>1, <2>1, <2>2, <2>3
<1>5. ASSUME NEW m \in down .. up + 2 * BorderI - 1
      PROVE  arrays[r][0][m] = <<(Begin(r) + m - BorderI) % SizeI, 0>>
  <2>1. m \in Memory(r)
    BY ONLY <1>2, <1>4, <1>5 DEF Memory
  <2>2. m < BorderI => pc[r] \in {"up", "down"}
    BY ONLY <1>2, <1>4, <1>5
  <2>3. m >= Part(r) + BorderI => pc[r] \in {"up", "down"}
    BY ONLY <1>2, <1>4, <1>5
  <2> QED
    BY ONLY r \in Ranks, <1>3, <2>1, <2>2, <2>3, RowsBelow
<1>6. /\ arrays'[r][0] = arrays[r][0]
      /\ \A m \in down + BorderI .. up + BorderI - 1 :
           arrays'[r][1][m] = <<Begin(r) + m - BorderI, 1>>
      /\ \A m \in Memory(r) \ (down + BorderI .. up + BorderI - 1) :
           arrays'[r][1][m] = arrays[r][1][m]
  BY <1>3, <1>4, <1>5, FirstGeneration
<1>7. PartIs(r, 0, 0, BorderI, BorderI + Part(r))'
  BY <1>3, <1>6 DEF PartIs
<1>8. pc'[r] \in {"ready", "up", "down"} =>
        GhostsAre(r, 0)' /\ GhostsAre(r, Part(r) + BorderI)'
  <2>1. pc'[r] \in {"ready", "up", "down"} => pc[r] = "up"
    BY <1>1
  <2> QED
    BY <1>3, <1>6, <2>1 DEF GhostsAre
<1>9. ASSUME NEW from \in Int, NEW to \in Int, 0 <= from, to <= Part(r) + 2 * BorderI,
             \/ PartIs(r, 1, 1, from, to)
             \/ down + BorderI <= from /\ to <= up + BorderI
      PROVE  PartIs(r, 1, 1, from, to)'
  <2> SUFFICES ASSUME NEW m \in from .. to - 1
               PROVE  arrays'[r][1][m] = <<Begin(r) + m - BorderI, 1>>
    BY DEF PartIs
  <2>1. m \in Memory(r) /\ m \in Int
    BY ONLY <1>2, <1>9, m \in from .. to - 1 DEF Memory
  <2>2. CASE m \in down + BorderI .. up + BorderI - 1
    BY <1>6, <2>2
  <2>3. CASE m \notin down + BorderI .. up + BorderI - 1
    <3>1. ~(down + BorderI <= from /\ to <= up + BorderI)
      BY ONLY <1>2, <1>4, <1>9, <2>1, <2>3, m \in from .. to - 1
    <3>2. arrays[r][1][m] = <<Begin(r) + m - BorderI, 1>>
      BY <1>9, <3>1 DEF PartIs
    <3> QED
      BY <1>6, <2>1, <2>3, <3>2
  <2> QED
    BY <2>2, <2>3
<1>10. /\ BorderI \in Int /\ 2 * BorderI \in Int /\ Part(r) \in Int /\ Part(r) + BorderI \in Int
       /\ 0 <= BorderI /\ 0 <= 2 * BorderI /\ 0 <= Part(r)
       /\ 2 * BorderI <= Part(r) + 2 * BorderI
       /\ Part(r) + BorderI <= Part(r) + 2 * BorderI
       /\ Part(r) <= Part(r) + 2 * BorderI
  BY ONLY <1>2
<1>11. PartIs(r, 1, 1, BorderI, 2 * BorderI)'
  <2>1. \/ PartIs(r, 1, 1, BorderI, 2 * BorderI)
        \/ down + BorderI <= BorderI /\ 2 * BorderI <= up + BorderI
    BY ONLY <1>2, <1>3, <1>4
  <2> QED
    BY ONLY <1>9, <1>10, <2>1
<1>12. pc'[r] \in {"send", "wait"} => PartIs(r, 1, 1, Part(r), Part(r) + BorderI)'
  <2> SUFFICES ASSUME pc'[r] \in {"send", "wait"}
               PROVE  PartIs(r, 1, 1, Part(r), Part(r) + BorderI)'
    OBVIOUS
  <2>1. \/ PartIs(r, 1, 1, Part(r), Part(r) + BorderI)
        \/ down + BorderI <= Part(r) /\ Part(r) + BorderI <= up + BorderI
    BY ONLY <1>2, <1>3, <1>4, pc'[r] \in {"send", "wait"}
  <2> QED
    BY ONLY <1>9, <1>10, <2>1
<1>13. pc'[r] = "wait" => PartIs(r, 1, 1, 2 * BorderI, Part(r))'
  <2> SUFFICES ASSUME pc'[r] = "wait"
               PROVE  PartIs(r, 1, 1, 2 * BorderI, Part(r))'
    OBVIOUS
  <2>1. down + BorderI <= 2 * BorderI /\ Part(r) <= up + BorderI
    BY ONLY <1>2, <1>4, pc'[r] = "wait"
  <2> QED
    BY ONLY <1>9, <1>10, <2>1
<1>14. current'[r] = 0 /\ pc'[r] \in {"down", "send", "wait"}
  BY <1>1, <1>3
<1> QED
  BY ONLY <1>7, <1>8, <1>11, <1>12, <1>13, <1>14 DEF FirstCall

\* The three parts of any call.
LEMMA IterateKeepsData ==
  ASSUME Good, Data, NEW r \in Ranks, IterateUpper(r) \/ IterateLower(r) \/ IterateInner(r)
  PROVE  Data'
PROOF
<1> USE DEF Good, Data
<1>1. PICK to \in {"down", "send", "wait"} :
        /\ pc' = [pc EXCEPT ![r] = to]
        /\ \/ pc[r] = "up" /\ to = "down"
           \/ pc[r] = "down" /\ to = "send"
           \/ pc[r] = "inner" /\ to = "wait"
  BY DEF IterateUpper, IterateLower, IterateInner, Goto
<1>2. UNCHANGED <<current, iterationsDone, sends, recvs, file>>
  BY DEF IterateUpper, IterateLower, IterateInner
<1>3. /\ pc'[r] = to
      /\ \A q \in Ranks \ {r} : pc'[q] = pc[q]
      /\ \A s \in Ranks : SendsMade(s)' = SendsMade(s)
      /\ \A s, t \in Ranks : InTransit(s, t)' = InTransit(s, t)
  <2>1. /\ pc[r] # "load" /\ to # "load"
        /\ pc[r] \in {"inner", "wait"} <=> to \in {"inner", "wait"}
        /\ pc[r] \in {"sent", "done"} <=> to \in {"sent", "done"}
    BY <1>1
  <2> QED
    BY <1>1, <1>2, <2>1, CountsKept
<1>4. RecvsInv'
  BY <1>2, RequestsKept
<1>5. /\ arrays'[r][current[r]] = arrays[r][current[r]]
      /\ \A q \in Ranks \ {r} : arrays'[q] = arrays[q]
  BY CurrentNotWritten DEF IterateUpper, IterateLower, IterateInner
<1>6. SendsInv' /\ FragmentsInv'
  <2>1. pc[r] \notin Saved
    BY <1>1 DEF Saved
  <2> QED
    BY <1>2, <1>3, <1>5, <2>1, QueuesKept
<1>7. RankRows(r)'
  <2>1. RankRows(r)
    BY DEF RowsInv
  <2>2. iterationsDone[r] = 0 => FirstCall(r)'
    BY <2>1, FirstCallIterates DEF RankRows
  <2>3. iterationsDone[r] = 1 =>
          current'[r] = 1 /\ PartIs(r, 1, 1, BorderI, BorderI + Part(r))'
    BY <1>2, <1>5, <2>1 DEF RankRows, PartIs
  <2> QED
    BY <1>2, <2>2, <2>3 DEF RankRows
<1>8. RowsInv'
  <2> SUFFICES ASSUME NEW q \in Ranks PROVE RankRows(q)'
    BY DEF RowsInv
  <2>1. CASE q = r
    BY <1>7, <2>1
  <2>2. CASE q # r
    <3>1. RankRows(q) /\ arrays'[q] = arrays[q]
      BY <1>5, <2>2 DEF RowsInv
    <3> QED
      BY ONLY q \in Ranks, <1>2, <1>3, <2>2, <3>1, RowsKept
  <2> QED
    BY <2>1, <2>2
<1> QED
  BY <1>4, <1>6, <1>8

\* The end of a call: the array that is written becomes the current one.
LEMMA ReturnKeepsData ==
  ASSUME Good, Data, NEW r \in Ranks, Return(r)
  PROVE  Data'
PROOF
<1> USE DEF Good, Data
<1>1. /\ pc[r] = "wait" /\ pc' = [pc EXCEPT ![r] = "ready"] /\ AllReceived(r)
      /\ current' = [current EXCEPT ![r] = 1 - @]
      /\ iterationsDone' = [iterationsDone EXCEPT ![r] = @ + 1]
      /\ UNCHANGED <<arrays, sends, recvs, file>>
  BY DEF Return, Goto
<1>2. /\ pc'[r] = "ready" /\ iterationsDone'[r] = iterationsDone[r] + 1
      /\ current'[r] = 1 - current[r]
      /\ \A q \in Ranks \ {r} : /\ pc'[q] = pc[q] /\ current'[q] = current[q]
                                /\ iterationsDone'[q] = iterationsDone[q]
  BY <1>1 DEF TypeOK
<1>3. iterationsDone[r] \in Nat
  BY CallsAssumption DEF TypeOK
<1>4. ASSUME NEW s \in Ranks
      PROVE  SendsMade(s)' = SendsMade(s)
  <2>1. CASE s = r
    <3>1. /\ SendsMade(r)' = (iterationsDone[r] + 1) + 1
          /\ SendsMade(r) = iterationsDone[r] + 2
      BY <1>1, <1>2 DEF SendsMade
    <3> QED
      BY <1>3, <2>1, <3>1
  <2>2. CASE s # r
    BY <1>2, <2>2 DEF SendsMade
  <2> QED
    BY <2>1, <2>2
<1>5. \A s, t \in Ranks : InTransit(s, t)' = InTransit(s, t)
  BY <1>1, <1>2 DEF InTransit
<1>6. SendsInv' /\ FragmentsInv'
  <2>1. pc[r] \notin Saved
    BY <1>1 DEF Saved
  <2> QED
    BY <1>1, <1>2, <1>4, <1>5, <2>1, QueuesKept
<1>7. RecvsInv'
  <2> SUFFICES ASSUME NEW q \in Ranks, NEW s \in Ranks, NEW n \in 1 .. Len(recvs'[q][s])
               PROVE  recvs'[q][s][n] =
                        [array |-> current'[q],
                         begin |-> GhostBegin(q, s, Len(recvs'[q][s]) - n)]
    BY DEF RecvsInv, GhostBegin
  <2>1. q # r
    <3> SUFFICES ASSUME q = r PROVE FALSE
      OBVIOUS
    <3>1. recvs'[q][s] = << >>
      BY <1>1 DEF AllReceived
    <3> QED
      BY <3>1
  <2> QED
    BY <1>1, <1>2, <2>1 DEF RecvsInv
<1>8. RankRows(r)'
  <2>1. RankRows(r)
    BY DEF RowsInv
  <2>2. CASE iterationsDone[r] = 0
    <3>1. FirstCall(r)
      BY <2>1, <2>2 DEF RankRows
    <3>2. /\ current[r] = 0
          /\ PartIs(r, 1, 1, BorderI, 2 * BorderI)
          /\ PartIs(r, 1, 1, 2 * BorderI, Part(r))
          /\ PartIs(r, 1, 1, Part(r), Part(r) + BorderI)
      BY <1>1, <3>1 DEF FirstCall
    <3>3. BorderI \in Nat /\ Part(r) \in Nat /\ Part(r) >= 2 * BorderI
      BY MemoryFits
    <3>4. ASSUME NEW m \in BorderI .. (BorderI + Part(r)) - 1
          PROVE  arrays[r][1][m] = <<Begin(r) + m - BorderI, 1>>
      <4>1. \/ m \in BorderI .. 2 * BorderI - 1
            \/ m \in 2 * BorderI .. Part(r) - 1
            \/ m \in Part(r) .. (Part(r) + BorderI) - 1
        BY ONLY <3>3, <3>4
      <4> QED
        BY <3>2, <4>1 DEF PartIs
    <3>5. PartIs(r, 1, 1, BorderI, BorderI + Part(r))'
      BY <1>1, <3>4 DEF PartIs
    <3>6. current'[r] = 1 /\ iterationsDone'[r] = 1
      BY <1>2, <2>2, <3>2
    <3> QED
      BY ONLY <3>5, <3>6 DEF RankRows
  <2>3. CASE iterationsDone[r] # 0
    <3>1. iterationsDone'[r] # 0 /\ iterationsDone'[r] # 1
      BY ONLY <1>2, <1>3, <2>3
    <3> QED
      BY ONLY <3>1 DEF RankRows
  <2> QED
    BY <2>2, <2>3
<1>9. RowsInv'
  <2> SUFFICES ASSUME NEW q \in Ranks PROVE RankRows(q)'
    BY DEF RowsInv
  <2>1. CASE q = r
    BY <1>8, <2>1
  <2>2. CASE q # r
    <3>1. RankRows(q)
      BY DEF RowsInv
    <3> QED
      BY ONLY q \in Ranks, <1>1, <1>2, <2>2, <3>1, RowsKept
  <2> QED
    BY <2>1, <2>2
<1> QED
  BY <1>6, <1>7, <1>9

-----------------------------------------------------------------------------

\* Queue v is queue w with x after it if P, and y after both if Q.
Longer(v, w, P, x, Q, y) ==
  \E l \in Nat, e \in 0 .. 2 :
    /\ l = Len(w) /\ Len(v) = l + e
    /\ \A n \in 1 .. l : v[n] = w[n]
    /\ P => v[l + 1] = x
    /\ Q => v[l + e] = y
    /\ P /\ Q => e = 2
    /\ P /\ ~Q => e = 1
    /\ ~P /\ Q => e = 1
    /\ ~P /\ ~Q => e = 0

\* A queue with one element, or two, or none, more.
LEMMA ElementsAppended ==
  ASSUME NEW T, NEW w \in Seq(T), NEW P \in BOOLEAN, NEW Q \in BOOLEAN,
         NEW x \in T, NEW y \in T, NEW v,
         v = (w \o (IF P THEN <<x>> ELSE << >>)) \o (IF Q THEN <<y>> ELSE << >>)
  PROVE  Longer(v, w, P, x, Q, y)
PROOF
<1>1. PICK l \in Nat : l = Len(w)
  BY LenProperties
<1>2. CASE P /\ Q
  <2>1. /\ Len(v) = l + 2
        /\ \A n \in 1 .. l : v[n] = w[n]
        /\ v[l + 1] = x
        /\ v[l + 2] = y
    BY <1>1, <1>2
  <2> QED
    BY ONLY <1>1, <1>2, <2>1, 2 \in 0 .. 2 DEF Longer
<1>3. CASE P /\ ~Q
  <2>1. /\ Len(v) = l + 1
        /\ \A n \in 1 .. l : v[n] = w[n]
        /\ v[l + 1] = x
    BY <1>1, <1>3
  <2> QED
    BY ONLY <1>1, <1>3, <2>1, 1 \in 0 .. 2 DEF Longer
<1>4. CASE ~P /\ Q
  <2>1. /\ Len(v) = l + 1
        /\ \A n \in 1 .. l : v[n] = w[n]
        /\ v[l + 1] = y
    BY <1>1, <1>4
  <2> QED
    BY ONLY <1>1, <1>4, <2>1, 1 \in 0 .. 2 DEF Longer
<1>5. CASE ~P /\ ~Q
  <2>1. Len(v) = l + 0 /\ \A n \in 1 .. l : v[n] = w[n]
    BY <1>1, <1>5
  <2> QED
    BY ONLY <1>1, <1>5, <2>1, 0 \in 0 .. 2 DEF Longer
<1> QED
  BY <1>2, <1>3, <1>4, <1>5

\* Outside a call and the exchange no receive is posted.
LEMMA NoReceives ==
  ASSUME Good, NEW r \in Ranks, pc[r] \notin Calling \union {"exchange"}, NEW s \in Ranks
  PROVE  recvs[r][s] = << >>
PROOF
<1>1. Len(recvs[r][s]) <= 0 /\ Len(recvs[r][s]) \in Nat
  BY CountsAreNumbers DEF Good, CountInv
<1>2. recvs[r][s] \in Seq(Requests)
  BY DEF Good, MemoryInv
<1> QED
  BY ONLY <1>1, <1>2, EmptySeq

\* The two receives of an exchange are for the ghost rows below the part, then above.
LEMMA NewReceives ==
  ASSUME Good, NEW r \in Ranks, pc[r] \notin Calling \union {"exchange"},
         NEW n \in Int, n = Part(r) + 2 * BorderI, PostRecvs(r, n), UNCHANGED current
  PROVE  /\ \A s \in Ranks : \A k \in 1 .. Len(recvs'[r][s]) :
              recvs'[r][s][k] =
                [array |-> current[r], begin |-> GhostBegin(r, s, Len(recvs'[r][s]) - k)]
         /\ \A q \in Ranks \ {r} : recvs'[q] = recvs[q]
         /\ recvs'[r][Up(r)] # << >>
         /\ Len(recvs'[r][Down(r)]) = Edges(Down(r), r, 1)
PROOF
<1> USE DEF Good
<1> DEFINE lower == [array |-> current[r], begin |-> n - BorderI]
           upper == [array |-> current[r], begin |-> 0]
<1>1. BorderI \in Nat \ {0} /\ Part(r) \in Nat /\ n - BorderI = Part(r) + BorderI
  BY MemoryFits
<1>2. lower \in Requests /\ upper \in Requests
  BY <1>1 DEF TypeOK, Requests
<1>3. recvs \in [Ranks -> [Ranks -> Seq(Requests)]]
  BY DEF MemoryInv, Requests
<1>4. recvs' = [recvs EXCEPT ![r] = [s \in Ranks |->
                  (recvs[r][s] \o (IF s = Down(r) THEN <<lower>> ELSE << >>))
                    \o (IF s = Up(r) THEN <<upper>> ELSE << >>)]]
  BY <1>3 DEF PostRecvs, Post
<1>5. lower = [array |-> current[r], begin |-> Part(r) + BorderI]
  BY <1>1
<1> HIDE DEF lower, upper
<1>6. \A q \in Ranks \ {r} : recvs'[q] = recvs[q]
  BY ONLY <1>3, <1>4, r \in Ranks
<1>7. ASSUME NEW s \in Ranks
      PROVE  Longer(recvs'[r][s], << >>, s = Down(r), lower, s = Up(r), upper)
  <2>1. recvs[r][s] = << >>
    BY <1>7, NoReceives
  <2>2. /\ recvs'[r][s] = (<< >> \o (IF s = Down(r) THEN <<lower>> ELSE << >>))
                            \o (IF s = Up(r) THEN <<upper>> ELSE << >>)
        /\ << >> \in Seq(Requests)
    BY ONLY <1>3, <1>4, <1>7, <2>1, r \in Ranks
  <2> QED
    BY ONLY <1>2, <2>2, ElementsAppended
<1>8. ASSUME NEW s \in Ranks, NEW k \in 1 .. Len(recvs'[r][s])
      PROVE  recvs'[r][s][k] =
               [array |-> current[r], begin |-> GhostBegin(r, s, Len(recvs'[r][s]) - k)]
  <2>1. PICK l \in 0 .. 2 :
          /\ Len(recvs'[r][s]) = l
          /\ s = Down(r) => recvs'[r][s][1] = lower
          /\ s = Up(r) => recvs'[r][s][l] = upper
          /\ s = Down(r) /\ s = Up(r) => l = 2
          /\ s # Down(r) /\ s = Up(r) => l = 1
          /\ s = Down(r) /\ s # Up(r) => l = 1
          /\ s # Down(r) /\ s # Up(r) => l = 0
    <3>1. PICK z \in Nat, l \in 0 .. 2 :
            /\ z = Len(<< >>) /\ Len(recvs'[r][s]) = z + l
            /\ s = Down(r) => recvs'[r][s][z + 1] = lower
            /\ s = Up(r) => recvs'[r][s][z + l] = upper
            /\ s = Down(r) /\ s = Up(r) => l = 2
            /\ s # Down(r) /\ s = Up(r) => l = 1
            /\ s = Down(r) /\ s # Up(r) => l = 1
            /\ s # Down(r) /\ s # Up(r) => l = 0
      BY <1>7 DEF Longer
    <3>2. z = 0 /\ z + l = l /\ z + 1 = 1
      BY ONLY <3>1
    <3> QED
      BY ONLY <3>1, <3>2
  <2>2. k \in 1 .. l
    BY ONLY <1>8, <2>1
  <2>3. CASE k = l /\ s = Up(r)
    <3>1. GhostBegin(r, s, l - k) = 0
      BY ONLY <2>1, <2>3 DEF GhostBegin
    <3> QED
      BY ONLY <2>1, <2>3, <3>1 DEF upper
  <2>4. CASE ~(k = l /\ s = Up(r))
    <3>1. s = Down(r) /\ k = 1 /\ (s = Up(r) => l - k = 1)
      BY ONLY <2>1, <2>2, <2>4
    <3>2. GhostBegin(r, s, l - k) = Part(r) + BorderI
      BY ONLY <3>1 DEF GhostBegin
    <3> QED
      BY ONLY <1>5, <2>1, <3>1, <3>2
  <2> QED
    BY <2>3, <2>4
<1>9. recvs'[r][Up(r)] # << >> /\ Len(recvs'[r][Down(r)]) = Edges(Down(r), r, 1)
  <2>1. /\ Up(r) \in Ranks /\ Down(r) \in Ranks
        /\ r = Up(Down(r)) /\ (Down(r) = Up(r) <=> r = Down(Down(r)))
    BY Neighbours
  <2>2. Len(recvs'[r][Up(r)]) \in 1 .. 2
    <3>1. Longer(recvs'[r][Up(r)], << >>, Up(r) = Down(r), lower, Up(r) = Up(r), upper)
      BY ONLY <1>7, <2>1
    <3> QED
      BY ONLY <3>1 DEF Longer
  <2>3. Len(recvs'[r][Down(r)]) = IF Down(r) = Up(r) THEN 2 ELSE 1
    <3>1. Longer(recvs'[r][Down(r)], << >>, Down(r) = Down(r), lower, Down(r) = Up(r), upper)
      BY ONLY <1>7, <2>1
    <3> QED
      BY ONLY <3>1 DEF Longer
  <2>4. Len(recvs'[r][Up(r)]) # 0
    BY ONLY <2>2
  <2>5. Edges(Down(r), r, 1) = IF Down(r) = Up(r) THEN 2 ELSE 1
    BY ONLY <2>1 DEF Edges
  <2> QED
    BY <2>3, <2>4, <2>5
<1> QED
  BY <1>6, <1>8, <1>9

\* So all receives that are posted stay right.
LEMMA ReceivesRight ==
  ASSUME Good, RecvsInv, NEW r \in Ranks, pc[r] \notin Calling \union {"exchange"},
         NEW n \in Int, n = Part(r) + 2 * BorderI, PostRecvs(r, n), UNCHANGED current
  PROVE  /\ RecvsInv'
         /\ \A q \in Ranks \ {r} : recvs'[q] = recvs[q]
         /\ recvs'[r][Up(r)] # << >>
         /\ Len(recvs'[r][Down(r)]) = Edges(Down(r), r, 1)
PROOF
<1>1. /\ \A s \in Ranks : \A k \in 1 .. Len(recvs'[r][s]) :
           recvs'[r][s][k] =
             [array |-> current[r], begin |-> GhostBegin(r, s, Len(recvs'[r][s]) - k)]
      /\ \A q \in Ranks \ {r} : recvs'[q] = recvs[q]
      /\ recvs'[r][Up(r)] # << >>
      /\ Len(recvs'[r][Down(r)]) = Edges(Down(r), r, 1)
  BY NewReceives
<1> DEFINE Right(q) ==
             \A s \in Ranks : \A k \in 1 .. Len(recvs'[q][s]) :
               recvs'[q][s][k] =
                 [array |-> current'[q], begin |-> GhostBegin(q, s, Len(recvs'[q][s]) - k)]
<1>2. Right(r)
  BY <1>1
<1>3. ASSUME NEW q \in Ranks \ {r}
      PROVE  Right(q)
  <2>1. recvs'[q] = recvs[q]
    BY <1>1
  <2> QED
    BY <2>1 DEF RecvsInv
<1>4. \A q \in Ranks : Right(q)
  <2> HIDE DEF Right
  <2> QED
    BY <1>2, <1>3
<1>5. RecvsInv'
  BY <1>4 DEF RecvsInv, GhostBegin
<1> QED
  BY <1>1, <1>5

\* Two requests more do not change for which ghost rows those before them are, nor does
\* one where the neighbours are different ranks.
LEMMA GhostBeginShifted ==
  ASSUME NEW r \in Ranks, NEW t \in Ranks, NEW d \in Int, NEW e \in Int,
         r = Up(t) /\ r = Down(t) => \E h \in Int : e = d + 2 * h
  PROVE  GhostBegin(t, r, e) = GhostBegin(t, r, d)
PROOF
<1>1. CASE r = Up(t) /\ r = Down(t)
  <2>1. PICK h \in Int : e = d + 2 * h
    BY <1>1
  <2>2. e % 2 = d % 2
    BY ONLY <2>1, d \in Int, e \in Int
  <2> QED
    BY <2>2 DEF GhostBegin
<1>2. CASE ~(r = Up(t) /\ r = Down(t))
  BY <1>2 DEF GhostBegin
<1> QED
  BY <1>1, <1>2

\* The two edges that a rank adds to what it sends are those that the receiver's next
\* two requests are for.
LEMMA NewEdges ==
  ASSUME NEW r \in Ranks, NEW t \in Ranks, NEW v, NEW w,
         Longer(v, w, t = Up(r), GhostRows(Up(r), Part(Up(r)) + BorderI),
                      t = Down(r), GhostRows(Down(r), 0)),
         NEW k \in 1 .. Len(v), k > Len(w)
  PROVE  v[k] = GhostRows(t, GhostBegin(t, r, Len(v) - k))
PROOF
<1> DEFINE x == GhostRows(Up(r), Part(Up(r)) + BorderI)
           y == GhostRows(Down(r), 0)
<1>1. PICK l \in Nat, e \in 0 .. 2 :
        /\ l = Len(w) /\ Len(v) = l + e
        /\ t = Up(r) => v[l + 1] = x
        /\ t = Down(r) => v[l + e] = y
        /\ t = Up(r) /\ t = Down(r) => e = 2
        /\ t = Up(r) /\ t # Down(r) => e = 1
        /\ t # Up(r) /\ t = Down(r) => e = 1
        /\ t # Up(r) /\ t # Down(r) => e = 0
  BY DEF Longer
<1>2. k \in 1 .. l + e /\ k > l
  BY ONLY <1>1, k \in 1 .. Len(v), k > Len(w)
<1>3. /\ t = Up(r) => x = GhostRows(t, Part(t) + BorderI)
      /\ t = Down(r) => y = GhostRows(t, 0)
  OBVIOUS
<1> HIDE DEF x, y
<1>4. (t = Up(r) <=> r = Down(t)) /\ (t = Down(r) <=> r = Up(t))
  BY Neighbours
<1>5. CASE k = l + e /\ t = Down(r)
  <2>1. GhostBegin(t, r, (l + e) - k) = 0
    BY ONLY <1>1, <1>4, <1>5 DEF GhostBegin
  <2> QED
    BY ONLY <1>1, <1>3, <1>5, <2>1
<1>6. CASE ~(k = l + e /\ t = Down(r))
  <2>1. t = Up(r)
    BY ONLY <1>1, <1>2, <1>6
  <2>2. (t = Down(r) => e = 2 /\ k # l + e) /\ (t # Down(r) => e = 1)
    BY ONLY <1>1, <1>6, <2>1
  <2>3. k = l + 1 /\ (t = Down(r) => (l + e) - k = 1)
    <3>1. CASE t = Down(r)
      <4>1. e = 2 /\ k # l + 2 /\ k \in 1 .. l + 2 /\ k > l /\ l \in Nat
        BY ONLY <1>1, <1>2, <2>2, <3>1
      <4>2. k = l + 1 /\ (l + 2) - k = 1
        BY ONLY <4>1
      <4> QED
        BY ONLY <4>1, <4>2
    <3>2. CASE t # Down(r)
      <4>1. k \in 1 .. l + 1 /\ k > l /\ l \in Nat
        BY ONLY <1>1, <1>2, <2>2, <3>2
      <4>2. k = l + 1
        BY ONLY <4>1
      <4> QED
        BY ONLY <3>2, <4>2
    <3> QED
      BY ONLY <3>1, <3>2
  <2>4. GhostBegin(t, r, (l + e) - k) = Part(t) + BorderI
    BY ONLY <1>4, <2>1, <2>3 DEF GhostBegin
  <2> QED
    BY ONLY <1>1, <1>3, <2>1, <2>3, <2>4
<1> QED
  BY <1>5, <1>6

\* The edges sent after the load and in the first call are right.
LEMMA SendsRight ==
  ASSUME Good, SendsInv, RowsInv, FragmentsInv,
         NEW r \in Ranks, pc[r] \notin {"sent", "done"},
         NEW n \in Int, n = Part(r) + 2 * BorderI, PostSends(r, n),
         \A s \in Ranks : SendsMade(s)' = SendsMade(s) + (IF s = r THEN 1 ELSE 0),
         \A s, t \in Ranks : InTransit(s, t)' = InTransit(s, t),
         SendsMade(r)' <= 2 => iterationsDone[r] = 0,
         UNCHANGED <<arrays, current>>
  PROVE  SendsInv' /\ FragmentsInv'
PROOF
<1> USE DEF Good
<1> DEFINE a == arrays[r][current[r]]
           x == Slice(r, a, BorderI)
           y == Slice(r, a, n - 2 * BorderI)
<1>1. BorderI \in Nat \ {0} /\ Part(r) \in Nat /\ n - 2 * BorderI = Part(r)
  BY MemoryFits
<1>2. x \in Messages /\ y \in Messages
  <2>1. arrays[r][current[r]] \in [Memory(r) -> Rows]
    BY DEF TypeOK, MemoryInv
  <2> QED
    BY <2>1, SliceIsMessage
<1>3. sends \in [Ranks -> [Ranks -> Seq(Messages)]]
  BY DEF MemoryInv
<1>4. sends' = [sends EXCEPT ![r] = [t \in Ranks |->
                  (sends[r][t] \o (IF t = Up(r) THEN <<x>> ELSE << >>))
                    \o (IF t = Down(r) THEN <<y>> ELSE << >>)]]
  BY <1>3 DEF PostSends, Post
<1>5. SendsMade(r)' <= 2 => /\ x = GhostRows(Up(r), Part(Up(r)) + BorderI)
                            /\ y = GhostRows(Down(r), 0)
  <2> SUFFICES ASSUME SendsMade(r)' <= 2
               PROVE  /\ x = GhostRows(Up(r), Part(Up(r)) + BorderI)
                      /\ y = GhostRows(Down(r), 0)
    OBVIOUS
  <2>1. current[r] = 0 /\ PartIs(r, 0, 0, BorderI, BorderI + Part(r))
    BY DEF RowsInv, RankRows, FirstCall
  <2> QED
    BY <1>1, <2>1, EdgesMatch
<1> HIDE DEF x, y
<1>6. \A q \in Ranks \ {r} : sends'[q] = sends[q]
  BY ONLY <1>3, <1>4, r \in Ranks
<1>7. ASSUME NEW t \in Ranks
      PROVE  Longer(sends'[r][t], sends[r][t], t = Up(r), x, t = Down(r), y)
  <2>1. sends[r][t] \in Seq(Messages)
    BY <1>3, <1>7
  <2>2. sends'[r][t] = (sends[r][t] \o (IF t = Up(r) THEN <<x>> ELSE << >>))
                         \o (IF t = Down(r) THEN <<y>> ELSE << >>)
    BY ONLY <1>3, <1>4, <1>7, r \in Ranks
  <2> QED
    BY ONLY <1>2, <2>1, <2>2, ElementsAppended
<1>8. \A t \in Ranks : InTransit(r, t) = 0
  <2>1. InTransit(r, 0) \in {0, 1}
    BY DEF FragmentsInv
  <2>2. InTransit(r, 0) <= 0
    BY DEF InTransit
  <2>3. \A t \in Ranks : t # 0 => InTransit(r, t) = 0
    BY DEF InTransit
  <2> QED
    BY <2>1, <2>2, <2>3
<1>9. ASSUME SendsMade(r)' <= 2, NEW t \in Ranks, NEW k \in 1 .. Len(sends'[r][t])
      PROVE  sends'[r][t][k] = GhostRows(t, GhostBegin(t, r, Len(sends'[r][t]) - k))
  <2>1. PICK l \in Nat, e \in 0 .. 2 :
          /\ l = Len(sends[r][t]) /\ Len(sends'[r][t]) = l + e
          /\ \A i \in 1 .. l : sends'[r][t][i] = sends[r][t][i]
          /\ t = Up(r) => sends'[r][t][l + 1] = x
          /\ t = Down(r) => sends'[r][t][l + e] = y
          /\ t = Up(r) /\ t = Down(r) => e = 2
          /\ t = Up(r) /\ t # Down(r) => e = 1
          /\ t # Up(r) /\ t = Down(r) => e = 1
          /\ t # Up(r) /\ t # Down(r) => e = 0
    BY <1>7 DEF Longer
  <2>2. k \in 1 .. l + e
    BY ONLY <1>9, <2>1
  <2>3. (t = Up(r) <=> r = Down(t)) /\ (t = Down(r) <=> r = Up(t))
    BY Neighbours
  <2>4. CASE k <= l
    <3>1. SendsMade(r) <= 2
      <4>1. SendsMade(r) \in Int /\ SendsMade(r)' = SendsMade(r) + 1
        BY CountsAreNumbers
      <4> QED
        BY ONLY <1>9, <4>1
    <3>2. EdgesSent(r, t) = l
      BY <1>8, <2>1 DEF EdgesSent
    <3>3. k \in 1 .. l
      BY ONLY <2>1, <2>2, <2>4
    <3>4. sends[r][t][k] = GhostRows(t, GhostBegin(t, r, l - k))
      BY <3>1, <3>2, <3>3 DEF SendsInv
    <3>5. GhostBegin(t, r, (l + e) - k) = GhostBegin(t, r, l - k)
      <4>1. l - k \in Int /\ (l + e) - k \in Int
        BY ONLY <2>1, <3>3
      <4>2. r = Up(t) /\ r = Down(t) => \E h \in Int : (l + e) - k = (l - k) + 2 * h
        <5>1. SUFFICES ASSUME r = Up(t), r = Down(t)
                       PROVE  (l + e) - k = (l - k) + 2 * 1
          BY ONLY <5>1, 1 \in Int
        <5> QED
          BY ONLY <2>1, <2>3, <3>3, <5>1
      <4> QED
        BY ONLY r \in Ranks, t \in Ranks, <4>1, <4>2, GhostBeginShifted
    <3>6. sends'[r][t][k] = sends[r][t][k]
      BY ONLY <2>1, <3>3
    <3> QED
      BY ONLY <2>1, <3>4, <3>5, <3>6
  <2>5. CASE k > l
    <3>1. /\ x = GhostRows(Up(r), Part(Up(r)) + BorderI) /\ y = GhostRows(Down(r), 0)
          /\ k \in 1 .. Len(sends'[r][t]) /\ k > Len(sends[r][t])
      BY ONLY <1>5, <1>9, <2>1, <2>5
    <3> QED
      BY ONLY <1>7, <3>1, r \in Ranks, t \in Ranks, NewEdges
  <2> QED
    BY ONLY <2>1, <2>2, <2>4, <2>5
<1>10. SendsInv'
  <2> SUFFICES ASSUME NEW s \in Ranks, NEW t \in Ranks, SendsMade(s)' <= 2,
                      NEW k \in 1 .. EdgesSent(s, t)'
               PROVE  sends'[s][t][k] = GhostRows(t, GhostBegin(t, s, EdgesSent(s, t)' - k))
    BY DEF SendsInv, GhostRows, GhostBegin
  <2>1. CASE s = r
    <3>1. EdgesSent(r, t)' = Len(sends'[r][t])
      <4>1. PICK l \in Nat, e \in 0 .. 2 : Len(sends'[r][t]) = l + e
        BY <1>7 DEF Longer
      <4> QED
        BY <1>8, <4>1 DEF EdgesSent
    <3> QED
      BY <1>9, <2>1, <3>1
  <2>2. CASE s # r
    <3>1. sends'[s] = sends[s] /\ InTransit(s, t)' = InTransit(s, t)
      BY <1>6, <2>2
    <3>2. SendsMade(s)' = SendsMade(s) + 0 /\ SendsMade(s) \in Int
      BY <2>2, CountsAreNumbers
    <3>3. SendsMade(s) <= 2
      BY ONLY <3>2, SendsMade(s)' <= 2
    <3>4. EdgesSent(s, t)' = EdgesSent(s, t)
      BY <3>1 DEF EdgesSent
    <3> QED
      BY <3>1, <3>3, <3>4 DEF SendsInv
  <2> QED
    BY <2>1, <2>2
<1>11. FragmentsInv'
  <2> SUFFICES ASSUME NEW s \in Ranks
               PROVE  /\ InTransit(s, 0)' \in {0, 1}
                      /\ InTransit(s, 0)' = 1 =>
                           sends'[s][0][Len(sends'[s][0])] = OwnRows(s)'
    BY DEF FragmentsInv
  <2>1. InTransit(s, 0)' = InTransit(s, 0) /\ OwnRows(s)' = OwnRows(s)
    BY Neighbours, OwnRowsKept
  <2>2. CASE s = r
    BY <1>8, <2>1, <2>2, Neighbours
  <2>3. CASE s # r
    BY <1>6, <2>1, <2>3 DEF FragmentsInv
  <2> QED
    BY <2>2, <2>3
<1> QED
  BY <1>10, <1>11

\* A rank whose rows are right, when the others' are not touched.
LEMMA OtherRowsKept ==
  ASSUME RowsInv, NEW r \in Ranks, RankRows(r)',
         \A q \in Ranks \ {r} :
           /\ arrays'[q] = arrays[q] /\ current'[q] = current[q]
           /\ iterationsDone'[q] = iterationsDone[q]
           /\ pc'[q] = pc[q] /\ recvs'[q] = recvs[q]
  PROVE  RowsInv'
PROOF
<1> SUFFICES ASSUME NEW q \in Ranks PROVE RankRows(q)'
  BY DEF RowsInv
<1>1. CASE q = r
  BY <1>1
<1>2. CASE q # r
  <2>1. RankRows(q)
    BY DEF RowsInv
  <2> QED
    BY <1>2, <2>1, RowsKept
<1> QED
  BY <1>1, <1>2

\* The memory of a rank has the same size in the iteration as in the load.
LEMMA SameRows ==
  ASSUME BoundSize = BorderI, NEW r \in Ranks
  PROVE  /\ LoadedRows(r) \in Int /\ LoadedRows(r) = Part(r) + 2 * BorderI
         /\ IteratedRows(r) \in Int /\ IteratedRows(r) = Part(r) + 2 * BorderI
PROOF
  BY MemoryFits DEF LoadedRows, IteratedRows

\* The exchange after the load.
LEMMA ExchangeKeepsData ==
  ASSUME BoundSize = BorderI, Good, Data, NEW r \in Ranks, BoundExchange(r)
  PROVE  Data'
PROOF
<1> USE DEF Good, Data
<1>1. /\ pc[r] = "load" /\ pc' = [pc EXCEPT ![r] = "exchange"]
      /\ PostSends(r, LoadedRows(r)) /\ PostRecvs(r, LoadedRows(r))
      /\ UNCHANGED <<arrays, current, iterationsDone, file>>
  BY DEF BoundExchange, Goto
<1>2. pc'[r] = "exchange" /\ \A q \in Ranks \ {r} : pc'[q] = pc[q]
  BY <1>1 DEF TypeOK
<1>3. iterationsDone[r] = 0
  BY <1>1 DEF PlacesInv
<1>4. ASSUME NEW s \in Ranks
      PROVE  SendsMade(s)' = SendsMade(s) + (IF s = r THEN 1 ELSE 0)
  <2>1. CASE s = r
    BY <1>1, <1>2, <1>3, <2>1 DEF SendsMade
  <2>2. CASE s # r
    <3>1. SendsMade(s)' = SendsMade(s) /\ SendsMade(s) \in Int
      BY <1>1, <1>2, <2>2, CountsAreNumbers DEF SendsMade
    <3> QED
      BY <2>2, <3>1
  <2> QED
    BY <2>1, <2>2
<1>5. \A s, t \in Ranks : InTransit(s, t)' = InTransit(s, t)
  BY <1>1, <1>2 DEF InTransit
<1>6. SendsInv' /\ FragmentsInv'
  BY <1>1, <1>3, <1>4, <1>5, SameRows, SendsRight
<1>7. /\ RecvsInv'
      /\ \A q \in Ranks \ {r} : recvs'[q] = recvs[q]
      /\ recvs'[r][Up(r)] # << >>
      /\ Len(recvs'[r][Down(r)]) = Edges(Down(r), r, 1)
  <2>1. pc[r] \notin Calling \union {"exchange"}
    BY <1>1 DEF Calling
  <2> QED
    BY <1>1, <2>1, SameRows, ReceivesRight
<1>8. RankRows(r)'
  <2>1. FirstCall(r)
    BY <1>3 DEF RowsInv, RankRows
  <2>2. Edges(Down(r), r, 1) \in Int
    BY DEF Edges
  <2>3. ~(Len(recvs'[r][Down(r)]) < Edges(Down(r), r, 1))
    BY ONLY <1>7, <2>2
  <2>4. FirstCall(r)'
    BY <1>1, <1>2, <1>7, <2>1, <2>3 DEF FirstCall, PartIs
  <2> QED
    BY <1>1, <1>3, <2>4 DEF RankRows
<1>9. RowsInv'
  BY <1>1, <1>2, <1>7, <1>8, OtherRowsKept
<1> QED
  BY <1>6, <1>7, <1>9

\* A call begins with its receives.
LEMMA RecvKeepsData ==
  ASSUME BoundSize = BorderI, Good, Data, NEW r \in Ranks, BoundRecv(r)
  PROVE  Data'
PROOF
<1> USE DEF Good, Data
<1>1. /\ pc[r] = "ready" /\ pc' = [pc EXCEPT ![r] = "up"]
      /\ PostRecvs(r, IteratedRows(r))
      /\ UNCHANGED <<arrays, current, iterationsDone, sends, file>>
  BY DEF BoundRecv, Goto
<1>2. /\ pc'[r] = "up"
      /\ \A q \in Ranks \ {r} : pc'[q] = pc[q]
      /\ \A s \in Ranks : SendsMade(s)' = SendsMade(s)
      /\ \A s, t \in Ranks : InTransit(s, t)' = InTransit(s, t)
  BY <1>1, CountsKept
<1>3. SendsInv' /\ FragmentsInv'
  BY <1>1, <1>2, QueuesKept
<1>4. RecvsInv' /\ \A q \in Ranks \ {r} : recvs'[q] = recvs[q]
  <2>1. pc[r] \notin Calling \union {"exchange"}
    BY <1>1 DEF Calling
  <2> QED
    BY <1>1, <2>1, SameRows, ReceivesRight
<1>5. RankRows(r)'
  <2>1. RankRows(r)
    BY DEF RowsInv
  <2> QED
    BY <1>1, <1>2, <2>1 DEF RankRows, FirstCall, PartIs, GhostsAre
<1>6. RowsInv'
  BY <1>1, <1>2, <1>4, <1>5, OtherRowsKept
<1> QED
  BY <1>3, <1>4, <1>6

\* Its sends come later.
LEMMA SendKeepsData ==
  ASSUME BoundSize = BorderI, Good, Data, NEW r \in Ranks, BoundSend(r)
  PROVE  Data'
PROOF
<1> USE DEF Good, Data
<1>1. /\ pc[r] = "send" /\ pc' = [pc EXCEPT ![r] = "inner"]
      /\ PostSends(r, IteratedRows(r))
      /\ UNCHANGED <<arrays, current, iterationsDone, recvs, file>>
  BY DEF BoundSend, Goto
<1>2. pc'[r] = "inner" /\ \A q \in Ranks \ {r} : pc'[q] = pc[q]
  BY <1>1 DEF TypeOK
<1>3. iterationsDone[r] \in Nat
  BY CallsAssumption DEF TypeOK
<1>4. SendsMade(r)' = iterationsDone[r] + 2 /\ SendsMade(r) = iterationsDone[r] + 1
  BY <1>1, <1>2 DEF SendsMade
<1>5. ASSUME NEW s \in Ranks
      PROVE  SendsMade(s)' = SendsMade(s) + (IF s = r THEN 1 ELSE 0)
  <2>1. CASE s = r
    BY ONLY <1>3, <1>4, <2>1
  <2>2. CASE s # r
    <3>1. SendsMade(s)' = SendsMade(s) /\ SendsMade(s) \in Int
      BY <1>1, <1>2, <2>2, CountsAreNumbers DEF SendsMade
    <3> QED
      BY <2>2, <3>1
  <2> QED
    BY <2>1, <2>2
<1>6. \A s, t \in Ranks : InTransit(s, t)' = InTransit(s, t)
  BY <1>1, <1>2 DEF InTransit
<1>7. SendsMade(r)' <= 2 => iterationsDone[r] = 0
  BY ONLY <1>3, <1>4
<1>8. SendsInv' /\ FragmentsInv'
  BY <1>1, <1>5, <1>6, <1>7, SameRows, SendsRight
<1>9. RecvsInv'
  BY <1>1, RequestsKept
<1>10. RankRows(r)'
  <2>1. RankRows(r)
    BY DEF RowsInv
  <2> QED
    BY <1>1, <1>2, <2>1 DEF RankRows, FirstCall, PartIs
<1>11. RowsInv'
  BY <1>1, <1>2, <1>10, OtherRowsKept
<1> QED
  BY <1>8, <1>9, <1>11

-----------------------------------------------------------------------------

\* What a rank contributes is its part.
LEMMA OwnFragment ==
  ASSUME BoundSize = BorderI, NEW r \in Ranks
  PROVE  Contribution(r) = OwnRows(r)
PROOF
<1>1. /\ BorderI \in Nat /\ Part(r) \in Nat
      /\ Memory(r) = 0 .. Part(r) + 2 * BorderI - 1
  BY MemoryFits DEF Memory
<1>2. \A k \in 1 .. Part(r) : BorderI + k - 1 \in Memory(r)
  BY ONLY <1>1
<1> QED
  BY ONLY <1>2, BoundSize = BorderI DEF Contribution, OwnRows

\* A rank that is not the root sends its fragment.
LEMMA FragmentKeepsData ==
  ASSUME BoundSize = BorderI, Good, Data, NEW r \in Ranks, SendFragment(r)
  PROVE  Data'
PROOF
<1> USE DEF Good, Data
<1> DEFINE c == Contribution(r)
<1>1. /\ r # 0 /\ iterationsDone[r] = Calls
      /\ pc[r] = "ready" /\ pc' = [pc EXCEPT ![r] = "sent"]
      /\ sends' = [sends EXCEPT ![r][0] = Append(@, c)]
      /\ UNCHANGED <<arrays, current, iterationsDone, recvs, file>>
  BY DEF SendFragment, Goto
<1>2. c \in Messages /\ c = OwnRows(r)
  BY <1>1, ContributionIsMessage, OwnFragment
<1> HIDE DEF c
<1>3. pc'[r] = "sent" /\ \A q \in Ranks \ {r} : pc'[q] = pc[q]
  BY <1>1 DEF TypeOK
<1>4. 0 \in Ranks /\ sends \in [Ranks -> [Ranks -> Seq(Messages)]]
  BY Neighbours DEF MemoryInv
<1>5. sends[r][0] \in Seq(Messages)
  BY <1>4
<1>6. PICK l \in Nat :
        /\ l = Len(sends[r][0])
        /\ Len(Append(sends[r][0], c)) = l + 1
        /\ \A n \in 1 .. l : Append(sends[r][0], c)[n] = sends[r][0][n]
        /\ Append(sends[r][0], c)[l + 1] = c
  <2>1. PICK l \in Nat : l = Len(sends[r][0])
    BY <1>5, LenProperties
  <2> QED
    BY ONLY <1>2, <1>5, <2>1, AppendProperties
<1>7. sends' = [sends EXCEPT ![r] = [sends[r] EXCEPT ![0] = Append(sends[r][0], c)]]
  BY <1>1
<1>8. /\ sends'[r][0] = Append(sends[r][0], c)
      /\ \A s, t \in Ranks : s # r \/ t # 0 => sends'[s][t] = sends[s][t]
  BY ONLY <1>4, <1>7, r \in Ranks
<1>9. \A q \in Ranks : SendsMade(q)' = SendsMade(q)
  BY <1>1, <1>3 DEF SendsMade
<1>10. InTransit(r, 0) = 0 /\ InTransit(r, 0)' = 1
  <2>1. InTransit(r, 0) \in {0, 1}
    BY DEF FragmentsInv
  <2>2. InTransit(r, 0) = 0 - (IF Len(file) > r THEN 1 ELSE 0)
    BY <1>1 DEF InTransit
  <2>3. ~(Len(file) > r)
    BY ONLY <2>1, <2>2
  <2>4. InTransit(r, 0)' = 1 - (IF Len(file) > r THEN 1 ELSE 0)
    BY <1>1, <1>3 DEF InTransit
  <2> QED
    BY ONLY <2>2, <2>3, <2>4
<1>11. \A s, t \in Ranks : s # r \/ t # 0 => InTransit(s, t)' = InTransit(s, t)
  BY <1>1, <1>3 DEF InTransit
<1>12. SendsInv'
  <2> SUFFICES ASSUME NEW s \in Ranks, NEW t \in Ranks, SendsMade(s)' <= 2,
                      NEW k \in 1 .. EdgesSent(s, t)'
               PROVE  sends'[s][t][k] = GhostRows(t, GhostBegin(t, s, EdgesSent(s, t)' - k))
    BY DEF SendsInv, GhostRows, GhostBegin
  <2>1. SendsMade(s) <= 2
    BY <1>9
  <2>2. CASE s = r /\ t = 0
    <3>1. EdgesSent(s, t) = l /\ EdgesSent(s, t)' = l
      <4>1. Len(sends'[r][0]) = l + 1
        BY <1>6, <1>8
      <4> QED
        BY <1>6, <1>10, <2>2, <4>1 DEF EdgesSent
    <3>2. k \in 1 .. l
      BY <3>1
    <3>3. sends[s][t][k] = GhostRows(t, GhostBegin(t, s, l - k))
      BY <2>1, <3>1, <3>2 DEF SendsInv
    <3>4. sends'[s][t][k] = sends[s][t][k]
      BY ONLY <1>6, <1>8, <2>2, <3>2
    <3> QED
      BY ONLY <3>1, <3>3, <3>4
  <2>3. CASE s # r \/ t # 0
    <3>1. sends'[s][t] = sends[s][t] /\ EdgesSent(s, t)' = EdgesSent(s, t)
      BY <1>8, <1>11, <2>3 DEF EdgesSent
    <3> QED
      BY <2>1, <3>1 DEF SendsInv
  <2> QED
    BY <2>2, <2>3
<1>13. FragmentsInv'
  <2> SUFFICES ASSUME NEW s \in Ranks
               PROVE  /\ InTransit(s, 0)' \in {0, 1}
                      /\ InTransit(s, 0)' = 1 =>
                           sends'[s][0][Len(sends'[s][0])] = OwnRows(s)'
    BY DEF FragmentsInv
  <2>0. OwnRows(s)' = OwnRows(s)
    BY <1>1, OwnRowsKept
  <2>1. CASE s = r
    <3>1. sends'[s][0][Len(sends'[s][0])] = c
      BY ONLY <1>6, <1>8, <2>1
    <3> QED
      BY <1>2, <1>10, <2>0, <2>1, <3>1
  <2>2. CASE s # r
    BY <1>4, <1>8, <1>11, <2>0, <2>2 DEF FragmentsInv
  <2> QED
    BY <2>1, <2>2
<1>14. RecvsInv'
  BY <1>1, RequestsKept
<1>15. RankRows(r)'
  <2>1. RankRows(r)
    BY DEF RowsInv
  <2> QED
    BY <1>1, <1>3, <2>1 DEF RankRows, FirstCall, PartIs
<1>16. RowsInv'
  BY <1>1, <1>3, <1>15, OtherRowsKept
<1> QED
  BY <1>12, <1>13, <1>14, <1>16

\* The root writes its own fragment.
LEMMA WriteOwnKeepsData ==
  ASSUME BoundSize = BorderI, Good, Data, FileInv, NEW r \in Ranks, WriteOwn(r)
  PROVE  Data' /\ FileInv'
PROOF
<1> USE DEF Good, Data
<1> DEFINE c == Contribution(0)
<1>1. /\ r = 0 /\ pc[0] = "gather" /\ file = << >> /\ file' = <<c>>
      /\ UNCHANGED <<arrays, current, iterationsDone, pc, sends, recvs>>
  BY DEF WriteOwn
<1>2. 0 \in Ranks
  BY <1>1
<1>3. c = OwnRows(0)
  BY <1>2, OwnFragment
<1> HIDE DEF c
<1>4. \A s, t \in Ranks : InTransit(s, t)' = InTransit(s, t)
  <2> SUFFICES ASSUME NEW s \in Ranks, NEW t \in Ranks
               PROVE  InTransit(s, t)' = InTransit(s, t)
    OBVIOUS
  <2>1. s \in Nat /\ Len(file) = 0 /\ Len(file') = 1
    BY <1>1, Neighbours
  <2>2. s # 0 => ((Len(file') > s) <=> (Len(file) > s))
    BY ONLY <2>1
  <2> QED
    BY <1>1, <2>2 DEF InTransit
<1>5. \A s \in Ranks : SendsMade(s)' = SendsMade(s)
  BY <1>1 DEF SendsMade
<1>6. SendsInv' /\ FragmentsInv'
  BY <1>1, <1>4, <1>5, QueuesKept
<1>7. RecvsInv'
  BY <1>1, RequestsKept
<1>8. RowsInv'
  BY <1>1 DEF RowsInv, RankRows, FirstCall, PartIs, GhostsAre
<1>9. FileInv'
  <2>1. Len(file') = 1 /\ DOMAIN file' = {1} /\ file'[1] = c /\ 1 - 1 = 0
    BY ONLY <1>1
  <2>2. 1 <= ProcSize
    BY ProcSizeAssumption
  <2>3. OwnRows(0)' = OwnRows(0)
    BY <1>1, <1>2, OwnRowsKept
  <2>4. \A s \in Ranks : recvs'[0][s] = << >>
    <3>1. pc[0] \notin Calling \union {"exchange"}
      BY <1>1 DEF Calling
    <3> QED
      BY <1>1, <1>2, <3>1, NoReceives
  <2> QED
    BY <1>3, <2>1, <2>2, <2>3, <2>4 DEF FileInv
<1> QED
  BY <1>6, <1>7, <1>8, <1>9

\* When the root writes the fragments, all edges it was sent have arrived.
LEMMA OnlyFragment ==
  ASSUME Good, FragmentsInv, NEW u \in Ranks, u # 0, pc[0] = "gather",
         sends[u][0] # << >>
  PROVE  Len(sends[u][0]) = 1 /\ InTransit(u, 0) = 1 /\ EdgesSent(u, 0) = 0
PROOF
<1> USE DEF Good
<1>1. 0 \in Ranks
  BY Neighbours
<1>2. recvs[0][u] = << >>
  <2>1. pc[0] \notin Calling \union {"exchange"}
    BY DEF Calling
  <2> QED
    BY <1>1, <2>1, NoReceives
<1>3. Calls \in Nat /\ iterationsDone[u] \in 0 .. Calls
  BY CallsAssumption DEF TypeOK
<1>4. RecvsMade(0) = Calls + 1
  BY <1>1 DEF PlacesInv, RecvsMade, Calling
<1>5. SendsMade(u) \in Int /\ SendsMade(u) <= Calls + 1
  <2>1. SendsMade(u) \in Int
    BY CountsAreNumbers
  <2>2. CASE pc[u] \in {"inner", "wait"}
    <3>1. iterationsDone[u] < Calls /\ SendsMade(u) = iterationsDone[u] + 2
      BY <2>2 DEF PlacesInv, Calling, SendsMade
    <3> QED
      BY ONLY <1>3, <2>1, <3>1
  <2>3. CASE pc[u] \notin {"inner", "wait"}
    <3>1. SendsMade(u) = 0 \/ SendsMade(u) = iterationsDone[u] + 1
      BY <2>3 DEF SendsMade
    <3> QED
      BY ONLY <1>3, <2>1, <3>1
  <2> QED
    BY <2>2, <2>3
<1>6. Edges(u, 0, SendsMade(u) - RecvsMade(0)) \in Int
      /\ Edges(u, 0, SendsMade(u) - RecvsMade(0)) <= 0
  BY ONLY <1>3, <1>4, <1>5 DEF Edges
<1>7. InTransit(u, 0) \in {0, 1}
  BY DEF FragmentsInv
<1>8. PICK l \in Nat : l = Len(sends[u][0]) /\ l # 0
  <2>1. sends[u][0] \in Seq(Messages)
    BY <1>1 DEF MemoryInv
  <2> QED
    BY ONLY <2>1, sends[u][0] # << >>, EmptySeq, LenProperties
<1>9. l = 0 + Edges(u, 0, SendsMade(u) - RecvsMade(0)) + InTransit(u, 0)
  <2>1. Len(recvs[0][u]) = 0
    BY <1>2
  <2> QED
    BY <1>1, <1>8, <2>1 DEF CountInv
<1>10. l = 1 /\ InTransit(u, 0) = 1
  BY ONLY <1>6, <1>7, <1>8, <1>9
<1> QED
  BY <1>8, <1>10 DEF EdgesSent

\* The root writes the fragment of the next rank.
LEMMA WriteReceivedKeepsData ==
  ASSUME Good, Data, FileInv, NEW r \in Ranks, NEW u \in Ranks, WriteReceived(r, u)
  PROVE  Data' /\ FileInv'
PROOF
<1> USE DEF Good, Data
<1> DEFINE c == Head(sends[u][0])
<1>1. /\ r = 0 /\ pc[0] = "gather" /\ u = Len(file) /\ u # 0
      /\ sends[u][0] # << >>
      /\ file' = Append(file, c)
      /\ sends' = [sends EXCEPT ![u][0] = Tail(@)]
      /\ UNCHANGED <<arrays, current, iterationsDone, pc, recvs>>
  BY DEF WriteReceived
<1>2. Len(sends[u][0]) = 1 /\ InTransit(u, 0) = 1 /\ EdgesSent(u, 0) = 0
  BY <1>1, OnlyFragment
<1>3. 0 \in Ranks /\ sends \in [Ranks -> [Ranks -> Seq(Messages)]] /\ file \in Seq(Messages)
  BY Neighbours DEF MemoryInv
<1>4. sends[u][0] \in Seq(Messages)
  BY <1>3
<1>5. /\ c \in Messages /\ c = sends[u][0][1]
      /\ Len(Tail(sends[u][0])) = 0
  <2>1. /\ c \in Messages /\ Len(Tail(sends[u][0])) = Len(sends[u][0]) - 1
        /\ c = sends[u][0][1]
    BY ONLY <1>1, <1>4, HeadTailProperties
  <2> QED
    BY ONLY <1>2, <2>1
<1>6. c = OwnRows(u)
  BY <1>2, <1>5 DEF FragmentsInv
<1> HIDE DEF c
<1>7. sends' = [sends EXCEPT ![u] = [sends[u] EXCEPT ![0] = Tail(sends[u][0])]]
  BY <1>1
<1>8. /\ sends'[u][0] = Tail(sends[u][0])
      /\ \A s, t \in Ranks : s # u \/ t # 0 => sends'[s][t] = sends[s][t]
  BY ONLY <1>3, <1>7, u \in Ranks
<1>9. PICK l \in Nat :
        /\ l = u /\ l = Len(file) /\ Len(file') = l + 1
        /\ \A n \in 1 .. l : file'[n] = file[n]
        /\ file'[l + 1] = c
  <2>1. PICK l \in Nat : l = Len(file)
    BY <1>3, LenProperties
  <2>2. /\ Len(file') = l + 1
        /\ \A n \in 1 .. l : file'[n] = file[n]
        /\ file'[l + 1] = c
    BY ONLY <1>1, <1>3, <1>5, <2>1, AppendProperties
  <2> QED
    BY ONLY <1>1, <2>1, <2>2
<1>10. InTransit(u, 0)' = 0
  <2>1. pc[u] \in {"sent", "done"}
    BY <1>2 DEF InTransit
  <2>2. Len(file') > u
    BY ONLY <1>9
  <2> QED
    BY <1>1, <2>1, <2>2 DEF InTransit
<1>11. ASSUME NEW s \in Ranks, NEW t \in Ranks, s # u \/ t # 0
       PROVE  InTransit(s, t)' = InTransit(s, t)
  <2>1. s \in Nat
    BY Neighbours
  <2>2. t = 0 => ((Len(file') > s) <=> (Len(file) > s))
    BY ONLY <1>9, <1>11, <2>1
  <2> QED
    BY <1>1, <2>2 DEF InTransit
<1>12. \A s \in Ranks : SendsMade(s)' = SendsMade(s)
  BY <1>1 DEF SendsMade
<1>13. SendsInv'
  <2> SUFFICES ASSUME NEW s \in Ranks, NEW t \in Ranks, SendsMade(s)' <= 2,
                      NEW k \in 1 .. EdgesSent(s, t)'
               PROVE  sends'[s][t][k] = GhostRows(t, GhostBegin(t, s, EdgesSent(s, t)' - k))
    BY DEF SendsInv, GhostRows, GhostBegin
  <2>1. SendsMade(s) <= 2
    BY <1>12
  <2>2. s # u \/ t # 0
    <3> SUFFICES ASSUME s = u, t = 0 PROVE FALSE
      OBVIOUS
    <3>1. Len(sends'[u][0]) = 0
      BY <1>5, <1>8
    <3>2. EdgesSent(u, 0)' = 0
      BY <1>10, <3>1 DEF EdgesSent
    <3> QED
      BY <3>2
  <2>3. sends'[s][t] = sends[s][t] /\ EdgesSent(s, t)' = EdgesSent(s, t)
    BY <1>8, <1>11, <2>2 DEF EdgesSent
  <2> QED
    BY <2>1, <2>3 DEF SendsInv
<1>14. FragmentsInv'
  <2> SUFFICES ASSUME NEW s \in Ranks
               PROVE  /\ InTransit(s, 0)' \in {0, 1}
                      /\ InTransit(s, 0)' = 1 =>
                           sends'[s][0][Len(sends'[s][0])] = OwnRows(s)'
    BY DEF FragmentsInv
  <2>0. OwnRows(s)' = OwnRows(s)
    BY <1>1, OwnRowsKept
  <2>1. CASE s = u
    BY <1>10, <2>1
  <2>2. CASE s # u
    BY <1>3, <1>8, <1>11, <2>0, <2>2 DEF FragmentsInv
  <2> QED
    BY <2>1, <2>2
<1>15. RecvsInv'
  BY <1>1, RequestsKept
<1>16. RowsInv'
  BY <1>1 DEF RowsInv, RankRows, FirstCall, PartIs, GhostsAre
<1>17. FileInv'
  <2>1. l < ProcSize /\ ProcSize \in Nat
    BY <1>9, Neighbours, ProcSizeAssumption
  <2>2. Len(file') <= ProcSize
    BY ONLY <1>9, <2>1
  <2>3. DOMAIN file' = 1 .. l + 1 /\ DOMAIN file = 1 .. l
    <3>1. file' \in Seq(Messages)
      BY ONLY <1>1, <1>3, <1>5, AppendProperties
    <3> QED
      BY ONLY <1>3, <1>9, <3>1, LenProperties
  <2>4. ASSUME NEW n \in 1 .. l + 1
        PROVE  file'[n] = OwnRows(n - 1)' /\ \A s \in Ranks : recvs'[n - 1][s] = << >>
    <3>1. PICK v \in Ranks : v = n - 1
      <4>1. n - 1 \in 0 .. ProcSize - 1
        BY ONLY <1>9, <2>1, <2>4
      <4> QED
        BY <4>1 DEF Ranks
    <3>2. OwnRows(v)' = OwnRows(v)
      BY <1>1, OwnRowsKept
    <3>3. CASE n \in 1 .. l
      BY <1>1, <1>9, <2>3, <3>1, <3>2, <3>3 DEF FileInv
    <3>4. CASE n = l + 1
      <4>1. v = u
        BY ONLY <1>9, <3>1, <3>4
      <4>2. pc[u] \notin Calling \union {"exchange"}
        BY <1>2, SenderSaved DEF Saved, Calling
      <4>3. \A s \in Ranks : recvs'[u][s] = << >>
        BY <1>1, <4>2, NoReceives
      <4> QED
        BY ONLY <1>6, <1>9, <3>1, <3>2, <3>4, <4>1, <4>3
    <3> QED
      BY ONLY <1>9, <2>4, <3>3, <3>4
  <2> QED
    BY <2>2, <2>3, <2>4 DEF FileInv
<1> QED
  BY <1>13, <1>14, <1>15, <1>16, <1>17

-----------------------------------------------------------------------------

\* The arithmetic of the balance between two neighbours, which have one edge in common
\* or two.
LEMMA BalanceBounds ==
  ASSUME NEW e \in {1, 2}, NEW l \in Nat, NEW made \in Int, NEW wanted \in Int,
         NEW transit \in Int, NEW d \in Int, NEW edges \in Int, NEW one \in Int,
         made <= 1, transit <= 0, d = made - wanted,
         e = 1 => edges = d /\ one = 1,
         e = 2 => edges = 2 * d /\ one = 2,
         0 <= l + edges + transit, l <= one \/ l <= 0
  PROVE  wanted <= 2
PROOF
<1>1. CASE e = 1
  BY <1>1
<1>2. CASE e = 2
  BY <1>2
<1> QED
  BY <1>1, <1>2

\* A rank that has not sent in its first call leaves its neighbours to send twice at
\* most.
LEMMA AtMostTwoExchanges ==
  ASSUME Good, NEW s \in Ranks, NEW r \in Ranks, s = Up(r) \/ s = Down(r),
         iterationsDone[r] = 0, pc[r] \notin {"inner", "wait", "sent", "done"}
  PROVE  SendsMade(s) <= 2
PROOF
<1> USE DEF Good
<1>1. SendsMade(r) \in {0, 1}
  BY DEF SendsMade
<1>2. InTransit(r, s) \in Int /\ InTransit(r, s) <= 0
  BY CountsAreNumbers DEF InTransit
<1>3. PICK e \in {1, 2} : \A number \in Int : Edges(r, s, number) = e * number
  <2>1. CASE s = Up(r) /\ s = Down(r)
    BY <2>1 DEF Edges
  <2>2. CASE s = Up(r) /\ s # Down(r)
    BY <2>2 DEF Edges
  <2>3. CASE s # Up(r) /\ s = Down(r)
    BY <2>3 DEF Edges
  <2> QED
    BY <2>1, <2>2, <2>3
<1>4. PICK l \in Nat, made \in Int, wanted \in Int, transit \in Int :
        /\ l = Len(recvs[s][r]) /\ made = SendsMade(r) /\ wanted = RecvsMade(s)
        /\ transit = InTransit(r, s) /\ transit <= 0 /\ made <= 1
  BY <1>1, <1>2, CountsAreNumbers
<1>5. /\ Len(sends[r][s]) = l + Edges(r, s, made - wanted) + transit
      /\ l <= IF pc[s] \in Calling \union {"exchange"} THEN Edges(r, s, 1) ELSE 0
      /\ Len(sends[r][s]) \in Nat
  BY <1>4, CountsAreNumbers DEF CountInv
<1>6. PICK d \in Int, edges \in Int, one \in Int :
        /\ d = made - wanted /\ edges = Edges(r, s, d) /\ one = Edges(r, s, 1)
        /\ e = 1 => edges = d /\ one = 1
        /\ e = 2 => edges = 2 * d /\ one = 2
  <2>1. PICK d \in Int : d = made - wanted
    BY ONLY <1>4
  <2>2. Edges(r, s, d) = e * d /\ Edges(r, s, 1) = e * 1
    BY ONLY <1>3, <2>1
  <2>3. CASE e = 1
    BY ONLY <2>1, <2>2, <2>3
  <2>4. CASE e = 2
    BY ONLY <2>1, <2>2, <2>4
  <2> QED
    BY ONLY <1>3, <2>3, <2>4
<1>7. 0 <= l + edges + transit /\ (l <= one \/ l <= 0)
  BY ONLY <1>4, <1>5, <1>6
<1>8. wanted <= 2
  <2>1. /\ e \in {1, 2} /\ l \in Nat /\ made \in Int /\ wanted \in Int
        /\ transit \in Int /\ d \in Int /\ edges \in Int /\ one \in Int
    BY ONLY <1>3, <1>4, <1>6
  <2>2. made <= 1 /\ transit <= 0 /\ d = made - wanted
    BY ONLY <1>4, <1>6
  <2>3. (e = 1 => edges = d /\ one = 1) /\ (e = 2 => edges = 2 * d /\ one = 2)
    BY ONLY <1>6
  <2>4. 0 <= l + edges + transit /\ (l <= one \/ l <= 0)
    BY ONLY <1>7
  <2> QED
    BY ONLY <2>1, <2>2, <2>3, <2>4, BalanceBounds
<1>9. SendsMade(s) <= RecvsMade(s)
  <2>1. iterationsDone[s] \in Nat
    BY CallsAssumption DEF TypeOK
  <2> QED
    BY <2>1 DEF SendsMade, RecvsMade, Calling
<1>10. SendsMade(s) \in Int
  BY CountsAreNumbers
<1> QED
  BY ONLY <1>4, <1>8, <1>9, <1>10

\* A receive that is posted is for an edge: if the sender has also sent its fragment, it
\* has sent all edges before.
LEMMA EdgeComesFirst ==
  ASSUME Good, FragmentsInv, NEW s \in Ranks, NEW r \in Ranks,
         sends[s][r] # << >>, recvs[r][s] # << >>
  PROVE  /\ EdgesSent(s, r) \in Nat \ {0}
         /\ EdgesSent(s, r) = Len(recvs[r][s]) + Edges(s, r, SendsMade(s) - RecvsMade(r))
         /\ Len(recvs[r][s]) \in Nat \ {0}
PROOF
<1> USE DEF Good
<1>1. PICK sent \in Nat \ {0}, received \in Nat \ {0} :
        sent = Len(sends[s][r]) /\ received = Len(recvs[r][s])
  <2>1. sends[s][r] \in Seq(Messages) /\ recvs[r][s] \in Seq(Requests)
    BY DEF MemoryInv
  <2>2. Len(sends[s][r]) \in Nat \ {0} /\ Len(recvs[r][s]) \in Nat \ {0}
    BY ONLY <2>1, sends[s][r] # << >>, recvs[r][s] # << >>, EmptySeq, LenProperties
  <2> QED
    BY ONLY <2>2
<1>2. PICK edges \in Int : edges = Edges(s, r, SendsMade(s) - RecvsMade(r))
  <2>1. SendsMade(s) \in Int /\ RecvsMade(r) \in Int
    BY CountsAreNumbers
  <2> QED
    BY ONLY <2>1 DEF Edges
<1>3. InTransit(s, r) \in {0, 1}
  BY DEF FragmentsInv, InTransit
<1>4. sent = received + edges + InTransit(s, r)
  BY <1>1, <1>2 DEF CountInv
<1>5. EdgesSent(s, r) = sent - InTransit(s, r)
  BY <1>1 DEF EdgesSent
<1>6. InTransit(s, r) = 1 => edges >= 0
  <2> SUFFICES ASSUME InTransit(s, r) = 1 PROVE edges >= 0
    OBVIOUS
  <2>1. pc[s] \in {"sent", "done"}
    BY DEF InTransit
  <2>2. Calls \in Nat /\ iterationsDone[r] \in 0 .. Calls
    BY CallsAssumption DEF TypeOK
  <2>3. SendsMade(s) = Calls + 1
    BY <2>1 DEF PlacesInv, SendsMade
  <2>4. RecvsMade(r) \in Int /\ RecvsMade(r) <= Calls + 1
    <3>1. CASE pc[r] \in Calling
      <4>1. iterationsDone[r] < Calls /\ RecvsMade(r) = iterationsDone[r] + 2
        BY <3>1 DEF PlacesInv, RecvsMade, Calling
      <4> QED
        BY ONLY <2>2, <4>1
    <3>2. CASE pc[r] \notin Calling
      <4>1. RecvsMade(r) = 0 \/ RecvsMade(r) = iterationsDone[r] + 1
        BY <3>2 DEF RecvsMade
      <4> QED
        BY ONLY <2>2, <4>1
    <3> QED
      BY <3>1, <3>2
  <2> QED
    BY ONLY <1>2, <2>2, <2>3, <2>4 DEF Edges
<1>7. EdgesSent(s, r) = received + edges /\ EdgesSent(s, r) \in Nat \ {0}
  <2>1. CASE InTransit(s, r) = 0
    BY ONLY <1>1, <1>2, <1>4, <1>5, <2>1
  <2>2. CASE InTransit(s, r) = 1
    BY ONLY <1>1, <1>2, <1>4, <1>5, <1>6, <2>2
  <2> QED
    BY ONLY <1>3, <2>1, <2>2
<1> QED
  BY ONLY <1>1, <1>2, <1>7

\* The message that arrives is the one the oldest receive is for.
LEMMA HeadsMatch ==
  ASSUME Good, RecvsInv, SendsInv, FragmentsInv, NEW s \in Ranks, NEW r \in Ranks,
         sends[s][r] # << >>, recvs[r][s] # << >>,
         NEW b, b = GhostBegin(r, s, Len(recvs[r][s]) - 1)
  PROVE  /\ Head(recvs[r][s]) = [array |-> current[r], begin |-> b]
         /\ SendsMade(s) <= 2 => Head(sends[s][r]) = GhostRows(r, b)
PROOF
<1> USE DEF Good
<1>1. PICK made \in Int : made = SendsMade(s) - RecvsMade(r)
  BY CountsAreNumbers
<1>2. PICK e \in Nat \ {0}, l \in Nat \ {0} :
        /\ e = EdgesSent(s, r) /\ l = Len(recvs[r][s])
        /\ e = l + Edges(s, r, made)
  BY <1>1, EdgeComesFirst
<1>3. Head(recvs[r][s]) = recvs[r][s][1] /\ Head(sends[s][r]) = sends[s][r][1]
  <2>1. sends[s][r] \in Seq(Messages) /\ recvs[r][s] \in Seq(Requests)
    BY DEF MemoryInv
  <2> QED
    BY ONLY <2>1, sends[s][r] # << >>, recvs[r][s] # << >>, HeadTailProperties
<1>4. Head(recvs[r][s]) = [array |-> current[r], begin |-> b]
  <2>1. 1 \in 1 .. Len(recvs[r][s])
    BY ONLY <1>2
  <2>2. recvs[r][s][1] = [array |-> current[r],
                          begin |-> GhostBegin(r, s, Len(recvs[r][s]) - 1)]
    BY <2>1 DEF RecvsInv
  <2> QED
    BY ONLY <1>3, <2>2, b = GhostBegin(r, s, Len(recvs[r][s]) - 1)
<1>5. GhostBegin(r, s, e - 1) = GhostBegin(r, s, l - 1)
  <2>1. e - 1 \in Int /\ l - 1 \in Int
    BY ONLY <1>2
  <2>2. s = Up(r) /\ s = Down(r) => \E h \in Int : e - 1 = (l - 1) + 2 * h
    <3> SUFFICES ASSUME s = Up(r), s = Down(r)
                 PROVE  \E h \in Int : e - 1 = (l - 1) + 2 * h
      OBVIOUS
    <3>1. r = Up(s) /\ r = Down(s)
      BY Neighbours
    <3>2. Edges(s, r, made) = 2 * made
      BY ONLY <1>1, <3>1 DEF Edges
    <3>3. e - 1 = (l - 1) + 2 * made
      BY ONLY <1>1, <1>2, <3>2
    <3> QED
      BY ONLY <1>1, <3>3
  <2> QED
    BY ONLY s \in Ranks, r \in Ranks, <2>1, <2>2, GhostBeginShifted
<1>6. SendsMade(s) <= 2 => Head(sends[s][r]) = GhostRows(r, b)
  <2> SUFFICES ASSUME SendsMade(s) <= 2
               PROVE  Head(sends[s][r]) = GhostRows(r, b)
    OBVIOUS
  <2>1. 1 \in 1 .. EdgesSent(s, r)
    BY ONLY <1>2
  <2>2. sends[s][r][1] = GhostRows(r, GhostBegin(r, s, EdgesSent(s, r) - 1))
    BY <2>1 DEF SendsInv
  <2> QED
    BY ONLY <1>2, <1>3, <1>5, <2>2, b = GhostBegin(r, s, Len(recvs[r][s]) - 1)
<1> QED
  BY <1>4, <1>6

\* What a message changes in memory: a group of ghost rows of the current array.
LEMMA DeliveredRows ==
  ASSUME Good, NEW s \in Ranks, NEW r \in Ranks, Deliver(s, r),
         NEW b \in {0, Part(r) + BorderI},
         Head(recvs[r][s]) = [array |-> current[r], begin |-> b]
  PROVE  /\ \A q \in Ranks \ {r} : arrays'[q] = arrays[q]
         /\ arrays'[r][1 - current[r]] = arrays[r][1 - current[r]]
         /\ \A m \in Memory(r) \ (b .. b + BorderI - 1) :
              arrays'[r][current[r]][m] = arrays[r][current[r]][m]
         /\ \A k \in 1 .. BorderI :
              arrays'[r][current[r]][b + k - 1] = Head(sends[s][r])[k]
PROOF
<1> USE DEF Good
<1> DEFINE x == current[r]
           rows == Head(sends[s][r])
           new == [m \in Memory(r) |-> IF m \in b .. b + BorderI - 1
                                         THEN rows[m - b + 1] ELSE arrays[r][x][m]]
<1>1. /\ BorderI \in Nat \ {0} /\ Part(r) \in Nat /\ b \in Int
      /\ Memory(r) = 0 .. Part(r) + 2 * BorderI - 1
  BY MemoryFits DEF Memory
<1>2. /\ DOMAIN arrays = Ranks /\ DOMAIN arrays[r] = {0, 1}
      /\ x \in {0, 1} /\ 1 - x # x
  BY DEF MemoryInv, TypeOK
<1>3. arrays' = [arrays EXCEPT ![r][x] = new]
  <2>1. Head(recvs[r][s]).array = x /\ Head(recvs[r][s]).begin = b
    OBVIOUS
  <2> QED
    BY <1>2, <2>1 DEF Deliver
<1>4. \A m \in Memory(r) \ (b .. b + BorderI - 1) : new[m] = arrays[r][x][m]
  OBVIOUS
<1>5. ASSUME NEW k \in 1 .. BorderI
      PROVE  new[b + k - 1] = rows[k]
  <2>1. PICK m \in Int : m = b + k - 1
    BY ONLY <1>1, <1>5
  <2>2. m \in Memory(r) /\ m \in b .. b + BorderI - 1 /\ m - b + 1 = k
    BY ONLY <1>1, <1>5, <2>1, b \in {0, Part(r) + BorderI}
  <2>3. new[m] = rows[m - b + 1]
    BY <2>2
  <2> QED
    BY ONLY <2>1, <2>2, <2>3
<1> HIDE DEF new, rows, x
<1>6. arrays' = [arrays EXCEPT ![r] = [arrays[r] EXCEPT ![x] = new]]
  BY <1>3
<1>7. /\ arrays'[r][x] = new /\ arrays'[r][1 - x] = arrays[r][1 - x]
      /\ \A q \in Ranks \ {r} : arrays'[q] = arrays[q]
  BY ONLY <1>2, <1>6, r \in Ranks
<1> QED
  BY ONLY <1>4, <1>5, <1>7 DEF x, rows

\* The parity by which two requests to the same neighbour are told apart.
LEMMA WhichGhosts ==
  ASSUME Good, NEW s \in Ranks, NEW r \in Ranks, recvs[r][s] # << >>,
         NEW b, b = GhostBegin(r, s, Len(recvs[r][s]) - 1)
  PROVE  /\ s = Up(r) \/ s = Down(r)
         /\ b \in {0, Part(r) + BorderI}
         /\ pc[r] \in Calling \union {"exchange"}
         /\ s = Up(r) /\ b # 0 => Len(recvs[r][s]) = 2
         /\ s = Down(r) /\ b = 0 => Len(recvs[r][s]) < Edges(s, r, 1)
PROOF
<1> USE DEF Good
<1>1. PICK l \in Nat \ {0} : l = Len(recvs[r][s])
  <2>1. recvs[r][s] \in Seq(Requests)
    BY DEF MemoryInv
  <2> QED
    BY ONLY <2>1, recvs[r][s] # << >>, EmptySeq, LenProperties
<1>2. l <= IF pc[r] \in Calling \union {"exchange"} THEN Edges(s, r, 1) ELSE 0
  BY <1>1 DEF CountInv
<1>3. pc[r] \in Calling \union {"exchange"} /\ l <= Edges(s, r, 1)
  BY ONLY <1>1, <1>2
<1>4. (s = Up(r) <=> r = Down(s)) /\ (s = Down(r) <=> r = Up(s))
  BY Neighbours
<1>5. CASE s = Up(r) /\ s = Down(r)
  <2>1. Edges(s, r, 1) = 2
    BY ONLY <1>4, <1>5 DEF Edges
  <2>2. l \in Nat \ {0} /\ l <= 2
    BY ONLY <1>1, <1>3, <2>1
  <2>3. l = 1 \/ l = 2
    BY ONLY <2>2
  <2>4. b = GhostBegin(r, s, l - 1)
    BY ONLY <1>1, b = GhostBegin(r, s, Len(recvs[r][s]) - 1)
  <2>5. b = IF (l - 1) % 2 = 0 THEN 0 ELSE Part(r) + BorderI
    BY ONLY <1>5, <2>4 DEF GhostBegin
  <2>6. CASE l = 1
    <3>1. (l - 1) % 2 = 0
      BY ONLY <2>6
    <3>2. b = 0
      BY ONLY <2>5, <3>1
    <3>3. Len(recvs[r][s]) < Edges(s, r, 1)
      BY ONLY <1>1, <2>1, <2>6
    <3> QED
      BY ONLY <1>3, <1>5, <3>2, <3>3
  <2>7. CASE l = 2
    <3>1. (l - 1) % 2 # 0
      BY ONLY <2>7
    <3>2. b = Part(r) + BorderI
      BY ONLY <2>5, <3>1
    <3>3. b # 0
      BY ONLY <3>2, MemoryFits, r \in Ranks
    <3>4. Len(recvs[r][s]) = 2
      BY ONLY <1>1, <2>7
    <3> QED
      BY ONLY <1>3, <1>5, <3>2, <3>3, <3>4
  <2> QED
    BY ONLY <2>3, <2>6, <2>7
<1>6. CASE s = Up(r) /\ s # Down(r)
  <2>1. b = 0
    BY <1>6 DEF GhostBegin
  <2> QED
    BY ONLY <1>3, <1>6, <2>1
<1>7. CASE s # Up(r) /\ s = Down(r)
  <2>1. b = Part(r) + BorderI /\ Part(r) + BorderI # 0
    BY <1>7, MemoryFits DEF GhostBegin
  <2> QED
    BY ONLY <1>3, <1>7, <2>1
<1>8. CASE s # Up(r) /\ s # Down(r)
  <2>1. Edges(s, r, 1) = 0
    BY ONLY <1>4, <1>8 DEF Edges
  <2> QED
    BY ONLY <1>1, <1>3, <2>1
<1> QED
  BY ONLY <1>5, <1>6, <1>7, <1>8

\* What a message does to the queue of a request or of a send.
LEMMA OneTaken ==
  ASSUME NEW T, NEW q, NEW v, q \in [Ranks -> [Ranks -> Seq(T)]],
         NEW s \in Ranks, NEW r \in Ranks, q[s][r] # << >>,
         v = [q EXCEPT ![s][r] = Tail(@)]
  PROVE  /\ \A t, u \in Ranks : t # s \/ u # r => v[t][u] = q[t][u]
         /\ Len(q[s][r]) \in Nat \ {0}
         /\ Len(v[s][r]) = Len(q[s][r]) - 1
         /\ \A n \in 1 .. Len(q[s][r]) - 1 : v[s][r][n] = q[s][r][n + 1]
PROOF
<1>1. q[s][r] \in Seq(T)
  OBVIOUS
<1>2. v = [q EXCEPT ![s] = [q[s] EXCEPT ![r] = Tail(q[s][r])]]
  OBVIOUS
<1>3. /\ v[s][r] = Tail(q[s][r])
      /\ \A t, u \in Ranks : t # s \/ u # r => v[t][u] = q[t][u]
  BY ONLY <1>2, q \in [Ranks -> [Ranks -> Seq(T)]], s \in Ranks, r \in Ranks
<1>4. PICK w \in Seq(T) : w = q[s][r]
  BY <1>1
<1>5. /\ Len(Tail(w)) = Len(w) - 1
      /\ \A n \in 1 .. Len(Tail(w)) : Tail(w)[n] = w[n + 1]
      /\ Len(w) \in Nat \ {0}
  BY ONLY <1>4, q[s][r] # << >>, HeadTailProperties, EmptySeq, LenProperties
<1> QED
  BY ONLY <1>3, <1>4, <1>5

\* A message that arrives leaves the rows of every part alone, and completes the ghost
\* rows that are still waited for.
LEMMA DeliverKeepsRows ==
  ASSUME Good, Data, NEW s \in Ranks, NEW r \in Ranks, Deliver(s, r)
  PROVE  RowsInv'
PROOF
<1> USE DEF Good, Data
<1>1. /\ sends[s][r] # << >> /\ recvs[r][s] # << >>
      /\ recvs' = [recvs EXCEPT ![r][s] = Tail(@)]
      /\ UNCHANGED <<current, iterationsDone, pc, file>>
  BY DEF Deliver
<1>2. PICK b : b = GhostBegin(r, s, Len(recvs[r][s]) - 1)
  OBVIOUS
<1>3. /\ s = Up(r) \/ s = Down(r)
      /\ b \in {0, Part(r) + BorderI}
      /\ pc[r] \in Calling \union {"exchange"}
      /\ s = Up(r) /\ b # 0 => Len(recvs[r][s]) = 2
      /\ s = Down(r) /\ b = 0 => Len(recvs[r][s]) < Edges(s, r, 1)
  BY <1>1, <1>2, WhichGhosts
<1>4. /\ Head(recvs[r][s]) = [array |-> current[r], begin |-> b]
      /\ SendsMade(s) <= 2 => Head(sends[s][r]) = GhostRows(r, b)
  BY <1>1, <1>2, HeadsMatch
<1>5. /\ \A q \in Ranks \ {r} : arrays'[q] = arrays[q]
      /\ arrays'[r][1 - current[r]] = arrays[r][1 - current[r]]
      /\ \A m \in Memory(r) \ (b .. b + BorderI - 1) :
           arrays'[r][current[r]][m] = arrays[r][current[r]][m]
      /\ \A k \in 1 .. BorderI :
           arrays'[r][current[r]][b + k - 1] = Head(sends[s][r])[k]
  BY <1>3, <1>4, DeliveredRows
<1>6. /\ \A t, u \in Ranks : t # r \/ u # s => recvs'[t][u] = recvs[t][u]
      /\ Len(recvs[r][s]) \in Nat \ {0}
      /\ Len(recvs'[r][s]) = Len(recvs[r][s]) - 1
  BY <1>1, OneTaken DEF MemoryInv
<1>7. /\ BorderI \in Nat \ {0} /\ Part(r) \in Nat /\ Part(r) >= 2 * BorderI
      /\ Memory(r) = 0 .. Part(r) + 2 * BorderI - 1
  BY MemoryFits DEF Memory
<1>8. current[r] \in {0, 1}
  BY DEF TypeOK
<1>9. ASSUME NEW x \in {0, 1}, NEW m \in Int, BorderI <= m, m < BorderI + Part(r)
      PROVE  arrays'[r][x][m] = arrays[r][x][m]
  <2>1. m \in Memory(r) \ (b .. b + BorderI - 1)
    BY ONLY <1>3, <1>7, <1>9
  <2>2. x = current[r] \/ x = 1 - current[r]
    BY ONLY <1>8, x \in {0, 1}
  <2> QED
    BY ONLY <1>5, <2>1, <2>2
<1>10. ASSUME NEW x \in {0, 1}, NEW g, NEW from \in Int, NEW to \in Int,
              BorderI <= from, to <= BorderI + Part(r), PartIs(r, x, g, from, to)
       PROVE  PartIs(r, x, g, from, to)'
  <2> SUFFICES ASSUME NEW m \in from .. to - 1
               PROVE  arrays'[r][x][m] = <<Begin(r) + m - BorderI, g>>
    BY DEF PartIs
  <2>1. m \in Int /\ BorderI <= m /\ m < BorderI + Part(r)
    BY ONLY <1>7, <1>10, m \in from .. to - 1
  <2>2. arrays[r][x][m] = <<Begin(r) + m - BorderI, g>>
    BY <1>10 DEF PartIs
  <2> QED
    BY <1>9, <2>1, <2>2
<1>11. /\ BorderI \in Int /\ 2 * BorderI \in Int /\ Part(r) \in Int
       /\ Part(r) + BorderI \in Int /\ BorderI + Part(r) \in Int
       /\ BorderI <= BorderI /\ BorderI <= Part(r) /\ BorderI <= 2 * BorderI
       /\ 2 * BorderI <= BorderI + Part(r) /\ Part(r) <= BorderI + Part(r)
       /\ Part(r) + BorderI <= BorderI + Part(r)
       /\ BorderI + Part(r) <= BorderI + Part(r)
       /\ Part(r) + BorderI # 0
  BY ONLY <1>7
<1>12. ASSUME iterationsDone[r] = 0
       PROVE  FirstCall(r)'
  <2>1. FirstCall(r) /\ current[r] = 0
    BY <1>12 DEF RowsInv, RankRows, FirstCall
  <2>2. ASSUME NEW m \in {0, Part(r) + BorderI}, m # b, GhostsAre(r, m)
        PROVE  GhostsAre(r, m)'
    <3> SUFFICES ASSUME NEW k \in 1 .. BorderI
                 PROVE  arrays'[r][0][m + k - 1] =
                          <<(Begin(r) + m + k - 1 - BorderI) % SizeI, 0>>
      BY DEF GhostsAre
    <3>1. m + k - 1 \in Memory(r) \ (b .. b + BorderI - 1)
      BY ONLY <1>3, <1>7, <2>2, k \in 1 .. BorderI
    <3>2. arrays'[r][0][m + k - 1] = arrays[r][0][m + k - 1]
      BY ONLY <1>5, <2>1, <3>1
    <3> QED
      BY ONLY <2>2, <3>2, k \in 1 .. BorderI DEF GhostsAre
  <2>3. ASSUME pc[r] \in {"exchange", "up", "down"}
        PROVE  GhostsAre(r, b)'
    <3>1. SendsMade(s) <= 2
      BY <1>3, <1>12, <2>3, AtMostTwoExchanges
    <3>2. \A k \in 1 .. BorderI : arrays'[r][0][b + k - 1] = GhostRows(r, b)[k]
      BY ONLY <1>4, <1>5, <2>1, <3>1
    <3> QED
      BY ONLY <3>2 DEF GhostsAre, GhostRows
  <2>4. ASSUME pc[r] = "exchange", recvs'[r][Up(r)] = << >>
        PROVE  GhostsAre(r, 0)'
    <3>1. CASE b = 0
      BY <2>3, <2>4, <3>1
    <3>2. CASE b # 0
      <4>1. s # Up(r)
        <5> SUFFICES ASSUME s = Up(r) PROVE FALSE
          OBVIOUS
        <5>1. Len(recvs'[r][s]) = 1
          BY ONLY <1>3, <1>6, <3>2, s = Up(r)
        <5> QED
          BY ONLY <2>4, <5>1, s = Up(r), EmptySeq
      <4>2. recvs[r][Up(r)] = << >>
        BY <1>6, <2>4, <4>1, Neighbours
      <4>3. GhostsAre(r, 0)
        BY <2>1, <2>4, <4>2 DEF FirstCall
      <4> QED
        BY <2>2, <3>2, <4>3
    <3> QED
      BY <3>1, <3>2
  <2>5. ASSUME pc[r] = "exchange", Len(recvs'[r][Down(r)]) < Edges(Down(r), r, 1)
        PROVE  GhostsAre(r, Part(r) + BorderI)'
    <3>1. CASE b = Part(r) + BorderI
      BY <2>3, <2>5, <3>1
    <3>2. CASE b # Part(r) + BorderI
      <4>1. Len(recvs[r][Down(r)]) < Edges(Down(r), r, 1)
        <5>1. CASE s = Down(r)
          BY ONLY <1>3, <3>2, <5>1
        <5>2. CASE s # Down(r)
          <6>1. recvs'[r][Down(r)] = recvs[r][Down(r)]
            BY <1>6, <5>2, Neighbours
          <6> QED
            BY ONLY <2>5, <6>1
        <5> QED
          BY <5>1, <5>2
      <4>2. GhostsAre(r, Part(r) + BorderI)
        BY <2>1, <2>5, <4>1 DEF FirstCall
      <4> QED
        BY <2>2, <3>2, <4>2
    <3> QED
      BY <3>1, <3>2
  <2>6. pc[r] \in {"up", "down"} => GhostsAre(r, 0)' /\ GhostsAre(r, Part(r) + BorderI)'
    <3> SUFFICES ASSUME pc[r] \in {"up", "down"},
                        NEW m \in {0, Part(r) + BorderI}
                 PROVE  GhostsAre(r, m)'
      OBVIOUS
    <3>1. GhostsAre(r, m)
      BY <2>1 DEF FirstCall
    <3> QED
      BY <2>2, <2>3, <3>1
  <2>7. pc'[r] = pc[r] /\ pc[r] # "ready" /\ current'[r] = 0
    BY <1>1, <1>3, <2>1 DEF Calling
  <2>8. PartIs(r, 0, 0, BorderI, BorderI + Part(r))'
    BY <1>10, <1>11, <2>1 DEF FirstCall
  <2>9. pc[r] \in {"down", "send", "inner", "wait"} => PartIs(r, 1, 1, BorderI, 2 * BorderI)'
    BY <1>10, <1>11, <2>1 DEF FirstCall
  <2>10. pc[r] \in {"send", "inner", "wait"} =>
           PartIs(r, 1, 1, Part(r), Part(r) + BorderI)'
    BY <1>10, <1>11, <2>1 DEF FirstCall
  <2>11. pc[r] = "wait" => PartIs(r, 1, 1, 2 * BorderI, Part(r))'
    BY <1>10, <1>11, <2>1 DEF FirstCall
  <2> QED
    BY ONLY <2>4, <2>5, <2>6, <2>7, <2>8, <2>9, <2>10, <2>11 DEF FirstCall
<1>13. ASSUME iterationsDone[r] = 1
       PROVE  current'[r] = 1 /\ PartIs(r, 1, 1, BorderI, BorderI + Part(r))'
  BY <1>1, <1>10, <1>11, <1>13 DEF RowsInv, RankRows
<1>14. RankRows(r)'
  BY <1>1, <1>12, <1>13 DEF RankRows
<1>15. \A q \in Ranks \ {r} : recvs'[q] = recvs[q]
  BY <1>1 DEF MemoryInv
<1> QED
  BY <1>1, <1>5, <1>14, <1>15, OtherRowsKept

\* What is still to be received, and still to be sent, is known as before.
LEMMA DeliverKeepsQueues ==
  ASSUME Good, Data, NEW s \in Ranks, NEW r \in Ranks, Deliver(s, r)
  PROVE  RecvsInv' /\ SendsInv' /\ FragmentsInv'
PROOF
<1> USE DEF Good, Data
<1>1. /\ sends[s][r] # << >> /\ recvs[r][s] # << >>
      /\ sends' = [sends EXCEPT ![s][r] = Tail(@)]
      /\ recvs' = [recvs EXCEPT ![r][s] = Tail(@)]
      /\ UNCHANGED <<current, iterationsDone, pc, file>>
  BY DEF Deliver
<1>2. /\ sends \in [Ranks -> [Ranks -> Seq(Messages)]]
      /\ recvs \in [Ranks -> [Ranks -> Seq(Requests)]]
  BY DEF MemoryInv
<1>3. /\ \A t, u \in Ranks : t # r \/ u # s => recvs'[t][u] = recvs[t][u]
      /\ Len(recvs[r][s]) \in Nat \ {0}
      /\ Len(recvs'[r][s]) = Len(recvs[r][s]) - 1
      /\ \A n \in 1 .. Len(recvs[r][s]) - 1 : recvs'[r][s][n] = recvs[r][s][n + 1]
  BY ONLY <1>1, <1>2, OneTaken, s \in Ranks, r \in Ranks
<1>4. /\ \A t, u \in Ranks : t # s \/ u # r => sends'[t][u] = sends[t][u]
      /\ Len(sends[s][r]) \in Nat \ {0}
      /\ Len(sends'[s][r]) = Len(sends[s][r]) - 1
      /\ \A n \in 1 .. Len(sends[s][r]) - 1 : sends'[s][r][n] = sends[s][r][n + 1]
  BY ONLY <1>1, <1>2, OneTaken, s \in Ranks, r \in Ranks
<1>5. /\ \A t \in Ranks : SendsMade(t)' = SendsMade(t)
      /\ \A t, u \in Ranks : InTransit(t, u)' = InTransit(t, u)
  BY <1>1 DEF SendsMade, InTransit
<1>6. RecvsInv'
  <2> SUFFICES ASSUME NEW t \in Ranks, NEW u \in Ranks, NEW n \in 1 .. Len(recvs'[t][u])
               PROVE  recvs'[t][u][n] =
                        [array |-> current[t],
                         begin |-> GhostBegin(t, u, Len(recvs'[t][u]) - n)]
    BY <1>1 DEF RecvsInv, GhostBegin
  <2>1. CASE t # r \/ u # s
    <3>1. recvs'[t][u] = recvs[t][u]
      BY <1>3, <2>1
    <3>2. n \in 1 .. Len(recvs[t][u])
      BY ONLY <3>1, n \in 1 .. Len(recvs'[t][u])
    <3> QED
      BY ONLY Data, t \in Ranks, u \in Ranks, <3>1, <3>2 DEF Data, RecvsInv
  <2>2. CASE t = r /\ u = s
    <3>1. PICK l \in Nat \ {0} : l = Len(recvs[r][s])
      BY <1>3
    <3>2. n \in 1 .. l - 1
      BY ONLY <1>3, <2>2, <3>1, n \in 1 .. Len(recvs'[t][u])
    <3>3. n + 1 \in 1 .. l /\ l - (n + 1) = (l - 1) - n
      BY ONLY <3>2
    <3>4. recvs[r][s][n + 1] =
            [array |-> current[r], begin |-> GhostBegin(r, s, l - (n + 1))]
      BY <3>1, <3>3 DEF RecvsInv
    <3> QED
      BY ONLY <1>3, <2>2, <3>1, <3>2, <3>3, <3>4
  <2> QED
    BY <2>1, <2>2
<1>7. PICK sent \in Int, e \in Int :
        /\ sent = Len(sends[s][r]) /\ e = EdgesSent(s, r)
        /\ sent >= 1 /\ e >= 1 /\ e <= sent /\ EdgesSent(s, r)' = e - 1
        /\ InTransit(s, r) = 1 => sent >= 2
  <2>1. PICK sent \in Int, e \in Int, transit \in Int :
          sent = Len(sends[s][r]) /\ e = EdgesSent(s, r) /\ transit = InTransit(s, r)
    BY CountsAreNumbers DEF EdgesSent
  <2>2. e >= 1
    BY <1>1, <2>1, EdgeComesFirst
  <2>3. e = sent - transit
    BY <2>1 DEF EdgesSent
  <2>4. transit \in {0, 1}
    <3>1. CASE r = 0
      BY <2>1, <3>1 DEF FragmentsInv
    <3>2. CASE r # 0
      BY <2>1, <3>2 DEF InTransit
    <3> QED
      BY <3>1, <3>2
  <2>5. EdgesSent(s, r)' = (sent - 1) - transit
    BY ONLY <1>4, <1>5, <2>1, s \in Ranks, r \in Ranks DEF EdgesSent
  <2>6. /\ sent >= 1 /\ e <= sent /\ EdgesSent(s, r)' = e - 1
        /\ transit = 1 => sent >= 2
    BY ONLY <2>2, <2>3, <2>4, <2>5
  <2> QED
    BY ONLY <2>1, <2>2, <2>6
<1>8. \A t, u \in Ranks : t # s \/ u # r => EdgesSent(t, u)' = EdgesSent(t, u)
  BY <1>4, <1>5 DEF EdgesSent
<1>9. SendsInv'
  <2> SUFFICES ASSUME NEW t \in Ranks, NEW u \in Ranks, SendsMade(t)' <= 2,
                      NEW n \in 1 .. EdgesSent(t, u)'
               PROVE  sends'[t][u][n] = GhostRows(u, GhostBegin(u, t, EdgesSent(t, u)' - n))
    BY DEF SendsInv, GhostRows, GhostBegin
  <2>1. SendsMade(t) <= 2
    BY <1>5
  <2>2. CASE t # s \/ u # r
    BY <1>4, <1>8, <2>1, <2>2 DEF SendsInv
  <2>3. CASE t = s /\ u = r
    <3>1. n \in 1 .. e - 1
      BY ONLY <1>7, <2>3, n \in 1 .. EdgesSent(t, u)'
    <3>2. n + 1 \in 1 .. e /\ n \in 1 .. sent - 1 /\ e - (n + 1) = (e - 1) - n
      BY ONLY <1>7, <3>1
    <3>3. sends[s][r][n + 1] = GhostRows(r, GhostBegin(r, s, e - (n + 1)))
      BY <1>7, <2>1, <2>3, <3>2 DEF SendsInv
    <3> QED
      BY ONLY <1>4, <1>7, <2>3, <3>2, <3>3
  <2> QED
    BY <2>2, <2>3
<1>10. FragmentsInv'
  <2> SUFFICES ASSUME NEW t \in Ranks
               PROVE  /\ InTransit(t, 0)' \in {0, 1}
                      /\ InTransit(t, 0)' = 1 =>
                           sends'[t][0][Len(sends'[t][0])] = OwnRows(t)'
    BY DEF FragmentsInv
  <2>1. 0 \in Ranks /\ InTransit(t, 0)' = InTransit(t, 0) /\ InTransit(t, 0) \in {0, 1}
    BY <1>5, Neighbours DEF FragmentsInv
  <2> SUFFICES ASSUME InTransit(t, 0) = 1
               PROVE  sends'[t][0][Len(sends'[t][0])] = OwnRows(t)'
    BY <2>1
  <2>2. sends[t][0][Len(sends[t][0])] = OwnRows(t)'
    <3>1. t # r
      <4>1. pc[t] \notin Calling \union {"exchange"}
        BY SenderSaved DEF Saved, Calling
      <4> QED
        BY <1>1, <4>1, NoReceives
    <3>2. arrays'[t] = arrays[t] /\ current'[t] = current[t]
      BY <1>1, <3>1 DEF Deliver, MemoryInv
    <3> QED
      BY <3>2, OwnRowsKept DEF FragmentsInv
  <2>3. CASE t # s \/ r # 0
    BY <1>4, <2>1, <2>2, <2>3
  <2>4. CASE t = s /\ r = 0
    <3>1. sent - 1 \in 1 .. sent - 1 /\ (sent - 1) + 1 = sent
      BY ONLY <1>7, <2>4, InTransit(t, 0) = 1
    <3> QED
      BY ONLY <1>4, <1>7, <2>2, <2>4, <3>1
  <2> QED
    BY <2>3, <2>4
<1> QED
  BY <1>6, <1>9, <1>10

-----------------------------------------------------------------------------

\* The root writes nothing before it is in the save.
LEMMA FileBegunInvariant == Spec => []FileBegun
PROOF
<1>1. Init => FileBegun
  BY DEF Init, FileBegun
<1>2. ASSUME IInv, FileBegun, [Next]_vars
      PROVE  FileBegun'
  <2>1. DOMAIN pc = Ranks /\ 0 \in Ranks
    BY <1>2, Neighbours DEF IInv, TypeOK
  <2>2. ASSUME UNCHANGED file, pc'[0] = pc[0] \/ pc'[0] \in {"gather", "done", "aborted"}
        PROVE  FileBegun'
    BY <1>2, <2>2 DEF FileBegun
  <2>3. ASSUME NEW r \in Ranks, RankStep(r) \/ SentFragment(r)
        PROVE  FileBegun'
    <3>1. CASE WriteOwn(r)
      BY <3>1 DEF WriteOwn, FileBegun
    <3>2. CASE \E s \in Ranks : WriteReceived(r, s)
      BY <3>2 DEF WriteReceived, FileBegun
    <3>3. CASE OpenFile(r) \/ CloseFile(r) \/ SentFragment(r) \/ SendFragment(r)
      <4>1. UNCHANGED file
        BY <3>3 DEF OpenFile, CloseFile, SentFragment, SendFragment
      <4>2. pc'[0] = pc[0] \/ pc'[0] \in {"gather", "done", "aborted"}
        BY <2>1, <3>3 DEF OpenFile, CloseFile, SentFragment, SendFragment, Goto
      <4> QED
        BY <2>2, <4>1, <4>2
    <3>4. CASE \/ BoundExchange(r) \/ Exchanged(r) \/ BoundRecv(r) \/ IterateUpper(r)
               \/ IterateLower(r) \/ BoundSend(r) \/ IterateInner(r) \/ Return(r)
      <4>1. UNCHANGED file /\ (pc[r] \notin {"gather", "done", "aborted"})
            /\ pc' = [pc EXCEPT ![r] = pc'[r]]
        BY <2>1, <3>4 DEF BoundExchange, Exchanged, BoundRecv, IterateUpper, IterateLower,
           BoundSend, IterateInner, Return, Goto
      <4>2. CASE r = 0
        BY <1>2, <4>1, <4>2 DEF FileBegun
      <4>3. CASE r # 0
        BY <2>1, <2>2, <4>1, <4>3
      <4> QED
        BY <4>2, <4>3
    <3> QED
      BY <2>3, <3>1, <3>2, <3>3, <3>4 DEF RankStep
  <2>4. CASE WriteFails
    BY <2>1, <2>2, <2>4 DEF WriteFails
  <2>5. CASE (\E s, r \in Ranks : Deliver(s, r)) \/ Finished \/ UNCHANGED vars
    BY <2>2, <2>5 DEF Deliver, Finished, vars
  <2> QED
    BY <1>2, <2>3, <2>4, <2>5 DEF Next
<1> QED
  BY <1>1, <1>2, Inductive, PTL DEF Spec

\* A fragment in the file is that of a rank, and in a run that is not aborted one
\* that has saved.
LEMMA Written ==
  ASSUME MemoryInv, FileInv, NEW n \in DOMAIN file
  PROVE  /\ n - 1 \in Ranks
         /\ Good /\ FragmentsInv /\ FileBegun => pc[n - 1] \in {"sent", "gather", "done"}
PROOF
<1>1. PICK l \in Nat : l = Len(file) /\ DOMAIN file = 1 .. l
  BY LenProperties DEF MemoryInv
<1>2. PICK q \in Int : q = n - 1 /\ q \in 0 .. ProcSize - 1 /\ l > q
  <2>1. n \in 1 .. l /\ l <= ProcSize
    BY <1>1 DEF FileInv
  <2> QED
    BY ONLY <1>1, <2>1, ProcSizeAssumption
<1>3. q \in Ranks
  BY <1>2 DEF Ranks
<1>4. ASSUME Good, FragmentsInv, FileBegun
      PROVE  pc[q] \in {"sent", "gather", "done"}
  <2>1. CASE q = 0
    <3>1. file # << >>
      BY <1>1, <1>2
    <3> QED
      BY <1>3, <1>4, <2>1, <3>1 DEF FileBegun, Good, PlacesInv
  <2>2. CASE q # 0
    <3>1. InTransit(q, 0) \in {0, 1}
      BY <1>3, <1>4 DEF FragmentsInv
    <3>2. InTransit(q, 0) = (IF pc[q] \in {"sent", "done"} THEN 1 ELSE 0) - 1
      BY <1>1, <1>2, <2>2 DEF InTransit
    <3> QED
      BY ONLY <3>1, <3>2
  <2> QED
    BY <2>1, <2>2
<1> QED
  BY <1>2, <1>3, <1>4

\* A step that does not write leaves the file as it is, and the ranks whose fragments
\* it has.
LEMMA SameFile ==
  ASSUME MemoryInv, FileInv, UNCHANGED file,
         \A n \in DOMAIN file :
           /\ arrays'[n - 1] = arrays[n - 1] /\ current'[n - 1] = current[n - 1]
           /\ recvs'[n - 1] = recvs[n - 1]
  PROVE  FileInv'
PROOF
<1> SUFFICES ASSUME NEW n \in DOMAIN file
             PROVE  file[n] = OwnRows(n - 1)' /\ \A s \in Ranks : recvs'[n - 1][s] = << >>
  BY DEF FileInv
<1>1. n - 1 \in Ranks
  BY Written
<1>2. OwnRows(n - 1)' = OwnRows(n - 1)
  BY <1>1, OwnRowsKept
<1> QED
  BY <1>2 DEF FileInv

\* As does one of a rank that has not saved.
LEMMA OthersFile ==
  ASSUME Good, FragmentsInv, FileBegun, FileInv, NEW r \in Ranks, UNCHANGED file,
         pc[r] \notin {"sent", "gather", "done"} \/ UNCHANGED <<arrays, current, recvs>>,
         \A q \in Ranks \ {r} : /\ arrays'[q] = arrays[q] /\ current'[q] = current[q]
                                 /\ recvs'[q] = recvs[q]
  PROVE  FileInv'
PROOF
<1>1. ASSUME NEW n \in DOMAIN file
      PROVE  /\ arrays'[n - 1] = arrays[n - 1] /\ current'[n - 1] = current[n - 1]
             /\ recvs'[n - 1] = recvs[n - 1]
  <2>1. n - 1 \in Ranks /\ pc[n - 1] \in {"sent", "gather", "done"}
    BY <1>1, Written DEF Good
  <2>2. CASE UNCHANGED <<arrays, current, recvs>>
    BY <2>2
  <2>3. CASE n - 1 # r
    BY <2>1, <2>3
  <2> QED
    BY <2>1, <2>2, <2>3
<1> QED
  BY <1>1, SameFile DEF Good

\* A message that arrives, even after the run is aborted, arrives where one is awaited.
LEMMA DeliverKeepsFile ==
  ASSUME MemoryInv, FileInv, NEW s \in Ranks, NEW r \in Ranks, Deliver(s, r)
  PROVE  FileInv'
PROOF
<1>1. ASSUME NEW n \in DOMAIN file
      PROVE  /\ arrays'[n - 1] = arrays[n - 1] /\ current'[n - 1] = current[n - 1]
             /\ recvs'[n - 1] = recvs[n - 1]
  <2>1. n - 1 \in Ranks /\ recvs[n - 1][s] = << >>
    BY <1>1, Written DEF FileInv
  <2>2. n - 1 # r
    BY <2>1 DEF Deliver
  <2> QED
    BY <2>1, <2>2 DEF Deliver, MemoryInv
<1> QED
  BY <1>1, SameFile DEF Deliver

\* So does a step of a rank that neither writes nor sends its fragment.
LEMMA RankKeepsFile ==
  ASSUME Good, FragmentsInv, FileBegun, FileInv, NEW r \in Ranks,
         \/ BoundExchange(r) \/ Exchanged(r) \/ BoundRecv(r) \/ IterateUpper(r)
         \/ IterateLower(r) \/ BoundSend(r) \/ IterateInner(r) \/ Return(r)
         \/ SendFragment(r) \/ OpenFile(r) \/ CloseFile(r) \/ SentFragment(r)
  PROVE  FileInv'
PROOF
<1>1. UNCHANGED file
  BY DEF BoundExchange, Exchanged, BoundRecv, IterateUpper, IterateLower, BoundSend,
     IterateInner, Return, SendFragment, OpenFile, CloseFile, SentFragment
<1>2. CASE \/ Exchanged(r) \/ BoundSend(r) \/ SendFragment(r) \/ OpenFile(r)
           \/ CloseFile(r) \/ SentFragment(r)
  <2>1. UNCHANGED <<arrays, current, recvs>>
    BY <1>2 DEF Exchanged, BoundSend, SendFragment, OpenFile, CloseFile, SentFragment
  <2> QED
    BY <1>1, <2>1, OthersFile
<1>3. CASE BoundExchange(r) \/ BoundRecv(r)
  <2>1. pc[r] \in {"load", "ready"} /\ UNCHANGED <<arrays, current>>
    BY <1>3 DEF BoundExchange, BoundRecv, Goto
  <2>2. \A q \in Ranks \ {r} : recvs'[q] = recvs[q]
    <3>1. PICK n : PostRecvs(r, n)
      BY <1>3 DEF BoundExchange, BoundRecv
    <3> QED
      BY <3>1 DEF PostRecvs, Post, Good, MemoryInv
  <2> QED
    BY <1>1, <2>1, <2>2, OthersFile
<1>4. CASE IterateUpper(r) \/ IterateLower(r) \/ IterateInner(r)
  <2>1. pc[r] \in {"up", "down", "inner"} /\ UNCHANGED <<current, recvs>>
    BY <1>4 DEF IterateUpper, IterateLower, IterateInner, Goto
  <2>2. \A q \in Ranks \ {r} : arrays'[q] = arrays[q]
    <3>1. \E down, up : IteratePart(r, down, up)
      BY <1>4 DEF IterateUpper, IterateLower, IterateInner
    <3> QED
      BY <3>1, CurrentNotWritten DEF Good
  <2> QED
    BY <1>1, <2>1, <2>2, OthersFile
<1>5. CASE Return(r)
  <2>1. pc[r] = "wait" /\ UNCHANGED <<arrays, recvs>>
        /\ current' = [current EXCEPT ![r] = 1 - @]
    BY <1>5 DEF Return, Goto
  <2>2. \A q \in Ranks \ {r} : current'[q] = current[q]
    BY <2>1 DEF Good, TypeOK
  <2> QED
    BY <1>1, <2>1, <2>2, OthersFile
<1> QED
  BY <1>2, <1>3, <1>4, <1>5

\* A step of a run that is not aborted keeps what is known, or aborts it.
LEMMA WorkingStepKeepsData ==
  ASSUME BoundSize = BorderI, Good, Data, FileBegun, FileInv, [Next]_vars
  PROVE  FileInv' /\ (Data' \/ \A r \in Ranks : pc'[r] = "aborted")
PROOF
<1>0. FragmentsInv /\ MemoryInv
  BY DEF Data, Good
<1>1. ASSUME NEW r \in Ranks, RankStep(r) \/ SentFragment(r)
      PROVE  Data' /\ FileInv'
  <2>1. CASE WriteOwn(r)
    BY <2>1, WriteOwnKeepsData
  <2>2. CASE \E s \in Ranks : WriteReceived(r, s)
    BY <2>2, WriteReceivedKeepsData
  <2>3. CASE Exchanged(r) \/ OpenFile(r) \/ CloseFile(r) \/ SentFragment(r)
    BY <1>0, <2>3, QuietKeepsData, RankKeepsFile
  <2>4. CASE BoundExchange(r)
    BY <1>0, <2>4, ExchangeKeepsData, RankKeepsFile
  <2>5. CASE BoundRecv(r)
    BY <1>0, <2>5, RecvKeepsData, RankKeepsFile
  <2>6. CASE IterateUpper(r) \/ IterateLower(r) \/ IterateInner(r)
    BY <1>0, <2>6, IterateKeepsData, RankKeepsFile
  <2>7. CASE BoundSend(r)
    BY <1>0, <2>7, SendKeepsData, RankKeepsFile
  <2>8. CASE Return(r)
    BY <1>0, <2>8, ReturnKeepsData, RankKeepsFile
  <2>9. CASE SendFragment(r)
    BY <1>0, <2>9, FragmentKeepsData, RankKeepsFile
  <2> QED
    BY <1>1, <2>1, <2>2, <2>3, <2>4, <2>5, <2>6, <2>7, <2>8, <2>9 DEF RankStep
<1>2. ASSUME NEW s \in Ranks, NEW r \in Ranks, Deliver(s, r)
      PROVE  Data' /\ FileInv'
  <2>1. RowsInv' /\ RecvsInv' /\ SendsInv' /\ FragmentsInv'
    BY <1>2, DeliverKeepsRows, DeliverKeepsQueues
  <2>2. FileInv'
    BY <1>0, <1>2, DeliverKeepsFile
  <2> QED
    BY <2>1, <2>2 DEF Data
<1>3. CASE WriteFails
  <2>1. UNCHANGED <<arrays, current, recvs, file>>
    BY <1>3 DEF WriteFails
  <2>2. FileInv'
    BY <1>0, <2>1, SameFile
  <2>3. \A r \in Ranks : pc'[r] = "aborted"
    BY <1>3 DEF WriteFails
  <2> QED
    BY <2>2, <2>3
<1>4. CASE UNCHANGED vars
  <2>1. UNCHANGED <<arrays, current, iterationsDone, pc, sends, recvs, file>>
    BY <1>4 DEF vars
  <2>2. FileInv'
    BY <1>0, <2>1, SameFile
  <2>3. RecvsInv'
    BY <2>1, RequestsKept DEF Data
  <2>4. SendsInv' /\ FragmentsInv'
    <3>1. /\ \A s \in Ranks : SendsMade(s)' = SendsMade(s)
          /\ \A s, r \in Ranks : InTransit(s, r)' = InTransit(s, r)
      BY <2>1 DEF SendsMade, InTransit
    <3> QED
      BY <2>1, <3>1, QueuesKept DEF Data
  <2>5. RowsInv'
    BY <2>1 DEF Data, RowsInv, RankRows, FirstCall, PartIs, GhostsAre
  <2> QED
    BY <2>2, <2>3, <2>4, <2>5 DEF Data
<1> QED
  BY <1>1, <1>2, <1>3, <1>4 DEF Next, Finished

\* Nothing more is written when all ranks are aborted, and what is written stays.
LEMMA AbortedStepKeepsFile ==
  ASSUME \A r \in Ranks : pc[r] = "aborted", MemoryInv, FileInv, [Next]_vars
  PROVE  FileInv' /\ \A r \in Ranks : pc'[r] = "aborted"
PROOF
<1>1. ASSUME NEW r \in Ranks, RankStep(r) \/ SentFragment(r)
      PROVE  FALSE
  BY <1>1 DEF RankStep, BoundExchange, Exchanged, BoundRecv, IterateUpper, IterateLower,
     BoundSend, IterateInner, Return, SendFragment, OpenFile, WriteOwn, CloseFile,
     WriteReceived, SentFragment, Goto
<1>2. ~WriteFails
  BY Neighbours DEF WriteFails
<1>3. CASE \E s, r \in Ranks : Deliver(s, r)
  <2>1. FileInv'
    BY <1>3, DeliverKeepsFile
  <2>2. UNCHANGED pc
    BY <1>3 DEF Deliver
  <2> QED
    BY <2>1, <2>2
<1>4. CASE UNCHANGED vars
  <2>1. UNCHANGED <<arrays, current, recvs, file, pc>>
    BY <1>4 DEF vars
  <2> QED
    BY <2>1, SameFile
<1> QED
  BY <1>1, <1>2, <1>3, <1>4 DEF Next, Finished

\* After the load every rank has its part of generation 0.
LEMMA LoadedPart ==
  ASSUME Init, NEW r \in Ranks
  PROVE  PartIs(r, 0, 0, BorderI, BorderI + Part(r))
PROOF
<1> SUFFICES ASSUME NEW m \in BorderI .. (BorderI + Part(r)) - 1
             PROVE  arrays[r][0][m] = <<Begin(r) + m - BorderI, 0>>
  BY DEF PartIs
<1>1. m \in Memory(r) /\ m \in BorderI .. BorderI + Part(r) - 1
  BY MemoryFits DEF Memory
<1>2. arrays[r][0] = Loaded(r)
  BY DEF Init
<1> QED
  BY <1>1, <1>2 DEF Loaded

\* And nothing is under way.
LEMMA InitData == Init => Data /\ FileInv
PROOF
<1> SUFFICES ASSUME Init PROVE Data /\ FileInv
  OBVIOUS
<1>1. /\ arrays = [r \in Ranks |-> [x \in {0, 1} |->
                    IF x = 0 THEN Loaded(r) ELSE [m \in Memory(r) |-> Junk]]]
      /\ current = [r \in Ranks |-> 0]
      /\ iterationsDone = [r \in Ranks |-> 0]
      /\ pc = [r \in Ranks |-> "load"]
      /\ sends = [r \in Ranks |-> [s \in Ranks |-> << >>]]
      /\ recvs = [r \in Ranks |-> [s \in Ranks |-> << >>]]
      /\ file = << >>
  BY DEF Init
<1>2. ASSUME NEW s \in Ranks, NEW r \in Ranks
      PROVE  /\ Len(sends[s][r]) = 0 /\ Len(recvs[s][r]) = 0
             /\ InTransit(s, r) = 0 /\ EdgesSent(s, r) = 0
  <2>1. Len(sends[s][r]) = 0 /\ Len(recvs[s][r]) = 0
    BY <1>1
  <2>2. InTransit(s, r) = 0
    <3>1. s \in Nat /\ Len(file) = 0
      BY <1>1, Neighbours
    <3> QED
      BY <1>1, <3>1 DEF InTransit
  <2> QED
    BY <2>1, <2>2 DEF EdgesSent
<1>3. RecvsInv /\ SendsInv /\ FragmentsInv
  <2>1. RecvsInv
    BY <1>2 DEF RecvsInv
  <2>2. SendsInv
    BY <1>2 DEF SendsInv
  <2>3. FragmentsInv
    BY <1>2, Neighbours DEF FragmentsInv
  <2> QED
    BY <2>1, <2>2, <2>3
<1>4. RowsInv
  <2> SUFFICES ASSUME NEW r \in Ranks PROVE FirstCall(r) /\ iterationsDone[r] = 0
    BY DEF RowsInv, RankRows
  <2>1. current[r] = 0 /\ iterationsDone[r] = 0 /\ pc[r] = "load"
    BY <1>1
  <2>2. PartIs(r, 0, 0, BorderI, BorderI + Part(r))
    BY LoadedPart
  <2> QED
    BY <2>1, <2>2 DEF FirstCall
<1>5. FileInv
  BY <1>1, ProcSizeAssumption DEF FileInv
<1> QED
  BY <1>3, <1>4, <1>5 DEF Data

\* What is known holds throughout every run, until it is aborted.
LEMMA DataInvariant ==
  ASSUME BoundSize = BorderI
  PROVE  Spec => [](IInv /\ FileInv /\ (Data \/ \A r \in Ranks : pc[r] = "aborted"))
PROOF
<1> DEFINE Aborted == \A r \in Ranks : pc[r] = "aborted"
           Known == FileInv /\ (Data \/ Aborted)
<1>1. Init => Known
  BY InitData
<1>2. IInv /\ FileBegun /\ Known /\ [Next]_vars => Known'
  <2> SUFFICES ASSUME IInv, FileBegun, FileInv, Data \/ Aborted, [Next]_vars
               PROVE  Known'
    OBVIOUS
  <2>1. CASE Aborted
    BY <2>1, AbortedStepKeepsFile DEF IInv
  <2>2. CASE ~Aborted
    <3>1. Good /\ Data
      BY <2>2 DEF IInv, Good
    <3> QED
      BY <3>1, WorkingStepKeepsData
  <2> QED
    BY <2>1, <2>2
<1> HIDE DEF Known
<1>3. Spec => []Known
  BY <1>1, <1>2, Inductive, FileBegunInvariant, PTL DEF Spec
<1>4. Known => FileInv /\ (Data \/ Aborted)
  BY DEF Known
<1> QED
  BY <1>3, <1>4, Inductive, PTL

\* If the global CAT_Bound_size is the border of the topology, as in a build for
\* SQUARE24, every rank's part is right before its first call and after it, in whatever
\* order the messages arrive, however many calls follow and however far its neighbours
\* have got.  (From the second call on it is not: see RowsCorrect.)
THEOREM FirstCallCorrect ==
  ASSUME BoundSize = BorderI
  PROVE  Spec => []FirstRowsCorrect
PROOF
<1> DEFINE Known == IInv /\ FileInv /\ (Data \/ \A r \in Ranks : pc[r] = "aborted")
<1>1. Known => FirstRowsCorrect
  <2> SUFFICES ASSUME Known, NEW r \in Ranks, pc[r] = "ready", iterationsDone[r] <= 1,
                      NEW k \in 0 .. Part(r) - 1
               PROVE  arrays[r][current[r]][BorderI + k] = <<Begin(r) + k, iterationsDone[r]>>
    BY DEF FirstRowsCorrect, PartCorrect
  <2>1. BorderI \in Nat /\ Part(r) \in Nat /\ Begin(r) \in Nat
    BY MemoryFits
  <2>2. PICK m \in Int : m = BorderI + k
    BY ONLY <2>1, k \in 0 .. Part(r) - 1
  <2>3. m \in BorderI .. (BorderI + Part(r)) - 1 /\ Begin(r) + m - BorderI = Begin(r) + k
    BY ONLY <2>1, <2>2, k \in 0 .. Part(r) - 1
  <2>4. RankRows(r) /\ iterationsDone[r] \in 0 .. Calls
    BY DEF Data, RowsInv, IInv, TypeOK
  <2>5. iterationsDone[r] = 0 \/ iterationsDone[r] = 1
    BY ONLY <2>4, CallsAssumption, iterationsDone[r] <= 1
  <2>6. arrays[r][current[r]][m] = <<Begin(r) + m - BorderI, iterationsDone[r]>>
    <3>1. CASE iterationsDone[r] = 0
      BY <2>3, <2>4, <3>1 DEF RankRows, FirstCall, PartIs
    <3>2. CASE iterationsDone[r] = 1
      BY <2>3, <2>4, <3>2 DEF RankRows, PartIs
    <3> QED
      BY <2>5, <3>1, <3>2
  <2> QED
    BY ONLY <2>2, <2>3, <2>6
<1> HIDE DEF Known
<1>2. Spec => []Known
  BY DataInvariant DEF Known
<1> QED
  BY <1>1, <1>2, PTL

\* Under the same condition the file gets what the ranks have in their parts after the
\* last call, however many they were, rank by rank, though the root takes for a fragment
\* whatever comes next from a rank: no message of an exchange is left when it does.
THEOREM SaveGathersParts ==
  ASSUME BoundSize = BorderI
  PROVE  Spec => []SaveGathers
PROOF
<1> DEFINE Known == IInv /\ FileInv /\ (Data \/ \A r \in Ranks : pc[r] = "aborted")
<1>1. Known => SaveGathers
  <2> SUFFICES ASSUME Known PROVE SaveGathers
    OBVIOUS
  <2>1. \A n \in DOMAIN file : file[n] = OwnRows(n - 1)
    BY DEF FileInv
  <2>2. pc[0] = "done" => Len(file) = ProcSize
    BY Neighbours DEF IInv, PlacesInv
  <2> QED
    BY <2>1, <2>2 DEF SaveGathers
<1> HIDE DEF Known
<1>2. Spec => []Known
  BY DataInvariant DEF Known
<1> QED
  BY <1>1, <1>2, PTL

-----------------------------------------------------------------------------
(* The exchange after the load *)

\* What another rank that has not finished its exchange awaits from a rank in the load
\* is all that this will send it in the exchange.
LEMMA NothingSent ==
  ASSUME Good, NEW s \in Ranks, NEW r \in Ranks, pc[s] = "load",
         pc[r] \in {"load", "exchange"}
  PROVE  Len(sends[s][r]) = 0 /\ Awaited(r, s) = Edges(s, r, 1)
PROOF
<1> USE DEF Good
<1>1. PICK sent \in Nat, received \in Nat, transit \in Int :
        /\ sent = Len(sends[s][r]) /\ received = Len(recvs[r][s])
        /\ transit = InTransit(s, r)
  BY CountsAreNumbers
<1>2. SendsMade(s) = 0
  BY DEF SendsMade
<1>3. transit <= 0
  BY <1>1 DEF InTransit
<1>4. /\ sent = received + Edges(s, r, SendsMade(s) - RecvsMade(r)) + transit
      /\ received <= IF pc[r] \in Calling \union {"exchange"} THEN Edges(s, r, 1) ELSE 0
  BY <1>1 DEF CountInv
<1>5. CASE pc[r] = "load"
  <2>1. RecvsMade(r) = 0 /\ pc[r] \notin Calling \union {"exchange"}
    BY <1>5 DEF RecvsMade, Calling
  <2>2. Edges(s, r, SendsMade(s) - RecvsMade(r)) = 0
    BY ONLY <1>2, <2>1 DEF Edges
  <2>3. sent = 0
    BY ONLY <1>1, <1>3, <1>4, <2>1, <2>2
  <2> QED
    BY <1>1, <1>5, <2>3 DEF Awaited
<1>6. CASE pc[r] = "exchange"
  <2>1. RecvsMade(r) = 1
    BY <1>6 DEF RecvsMade, PlacesInv, Calling
  <2>2. PICK edges \in Nat : /\ edges = Edges(s, r, 1)
                             /\ Edges(s, r, SendsMade(s) - RecvsMade(r)) = -edges
    <3>1. /\ Edges(s, r, 1) \in Nat
          /\ Edges(s, r, SendsMade(s) - RecvsMade(r)) = -Edges(s, r, 1)
      BY ONLY <1>2, <2>1 DEF Edges
    <3> QED
      BY ONLY <3>1
  <2>3. received <= edges
    BY ONLY <1>4, <1>6, <2>2
  <2>4. sent = 0 /\ received = edges
    BY ONLY <1>1, <1>3, <1>4, <2>2, <2>3
  <2>5. Awaited(r, s) = received
    BY <1>1, <1>6 DEF Awaited
  <2> QED
    BY ONLY <1>1, <2>2, <2>4, <2>5
<1> QED
  BY <1>5, <1>6

\* What a rank awaits from one that has begun its exchange is under way.
LEMMA AwaitedSent ==
  ASSUME Good, FileBegun, NEW s \in Ranks, NEW r \in Ranks, pc[s] # "load"
  PROVE  Awaited(r, s) <= Len(sends[s][r])
PROOF
<1> USE DEF Good
<1>1. PICK sent \in Nat, received \in Nat, transit \in Int, made \in Int :
        /\ sent = Len(sends[s][r]) /\ received = Len(recvs[r][s])
        /\ transit = InTransit(s, r) /\ made = SendsMade(s)
  BY CountsAreNumbers
<1>2. made >= 1
  <2>1. iterationsDone[s] \in Nat
    BY CallsAssumption DEF TypeOK
  <2> QED
    BY ONLY <1>1, <2>1, pc[s] # "load" DEF SendsMade
<1>3. sent = received + Edges(s, r, made - RecvsMade(r)) + transit
  BY <1>1 DEF CountInv
<1>4. CASE pc[r] \in {"load", "exchange"}
  <2>1. transit >= 0
    <3>1. CASE r = 0
      <4>1. file = << >> /\ s \in Nat
        BY <1>4, <3>1, Neighbours DEF FileBegun
      <4>2. ~(Len(file) > s)
        BY ONLY <4>1
      <4> QED
        BY ONLY <1>1, <4>2 DEF InTransit
    <3>2. CASE r # 0
      BY ONLY <1>1, <3>2 DEF InTransit
    <3> QED
      BY <3>1, <3>2
  <2>2. CASE pc[r] = "load"
    <3>1. RecvsMade(r) = 0 /\ Awaited(r, s) = Edges(s, r, 1)
      BY <2>2 DEF RecvsMade, Awaited
    <3>2. PICK edges \in Int, one \in Int :
            /\ edges = Edges(s, r, made - 0) /\ one = Edges(s, r, 1) /\ one <= edges
      <4>1. /\ Edges(s, r, made - 0) \in Int /\ Edges(s, r, 1) \in Int
            /\ Edges(s, r, 1) <= Edges(s, r, made - 0)
        BY ONLY <1>1, <1>2 DEF Edges
      <4> QED
        BY ONLY <4>1
    <3>3. sent = received + edges + transit
      BY ONLY <1>3, <3>1, <3>2
    <3>4. one <= sent
      BY ONLY <1>1, <2>1, <3>2, <3>3
    <3> QED
      BY ONLY <1>1, <3>1, <3>2, <3>4
  <2>3. CASE pc[r] = "exchange"
    <3>1. RecvsMade(r) = 1 /\ Awaited(r, s) = received
      BY <1>1, <2>3 DEF RecvsMade, Awaited, PlacesInv, Calling
    <3>2. PICK edges \in Nat : edges = Edges(s, r, made - 1)
      <4>1. Edges(s, r, made - 1) \in Nat
        BY ONLY <1>1, <1>2 DEF Edges
      <4> QED
        BY ONLY <4>1
    <3>3. sent = received + edges + transit
      BY ONLY <1>3, <3>1, <3>2
    <3>4. received <= sent
      BY ONLY <1>1, <2>1, <3>2, <3>3
    <3> QED
      BY ONLY <1>1, <3>1, <3>4
  <2> QED
    BY <1>4, <2>2, <2>3
<1>5. CASE pc[r] \notin {"load", "exchange"}
  <2>1. Awaited(r, s) = 0
    BY <1>5 DEF Awaited
  <2> QED
    BY ONLY <1>1, <2>1
<1> QED
  BY <1>4, <1>5

\* A step of a rank that leaves it out of the exchange takes nothing from what the others
\* await.
LEMMA LoadKept ==
  ASSUME LoadInv, NEW r \in Ranks, pc'[r] \notin {"load", "exchange"}, LoadedInv(r)',
         \A q \in Ranks \ {r} :
           /\ arrays'[q] = arrays[q] /\ current'[q] = current[q]
           /\ iterationsDone'[q] = iterationsDone[q]
           /\ pc'[q] = pc[q] /\ recvs'[q] = recvs[q],
         \A q \in Ranks \ {r} : \A s \in Ranks : \A n \in 1 .. Len(sends'[s][q]) :
           n <= Awaited(q, s) =>
             n \in 1 .. Len(sends[s][q]) /\ sends'[s][q][n] = sends[s][q][n]
  PROVE  LoadInv'
PROOF
<1> SUFFICES ASSUME NEW q \in Ranks
             PROVE  LoadedInv(q)' /\ \A s \in Ranks : AwaitedInv(q, s)'
  BY DEF LoadInv
<1>1. CASE q = r
  <2>1. ASSUME NEW s \in Ranks
        PROVE  AwaitedInv(r, s)'
    <3>1. Awaited(r, s)' = 0
      BY DEF Awaited
    <3>2. \A n \in 1 .. Len(sends'[s][r]) : ~(n <= 0)
      OBVIOUS
    <3> QED
      BY <3>1, <3>2 DEF AwaitedInv
  <2> QED
    BY <1>1, <2>1
<1>2. CASE q # r
  <2>1. /\ arrays'[q] = arrays[q] /\ current'[q] = current[q]
        /\ iterationsDone'[q] = iterationsDone[q]
        /\ pc'[q] = pc[q] /\ recvs'[q] = recvs[q]
    BY <1>2
  <2>2. LoadedInv(q)'
    <3>1. LoadedInv(q)
      BY DEF LoadInv
    <3> QED
      BY ONLY <2>1, <3>1 DEF LoadedInv, PartIs, GhostsAre
  <2>3. ASSUME NEW s \in Ranks
        PROVE  AwaitedInv(q, s)'
    <3>1. AwaitedInv(q, s)
      BY DEF LoadInv
    <3>2. Awaited(q, s)' = Awaited(q, s)
      BY ONLY <2>1 DEF Awaited
    <3>3. \A n \in 1 .. Len(sends'[s][q]) : n <= Awaited(q, s) =>
            n \in 1 .. Len(sends[s][q]) /\ sends'[s][q][n] = sends[s][q][n]
      BY <1>2, <2>3
    <3> QED
      BY ONLY <2>1, <3>1, <3>2, <3>3 DEF AwaitedInv, GhostRows, GhostBegin
  <2> QED
    BY <2>2, <2>3
<1> QED
  BY <1>1, <1>2

\* The exchange of a rank.
LEMMA ExchangeKeepsLoad ==
  ASSUME Good, LoadInv, NEW r \in Ranks, BoundExchange(r)
  PROVE  LoadInv'
PROOF
<1> USE DEF Good
<1> DEFINE n == LoadedRows(r)
<1>1. /\ pc[r] = "load" /\ pc' = [pc EXCEPT ![r] = "exchange"]
      /\ PostSends(r, n) /\ PostRecvs(r, n)
      /\ UNCHANGED <<arrays, current, iterationsDone, file>>
  BY DEF BoundExchange, Goto
<1>2. pc'[r] = "exchange" /\ \A q \in Ranks \ {r} : pc'[q] = pc[q]
  BY <1>1 DEF TypeOK
<1>3. iterationsDone[r] = 0 /\ pc[r] \notin Calling \union {"exchange"}
  BY <1>1 DEF PlacesInv, Calling
<1>4. n \in Int /\ n = Part(r) + 2 * BorderI /\ n - 2 * BorderI = Part(r)
  BY MemoryFits DEF LoadedRows
<1>5. current[r] = 0 /\ PartIs(r, 0, 0, BorderI, BorderI + Part(r))
  BY <1>1, <1>3 DEF LoadInv, LoadedInv
<1> HIDE DEF n
<1>6. /\ \A s \in Ranks : \A k \in 1 .. Len(recvs'[r][s]) :
           recvs'[r][s][k] =
             [array |-> current[r], begin |-> GhostBegin(r, s, Len(recvs'[r][s]) - k)]
      /\ \A q \in Ranks \ {r} : recvs'[q] = recvs[q]
      /\ recvs'[r][Up(r)] # << >>
      /\ Len(recvs'[r][Down(r)]) = Edges(Down(r), r, 1)
  BY <1>1, <1>3, <1>4, NewReceives
<1>7. \A s \in Ranks : Len(recvs'[r][s]) = Edges(s, r, 1)
  <2> SUFFICES ASSUME NEW s \in Ranks PROVE Len(recvs'[r][s]) = Edges(s, r, 1)
    OBVIOUS
  <2>1. Len(recvs'[r][s]) = Len(recvs[r][s]) + Edges(s, r, 1)
    BY <1>1, <1>4, ReceivesPosted
  <2>2. recvs[r][s] = << >> /\ Edges(s, r, 1) \in Int
    BY <1>3, NoReceives DEF Edges
  <2> QED
    BY ONLY <2>1, <2>2
<1>8. ASSUME NEW t \in Ranks
      PROVE  /\ Longer(sends'[r][t], sends[r][t],
                       t = Up(r), GhostRows(Up(r), Part(Up(r)) + BorderI),
                       t = Down(r), GhostRows(Down(r), 0))
             /\ Len(sends'[r][t]) = Len(sends[r][t]) + Edges(r, t, 1)
  <2> DEFINE x == Slice(r, arrays[r][0], BorderI)
             y == Slice(r, arrays[r][0], Part(r))
  <2>1. sends \in [Ranks -> [Ranks -> Seq(Messages)]] /\ arrays[r][0] \in [Memory(r) -> Rows]
    BY DEF MemoryInv
  <2>2. x \in Messages /\ y \in Messages
    BY <2>1, SliceIsMessage
  <2>3. sends' = [sends EXCEPT ![r] = [u \in Ranks |->
                    (sends[r][u] \o (IF u = Up(r) THEN <<x>> ELSE << >>))
                      \o (IF u = Down(r) THEN <<y>> ELSE << >>)]]
    BY <1>1, <1>4, <1>5, <2>1 DEF PostSends, Post
  <2>4. x = GhostRows(Up(r), Part(Up(r)) + BorderI) /\ y = GhostRows(Down(r), 0)
    BY <1>5, EdgesMatch
  <2> HIDE DEF x, y
  <2>5. sends'[r][t] = (sends[r][t] \o (IF t = Up(r) THEN <<x>> ELSE << >>))
                         \o (IF t = Down(r) THEN <<y>> ELSE << >>)
    BY ONLY <1>8, <2>1, <2>3, r \in Ranks
  <2>6. sends[r][t] \in Seq(Messages)
    BY <1>8, <2>1
  <2>7. Longer(sends'[r][t], sends[r][t], t = Up(r), x, t = Down(r), y)
    BY ONLY <2>2, <2>5, <2>6, ElementsAppended
  <2>8. Len(sends'[r][t]) = Len(sends[r][t]) + Edges(r, t, 1)
    BY <1>1, <1>8, SendsPosted
  <2> QED
    BY ONLY <2>4, <2>7, <2>8
<1>9. \A q \in Ranks \ {r} : sends'[q] = sends[q]
  BY <1>1 DEF PostSends, Post, MemoryInv
<1>10. ASSUME NEW q \in Ranks
       PROVE  LoadedInv(q)'
  <2>1. LoadedInv(q)
    BY DEF LoadInv
  <2>2. CASE q = r
    <3>1. Edges(Down(r), r, 1) \in Int
      BY DEF Edges
    <3>2. ~(Len(recvs'[r][Down(r)]) < Edges(Down(r), r, 1))
      BY ONLY <1>6, <3>1
    <3>3. PartIs(r, 0, 0, BorderI, BorderI + Part(r))'
      BY <1>1, <1>5 DEF PartIs
    <3> QED
      BY ONLY <1>1, <1>2, <1>5, <1>6, <2>2, <3>2, <3>3 DEF LoadedInv
  <2>3. CASE q # r
    BY <1>1, <1>2, <1>6, <2>1, <2>3 DEF LoadedInv, PartIs, GhostsAre
  <2> QED
    BY <2>2, <2>3
<1>11. ASSUME NEW q \in Ranks, NEW s \in Ranks
       PROVE  Awaited(q, s)' = Awaited(q, s)
  <2>1. CASE q = r
    BY <1>1, <1>2, <1>7, <2>1 DEF Awaited, Edges
  <2>2. CASE q # r
    <3>1. pc'[q] = pc[q] /\ recvs'[q] = recvs[q]
      BY <1>2, <1>6, <2>2
    <3> QED
      BY ONLY <3>1 DEF Awaited, Edges
  <2> QED
    BY <2>1, <2>2
<1>12. ASSUME NEW q \in Ranks, NEW s \in Ranks, NEW k \in 1 .. Len(sends'[s][q]),
              k <= Awaited(q, s)
       PROVE  sends'[s][q][k] = GhostRows(q, GhostBegin(q, s, Awaited(q, s) - k))
  <2>1. CASE s # r
    <3>1. sends'[s][q] = sends[s][q] /\ AwaitedInv(q, s)
      BY <1>9, <2>1 DEF LoadInv
    <3> QED
      BY ONLY <1>12, <3>1 DEF AwaitedInv
  <2>2. CASE s = r
    <3>1. PICK e \in Nat : e = Edges(r, q, 1)
      BY DEF Edges
    <3>2. pc[q] \in {"load", "exchange"}
      <4> SUFFICES ASSUME pc[q] \notin {"load", "exchange"} PROVE FALSE
        OBVIOUS
      <4>1. Awaited(q, s) = 0
        BY DEF Awaited
      <4> QED
        BY ONLY <1>12, <4>1
    <3>3. Len(sends[r][q]) = 0 /\ Awaited(q, r) = e
      BY ONLY Good, r \in Ranks, q \in Ranks, <1>1, <3>1, <3>2, NothingSent
    <3>4. Len(sends'[r][q]) = 0 + e
      BY <1>8, <3>1, <3>3
    <3>5. k \in 1 .. Len(sends'[r][q]) /\ k > Len(sends[r][q])
      BY ONLY <1>12, <2>2, <3>3
    <3>6. sends'[r][q][k] = GhostRows(q, GhostBegin(q, r, Len(sends'[r][q]) - k))
      BY <1>8, <3>5, NewEdges
    <3>7. Len(sends'[r][q]) = e
      BY ONLY <3>1, <3>4
    <3> QED
      BY ONLY <2>2, <3>3, <3>6, <3>7
  <2> QED
    BY <2>1, <2>2
<1>13. ASSUME NEW q \in Ranks, NEW s \in Ranks
       PROVE  AwaitedInv(q, s)'
  <2>1. ASSUME pc'[q] = "exchange", NEW k \in 1 .. Len(recvs'[q][s])
        PROVE  recvs'[q][s][k] =
                 [array |-> current'[q], begin |-> GhostBegin(q, s, Len(recvs'[q][s]) - k)]
    <3>1. CASE q = r
      <4>1. k \in 1 .. Len(recvs'[r][s]) /\ current'[r] = current[r]
        BY ONLY <1>1, <2>1, <3>1
      <4>2. recvs'[r][s][k] =
              [array |-> current[r], begin |-> GhostBegin(r, s, Len(recvs'[r][s]) - k)]
        BY ONLY <1>6, <4>1, s \in Ranks
      <4> QED
        BY ONLY <3>1, <4>1, <4>2
    <3>2. CASE q # r
      <4>1. /\ pc[q] = "exchange" /\ recvs'[q] = recvs[q] /\ current'[q] = current[q]
            /\ AwaitedInv(q, s)
        BY <1>1, <1>2, <1>6, <2>1, <3>2 DEF LoadInv
      <4> QED
        BY ONLY <2>1, <4>1 DEF AwaitedInv
    <3> QED
      BY <3>1, <3>2
  <2>2. ASSUME NEW k \in 1 .. Len(sends'[s][q]), k <= Awaited(q, s)'
        PROVE  sends'[s][q][k] = GhostRows(q, GhostBegin(q, s, Awaited(q, s)' - k))
    <3>1. Awaited(q, s)' = Awaited(q, s)
      BY ONLY <1>11, q \in Ranks, s \in Ranks
    <3>2. k <= Awaited(q, s)
      BY ONLY <2>2, <3>1
    <3>3. sends'[s][q][k] = GhostRows(q, GhostBegin(q, s, Awaited(q, s) - k))
      BY ONLY <1>12, <3>2, q \in Ranks, s \in Ranks, k \in 1 .. Len(sends'[s][q])
    <3> QED
      BY ONLY <3>1, <3>3
  <2> HIDE DEF Good
  <2> QED
    BY <2>1, <2>2 DEF AwaitedInv, GhostBegin, GhostRows
<1> QED
  BY <1>10, <1>13 DEF LoadInv

\* A message that arrives for a rank in the exchange is the one its oldest receive is for.
LEMMA DeliverKeepsLoad ==
  ASSUME Good, LoadInv, NEW s \in Ranks, NEW r \in Ranks, Deliver(s, r)
  PROVE  LoadInv'
PROOF
<1> USE DEF Good
<1>1. /\ sends[s][r] # << >> /\ recvs[r][s] # << >>
      /\ sends' = [sends EXCEPT ![s][r] = Tail(@)]
      /\ recvs' = [recvs EXCEPT ![r][s] = Tail(@)]
      /\ UNCHANGED <<current, iterationsDone, pc, file>>
  BY DEF Deliver
<1>2. /\ sends \in [Ranks -> [Ranks -> Seq(Messages)]]
      /\ recvs \in [Ranks -> [Ranks -> Seq(Requests)]]
  BY DEF MemoryInv
<1>3. /\ \A t, u \in Ranks : t # r \/ u # s => recvs'[t][u] = recvs[t][u]
      /\ Len(recvs[r][s]) \in Nat \ {0}
      /\ Len(recvs'[r][s]) = Len(recvs[r][s]) - 1
      /\ \A n \in 1 .. Len(recvs[r][s]) - 1 : recvs'[r][s][n] = recvs[r][s][n + 1]
  BY ONLY <1>1, <1>2, OneTaken, s \in Ranks, r \in Ranks
<1>4. /\ \A t, u \in Ranks : t # s \/ u # r => sends'[t][u] = sends[t][u]
      /\ Len(sends[s][r]) \in Nat \ {0}
      /\ Len(sends'[s][r]) = Len(sends[s][r]) - 1
      /\ \A n \in 1 .. Len(sends[s][r]) - 1 : sends'[s][r][n] = sends[s][r][n + 1]
  BY ONLY <1>1, <1>2, OneTaken, s \in Ranks, r \in Ranks
<1>5. \A q \in Ranks \ {r} : arrays'[q] = arrays[q] /\ recvs'[q] = recvs[q]
  BY <1>1 DEF Deliver, MemoryInv
<1>6. PICK b : b = GhostBegin(r, s, Len(recvs[r][s]) - 1)
  OBVIOUS
<1>7. /\ s = Up(r) \/ s = Down(r)
      /\ b \in {0, Part(r) + BorderI}
      /\ pc[r] \in Calling \union {"exchange"}
      /\ s = Up(r) /\ b # 0 => Len(recvs[r][s]) = 2
      /\ s = Down(r) /\ b = 0 => Len(recvs[r][s]) < Edges(s, r, 1)
  BY <1>1, <1>6, WhichGhosts
<1>8. CASE pc[r] \in Calling
  <2>1. pc'[r] \notin {"load", "exchange"} /\ LoadedInv(r)'
    BY <1>1, <1>8 DEF Calling, LoadedInv
  <2>2. ASSUME NEW q \in Ranks \ {r}, NEW t \in Ranks
        PROVE  sends'[t][q] = sends[t][q]
    BY <1>4
  <2> QED
    BY <1>1, <1>5, <2>1, <2>2, LoadKept
<1>9. CASE pc[r] = "exchange"
  <2>1. /\ iterationsDone[r] = 0 /\ current[r] = 0
        /\ PartIs(r, 0, 0, BorderI, BorderI + Part(r))
        /\ recvs[r][Up(r)] = << >> => GhostsAre(r, 0)
        /\ Len(recvs[r][Down(r)]) < Edges(Down(r), r, 1) => GhostsAre(r, Part(r) + BorderI)
    BY <1>9 DEF LoadInv, LoadedInv, PlacesInv
  <2>2. PICK l \in Nat \ {0} : l = Len(recvs[r][s]) /\ Awaited(r, s) = l
    BY <1>3, <1>9 DEF Awaited
  <2>3. /\ \A n \in 1 .. l : recvs[r][s][n] =
             [array |-> current[r], begin |-> GhostBegin(r, s, l - n)]
        /\ \A n \in 1 .. Len(sends[s][r]) : n <= l =>
             sends[s][r][n] = GhostRows(r, GhostBegin(r, s, l - n))
    BY <1>9, <2>2 DEF LoadInv, AwaitedInv
  <2>4. /\ Head(recvs[r][s]) = [array |-> current[r], begin |-> b]
        /\ Head(sends[s][r]) = GhostRows(r, b)
    <3>1. Head(recvs[r][s]) = recvs[r][s][1] /\ Head(sends[s][r]) = sends[s][r][1]
      <4>1. sends[s][r] \in Seq(Messages) /\ recvs[r][s] \in Seq(Requests)
        BY <1>2
      <4> QED
        BY ONLY <1>1, <4>1, HeadTailProperties
    <3>2. 1 \in 1 .. l /\ 1 \in 1 .. Len(sends[s][r]) /\ 1 <= l
      BY ONLY <1>4, <2>2
    <3> QED
      BY ONLY <1>6, <2>2, <2>3, <3>1, <3>2
  <2>5. /\ \A m \in Memory(r) \ (b .. b + BorderI - 1) : arrays'[r][0][m] = arrays[r][0][m]
        /\ \A k \in 1 .. BorderI : arrays'[r][0][b + k - 1] = GhostRows(r, b)[k]
    <3>1. /\ \A m \in Memory(r) \ (b .. b + BorderI - 1) :
               arrays'[r][current[r]][m] = arrays[r][current[r]][m]
          /\ \A k \in 1 .. BorderI :
               arrays'[r][current[r]][b + k - 1] = Head(sends[s][r])[k]
      <4> HIDE DEF Good
      <4>1. b \in {0, Part(r) + BorderI}
        BY <1>7
      <4> QED
        BY <2>4, <4>1, DeliveredRows
    <3> QED
      BY ONLY <2>1, <2>4, <3>1
  <2>6. /\ BorderI \in Nat \ {0} /\ Part(r) \in Nat /\ Part(r) >= 2 * BorderI
        /\ Memory(r) = 0 .. Part(r) + 2 * BorderI - 1
    BY MemoryFits DEF Memory
  <2>7. PartIs(r, 0, 0, BorderI, BorderI + Part(r))'
    <3> SUFFICES ASSUME NEW m \in BorderI .. (BorderI + Part(r)) - 1
                 PROVE  arrays'[r][0][m] = <<Begin(r) + m - BorderI, 0>>
      BY DEF PartIs
    <3>1. m \in Memory(r) \ (b .. b + BorderI - 1)
      BY ONLY <1>7, <2>6, m \in BorderI .. (BorderI + Part(r)) - 1
    <3>2. arrays[r][0][m] = <<Begin(r) + m - BorderI, 0>>
      BY <2>1 DEF PartIs
    <3> QED
      BY ONLY <2>5, <3>1, <3>2
  <2>8. ASSUME NEW m \in {0, Part(r) + BorderI}, m # b, GhostsAre(r, m)
        PROVE  GhostsAre(r, m)'
    <3> SUFFICES ASSUME NEW k \in 1 .. BorderI
                 PROVE  arrays'[r][0][m + k - 1] =
                          <<(Begin(r) + m + k - 1 - BorderI) % SizeI, 0>>
      BY DEF GhostsAre
    <3>1. m + k - 1 \in Memory(r) \ (b .. b + BorderI - 1)
      BY ONLY <1>7, <2>6, <2>8, k \in 1 .. BorderI
    <3>2. arrays'[r][0][m + k - 1] = arrays[r][0][m + k - 1]
      BY ONLY <2>5, <3>1
    <3> QED
      BY ONLY <2>8, <3>2, k \in 1 .. BorderI DEF GhostsAre
  <2>9. GhostsAre(r, b)'
    BY ONLY <2>5 DEF GhostsAre, GhostRows
  <2>10. ASSUME recvs'[r][Up(r)] = << >>
         PROVE  GhostsAre(r, 0)'
    <3>1. CASE b = 0
      BY <2>9, <3>1
    <3>2. CASE b # 0
      <4>1. s # Up(r)
        <5> SUFFICES ASSUME s = Up(r) PROVE FALSE
          OBVIOUS
        <5>1. Len(recvs'[r][s]) = 1
          BY ONLY <1>3, <1>7, <3>2, s = Up(r)
        <5> QED
          <6>1. recvs'[r][s] = << >>
            BY ONLY <2>10, s = Up(r)
          <6> QED
            BY ONLY <5>1, <6>1
      <4>2. recvs[r][Up(r)] = << >>
        BY <1>3, <2>10, <4>1, Neighbours
      <4> HIDE DEF Good
      <4> QED
        BY <2>1, <2>8, <3>2, <4>2
    <3> QED
      BY <3>1, <3>2
  <2>11. ASSUME Len(recvs'[r][Down(r)]) < Edges(Down(r), r, 1)
         PROVE  GhostsAre(r, Part(r) + BorderI)'
    <3>1. CASE b = Part(r) + BorderI
      BY <2>9, <3>1
    <3>2. CASE b # Part(r) + BorderI
      <4>1. Len(recvs[r][Down(r)]) < Edges(Down(r), r, 1)
        <5>1. CASE s = Down(r)
          BY ONLY <1>7, <3>2, <5>1
        <5>2. CASE s # Down(r)
          <6>1. recvs'[r][Down(r)] = recvs[r][Down(r)]
            BY <1>3, <5>2, Neighbours
          <6> QED
            BY ONLY <2>11, <6>1
        <5> QED
          BY <5>1, <5>2
      <4> QED
        BY <2>1, <2>8, <3>2, <4>1
    <3> QED
      BY <3>1, <3>2
  <2>12. LoadedInv(r)'
    BY <1>1, <1>9, <2>1, <2>7, <2>10, <2>11 DEF LoadedInv
  <2>13. AwaitedInv(r, s)'
    <3>1. Len(recvs'[r][s]) = l - 1 /\ Awaited(r, s)' = l - 1
      BY <1>1, <1>3, <1>9, <2>2 DEF Awaited
    <3>2. ASSUME NEW n \in 1 .. l - 1
          PROVE  recvs'[r][s][n] =
                   [array |-> current[r], begin |-> GhostBegin(r, s, (l - 1) - n)]
      <4>1. n + 1 \in 1 .. l /\ l - (n + 1) = (l - 1) - n
        BY ONLY <3>2, l \in Nat \ {0}
      <4> QED
        BY ONLY <1>3, <2>2, <2>3, <3>2, <4>1
    <3>3. ASSUME NEW n \in 1 .. Len(sends'[s][r]), n <= l - 1
          PROVE  sends'[s][r][n] = GhostRows(r, GhostBegin(r, s, (l - 1) - n))
      <4>1. PICK sent \in Nat \ {0} : sent = Len(sends[s][r])
        BY <1>4
      <4>2. n \in 1 .. sent - 1 /\ n + 1 \in 1 .. sent /\ n + 1 <= l
            /\ l - (n + 1) = (l - 1) - n
        BY ONLY <1>4, <3>3, <4>1, l \in Nat \ {0}
      <4> QED
        BY ONLY <1>4, <2>3, <4>1, <4>2
    <3> QED
      BY ONLY <1>1, <3>1, <3>2, <3>3 DEF AwaitedInv, GhostRows, GhostBegin
  <2>14. ASSUME NEW q \in Ranks, NEW t \in Ranks, q # r \/ t # s
         PROVE  AwaitedInv(q, t)'
    <3>1. recvs'[q][t] = recvs[q][t] /\ sends'[t][q] = sends[t][q]
          /\ pc'[q] = pc[q] /\ current'[q] = current[q]
      BY <1>1, <1>3, <1>4, <2>14
    <3>2. AwaitedInv(q, t) /\ Awaited(q, t)' = Awaited(q, t)
      BY <3>1 DEF LoadInv, Awaited, Edges
    <3>3. ASSUME pc'[q] = "exchange", NEW k \in 1 .. Len(recvs'[q][t])
          PROVE  recvs'[q][t][k] =
                   [array |-> current'[q], begin |-> GhostBegin(q, t, Len(recvs'[q][t]) - k)]
      BY ONLY <3>1, <3>2, <3>3 DEF AwaitedInv
    <3>4. ASSUME NEW k \in 1 .. Len(sends'[t][q]), k <= Awaited(q, t)'
          PROVE  sends'[t][q][k] = GhostRows(q, GhostBegin(q, t, Awaited(q, t)' - k))
      BY ONLY <3>1, <3>2, <3>4 DEF AwaitedInv
    <3> HIDE DEF Good
    <3> QED
      BY <3>3, <3>4 DEF AwaitedInv, GhostBegin, GhostRows
  <2>15. ASSUME NEW q \in Ranks \ {r}
         PROVE  LoadedInv(q)'
    <3>1. LoadedInv(q)
      BY DEF LoadInv
    <3>2. arrays'[q] = arrays[q] /\ recvs'[q] = recvs[q] /\ pc'[q] = pc[q]
          /\ current'[q] = current[q] /\ iterationsDone'[q] = iterationsDone[q]
      BY <1>1, <1>5
    <3> QED
      BY ONLY <3>1, <3>2 DEF LoadedInv, PartIs, GhostsAre
  <2> QED
    BY <2>12, <2>13, <2>14, <2>15 DEF LoadInv
<1> QED
  BY <1>7, <1>8, <1>9

\* The steps that leave the messages where they are.
LEMMA QuietKeepsLoad ==
  ASSUME Good, LoadInv, NEW r \in Ranks,
         \/ Exchanged(r) \/ BoundRecv(r) \/ IterateUpper(r) \/ IterateLower(r)
         \/ IterateInner(r) \/ Return(r) \/ OpenFile(r) \/ WriteOwn(r) \/ CloseFile(r)
         \/ SentFragment(r)
  PROVE  LoadInv'
PROOF
<1> USE DEF Good
<1>1. sends' = sends
  BY DEF Exchanged, BoundRecv, IterateUpper, IterateLower, IterateInner, Return, OpenFile,
     WriteOwn, CloseFile, SentFragment
<1>2. /\ pc'[r] \notin {"load", "exchange"}
      /\ \A q \in Ranks \ {r} : pc'[q] = pc[q]
      /\ pc'[r] = "ready" => Exchanged(r) \/ Return(r)
  BY DEF Exchanged, BoundRecv, IterateUpper, IterateLower, IterateInner, Return, OpenFile,
     WriteOwn, CloseFile, SentFragment, Goto, TypeOK
<1>3. \A q \in Ranks \ {r} : current'[q] = current[q] /\ iterationsDone'[q] = iterationsDone[q]
  BY DEF Exchanged, BoundRecv, IterateUpper, IterateLower, IterateInner, Return, OpenFile,
     WriteOwn, CloseFile, SentFragment, TypeOK
<1>4. \A q \in Ranks \ {r} : recvs'[q] = recvs[q]
  <2>1. CASE BoundRecv(r)
    BY <2>1 DEF BoundRecv, PostRecvs, Post, MemoryInv
  <2>2. CASE ~BoundRecv(r)
    BY <2>2 DEF Exchanged, IterateUpper, IterateLower, IterateInner, Return, OpenFile,
       WriteOwn, CloseFile, SentFragment
  <2> QED
    BY <2>1, <2>2
<1>5. \A q \in Ranks \ {r} : arrays'[q] = arrays[q]
  <2>1. CASE IterateUpper(r) \/ IterateLower(r) \/ IterateInner(r)
    <3>1. \E down, up : IteratePart(r, down, up)
      BY <2>1 DEF IterateUpper, IterateLower, IterateInner
    <3> QED
      BY <3>1, CurrentNotWritten
  <2>2. CASE ~(IterateUpper(r) \/ IterateLower(r) \/ IterateInner(r))
    BY <2>2 DEF Exchanged, BoundRecv, Return, OpenFile, WriteOwn, CloseFile, SentFragment
  <2> QED
    BY <2>1, <2>2
<1>6. LoadedInv(r)'
  <2>1. CASE Exchanged(r)
    <3>1. /\ pc[r] = "exchange" /\ AllReceived(r)
          /\ UNCHANGED <<arrays, current, iterationsDone, recvs>>
      BY <2>1 DEF Exchanged, Goto
    <3>2. Up(r) \in Ranks /\ Down(r) \in Ranks /\ r = Up(Down(r))
      BY Neighbours
    <3>3. recvs[r][Up(r)] = << >> /\ recvs[r][Down(r)] = << >>
      BY <3>1, <3>2 DEF AllReceived
    <3>4. Len(recvs[r][Down(r)]) < Edges(Down(r), r, 1)
      BY <3>2, <3>3 DEF Edges
    <3>5. iterationsDone[r] = 0 =>
            /\ current[r] = 0 /\ PartIs(r, 0, 0, BorderI, BorderI + Part(r))
            /\ GhostsAre(r, 0) /\ GhostsAre(r, Part(r) + BorderI)
      BY <3>1, <3>3, <3>4 DEF LoadInv, LoadedInv
    <3> HIDE DEF Good
    <3> QED
      BY <1>2, <3>1, <3>5 DEF LoadedInv, PartIs, GhostsAre
  <2>2. CASE Return(r)
    <3>1. iterationsDone'[r] = iterationsDone[r] + 1 /\ iterationsDone[r] \in Nat
      BY <2>2, CallsAssumption DEF Return, TypeOK
    <3>2. iterationsDone'[r] # 0
      BY ONLY <3>1
    <3> QED
      BY <3>2 DEF LoadedInv
  <2>3. CASE ~Exchanged(r) /\ ~Return(r)
    BY <1>2, <2>3 DEF LoadedInv
  <2> QED
    BY <2>1, <2>2, <2>3
<1> HIDE DEF Good
<1> QED
  BY <1>1, <1>2, <1>3, <1>4, <1>5, <1>6, LoadKept

\* What a rank adds to its messages is not awaited by a rank in the exchange.
LEMMA SendKeepsLoad ==
  ASSUME Good, FileBegun, LoadInv, NEW r \in Ranks, BoundSend(r) \/ SendFragment(r)
  PROVE  LoadInv'
PROOF
<1> USE DEF Good
<1>1. /\ pc[r] # "load" /\ pc'[r] \in {"inner", "sent"}
      /\ \A q \in Ranks \ {r} : pc'[q] = pc[q]
      /\ UNCHANGED <<arrays, current, iterationsDone, recvs, file>>
  BY DEF BoundSend, SendFragment, Goto, TypeOK
<1>2. /\ \A s \in Ranks \ {r} : sends'[s] = sends[s]
      /\ \A q \in Ranks : \A n \in 1 .. Len(sends[r][q]) : sends'[r][q][n] = sends[r][q][n]
  <2>1. sends \in [Ranks -> [Ranks -> Seq(Messages)]]
    BY DEF MemoryInv
  <2>2. CASE BoundSend(r)
    <3>1. PICK x \in Messages, y \in Messages :
            sends' = Post(r, sends, <<Up(r), x>>, <<Down(r), y>>)
      <4>1. arrays[r][current[r]] \in [Memory(r) -> Rows]
        BY DEF TypeOK, MemoryInv
      <4> QED
        BY <2>2, <4>1, SliceIsMessage DEF BoundSend, PostSends
    <3>2. sends' = [sends EXCEPT ![r] = [q \in Ranks |->
                      (sends[r][q] \o (IF q = Up(r) THEN <<x>> ELSE << >>))
                        \o (IF q = Down(r) THEN <<y>> ELSE << >>)]]
      BY <2>1, <3>1 DEF Post
    <3>3. ASSUME NEW q \in Ranks, NEW n \in 1 .. Len(sends[r][q])
          PROVE  sends'[r][q][n] = sends[r][q][n]
      <4>1. /\ sends'[r][q] = (sends[r][q] \o (IF q = Up(r) THEN <<x>> ELSE << >>))
                               \o (IF q = Down(r) THEN <<y>> ELSE << >>)
            /\ sends[r][q] \in Seq(Messages)
        BY ONLY <2>1, <3>2, <3>3, r \in Ranks
      <4>2. Longer(sends'[r][q], sends[r][q], q = Up(r), x, q = Down(r), y)
        BY ONLY <3>1, <4>1, ElementsAppended
      <4>3. PICK l \in Nat : l = Len(sends[r][q])
                             /\ \A i \in 1 .. l : sends'[r][q][i] = sends[r][q][i]
        BY ONLY <4>2 DEF Longer
      <4> QED
        BY ONLY <4>3, n \in 1 .. Len(sends[r][q])
    <3>4. \A s \in Ranks \ {r} : sends'[s] = sends[s]
      BY ONLY <2>1, <3>2, r \in Ranks
    <3> QED
      BY <3>3, <3>4
  <2>3. CASE SendFragment(r)
    <3>1. PICK x \in Messages : sends' = [sends EXCEPT ![r][0] = Append(@, x)]
      BY <2>3, ContributionIsMessage DEF SendFragment
    <3>2. sends' = [sends EXCEPT ![r] = [sends[r] EXCEPT ![0] = Append(sends[r][0], x)]]
      BY <3>1
    <3>3. /\ \A s \in Ranks \ {r} : sends'[s] = sends[s]
          /\ \A q \in Ranks : q # 0 => sends'[r][q] = sends[r][q]
          /\ sends'[r][0] = Append(sends[r][0], x)
      BY ONLY <2>1, <3>2, r \in Ranks, Neighbours
    <3>4. \A n \in 1 .. Len(sends[r][0]) : sends'[r][0][n] = sends[r][0][n]
      <4>1. sends[r][0] \in Seq(Messages)
        BY <2>1, Neighbours
      <4> QED
        BY ONLY <3>1, <3>3, <4>1, AppendProperties
    <3> QED
      BY <3>3, <3>4
  <2> QED
    BY <2>2, <2>3
<1>3. ASSUME NEW q \in Ranks \ {r}, NEW s \in Ranks, NEW n \in 1 .. Len(sends'[s][q]),
             n <= Awaited(q, s)
      PROVE  n \in 1 .. Len(sends[s][q]) /\ sends'[s][q][n] = sends[s][q][n]
  <2>1. CASE s # r
    <3>1. sends'[s] = sends[s]
      BY <1>2, <2>1
    <3> QED
      BY ONLY <1>3, <3>1
  <2>2. CASE s = r
    <3>1. PICK sent \in Nat, awaited \in Int :
            sent = Len(sends[r][q]) /\ awaited = Awaited(q, r)
      <4>1. Len(sends[r][q]) \in Nat /\ Len(recvs[q][r]) \in Int
        BY CountsAreNumbers
      <4>2. Awaited(q, r) \in Int
        BY ONLY <4>1 DEF Awaited, Edges
      <4> QED
        BY ONLY <4>1, <4>2
    <3>2. awaited <= sent
      BY <1>1, <3>1, AwaitedSent
    <3>3. n \in Int /\ 1 <= n
      <4>1. n \in 1 .. Len(sends'[s][q])
        OBVIOUS
      <4> QED
        BY ONLY <4>1
    <3>4. n \in 1 .. sent
      BY ONLY <1>3, <2>2, <3>1, <3>2, <3>3
    <3> QED
      BY <1>2, <2>2, <3>1, <3>4
  <2> QED
    BY <2>1, <2>2
<1>4. LoadedInv(r)'
  BY <1>1 DEF LoadedInv
<1> HIDE DEF Good
<1> QED
  BY <1>1, <1>3, <1>4, LoadKept

\* The root takes messages that are for itself, when it awaits nothing any more.
LEMMA WriteReceivedKeepsLoad ==
  ASSUME Good, LoadInv, NEW r \in Ranks, NEW t \in Ranks, WriteReceived(r, t)
  PROVE  LoadInv'
PROOF
<1>1. /\ pc[r] = "gather"
      /\ sends' = [sends EXCEPT ![t][r] = Tail(@)]
      /\ UNCHANGED <<arrays, current, iterationsDone, pc, recvs>>
  BY DEF WriteReceived
<1>2. \A q \in Ranks \ {r} : \A s \in Ranks : sends'[s][q] = sends[s][q]
  BY <1>1 DEF Good, MemoryInv
<1>3. LoadedInv(r)'
  BY <1>1 DEF LoadedInv
<1>4. pc'[r] \notin {"load", "exchange"}
  BY <1>1
<1> QED
  BY <1>1, <1>2, <1>3, <1>4, LoadKept

\* What a rank in the exchange awaits is right throughout every run.
LEMMA LoadInvariant == Spec => []LoadInv
PROOF
<1>1. ASSUME Init
      PROVE  LoadInv
  <2>1. ASSUME NEW r \in Ranks
        PROVE  /\ pc[r] = "load" /\ current[r] = 0
               /\ \A s \in Ranks : sends[s][r] = << >>
    BY <1>1 DEF Init
  <2>2. ASSUME NEW r \in Ranks
        PROVE  LoadedInv(r)
    <3>1. PartIs(r, 0, 0, BorderI, BorderI + Part(r))
      BY <1>1, LoadedPart
    <3> QED
      BY <2>1, <3>1 DEF LoadedInv
  <2>3. ASSUME NEW r \in Ranks, NEW s \in Ranks
        PROVE  AwaitedInv(r, s)
    <3>1. pc[r] # "exchange" /\ 1 .. Len(sends[s][r]) = {}
      BY <2>1
    <3> QED
      BY <3>1 DEF AwaitedInv
  <2> QED
    BY <2>2, <2>3 DEF LoadInv
<1>2. ASSUME Good, FileBegun, LoadInv, [Next]_vars
      PROVE  LoadInv' \/ WriteFails
  <2>1. ASSUME NEW r \in Ranks, RankStep(r) \/ SentFragment(r)
        PROVE  LoadInv'
    <3>1. CASE BoundExchange(r)
      BY <1>2, <3>1, ExchangeKeepsLoad
    <3>2. CASE BoundSend(r) \/ SendFragment(r)
      BY <1>2, <3>2, SendKeepsLoad
    <3>3. CASE \E s \in Ranks : WriteReceived(r, s)
      BY <1>2, <3>3, WriteReceivedKeepsLoad
    <3>4. CASE \/ Exchanged(r) \/ BoundRecv(r) \/ IterateUpper(r) \/ IterateLower(r)
               \/ IterateInner(r) \/ Return(r) \/ OpenFile(r) \/ WriteOwn(r)
               \/ CloseFile(r) \/ SentFragment(r)
      BY <1>2, <3>4, QuietKeepsLoad
    <3> QED
      BY <2>1, <3>1, <3>2, <3>3, <3>4 DEF RankStep
  <2>2. CASE \E s, r \in Ranks : Deliver(s, r)
    BY <1>2, <2>2, DeliverKeepsLoad
  <2>3. CASE UNCHANGED vars
    <3>1. UNCHANGED <<arrays, current, iterationsDone, pc, sends, recvs>>
      BY <2>3 DEF vars
    <3>2. ASSUME NEW r \in Ranks
          PROVE  LoadedInv(r)'
      BY <1>2, <3>1 DEF LoadInv, LoadedInv, PartIs, GhostsAre
    <3>3. ASSUME NEW r \in Ranks, NEW s \in Ranks
          PROVE  AwaitedInv(r, s)'
      <4>1. AwaitedInv(r, s) /\ Awaited(r, s)' = Awaited(r, s)
        BY <1>2, <3>1 DEF LoadInv, Awaited, Edges
      <4>2. ASSUME NEW b
            PROVE  GhostRows(r, b)' = GhostRows(r, b)
        BY DEF GhostRows
      <4>3. ASSUME NEW d
            PROVE  GhostBegin(r, s, d)' = GhostBegin(r, s, d)
        BY DEF GhostBegin
      <4> QED
        BY ONLY <3>1, <4>1, <4>2, <4>3 DEF AwaitedInv
    <3> QED
      BY <3>2, <3>3 DEF LoadInv
  <2> QED
    BY <1>2, <2>1, <2>2, <2>3 DEF Next, Finished
<1>3. ASSUME WriteFails
      PROVE  \A r \in Ranks : pc'[r] = "aborted"
  BY <1>3 DEF WriteFails
<1>4. ASSUME \A r \in Ranks : pc'[r] = "aborted"
      PROVE  LoadInv'
  <2>1. ASSUME NEW r \in Ranks
        PROVE  LoadedInv(r)'
    BY <1>4 DEF LoadedInv
  <2>2. ASSUME NEW r \in Ranks, NEW s \in Ranks
        PROVE  AwaitedInv(r, s)'
    <3>1. Awaited(r, s)' = 0 /\ pc'[r] # "exchange"
      BY <1>4 DEF Awaited
    <3>2. \A n \in 1 .. Len(sends'[s][r]) : ~(n <= 0)
      OBVIOUS
    <3> QED
      BY <3>1, <3>2 DEF AwaitedInv
  <2> QED
    BY <2>1, <2>2 DEF LoadInv
<1>5. ASSUME IInv, FileBegun, LoadInv, [Next]_vars
      PROVE  LoadInv' \/ \A r \in Ranks : pc[r] = "aborted"
  <2>1. Good \/ \A r \in Ranks : pc[r] = "aborted"
    BY <1>5 DEF IInv, Good
  <2> QED
    BY <1>2, <1>3, <1>4, <1>5, <2>1
<1>6. ASSUME \A r \in Ranks : pc[r] = "aborted", [Next]_vars
      PROVE  \A r \in Ranks : pc'[r] = "aborted"
  <2>1. ASSUME NEW r \in Ranks, RankStep(r) \/ SentFragment(r)
        PROVE  FALSE
    BY <1>6, <2>1 DEF RankStep, BoundExchange, Exchanged, BoundRecv, IterateUpper,
       IterateLower, BoundSend, IterateInner, Return, SendFragment, OpenFile, WriteOwn,
       CloseFile, WriteReceived, SentFragment, Goto
  <2>2. CASE WriteFails \/ Finished \/ UNCHANGED vars \/ \E s, r \in Ranks : Deliver(s, r)
    BY <1>6, <2>2 DEF WriteFails, Finished, vars, Deliver
  <2> QED
    BY <1>6, <2>1, <2>2 DEF Next
<1>7. IInv /\ FileBegun /\ LoadInv /\ [Next]_vars => LoadInv'
  BY <1>4, <1>5, <1>6
<1> QED
  BY <1>1, <1>7, Inductive, FileBegunInvariant, PTL DEF Spec

\* Whatever the global CAT_Bound_size is: when the exchange after the load is over, every
\* row of a rank's memory is the row of the lattice that belongs there, above, below and
\* across the lattice's edge, though with two ranks both neighbours are the same one and
\* the other may have sent the edges of its first call already.
THEOREM GhostsCorrect == Spec => []GhostsLoaded
PROOF
<1>1. LoadInv => GhostsLoaded
  <2> SUFFICES ASSUME LoadInv, NEW r \in Ranks, pc[r] = "ready", iterationsDone[r] = 0,
                      NEW m \in Memory(r)
               PROVE  arrays[r][0][m] = <<(Begin(r) + m - BorderI) % SizeI, 0>>
    BY DEF GhostsLoaded
  <2>1. /\ PartIs(r, 0, 0, BorderI, BorderI + Part(r))
        /\ GhostsAre(r, 0) /\ GhostsAre(r, Part(r) + BorderI)
    BY DEF LoadInv, LoadedInv
  <2> QED
    BY <2>1, RowsBelow
<1> QED
  BY <1>1, LoadInvariant, PTL

=============================================================================
