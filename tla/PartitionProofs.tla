--------------------------- MODULE PartitionProofs ---------------------------
(***************************************************************************)
(* The parts of CAT_GetPartSize, dealt out in rank order, are all of the   *)
(* lattice and do not overlap, for every number of processes.              *)
(***************************************************************************)
EXTENDS Partition, TLAPS

\* The closed forms under Part and PartBegin are natural numbers that add up.
LEMMA Shares ==
  ASSUME NEW num \in Nat, NEW period \in Nat \ {0}
  PROVE  /\ num \div period \in Nat
         /\ Base(num, period) \in Nat
         /\ Left(num, period) \in 0 .. ProcSize - 1
         /\ num \div period = ProcSize * Base(num, period) + Left(num, period)
         /\ num = period * (num \div period) + (num % period)
PROOF
<1>1. num \div period \in Nat /\ num = period * (num \div period) + (num % period)
  OBVIOUS
<1>2. ProcSize \in Nat \ {0}
  BY ProcSizeAssumption
<1> DEFINE q == num \div period
<1>3. q \in Nat
  BY <1>1
<1>4. /\ q \div ProcSize \in Nat
      /\ q % ProcSize \in 0 .. ProcSize - 1
      /\ q = ProcSize * (q \div ProcSize) + (q % ProcSize)
  <2> HIDE DEF q
  <2> QED
    BY <1>2, <1>3
<1> QED
  BY <1>1, <1>4 DEF Base, Left

\* The first part begins at row 0, every next part where the one before it
\* ends, and the last part ends with the lattice, whose size the load requires
\* to be a multiple of the period.
THEOREM PartsCoverLattice ==
  ASSUME NEW num \in Nat, NEW period \in Nat \ {0}, num % period = 0
  PROVE  /\ PartBegin(num, 0, period) = 0
         /\ \A r \in Ranks :
              PartBegin(num, r + 1, period)
                = PartBegin(num, r, period) + PartSize(num, r, period)
         /\ PartBegin(num, ProcSize, period) = num
PROOF
<1> DEFINE b == Base(num, period)
           l == Left(num, period)
<1>1. /\ b \in Nat /\ l \in 0 .. ProcSize - 1 /\ ProcSize \in Nat \ {0}
      /\ num = period * (ProcSize * b + l)
  <2>1. /\ b \in Nat /\ l \in 0 .. ProcSize - 1
        /\ num \div period = ProcSize * b + l
        /\ num = period * (num \div period) + (num % period)
    BY Shares
  <2>2. num = period * (num \div period)
    <3>1. period * (num \div period) \in Nat
      BY Shares
    <3> QED
      BY <2>1, <3>1
  <2>3. num = period * (ProcSize * b + l)
    BY <2>1, <2>2
  <2> QED
    BY <2>1, <2>3, ProcSizeAssumption
<1>2. PartBegin(num, 0, period) = 0
  <2>1. PartBegin(num, 0, period) = (b * 0 + (IF 0 < l THEN 0 ELSE l)) * period
    BY DEF PartBegin
  <2>2. b * 0 + (IF 0 < l THEN 0 ELSE l) = 0
    <3> HIDE DEF b, l
    <3> QED
      BY <1>1
  <2> QED
    BY <2>1, <2>2
<1>3. ASSUME NEW r \in Ranks
      PROVE  PartBegin(num, r + 1, period)
               = PartBegin(num, r, period) + PartSize(num, r, period)
  <2> DEFINE before(k) == b * k + (IF k < l THEN k ELSE l)
             share == b + (IF r < l THEN 1 ELSE 0)
  <2>1. before(r + 1) = before(r) + share /\ before(r) \in Nat /\ share \in Nat
    <3>1. r \in Nat
      BY <1>1 DEF Ranks
    <3>2. b * (r + 1) = b * r + b /\ b * r \in Nat
      <4> HIDE DEF b
      <4> QED
        BY <1>1, <3>1
    <3> HIDE DEF b, l
    <3> QED
      BY <1>1, <3>1, <3>2
  <2>2. /\ PartBegin(num, r, period) = before(r) * period
        /\ PartBegin(num, r + 1, period) = before(r + 1) * period
        /\ PartSize(num, r, period) = share * period
    BY DEF PartBegin, PartSize
  <2>3. (before(r) + share) * period = before(r) * period + share * period
    <3> HIDE DEF before, share
    <3> QED
      BY <2>1
  <2> QED
    BY <2>1, <2>2, <2>3
<1>4. PartBegin(num, ProcSize, period) = num
  <2>1. PartBegin(num, ProcSize, period)
          = (b * ProcSize + (IF ProcSize < l THEN ProcSize ELSE l)) * period
    BY DEF PartBegin
  <2>2. b * ProcSize + (IF ProcSize < l THEN ProcSize ELSE l) = ProcSize * b + l
    <3> HIDE DEF b, l
    <3> QED
      BY <1>1
  <2>3. (ProcSize * b + l) * period = period * (ProcSize * b + l)
    <3> HIDE DEF b, l
    <3> QED
      BY <1>1
  <2> QED
    BY <1>1, <2>1, <2>2, <2>3
<1> QED
  BY <1>2, <1>3, <1>4

=============================================================================
