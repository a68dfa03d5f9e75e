------------------------------ MODULE Partition ------------------------------
(***************************************************************************)
(* How the rows of a lattice (and the fragments of a file) are divided     *)
(* among the MPI processes (CAT_GetPartSize of catparallel.c).             *)
(***************************************************************************)
EXTENDS Integers

CONSTANT ProcSize   \* CAT_Proc_size

ASSUME ProcSizeAssumption == ProcSize \in Nat \ {0}

Ranks == 0 .. ProcSize - 1

\* CAT_GetPartSize: whole periods are dealt out, the first ranks get one more.
Base(num, period) == (num \div period) \div ProcSize
Left(num, period) == (num \div period) % ProcSize

\* Mutant: one rank too many gets a period more.
LeftInclusive(num, rank, period) ==
  (Base(num, period) + (IF rank <= Left(num, period) THEN 1 ELSE 0)) * period

PartSize(num, rank, period) ==
  (Base(num, period) + (IF rank < Left(num, period) THEN 1 ELSE 0)) * period

\* The first row of a rank's part: the parts are dealt out in rank order.
PartBegin(num, rank, period) ==
  (Base(num, period) * rank
     + (IF rank < Left(num, period) THEN rank ELSE Left(num, period))) * period

=============================================================================
