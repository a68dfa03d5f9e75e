--------------------------- MODULE MCParallelLoad ---------------------------
(***************************************************************************)
(* Instances of ParallelLoad for TLC: every way to cut the lattice into    *)
(* fragments, and files that end too early, go on too long or are damaged. *)
(***************************************************************************)
EXTENDS ParallelLoad

Units == SizeI * RowSize

\* All ways to cut n units into fragments.
Cuts[n \in Nat] == {<<n>>} \union {Append(cut, n) : cut \in UNION {Cuts[k] : k \in 1 .. n - 1}}

\* Those into three fragments at most.
FewCuts(n) == {<<n>>} \union {<<i, n>> : i \in 1 .. n - 1}
                \union {<<p[1], p[2], n>> : p \in {q \in (1 .. n - 1) \X (1 .. n - 1) : q[1] < q[2]}}

Zeros(n) == SubSeq([k \in 1 .. Units + 1 |-> 0], 1, n)

File(ends, digest) ==
  [ends |-> ends, lacks |-> Zeros(Len(ends)),
   undecodable |-> {}, endless |-> {}, digest |-> digest]

\* The files catlib writes: the lattice's units, in any fragments.
WholeFiles == {File(ends, "agrees") : ends \in Cuts[Units]}

\* Files whose fragments are all there and whose digest is not.
FilesWithoutDigest == {File(ends, "missing") : ends \in Cuts[Units]}

\* Files that lost their end, even before the root has its part, files whose
\* bytes were changed, and files whose header was changed to that of a smaller
\* lattice.
CutFiles ==
  {File(ends, digest) : ends \in FewCuts(Units - 2), digest \in {"differs", "missing"}}
    \union {File(ends, "missing") : ends \in FewCuts(2)}
    \union {File(ends, "differs") : ends \in FewCuts(Units) \union FewCuts(Units + 1)}

\* Files with one fragment whose data or whose recorded size were changed: it
\* cannot be decoded, or never, or to a unit less, or its size is 0.
Faults == {"undecodable", "endless", "shorter", "empty"}

Spoilt(ends, n, fault) ==
  LET f == File(ends, "differs")
  IN CASE fault = "undecodable" -> [f EXCEPT !.undecodable = {n}]
       [] fault = "endless" -> [f EXCEPT !.endless = {n}]
       [] fault = "shorter" -> [f EXCEPT !.lacks[n] = 1]
       [] fault = "empty" -> [f EXCEPT !.ends[n] = BeginOf(f, n)]

SpoiltFiles ==
  {Spoilt(ends, Least(n, Len(ends)), fault) :
     ends \in FewCuts(Units - 1) \union FewCuts(Units) \union FewCuts(Units + 1),
     n \in 1 .. 3, fault \in Faults}

EveryFile == WholeFiles \union FilesWithoutDigest \union CutFiles \union SpoiltFiles

\* (TLC computes a set once when it is the value of a definition of its own.)
AllFiles == EveryFile
=============================================================================
