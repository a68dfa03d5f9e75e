----------------------------- MODULE MCPrograms -----------------------------
(***************************************************************************)
(* Instances of Programs for TLC: lattices of one to three fragments, with *)
(* and without a rest, and files of both older forms.                      *)
(***************************************************************************)
EXTENDS Shapes

Request(topology, cell) == [topology |-> topology, cell |-> cell, cellsPerMeter |-> 1]

\* 2 x 3 and 4 x 3 cells, a single column, and 2 x 2 x 2 cells.
SmallRequests ==
  {Request("HEXAGON", <<1, 2, 0>>), Request("HEXAGON", <<2, 2, 0>>),
   Request("SQUARE4", <<2, 0, 0>>), Request("CUBE12", <<0, 1, 0>>)}

HexagonRequests == {Request("HEXAGON", <<1, 2, 0>>)}

Old(type) ==
  Digest([topology |-> "SQUARE4", size |-> <<2, 2, 1>>, compressionType |-> type,
          iterationsDone |-> 0], [n \in 1 .. 4 |-> Cell(n, 0, 0)])

BothOldForms == {Old("LZMA"), Old("UNCOMPRESSED")}

NoOldFiles == {}
=============================================================================
