--------------------------- MODULE MCSyncIterate ---------------------------
(***************************************************************************)
(* Instances of SyncIterate for TLC.                                       *)
(***************************************************************************)
EXTENDS SyncIterate, TLC

CONSTANTS t1, t2

TwoThreads == {t1, t2}

\* A lattice with one live cell.
OneAlive == [c \in Cells |-> IF c = <<0, 0>> THEN 1 ELSE 0]

Alive(b) == Cardinality({n \in Slots : b[n] = 1})

\* The parity automaton: every live cell matters to each of its neighbours.
Parity(b) == {<<[b EXCEPT ![1] = Alive(b) % 2], 0>>}

=============================================================================
