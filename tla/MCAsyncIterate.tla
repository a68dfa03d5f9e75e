--------------------------- MODULE MCAsyncIterate ---------------------------
(***************************************************************************)
(* Instances of AsyncIterate for TLC.                                      *)
(***************************************************************************)
EXTENDS AsyncIterate, TLC

CONSTANTS t1, t2

TwoThreads == {t1, t2}

\* A lattice with a single occupied cell, and one whose cells are all alike.
OneParticle == [c \in Cells |-> IF c = <<0, 0>> THEN 1 ELSE 0]
Uniform == [c \in Cells |-> 0]

\* The buffer with the centre and slot n exchanged.
Swap(b, n) == [b EXCEPT ![1] = b[n], ![n] = b[1]]

\* A diffusion step: the centre changes places with one of its neighbours.
Diffusion(b) == {<<Swap(b, n), 0>> : n \in Slots}

\* A transition that changes nothing and may report an error.
MayFail(b) == {b} \X {0, 1}

\* A transition that changes nothing and succeeds.
Keep(b) == {<<b, 0>>}

\* The transitions of the runs all conserve what they move.
ASSUME InstanceAssumption == Rearranging

Symmetry == Permutations(TwoThreads)

=============================================================================
