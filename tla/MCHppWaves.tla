----------------------------- MODULE MCHppWaves -----------------------------
(***************************************************************************)
(* The lattice of Hpp_waves.cfg: 4 by 4 cells, of which the inner four are *)
(* a source of one cell, at the centre, and three cells of the medium,     *)
(* with every choice of their particles.                                   *)
(***************************************************************************)
EXTENDS HppWaves
=============================================================================
