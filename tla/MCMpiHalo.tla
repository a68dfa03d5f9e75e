----------------------------- MODULE MCMpiHalo -----------------------------
(***************************************************************************)
(* MpiHalo for TLC.  Its constants are numbers, and Junk a model value, so *)
(* the configurations give all of them.  BoundSize is 2, what              *)
(* CAT_Bound_size is initialized with.  BorderI is 2 for SQUARE24, which   *)
(* tests/README.md:62 lists with MPI, and 1 for SQUARE8, which it lists    *)
(* with MPI in line 56.                                                    *)
(***************************************************************************)
EXTENDS MpiHalo
=============================================================================
