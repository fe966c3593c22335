--------------------------- MODULE MC_GuessBudget ---------------------------
(***************************************************************************)
(* Four names and a store of three, so insertions evict; a cap of two      *)
(* reached by two requests at once; two spellings of each name. Names are  *)
(* alike, and so are requests.                                             *)
(***************************************************************************)
EXTENDS GuessBudget, TLC

Symmetry == Permutations(Names) \cup Permutations(SignIns)
=============================================================================
