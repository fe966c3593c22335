-------------------------- MODULE MC_OperatorSetup --------------------------
(***************************************************************************)
(* Two overlapping calls, four people of whom one may be named by a        *)
(* manifest: enough for a claim, a wizard call, a promotion and a manifest *)
(* to follow or overlap one another.                                       *)
(***************************************************************************)
EXTENDS OperatorSetup, TLC

Symmetry == Permutations(Requests) \cup Permutations(Persons \ ManifestOperators)
=============================================================================
