----------------------------- MODULE MC_Settings -----------------------------
(***************************************************************************)
(* A key of each kind: a provider's secret, and a flag that the manifest   *)
(* names, both read at boot, and a secret of the oracle's. Two threads     *)
(* beside the loop: a race of two PUTs, of a PUT with a PATCH, and of      *)
(* either with a wizard call that waits past a claim.                      *)
(***************************************************************************)
EXTENDS Settings, TLC

CONSTANTS named, v1

ManifestFile == named :> v1
Symmetry == Permutations(Threads)
=============================================================================
