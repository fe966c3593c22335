---------------------------- MODULE MC_Identities ----------------------------
(***************************************************************************)
(* Two people, each with the local identity of their own, a provider's     *)
(* subject, two addresses and two codes waiting: an address changes hands, *)
(* or its account is confirmed, disowned, linked or unlinked, between a    *)
(* code and its redemption. Two addresses never have more than two people. *)
(***************************************************************************)
EXTENDS Identities, TLC

Symmetry == Permutations(Persons) \cup Permutations(Addresses)
=============================================================================
