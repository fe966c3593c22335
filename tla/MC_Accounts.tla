---------------------------- MODULE MC_Accounts ----------------------------
(***************************************************************************)
(* Two handlers waiting at once, two passwords and two reset links, and    *)
(* hashes enough to register, re-hash, reset and re-hash again.            *)
(***************************************************************************)
EXTENDS Accounts, TLC

Symmetry == Permutations(Passwords) \cup Permutations(Links) \cup Permutations(Requests)
=============================================================================
