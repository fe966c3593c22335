---------------------------- MODULE MC_KeyShares ----------------------------
(***************************************************************************)
(* Two requests, two keys split two ways, tokens that expire at 0, 1 and 3 *)
(* and a clock that passes the slack of two of them while one is good.     *)
(***************************************************************************)
EXTENDS KeyShares, TLC

Symmetry == Permutations(Keys) \cup Permutations(Splits) \cup Permutations(Requests)
=============================================================================
