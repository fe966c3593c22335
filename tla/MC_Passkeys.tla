----------------------------- MODULE MC_Passkeys -----------------------------
(***************************************************************************)
(* Two people and two passkeys, held by either, both or neither, three     *)
(* challenges and counters up to two: a challenge may be answered by both  *)
(* keys, and a key may answer, as itself and as a copy, two challenges.    *)
(***************************************************************************)
EXTENDS Passkeys, TLC

Symmetry == Permutations(Persons) \cup Permutations(Keys)
=============================================================================
