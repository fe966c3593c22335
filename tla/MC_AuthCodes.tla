---------------------------- MODULE MC_AuthCodes ----------------------------
(***************************************************************************)
(* Two legs that may share a pending request, dicts of one item, a clock   *)
(* that runs past the TTL of a code; one verifier, sent or left out.       *)
(***************************************************************************)
EXTENDS AuthCodes, TLC

Symmetry == Permutations(Requests) \cup Permutations(Clients) \cup Permutations(Verifiers)
=============================================================================
