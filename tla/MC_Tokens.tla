------------------------------ MODULE MC_Tokens ------------------------------
(***************************************************************************)
(* Two people, one platform service and the mail persona, a refresh token  *)
(* that lasts two lifetimes of an access token, an exchange that may ask   *)
(* for two as well, and so may outlast the token it was made from, and two *)
(* tokens alive at once: a sign-in's two, then the later and what it is    *)
(* exchanged for.                                                          *)
(***************************************************************************)
EXTENDS ServerCredentials, TLC

Symmetry == Permutations(Persons)
=============================================================================
