---------------------------- MODULE MC_OtpCodes ----------------------------
(***************************************************************************)
(* One mailbox written two ways, concurrent requests, a code that expires  *)
(* inside the window: small enough to enumerate, wide enough for a code    *)
(* guessed late to straddle two windows.                                   *)
(***************************************************************************)
EXTENDS OtpCodes, TLC

RequestSymmetry == Permutations(Requests)
=============================================================================
