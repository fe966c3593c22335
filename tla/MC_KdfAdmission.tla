-------------------------- MODULE MC_KdfAdmission --------------------------
(***************************************************************************)
(* One thread and three slots, a cap of two per client: one client alone   *)
(* cannot fill the queue, two can, and an exempt one is counted too.       *)
(***************************************************************************)
EXTENDS KdfAdmission
=============================================================================
