-------------------------- MODULE AccountPassword --------------------------
(***************************************************************************)
(* What Origin promises about the password of the account at one address,  *)
(* with no requests, no derivations and no table: it is chosen once, at    *)
(* registration; after that only a mailed link sets it, a link works once, *)
(* and no link survives the password it was mailed for; it is dropped only *)
(* where the address becomes confirmed.                                    *)
(***************************************************************************)
CONSTANTS Passwords, Links, NoPassword

VARIABLES
  password,   \* the account's password, NoPassword when it has none
  confirmed,  \* the account's address is confirmed
  links       \* mailed links that still set a password

vars == <<password, confirmed, links>>

Init == password = NoPassword /\ confirmed = FALSE /\ links = {}

(* With waived, the address needs no confirmation.                         *)
Register(p, waived) ==
  /\ password = NoPassword /\ ~confirmed
  /\ password' = p
  /\ confirmed' = waived
  /\ UNCHANGED links

Mail(l) ==
  /\ password # NoPassword \/ confirmed
  /\ links' = links \cup {l}
  /\ UNCHANGED <<password, confirmed>>

(* Links may stop working at any time: they expire.                        *)
Lapse ==
  /\ links' \in SUBSET links
  /\ UNCHANGED <<password, confirmed>>

Use(l, p) ==
  /\ l \in links
  /\ password' = p
  /\ links' = {}
  /\ UNCHANGED confirmed

Confirm ==
  /\ ~confirmed /\ confirmed' = TRUE
  /\ UNCHANGED <<password, links>>

Disown ==
  /\ ~confirmed /\ confirmed' = TRUE
  /\ password' = NoPassword
  /\ links' = {}

Next ==
  \/ \E p \in Passwords, waived \in BOOLEAN : Register(p, waived)
  \/ \E l \in Links : Mail(l) \/ \E p \in Passwords : Use(l, p)
  \/ Lapse
  \/ Confirm
  \/ Disown

Spec == Init /\ [][Next]_vars

=============================================================================
