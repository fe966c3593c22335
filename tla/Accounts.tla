------------------------------ MODULE Accounts ------------------------------
(***************************************************************************)
(* The account at one address: registration, password sign-in with the     *)
(* re-hash of a stale hash, reset links, confirmation of the address with  *)
(* disowning, sign-in by code and by an upstream provider, deactivation.   *)
(*                                                                         *)
(* A password is derived off the event loop, and the row may change while  *)
(* a handler waits: a Begin and an End each. Every handler ends its read   *)
(* transaction before it waits, so what it reads of the person afterwards  *)
(* is the row as it is then; only what it kept in a local is stale. A      *)
(* request with the wrong password, or none, changes nothing and is left   *)
(* out, as are throttling, the admission rule and passkeys.                *)
(***************************************************************************)
EXTENDS Naturals

CONSTANTS
  Passwords,   \* passwords people choose
  Links,       \* reset tokens
  Requests,    \* handlers that may wait for a derivation at once
  NoPassword, NoLink,
  MaxHashes    \* bound: hashes stored in a behaviour

ASSUME PasswordsAssumption == NoPassword \notin Passwords /\ NoLink \notin Links
ASSUME MaxHashesAssumption == MaxHashes \in Nat

VARIABLES
  person,    \* the row of persons
  required,  \* email_verification_required(address)
  mailed,    \* a confirmation link has been mailed
  rows,      \* password_resets
  req,       \* what each request holds while it waits
  minted,    \* number of hashes stored so far
  session,   \* how the last step signed the person in, "none" if it did not
  voucher    \* history: what vouches for the stored password

vars == <<person, required, mailed, rows, req, minted, session, voucher>>

(* A hash is salted: two hashes of one password differ, by id. current is  *)
(* password_hash_is_current.                                               *)
Hashes == [id : 0..MaxHashes, pw : Passwords \cup {NoPassword}, current : BOOLEAN]
NoHash == [id |-> 0, pw |-> NoPassword, current |-> TRUE]
Hashed(p) == [id |-> minted + 1, pw |-> p, current |-> TRUE]

Waits == [op : {"idle", "register", "login", "rehash", "reset", "confirm"},
          pw : Passwords \cup {NoPassword}, held : Hashes, link : Links \cup {NoLink}]
Idle == [op |-> "idle", pw |-> NoPassword, held |-> NoHash, link |-> NoLink]

Persons == [here : BOOLEAN, hash : Hashes, verified : BOOLEAN,
            active : BOOLEAN, linked : BOOLEAN]

HasPassword == person.hash.pw # NoPassword
Settled == <<person, required, mailed, rows, minted, voucher>>

Waiting(r, op, p, h, l) ==
  /\ req[r] = Idle
  /\ req' = [req EXCEPT ![r] = [op |-> op, pw |-> p, held |-> h, link |-> l]]
  /\ session' = "none"
  /\ UNCHANGED Settled

Done(r, op) == req[r].op = op /\ req' = [req EXCEPT ![r] = Idle]

(* A new hash is stored, none past the bound.                              *)
Stores == minted < MaxHashes /\ minted' = minted + 1

-----------------------------------------------------------------------------
(* password_register and authorize_local_register.                         *)
RegisterBegin(r, p) == Waiting(r, "register", p, NoHash, NoLink)

Registered == person.here

RegisterEnd(r) ==
  /\ Done(r, "register")
  /\ ~Registered
  /\ Stores
  /\ person' = [here |-> TRUE, hash |-> Hashed(req[r].pw), verified |-> ~required,
                active |-> TRUE, linked |-> FALSE]
  /\ voucher' = IF required THEN "nobody" ELSE "waived"
  /\ mailed' = required
  /\ session' = IF required THEN "none" ELSE "register"
  /\ UNCHANGED <<required, rows>>

-----------------------------------------------------------------------------
(* password_login and authorize_local_password.                            *)
LoginBegin(r, p) ==
  /\ person.hash.pw = p
  /\ Waiting(r, "login", p, person.hash, NoLink)

(* Deactivated first, then unconfirmed: refused, with another link.        *)
Confirmed == person.verified \/ ~required

EvenDeactivated == Confirmed          \* fault: deactivation not asked after the wait
EvenUnconfirmed == person.active      \* fault: confirmation not asked after it
MaySignIn == person.active /\ Confirmed

Answer ==
  /\ session' = IF MaySignIn THEN "password" ELSE "none"
  /\ mailed' = (mailed \/ (person.active /\ ~Confirmed))

LoginEnd(r) ==
  /\ Done(r, "login")
  /\ req[r].held.current
  /\ Answer
  /\ UNCHANGED <<person, required, rows, minted, voucher>>

(* _upgrade_password_hash_if_stale derives again before the answer.        *)
LoginRehashes(r) ==
  /\ req[r].op = "login" /\ ~req[r].held.current
  /\ req' = [req EXCEPT ![r].op = "rehash"]
  /\ session' = "none"
  /\ UNCHANGED Settled

(* replace_password_hash, by a hash that is compared with the stored one.  *)
AnyHash(h) == HasPassword        \* fault: an unconditional update
StillStored(h) == person.hash = h

Rehashed(r) ==
  /\ StillStored(req[r].held)
  /\ Stores
  /\ person' = [person EXCEPT !.hash = Hashed(req[r].pw)]

(* The re-hash is best effort: the sign-in goes on without it.             *)
RehashEnd(r) ==
  /\ Done(r, "rehash")
  /\ Rehashed(r) \/ UNCHANGED <<person, minted>>
  /\ Answer
  /\ UNCHANGED <<required, rows, voucher>>

-----------------------------------------------------------------------------
(* password_reset_request. A token is 24 random bytes: never one in use.   *)
InUse(l) == (\E row \in rows : row.link = l) \/ (\E r \in Requests : req[r].link = l)
Resettable == (HasPassword \/ person.verified) /\ person.active

ResetRequest(l) ==
  /\ person.here /\ Resettable
  /\ ~InUse(l)
  /\ rows' = rows \cup {[link |-> l, fingerprint |-> person.hash.id]}
  /\ session' = "none"
  /\ UNCHANGED <<person, required, mailed, req, minted, voucher>>

(* An hour passes; the next request deletes the row.                       *)
ResetExpires(row) ==
  /\ rows' = rows \ {row}
  /\ session' = "none"
  /\ UNCHANGED <<person, required, mailed, req, minted, voucher>>

(* _reset_token_still_applies: asked before the derivation and after it.   *)
StillApplies(fingerprint) == Resettable /\ person.hash.id = fingerprint

ResetBegin(r, row, p) ==
  /\ StillApplies(row.fingerprint)
  /\ Waiting(r, "reset", p, person.hash, row.link)

ResetEnd(r) ==
  /\ Done(r, "reset")
  /\ StillApplies(req[r].held.id)
  /\ Stores
  /\ person' = [person EXCEPT !.hash = Hashed(req[r].pw)]
  /\ rows' = {}
  /\ voucher' = "mailbox"
  /\ session' = "none"
  /\ UNCHANGED <<required, mailed>>

-----------------------------------------------------------------------------
(* email_verify_request.                                                   *)
ConfirmRequest ==
  /\ person.here /\ ~person.verified /\ person.active
  /\ mailed' = TRUE
  /\ session' = "none"
  /\ UNCHANGED <<person, required, rows, req, minted, voucher>>

(* email_verify_confirm. A link carries the fingerprint of the unconfirmed *)
(* address, so it is usable while the address is unconfirmed.              *)
LinkUsable == mailed /\ ~person.verified

Opened == person.here /\ person.active /\ LinkUsable

(* The answer signs in where the browser presents the link's nonce; it is  *)
(* refused after the commit if the account is deactivated by then.         *)
SignsInIfActive == session' \in {"none"} \cup {s \in {"confirm"} : person.active}

ConfirmBegin(r, p) ==
  /\ Opened /\ person.hash.pw = p
  /\ Waiting(r, "confirm", p, person.hash, NoLink)

ConfirmEnd(r) ==
  /\ Done(r, "confirm")
  /\ LinkUsable
  /\ person' = [person EXCEPT !.verified = TRUE]
  /\ voucher' = IF voucher = "nobody" /\ person.hash.pw = req[r].pw THEN "holder" ELSE voucher
  /\ SignsInIfActive
  /\ UNCHANGED <<required, mailed, rows, minted>>

ConfirmAtOnce ==
  /\ Opened /\ ~HasPassword
  /\ person' = [person EXCEPT !.verified = TRUE]
  /\ SignsInIfActive
  /\ UNCHANGED <<required, mailed, rows, req, minted, voucher>>

Disown ==
  /\ Opened /\ HasPassword
  /\ person' = [person EXCEPT !.verified = TRUE, !.hash = NoHash]
  /\ voucher' = "nobody"
  /\ session' = "none"
  /\ UNCHANGED <<required, mailed, rows, req, minted>>

-----------------------------------------------------------------------------
Newcomer(verified, linked) ==
  [here |-> TRUE, hash |-> NoHash, verified |-> verified, active |-> TRUE, linked |-> linked]

(* A right one-time code: get_or_create_user_by_email, then the address is *)
(* confirmed, with whatever password the account has.                      *)
CodeSignIn ==
  /\ person.here => person.active
  /\ person' = IF person.here THEN [person EXCEPT !.verified = TRUE]
                              ELSE Newcomer(TRUE, FALSE)
  /\ voucher' = IF HasPassword /\ voucher = "nobody" THEN "code" ELSE voucher
  /\ session' = "code"
  /\ UNCHANGED <<required, mailed, rows, req, minted>>

(* get_or_create_user_by_oidc_identity at /token, then its refusal of a    *)
(* deactivated account, after the commit.                                  *)
ProviderProves(vouches) == vouches    \* fault: the account's own proof not asked for
BothProve(vouches) == vouches /\ person.verified

ProviderSignIn(vouches) ==
  /\ \/ /\ ~person.here
        /\ person' = Newcomer(vouches, TRUE)
     \/ /\ person.here /\ (person.linked \/ BothProve(vouches))
        /\ person' = [person EXCEPT !.linked = TRUE]
  /\ session' = IF person'.active THEN "provider" ELSE "none"
  /\ UNCHANGED <<required, mailed, rows, req, minted, voucher>>

-----------------------------------------------------------------------------
(* admin.py: person deactivate, person reactivate.                         *)
SwitchAccount ==
  /\ person.here
  /\ person' = [person EXCEPT !.active = ~@]
  /\ session' = "none"
  /\ UNCHANGED <<required, mailed, rows, req, minted, voucher>>

(* What the checks made again after the wait turn away, with no change:    *)
(* the address taken, the link used, or the password changed meanwhile.    *)
Refused(r) ==
  /\ \/ Done(r, "register") /\ Registered
     \/ Done(r, "reset") /\ ~StillApplies(req[r].held.id)
     \/ Done(r, "confirm") /\ ~LinkUsable
  /\ session' = "none"
  /\ UNCHANGED Settled

(* The process starts again: the iteration count may have been raised and  *)
(* the verification setting or its allowlist changed.                      *)
Restart ==
  /\ req' = [r \in Requests |-> Idle]
  /\ required' \in BOOLEAN
  /\ \/ UNCHANGED person
     \/ HasPassword /\ person' = [person EXCEPT !.hash.current = FALSE]
  /\ session' = "none"
  /\ UNCHANGED <<mailed, rows, minted, voucher>>

Init ==
  /\ person = [here |-> FALSE, hash |-> NoHash, verified |-> FALSE,
               active |-> FALSE, linked |-> FALSE]
  /\ required \in BOOLEAN
  /\ mailed = FALSE
  /\ rows = {}
  /\ req = [r \in Requests |-> Idle]
  /\ minted = 0
  /\ session = "none"
  /\ voucher = "nobody"

Next ==
  \/ \E r \in Requests :
       \/ RegisterEnd(r)
       \/ LoginEnd(r)
       \/ LoginRehashes(r)
       \/ RehashEnd(r)
       \/ ResetEnd(r)
       \/ ConfirmEnd(r)
       \/ Refused(r)
       \/ \E p \in Passwords :
            \/ RegisterBegin(r, p)
            \/ LoginBegin(r, p)
            \/ ConfirmBegin(r, p)
            \/ \E row \in rows : ResetBegin(r, row, p)
  \/ \E l \in Links : ResetRequest(l)
  \/ \E row \in rows : ResetExpires(row)
  \/ ConfirmRequest
  \/ ConfirmAtOnce
  \/ Disown
  \/ CodeSignIn
  \/ \E vouches \in BOOLEAN : ProviderSignIn(vouches)
  \/ SwitchAccount
  \/ Restart

Spec == Init /\ [][Next]_vars

-----------------------------------------------------------------------------
(* Every variable holds a value of its kind; a row's fingerprint is that   *)
(* of a hash that was stored, or of none.                                  *)
TypeOK ==
  /\ person \in Persons
  /\ required \in BOOLEAN /\ mailed \in BOOLEAN
  /\ rows \subseteq [link : Links, fingerprint : 0..minted]
  /\ req \in [Requests -> Waits]
  /\ minted \in 0..MaxHashes
  /\ session \in {"none", "register", "password", "confirm", "code", "provider"}
  /\ voucher \in {"nobody", "waived", "holder", "mailbox", "code"}

(* email_verify_confirm's rule and get_or_create_user_by_oidc_identity's:  *)
(* the password of a confirmed or linked account is not merely somebody's  *)
(* who registered the address. It was presented with the mailed link or    *)
(* set through one, or the mailbox signed in by code beside it, or no      *)
(* confirmation was asked for.                                             *)
PasswordVouchedFor ==
  HasPassword /\ (person.verified \/ person.linked) => voucher # "nobody"

SignsIn(r) ==
  req[r].op \in {"login", "rehash"} /\ req'[r] = Idle /\ session' = "password"
Vouched(r) == person.hash.pw = req[r].pw /\ voucher # "nobody"
Overtaken(r) == person.hash.pw # req[r].pw /\ (~HasPassword \/ voucher = "mailbox")

(* password_login: "This gate is why the account-linking rule holds".      *)
(* Where confirmation is required, a password that signs in is stored and  *)
(* vouched for when the login is answered, whatever happened while it      *)
(* waited; or whoever reads the mailbox has replaced it meanwhile, by      *)
(* disowning it or through a reset link. The handler does not compare what *)
(* it checked with what is stored by then, and that is the only way round. *)
VouchedOrOvertaken ==
  [][\A r \in Requests :
       required /\ SignsIn(r) => Vouched(r) \/ Overtaken(r)]_vars

(* A deactivated account signs in nowhere, also when it was deactivated    *)
(* while a password was being checked.                                     *)
DeactivatedSignsInNowhere == session # "none" => person.active

(* _email_fingerprint: a confirmation link stops working the moment it     *)
(* works, so one that signs somebody in is one that confirms the address,  *)
(* also when several are redeemed at once.                                 *)
ConfirmationWorksOnce ==
  [][session' = "confirm" => ~person.verified /\ person'.verified]_vars

(* The password as its owner sees it. A link works while its fingerprint   *)
(* is that of the stored hash, and its row is there or a request holds it. *)
Working ==
  {row.link : row \in {w \in rows : w.fingerprint = person.hash.id}}
    \cup {req[r].link : r \in {q \in Requests : req[q].op = "reset"
                                  /\ req[q].held.id = person.hash.id}}

Abstract == INSTANCE AccountPassword WITH
  password <- person.hash.pw, confirmed <- person.verified, links <- Working

(* A re-hash is invisible, a link sets a password once and only the one it *)
(* was mailed for, and nothing but registration, a link and disowning      *)
(* changes the password, whatever was awaited meanwhile.                   *)
ImplementsAccountPassword == Abstract!Spec

=============================================================================
