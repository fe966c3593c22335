----------------------------- MODULE Identities -----------------------------
(***************************************************************************)
(* Who a sign-in is: the persons, the identities that resolve to them, and *)
(* the authorization codes on the way from a proof to /token.              *)
(*                                                                         *)
(* A code carries what was known of its identity when it was written; the  *)
(* person and the identities may change before it is redeemed. Expiry of a *)
(* code and the spending of it are in AuthCodes, passwords in Accounts;    *)
(* here a person has a password or has none, and whether an address must   *)
(* be confirmed first is left open.                                        *)
(***************************************************************************)
EXTENDS Naturals, FiniteSets

CONSTANTS
  Persons,
  Subjects,    \* (provider, subject) of the providers other than local
  Addresses,
  NoPerson, NoAddress,
  MaxCodes     \* bound: codes not yet redeemed

(* A subject of the local provider is a person's id.                       *)
Identities == Subjects \cup Persons

ASSUME IdentitiesAssumption ==
  /\ Subjects \cap Persons = {} /\ NoPerson \notin Identities
  /\ NoAddress \notin Addresses
  /\ MaxCodes \in Nat

VARIABLES
  person,   \* the rows of persons
  owner,    \* person_identities: the person each identity resolves to
  codes,    \* what the codes not yet redeemed say
  proven,   \* history: the addresses each person has been shown to hold
  chosen,   \* history: the subjects their person began with or linked
  first,    \* history: whom an identity first signed in as, since it was linked
  astray    \* history: identities that signed in as somebody else later

identityVars == <<person, owner, codes, proven, chosen, first, astray>>

Row == [here : BOOLEAN, email : Addresses \cup {NoAddress},
        verified : BOOLEAN, password : BOOLEAN]
NoRow == [here |-> FALSE, email |-> NoAddress, verified |-> FALSE, password |-> FALSE]
Code == [subject : Identities, email : Addresses, vouched : BOOLEAN]

Here(p) == person[p].here
HoldersOf(e) == {p \in Persons : Here(p) /\ person[p].email = e}
Rows(p) == {i \in Identities : owner[i] = p}

-----------------------------------------------------------------------------
(* A code is written.                                                      *)
Writes(code) ==
  /\ Cardinality(codes \cup {code}) <= MaxCodes
  /\ codes' = codes \cup {code}

(* auth_callback, with what the provider says of the address.              *)
Callback(s, e, vouched) ==
  /\ Writes([subject |-> s, email |-> e, vouched |-> vouched])
  /\ UNCHANGED <<person, owner, proven, chosen, first, astray>>

(* _complete_local_signin: the identity's row is written if it is missing, *)
(* and the code says what the row of persons says.                         *)
CompleteLocalSignin(p, row) ==
  /\ owner' = [owner EXCEPT ![p] = IF @ = NoPerson THEN p ELSE @]
  /\ Writes([subject |-> p, email |-> row.email, vouched |-> row.verified])
  /\ UNCHANGED <<chosen, first, astray>>

LocalPassword(p) ==
  /\ Here(p) /\ person[p].password
  /\ CompleteLocalSignin(p, person[p])
  /\ UNCHANGED <<person, proven>>

LocalOtp(p) ==
  /\ Here(p)
  /\ person' = [person EXCEPT ![p].verified = TRUE]
  /\ proven' = proven \cup {<<p, person[p].email>>}
  /\ CompleteLocalSignin(p, person'[p])

-----------------------------------------------------------------------------
(* get_or_create_user_by_oidc_identity, called by /token with the code.    *)

(* A provider that vouches proves the address; a local code only repeats   *)
(* what had been proven.                                                   *)
Proves(p, c) ==
  proven' = IF c.vouched /\ (c.subject \in Subjects \/ <<c.subject, c.email>> \in proven)
            THEN proven \cup {<<p, c.email>>} ELSE proven

SignsInAs(p, i) ==
  IF first[i] \in {p, NoPerson}
  THEN first' = [first EXCEPT ![i] = p] /\ UNCHANGED astray
  ELSE astray' = astray \cup {i} /\ UNCHANGED first

(* The row of the identity, if it has one, before the address is asked.    *)
ByAddress(c) ==                          \* fault: the address is asked first
  IF HoldersOf(c.email) # {} THEN HoldersOf(c.email) ELSE {owner[c.subject]} \ {NoPerson}
Known(c) == {owner[c.subject]} \ {NoPerson}

(* A new address is confirmed only if the provider says so. It may be one  *)
(* that another person holds: the unique index refuses it.                 *)
KeptVerified(p, c) ==                    \* fault: the address changes, its flag does not
  [person[p] EXCEPT !.email = c.email]
AtAddress(p, c) ==
  IF person[p].email = c.email THEN person[p]
  ELSE [person[p] EXCEPT !.email = c.email, !.verified = c.vouched]

RedeemKnown(c) ==
  \E p \in Known(c) :
    IF HoldersOf(c.email) \subseteq {p}
    THEN /\ person' = [person EXCEPT ![p] = AtAddress(p, c)]
         /\ Proves(p, c)
         /\ SignsInAs(p, c.subject)
         /\ UNCHANGED <<owner, chosen>>
    ELSE UNCHANGED <<person, owner, proven, chosen, first, astray>>

(* Linked to the person at the address only if both sides proved it;       *)
(* otherwise IdentityLinkRefused.                                          *)
ProviderProved(p, c) == c.vouched        \* fault: the account's side is not asked
BothProved(p, c) == c.vouched /\ person[p].verified

RedeemClaimed(c) ==
  /\ Known(c) = {}
  /\ \E p \in HoldersOf(c.email) :
       IF BothProved(p, c)
       THEN /\ owner' = [owner EXCEPT ![c.subject] = p]
            /\ SignsInAs(p, c.subject)
            /\ UNCHANGED <<person, proven, chosen>>
       ELSE UNCHANGED <<person, owner, proven, chosen, first, astray>>

RedeemNew(c) ==
  /\ Known(c) = {} /\ HoldersOf(c.email) = {}
  /\ \E p \in Persons :
       /\ ~Here(p)
       /\ person' = [person EXCEPT ![p] =
            [here |-> TRUE, email |-> c.email, verified |-> c.vouched, password |-> FALSE]]
       /\ owner' = [owner EXCEPT ![c.subject] = p]
       /\ Proves(p, c)
       /\ chosen' = chosen \cup {c.subject}
       /\ SignsInAs(p, c.subject)

Redeem(c) ==
  /\ codes' = codes \ {c}
  /\ RedeemKnown(c) \/ RedeemClaimed(c) \/ RedeemNew(c)

-----------------------------------------------------------------------------
(* link_provider and link_identity, in p's own session: an identity that   *)
(* resolves already is left where it is.                                   *)
LinkProvider(p, c) ==
  /\ Here(p)
  /\ codes' = codes \ {c}
  /\ IF Known(c) = {}
     THEN owner' = [owner EXCEPT ![c.subject] = p] /\ chosen' = chosen \cup {c.subject}
     ELSE UNCHANGED <<owner, chosen>>
  /\ UNCHANGED <<person, proven, first, astray>>

(* unlink_identity: refused if nothing would be left to sign in with.      *)
LeavesSome(p) ==                         \* fault: off by one
  Cardinality(Rows(p)) > 0 \/ person[p].password
LeavesAnother(p) == Cardinality(Rows(p)) - 1 > 0 \/ person[p].password

UnlinkProvider(p, i) ==
  /\ owner[i] = p
  /\ LeavesAnother(p)
  /\ owner' = [owner EXCEPT ![i] = NoPerson]
  /\ chosen' = chosen \ {i}
  /\ first' = [first EXCEPT ![i] = NoPerson]
  /\ UNCHANGED <<person, codes, proven, astray>>

-----------------------------------------------------------------------------
(* create_user_with_password: confirmed at once where the node asks for no *)
(* confirmation, which then stands for the proof.                          *)
Creates(p, e, required) ==
  /\ ~Here(p) /\ HoldersOf(e) = {}
  /\ person' = [person EXCEPT ![p] =
       [here |-> TRUE, email |-> e, verified |-> ~required, password |-> TRUE]]
  /\ proven' = IF required THEN proven ELSE proven \cup {<<p, e>>}

(* password_register; and authorize_local_register, where it stops for the *)
(* confirmation or because the person is not admitted.                     *)
Register(p, e, required) ==
  /\ Creates(p, e, required)
  /\ UNCHANGED <<owner, codes, chosen, first, astray>>

(* authorize_local_register, which goes on with the sign-in otherwise.     *)
LocalRegister(p, e) ==
  /\ Creates(p, e, FALSE)
  /\ CompleteLocalSignin(p, person'[p])

(* email_verify_confirm, with the password or disowning it.                *)
Confirm(p, keeps) ==
  /\ Here(p) /\ ~person[p].verified
  /\ keeps => person[p].password
  /\ person' = [person EXCEPT ![p].verified = TRUE, ![p].password = keeps]
  /\ proven' = proven \cup {<<p, person[p].email>>}
  /\ UNCHANGED <<owner, codes, chosen, first, astray>>

IdentitiesInit ==
  /\ person = [p \in Persons |-> NoRow]
  /\ owner = [i \in Identities |-> NoPerson]
  /\ codes = {}
  /\ proven = {}
  /\ chosen = {}
  /\ first = [i \in Identities |-> NoPerson]
  /\ astray = {}

Resolution ==
  \/ \E s \in Subjects, e \in Addresses, vouched \in BOOLEAN : Callback(s, e, vouched)
  \/ \E c \in codes : Redeem(c)
  \/ \E p \in Persons :
       \/ LocalPassword(p) \/ LocalOtp(p)
       \/ \E c \in codes : LinkProvider(p, c)
       \/ \E i \in Identities : UnlinkProvider(p, i)
       \/ \E e \in Addresses, required \in BOOLEAN : Register(p, e, required)
       \/ \E e \in Addresses : LocalRegister(p, e)
       \/ \E keeps \in BOOLEAN : Confirm(p, keeps)

IdentitiesSpec == IdentitiesInit /\ [][Resolution]_identityVars

-----------------------------------------------------------------------------
IdentitiesTypeOK ==
  /\ person \in [Persons -> Row]
  /\ owner \in [Identities -> Persons \cup {NoPerson}]
  /\ codes \subseteq Code
  /\ proven \subseteq Persons \X Addresses
  /\ chosen \subseteq Subjects \cup Persons
  /\ first \in [Identities -> Persons \cup {NoPerson}]
  /\ astray \subseteq Identities

(* person_token_claims: email_verified is "the stored fact about email",   *)
(* and peers admit by it. However an account came by its address, by a     *)
(* provider's change of it or a code that says what used to be so, a       *)
(* confirmed address is one that was proven for that account.              *)
VerifiedWasProven ==
  \A p \in Persons : Here(p) /\ person[p].verified => <<p, person[p].email>> \in proven

(* "both sides must have proved the address": an external identity that an *)
(* account did not begin with and nobody linked in its session is on an    *)
(* account whose address had been proven.                                  *)
LinkedByProof ==
  \A s \in Subjects \ chosen :
    owner[s] # NoPerson => \E e \in Addresses : <<owner[s], e>> \in proven

(* "(provider, subject) - the durable key": until it is unlinked, an       *)
(* identity signs in as one person, whatever becomes of the addresses.     *)
IdentityKeepsItsPerson == astray = {}

(* unlink_identity: removing the last way in "would leave the account      *)
(* existing and unreachable". Every account has a password, a confirmed    *)
(* address, which codes are mailed to, or an identity.                     *)
WayInRemains ==
  \A p \in Persons : Here(p) =>
    person[p].password \/ person[p].verified \/ Rows(p) # {}
=============================================================================
