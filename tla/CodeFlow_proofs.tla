-------------------------- MODULE CodeFlow_proofs --------------------------
(***************************************************************************)
(* The authorization code flow from both ends: who a sign-in is, for any   *)
(* persons, identities, addresses and waiting codes; and what the codes    *)
(* themselves promise, for any clients, legs, lifetimes and cache sizes.   *)
(***************************************************************************)
EXTENDS Identities, AuthCodes, FiniteSetTheorems, WellFoundedInduction, TLAPS

USE IdentitiesAssumption

(* A local code repeats what had been proven of its own account.           *)
CodesRepeatProofs ==
  \A c \in codes : c.subject \in Persons /\ c.vouched => <<c.subject, c.email>> \in proven

(* Whom an identity has signed in as is whom it resolves to.               *)
FirstIsOwner == \A i \in Identities : first[i] \in {owner[i], NoPerson}

(* An account that is there has an address.                                *)
Addressed == \A p \in Persons : Here(p) => person[p].email \in Addresses

Inv ==
  /\ IdentitiesTypeOK /\ Addressed /\ CodesRepeatProofs /\ FirstIsOwner
  /\ VerifiedWasProven /\ LinkedByProof /\ IdentityKeepsItsPerson /\ WayInRemains

-----------------------------------------------------------------------------
LEMMA Fields ==
  ASSUME IdentitiesTypeOK, NEW p \in Persons
  PROVE  /\ person[p] \in Row /\ person[p].here \in BOOLEAN
         /\ person[p].email \in Addresses \cup {NoAddress}
         /\ person[p].verified \in BOOLEAN /\ person[p].password \in BOOLEAN
BY DEF IdentitiesTypeOK, Row

LEMMA CodeFields ==
  ASSUME IdentitiesTypeOK, NEW c \in codes
  PROVE  /\ c.subject \in Identities /\ c.email \in Addresses /\ c.vouched \in BOOLEAN
         /\ owner[c.subject] \in Persons \cup {NoPerson}
BY DEF IdentitiesTypeOK, Code

(* The person an identity resolves to, if it does.                         *)
LEMMA KnownIsOwner ==
  ASSUME IdentitiesTypeOK, NEW c \in codes
  PROVE  /\ \A p \in Known(c) : p \in Persons /\ owner[c.subject] = p
         /\ Known(c) = {} => owner[c.subject] = NoPerson
BY CodeFields DEF Known

-----------------------------------------------------------------------------
(* Steps that change one account: it keeps the invariant if what it is     *)
(* said to hold has been proven and it keeps a way in.                     *)
LEMMA OneAccount ==
  ASSUME Inv, NEW p \in Persons, NEW row \in Row,
         person' = [person EXCEPT ![p] = row], proven \subseteq proven',
         row.here => row.email \in Addresses,
         row.here /\ row.verified => <<p, row.email>> \in proven',
         \A q \in Persons : Rows(q) \subseteq Rows(q)',
         row.here => row.password \/ row.verified \/ Rows(p)' # {}
  PROVE  Addressed' /\ VerifiedWasProven' /\ WayInRemains'
<1>0. person \in [Persons -> Row]
  BY DEF Inv, IdentitiesTypeOK
<1>1. \A q \in Persons : person'[q] = IF q = p THEN row ELSE person[q]
  BY <1>0
<1>2. Addressed'
  BY <1>1 DEF Inv, Addressed, Here
<1>3. VerifiedWasProven'
  BY <1>1 DEF Inv, VerifiedWasProven, Here
<1>4. WayInRemains'
  <2> SUFFICES ASSUME NEW q \in Persons, person'[q].here
               PROVE  person'[q].password \/ person'[q].verified \/ Rows(q)' # {}
    BY DEF WayInRemains, Here
  <2>1. CASE q = p
    BY <1>1, <2>1
  <2>2. CASE q # p
    BY <1>1, <2>2 DEF Inv, WayInRemains, Here
  <2> QED
    BY <2>1, <2>2
<1> QED
  BY <1>2, <1>3, <1>4

(* Steps that leave the accounts as they are.                              *)
LEMMA NoAccount ==
  ASSUME Inv, UNCHANGED person, proven \subseteq proven',
         \A q \in Persons : Rows(q) \subseteq Rows(q)'
  PROVE  Addressed' /\ VerifiedWasProven' /\ WayInRemains'
<1>1. Addressed' /\ VerifiedWasProven'
  BY DEF Inv, Addressed, VerifiedWasProven, Here
<1>2. WayInRemains'
  <2> SUFFICES ASSUME NEW q \in Persons, person'[q].here
               PROVE  person'[q].password \/ person'[q].verified \/ Rows(q)' # {}
    BY DEF WayInRemains, Here
  <2>1. person[q].password \/ person[q].verified \/ Rows(q) # {}
    <3>1. Here(q) /\ person[q] = person'[q]
      BY DEF Here
    <3> QED
      BY <3>1 DEF Inv, WayInRemains
  <2> QED
    BY <2>1
<1> QED
  BY <1>1, <1>2

(* A code is redeemed or written: what its identity was, it remains.       *)
LEMMA NothingWritten ==
  ASSUME Inv, codes' \subseteq codes, proven \subseteq proven'
  PROVE  CodesRepeatProofs'
BY DEF Inv, CodesRepeatProofs

LEMMA OneWritten ==
  ASSUME Inv, NEW c \in Code, codes' = codes \cup {c}, proven \subseteq proven',
         c.subject \in Persons /\ c.vouched => <<c.subject, c.email>> \in proven'
  PROVE  CodesRepeatProofs'
BY DEF Inv, CodesRepeatProofs

(* An identity that resolved to nobody resolves to p.                      *)
LEMMA OneOwned ==
  ASSUME Inv, NEW p \in Persons, NEW i \in Identities, owner[i] = NoPerson,
         owner' = [owner EXCEPT ![i] = p], proven \subseteq proven', chosen \subseteq chosen',
         i \in Subjects => i \in chosen' \/ \E e \in Addresses : <<p, e>> \in proven'
  PROVE  /\ LinkedByProof' /\ \A q \in Persons : Rows(q) \subseteq Rows(q)'
         /\ i \in Rows(p)'
<1>0. owner \in [Identities -> Persons \cup {NoPerson}]
  BY DEF Inv, IdentitiesTypeOK
<1>1. \A j \in Identities : owner'[j] = IF j = i THEN p ELSE owner[j]
  BY <1>0
<1>2. \A q \in Persons : Rows(q) \subseteq Rows(q)'
  BY <1>1 DEF Rows, Identities
<1>3. i \in Rows(p)'
  BY <1>1 DEF Rows
<1>4. LinkedByProof'
  <2> SUFFICES ASSUME NEW s \in Subjects, s \notin chosen', owner'[s] # NoPerson
               PROVE  \E e \in Addresses : <<owner'[s], e>> \in proven'
    BY DEF LinkedByProof
  <2>1. CASE s = i
    BY <1>1, <2>1
  <2>2. CASE s # i
    <3>1. s \in Identities /\ owner'[s] = owner[s]
      BY <1>1, <2>2 DEF Identities
    <3>2. \E e \in Addresses : <<owner[s], e>> \in proven
      BY <3>1 DEF Inv, LinkedByProof
    <3> QED
      BY <3>1, <3>2
  <2> QED
    BY <2>1, <2>2
<1> QED
  BY <1>2, <1>3, <1>4

LEMMA NoneOwned ==
  ASSUME Inv, UNCHANGED owner, proven \subseteq proven', chosen \subseteq chosen'
  PROVE  LinkedByProof' /\ \A q \in Persons : Rows(q) \subseteq Rows(q)'
<1>1. LinkedByProof'
  BY DEF Inv, LinkedByProof
<1> QED
  BY <1>1 DEF Rows

(* Signing in as whom the identity resolves to leads nobody astray.        *)
LEMMA SignedIn ==
  ASSUME Inv, NEW p \in Persons, NEW i \in Identities, owner[i] \in {p, NoPerson},
         owner'[i] = p, \A j \in Identities \ {i} : owner'[j] = owner[j],
         SignsInAs(p, i)
  PROVE  /\ FirstIsOwner' /\ IdentityKeepsItsPerson'
         /\ first' \in [Identities -> Persons \cup {NoPerson}]
<1>0. first \in [Identities -> Persons \cup {NoPerson}] /\ astray = {}
  BY DEF Inv, IdentitiesTypeOK, IdentityKeepsItsPerson
<1>1. first[i] \in {p, NoPerson}
  BY DEF Inv, FirstIsOwner
<1>2. first' = [first EXCEPT ![i] = p] /\ UNCHANGED astray
  BY <1>1 DEF SignsInAs
<1>3. FirstIsOwner'
  <2> SUFFICES ASSUME NEW j \in Identities
               PROVE  first'[j] \in {owner'[j], NoPerson}
    BY DEF FirstIsOwner
  <2>1. CASE j = i
    BY <1>0, <1>2, <2>1
  <2>2. CASE j # i
    BY <1>0, <1>2, <2>2 DEF Inv, FirstIsOwner
  <2> QED
    BY <2>1, <2>2
<1> QED
  BY <1>0, <1>2, <1>3 DEF IdentityKeepsItsPerson

(* No sign-in, and only identities that resolved to nobody change.         *)
LEMMA NobodySignedIn ==
  ASSUME Inv, UNCHANGED <<first, astray>>,
         \A j \in Identities : owner[j] # NoPerson => owner'[j] = owner[j]
  PROVE  FirstIsOwner' /\ IdentityKeepsItsPerson'
BY DEF Inv, FirstIsOwner, IdentityKeepsItsPerson, IdentitiesTypeOK

-----------------------------------------------------------------------------
LEMMA CallbackStep ==
  ASSUME Inv, NEW s \in Subjects, NEW e \in Addresses, NEW vouched \in BOOLEAN,
         Callback(s, e, vouched)
  PROVE  Inv'
<1> DEFINE c == [subject |-> s, email |-> e, vouched |-> vouched]
<1>1. codes' = codes \cup {c} /\ UNCHANGED <<person, owner, proven, chosen, first, astray>>
  BY DEF Callback, Writes
<1>2. c \in Code /\ c.subject = s
  BY DEF Code, Identities
<1> HIDE DEF c
<1>3. IdentitiesTypeOK'
  BY <1>1, <1>2 DEF Inv, IdentitiesTypeOK
<1>4. CodesRepeatProofs'
  BY <1>1, <1>2, OneWritten
<1>5. LinkedByProof' /\ \A q \in Persons : Rows(q) \subseteq Rows(q)'
  BY <1>1, NoneOwned
<1>6. Addressed' /\ VerifiedWasProven' /\ WayInRemains'
  BY <1>1, <1>5, NoAccount
<1>7. FirstIsOwner' /\ IdentityKeepsItsPerson'
  BY <1>1, NobodySignedIn
<1> QED
  BY <1>3, <1>4, <1>5, <1>6, <1>7 DEF Inv

(* _complete_local_signin, for an account whose row has become row.        *)
LEMMA CompletesLocal ==
  ASSUME Inv, NEW p \in Persons, NEW row \in Row, CompleteLocalSignin(p, row),
         row.here = TRUE, row.email \in Addresses,
         person' = [person EXCEPT ![p] = row],
         proven \subseteq proven', proven' \subseteq Persons \X Addresses,
         row.verified = TRUE => <<p, row.email>> \in proven',
         row.password = TRUE \/ row.verified = TRUE
  PROVE  Inv'
<1>0. IdentitiesTypeOK
  BY DEF Inv
<1> DEFINE c == [subject |-> p, email |-> row.email, vouched |-> row.verified]
<1>1. /\ owner' = [owner EXCEPT ![p] = IF @ = NoPerson THEN p ELSE @]
      /\ codes' = codes \cup {c}
      /\ UNCHANGED <<chosen, first, astray>>
  BY DEF CompleteLocalSignin, Writes
<1>2. row.email \in Addresses /\ row.verified \in BOOLEAN
  BY DEF Row
<1>3. c \in Code /\ c.subject = p /\ c.email = row.email /\ c.vouched = row.verified
  BY <1>2 DEF Code, Identities
<1> HIDE DEF c
<1>4. p \in Identities /\ p \notin Subjects /\ owner[p] \in Persons \cup {NoPerson}
  BY <1>0 DEF Identities, IdentitiesTypeOK
<1>5. IdentitiesTypeOK'
  <2>1. person' \in [Persons -> Row] /\ owner' \in [Identities -> Persons \cup {NoPerson}]
    BY <1>0, <1>1 DEF IdentitiesTypeOK
  <2>2. codes' \subseteq Code
    BY <1>0, <1>1, <1>3 DEF IdentitiesTypeOK
  <2> QED
    BY <1>0, <1>1, <2>1, <2>2 DEF IdentitiesTypeOK
<1>6. CodesRepeatProofs'
  <2>1. (c.subject \in Persons /\ c.vouched) => <<c.subject, c.email>> \in proven'
    BY <1>2, <1>3
  <2> QED
    BY <1>1, <1>3, <2>1, OneWritten
<1>7. LinkedByProof' /\ \A q \in Persons : Rows(q) \subseteq Rows(q)'
  <2>1. CASE owner[p] = NoPerson
    <3>1. owner' = [owner EXCEPT ![p] = p]
      BY <1>1, <2>1
    <3> QED
      BY <1>1, <1>4, <2>1, <3>1, OneOwned
  <2>2. CASE owner[p] # NoPerson
    <3>1. UNCHANGED owner
      BY <1>0, <1>1, <2>2 DEF IdentitiesTypeOK
    <3> QED
      BY <1>1, <3>1, NoneOwned
  <2> QED
    BY <2>1, <2>2
<1>8. Addressed' /\ VerifiedWasProven' /\ WayInRemains'
  <2>1. /\ row.here => row.email \in Addresses
        /\ (row.here /\ row.verified) => <<p, row.email>> \in proven'
        /\ row.here => row.password \/ row.verified \/ Rows(p)' # {}
    BY <1>2
  <2> QED
    BY <1>7, <2>1, OneAccount
<1>9. FirstIsOwner' /\ IdentityKeepsItsPerson'
  <2>1. \A j \in Identities : owner[j] # NoPerson => owner'[j] = owner[j]
    BY <1>0, <1>1 DEF IdentitiesTypeOK
  <2> QED
    BY <1>1, <2>1, NobodySignedIn
<1> QED
  BY <1>5, <1>6, <1>7, <1>8, <1>9 DEF Inv

LEMMA LocalPasswordStep ==
  ASSUME Inv, NEW p \in Persons, LocalPassword(p)
  PROVE  Inv'
<1>1. /\ Here(p) /\ person[p].password /\ UNCHANGED <<person, proven>>
      /\ CompleteLocalSignin(p, person[p]) /\ person \in [Persons -> Row]
      /\ proven \subseteq Persons \X Addresses
  BY DEF LocalPassword, Inv, IdentitiesTypeOK
<1>2. PICK row \in Row : row = person[p]
  BY <1>1
<1>3. row.here = TRUE /\ row.password = TRUE /\ row.email \in Addresses
  BY <1>1, <1>2 DEF Here, Row, Inv, Addressed
<1>4. row.verified = TRUE => <<p, row.email>> \in proven
  BY <1>1, <1>2 DEF Inv, VerifiedWasProven
<1>5. CompleteLocalSignin(p, row)
  BY <1>1, <1>2
<1>6. person' = [person EXCEPT ![p] = row]
  BY <1>1, <1>2
<1> QED
  BY <1>1, <1>2, <1>3, <1>4, <1>5, <1>6, CompletesLocal

LEMMA LocalOtpStep ==
  ASSUME Inv, NEW p \in Persons, LocalOtp(p)
  PROVE  Inv'
<1>1. /\ Here(p) /\ person' = [person EXCEPT ![p].verified = TRUE]
      /\ proven' = proven \cup {<<p, person[p].email>>}
      /\ CompleteLocalSignin(p, person'[p]) /\ person \in [Persons -> Row]
      /\ proven \subseteq Persons \X Addresses
  BY DEF LocalOtp, Inv, IdentitiesTypeOK
<1>2. PICK row \in Row : row = [person[p] EXCEPT !.verified = TRUE]
  BY <1>1 DEF Row
<1>3. person' = [person EXCEPT ![p] = row] /\ person'[p] = row
  BY <1>1, <1>2
<1>4. row.here = TRUE /\ row.verified = TRUE /\ row.email = person[p].email
  BY <1>1, <1>2 DEF Here, Row
<1>5. CompleteLocalSignin(p, row)
  BY <1>1, <1>3
<1>6. /\ proven \subseteq proven' /\ proven' \subseteq Persons \X Addresses
      /\ <<p, row.email>> \in proven' /\ row.email \in Addresses
  <2>1. person[p].email \in Addresses
    BY <1>1 DEF Inv, Addressed
  <2> QED
    BY <1>1, <1>4, <2>1
<1> QED
  BY <1>3, <1>4, <1>5, <1>6, CompletesLocal

-----------------------------------------------------------------------------
(* What a code proves, when p signs in with it.                            *)
LEMMA Proven ==
  ASSUME Inv, NEW p \in Persons, NEW c \in codes, Proves(p, c)
  PROVE  /\ proven \subseteq proven' /\ proven' \subseteq Persons \X Addresses
         /\ c.vouched => <<p, c.email>> \in proven'
<1>1. c.subject \in Subjects \cup Persons /\ c.email \in Addresses
      /\ proven \subseteq Persons \X Addresses
  BY CodeFields DEF Inv, Identities, IdentitiesTypeOK
<1>2. c.vouched => c.subject \in Subjects \/ <<c.subject, c.email>> \in proven
  BY <1>1 DEF Inv, CodesRepeatProofs
<1> QED
  BY <1>1, <1>2 DEF Proves

LEMMA RedeemKnownStep ==
  ASSUME Inv, NEW c \in codes, codes' = codes \ {c}, NEW p \in Known(c),
         person' = [person EXCEPT ![p] = AtAddress(p, c)], Proves(p, c),
         SignsInAs(p, c.subject), UNCHANGED <<owner, chosen>>
  PROVE  Inv'
<1>0. IdentitiesTypeOK
  BY DEF Inv
<1>1. p \in Persons /\ owner[c.subject] = p /\ c.subject \in Identities
  BY <1>0, KnownIsOwner, CodeFields
<1>2. /\ proven \subseteq proven' /\ proven' \subseteq Persons \X Addresses
      /\ c.vouched => <<p, c.email>> \in proven'
  BY <1>1, Proven
<1>3. PICK row \in Row :
        /\ row = AtAddress(p, c)
        /\ row.here = person[p].here
        /\ row.here => row.email \in Addresses
        /\ row.here /\ row.verified => <<p, row.email>> \in proven'
  <2>0. person[p] \in Row /\ c.email \in Addresses /\ c.vouched \in BOOLEAN
    BY <1>0, <1>1, Fields, CodeFields
  <2>1. CASE person[p].email = c.email
    <3>1. AtAddress(p, c) = person[p]
      BY <2>1 DEF AtAddress
    <3>2. person[p].here /\ person[p].verified => <<p, person[p].email>> \in proven
      BY <1>1 DEF Inv, VerifiedWasProven, Here
    <3>3. person[p].email \in Addresses
      BY <2>0, <2>1
    <3> QED
      BY <1>2, <2>0, <3>1, <3>2, <3>3
  <2>2. CASE person[p].email # c.email
    <3>1. PICK row \in Row : row = [person[p] EXCEPT !.email = c.email, !.verified = c.vouched]
      BY <2>0 DEF Row
    <3>2. /\ row.here = person[p].here /\ row.email = c.email /\ row.verified = c.vouched
          /\ row = AtAddress(p, c)
      BY <2>0, <2>2, <3>1 DEF Row, AtAddress
    <3> QED
      BY <1>2, <2>0, <3>2
  <2> QED
    BY <2>1, <2>2
<1>4. LinkedByProof' /\ \A q \in Persons : Rows(q) \subseteq Rows(q)'
  BY <1>2, NoneOwned
<1>5. Addressed' /\ VerifiedWasProven' /\ WayInRemains'
  <2>1. Rows(p)' # {}
    BY <1>1 DEF Rows
  <2> QED
    BY <1>1, <1>2, <1>3, <1>4, <2>1, OneAccount
<1>6. /\ FirstIsOwner' /\ IdentityKeepsItsPerson'
      /\ first' \in [Identities -> Persons \cup {NoPerson}]
  BY <1>1, SignedIn
<1>7. CodesRepeatProofs'
  BY <1>2, NothingWritten
<1>8. IdentitiesTypeOK'
  <2>1. person' \in [Persons -> Row]
    BY <1>0, <1>1, <1>3 DEF IdentitiesTypeOK
  <2>2. codes' \subseteq Code /\ astray' = {}
    BY <1>0, <1>6 DEF IdentitiesTypeOK, IdentityKeepsItsPerson
  <2> QED
    BY <1>0, <1>2, <1>6, <2>1, <2>2 DEF IdentitiesTypeOK
<1> QED
  BY <1>4, <1>5, <1>6, <1>7, <1>8 DEF Inv

(* A code refused: it is spent, and nothing else.                          *)
LEMMA RefusedStep ==
  ASSUME Inv, NEW c \in codes, codes' = codes \ {c},
         UNCHANGED <<person, owner, proven, chosen, first, astray>>
  PROVE  Inv'
<1>1. IdentitiesTypeOK'
  BY DEF Inv, IdentitiesTypeOK
<1>2. CodesRepeatProofs'
  BY NothingWritten
<1>3. LinkedByProof' /\ \A q \in Persons : Rows(q) \subseteq Rows(q)'
  BY NoneOwned
<1>4. Addressed' /\ VerifiedWasProven' /\ WayInRemains'
  BY <1>3, NoAccount
<1>5. FirstIsOwner' /\ IdentityKeepsItsPerson'
  BY NobodySignedIn
<1> QED
  BY <1>1, <1>2, <1>3, <1>4, <1>5 DEF Inv

LEMMA RedeemClaimedStep ==
  ASSUME Inv, NEW c \in codes, codes' = codes \ {c}, Known(c) = {},
         NEW p \in HoldersOf(c.email), BothProved(p, c),
         owner' = [owner EXCEPT ![c.subject] = p], SignsInAs(p, c.subject),
         UNCHANGED <<person, proven, chosen>>
  PROVE  Inv'
<1>0. IdentitiesTypeOK
  BY DEF Inv
<1>1. /\ p \in Persons /\ c.subject \in Identities /\ owner[c.subject] = NoPerson
      /\ owner \in [Identities -> Persons \cup {NoPerson}]
  BY <1>0, KnownIsOwner, CodeFields DEF HoldersOf, IdentitiesTypeOK
<1>2. \E e \in Addresses : <<p, e>> \in proven
  <2>1. Here(p) /\ person[p].verified /\ person[p].email = c.email
    BY DEF HoldersOf, BothProved
  <2>2. <<p, c.email>> \in proven
    BY <1>1, <2>1 DEF Inv, VerifiedWasProven
  <2> QED
    BY <1>0, <2>2, CodeFields
<1>3. LinkedByProof' /\ \A q \in Persons : Rows(q) \subseteq Rows(q)'
  BY <1>1, <1>2, OneOwned
<1>4. Addressed' /\ VerifiedWasProven' /\ WayInRemains'
  BY <1>3, NoAccount
<1>5. /\ FirstIsOwner' /\ IdentityKeepsItsPerson'
      /\ first' \in [Identities -> Persons \cup {NoPerson}]
  BY <1>1, SignedIn
<1>6. CodesRepeatProofs'
  BY NothingWritten
<1>7. IdentitiesTypeOK'
  <2>1. owner' \in [Identities -> Persons \cup {NoPerson}] /\ astray' = {}
    BY <1>1, <1>5 DEF IdentityKeepsItsPerson
  <2> QED
    BY <1>0, <1>5, <2>1 DEF IdentitiesTypeOK
<1> QED
  BY <1>3, <1>4, <1>5, <1>6, <1>7 DEF Inv

LEMMA RedeemNewStep ==
  ASSUME Inv, NEW c \in codes, codes' = codes \ {c}, RedeemNew(c)
  PROVE  Inv'
<1>0. IdentitiesTypeOK
  BY DEF Inv
<1>1. PICK p \in Persons :
        /\ person' = [person EXCEPT ![p] =
             [here |-> TRUE, email |-> c.email, verified |-> c.vouched, password |-> FALSE]]
        /\ owner' = [owner EXCEPT ![c.subject] = p] /\ Proves(p, c)
        /\ chosen' = chosen \cup {c.subject} /\ SignsInAs(p, c.subject)
  BY DEF RedeemNew
<1>2. /\ c.subject \in Identities /\ owner[c.subject] = NoPerson
      /\ c.email \in Addresses /\ c.vouched \in BOOLEAN
      /\ owner \in [Identities -> Persons \cup {NoPerson}]
  BY <1>0, KnownIsOwner, CodeFields DEF RedeemNew, IdentitiesTypeOK
<1>3. /\ proven \subseteq proven' /\ proven' \subseteq Persons \X Addresses
      /\ c.vouched => <<p, c.email>> \in proven'
  BY <1>1, Proven
<1>4. PICK row \in Row :
        /\ row = [here |-> TRUE, email |-> c.email, verified |-> c.vouched, password |-> FALSE]
        /\ row.email = c.email /\ row.verified = c.vouched
  <2>1. [here |-> TRUE, email |-> c.email, verified |-> c.vouched, password |-> FALSE] \in Row
    BY <1>2, Zenon DEF Row
  <2> QED
    BY <2>1
<1>5. /\ LinkedByProof' /\ \A q \in Persons : Rows(q) \subseteq Rows(q)'
      /\ c.subject \in Rows(p)'
  BY <1>1, <1>2, <1>3, OneOwned
<1>6. Addressed' /\ VerifiedWasProven' /\ WayInRemains'
  BY <1>1, <1>2, <1>3, <1>4, <1>5, OneAccount
<1>7. /\ FirstIsOwner' /\ IdentityKeepsItsPerson'
      /\ first' \in [Identities -> Persons \cup {NoPerson}]
  BY <1>1, <1>2, SignedIn
<1>8. CodesRepeatProofs'
  BY <1>3, NothingWritten
<1>9. IdentitiesTypeOK'
  <2>1. person' \in [Persons -> Row] /\ owner' \in [Identities -> Persons \cup {NoPerson}]
    BY <1>0, <1>1, <1>2, <1>4 DEF IdentitiesTypeOK
  <2>2. astray' = {} /\ chosen' \subseteq Subjects \cup Persons
    BY <1>0, <1>1, <1>2, <1>7 DEF IdentitiesTypeOK, IdentityKeepsItsPerson, Identities
  <2> QED
    BY <1>0, <1>3, <1>7, <2>1, <2>2 DEF IdentitiesTypeOK
<1> QED
  BY <1>5, <1>6, <1>7, <1>8, <1>9 DEF Inv

LEMMA RedeemStep ==
  ASSUME Inv, NEW c \in codes, Redeem(c)
  PROVE  Inv'
<1>1. codes' = codes \ {c}
  BY DEF Redeem
<1>2. CASE RedeemKnown(c)
  <2>1. PICK p \in Known(c) :
          \/ /\ person' = [person EXCEPT ![p] = AtAddress(p, c)] /\ Proves(p, c)
             /\ SignsInAs(p, c.subject) /\ UNCHANGED <<owner, chosen>>
          \/ UNCHANGED <<person, owner, proven, chosen, first, astray>>
    BY <1>2 DEF RedeemKnown
  <2> QED
    BY <1>1, <2>1, RedeemKnownStep, RefusedStep
<1>3. CASE RedeemClaimed(c)
  <2>1. PICK p \in HoldersOf(c.email) :
          \/ /\ BothProved(p, c) /\ owner' = [owner EXCEPT ![c.subject] = p]
             /\ SignsInAs(p, c.subject) /\ UNCHANGED <<person, proven, chosen>>
          \/ UNCHANGED <<person, owner, proven, chosen, first, astray>>
    BY <1>3 DEF RedeemClaimed
  <2>2. Known(c) = {}
    BY <1>3 DEF RedeemClaimed
  <2> QED
    BY <1>1, <2>1, <2>2, RedeemClaimedStep, RefusedStep
<1>4. CASE RedeemNew(c)
  BY <1>1, <1>4, RedeemNewStep
<1> QED
  BY <1>2, <1>3, <1>4 DEF Redeem

-----------------------------------------------------------------------------
LEMMA LinkStep ==
  ASSUME Inv, NEW p \in Persons, NEW c \in codes, LinkProvider(p, c)
  PROVE  Inv'
<1>0. IdentitiesTypeOK
  BY DEF Inv
<1>1. codes' = codes \ {c} /\ UNCHANGED <<person, proven, first, astray>>
  BY DEF LinkProvider
<1>2. CASE Known(c) # {}
  BY <1>1, <1>2, RefusedStep DEF LinkProvider
<1>3. CASE Known(c) = {}
  <2>1. /\ owner' = [owner EXCEPT ![c.subject] = p] /\ chosen' = chosen \cup {c.subject}
        /\ c.subject \in Identities /\ owner[c.subject] = NoPerson
        /\ owner \in [Identities -> Persons \cup {NoPerson}]
    BY <1>0, <1>3, KnownIsOwner, CodeFields DEF LinkProvider, IdentitiesTypeOK
  <2>2. LinkedByProof' /\ \A q \in Persons : Rows(q) \subseteq Rows(q)'
    BY <1>1, <2>1, OneOwned
  <2>3. Addressed' /\ VerifiedWasProven' /\ WayInRemains'
    BY <1>1, <2>2, NoAccount
  <2>4. FirstIsOwner' /\ IdentityKeepsItsPerson'
    BY <1>1, <2>1, NobodySignedIn
  <2>5. CodesRepeatProofs'
    BY <1>1, NothingWritten
  <2>6. IdentitiesTypeOK'
    BY <1>0, <1>1, <2>1 DEF IdentitiesTypeOK, Identities
  <2> QED
    BY <2>2, <2>3, <2>4, <2>5, <2>6 DEF Inv
<1> QED
  BY <1>2, <1>3

(* unlink_identity asks for another way in, so something is always left.   *)
LEMMA UnlinkStep ==
  ASSUME Inv, NEW p \in Persons, NEW i \in Identities, UnlinkProvider(p, i)
  PROVE  Inv'
<1>0. IdentitiesTypeOK
  BY DEF Inv
<1>1. /\ owner[i] = p /\ LeavesAnother(p) /\ owner' = [owner EXCEPT ![i] = NoPerson]
      /\ chosen' = chosen \ {i} /\ first' = [first EXCEPT ![i] = NoPerson]
      /\ UNCHANGED <<person, codes, proven, astray>>
  BY DEF UnlinkProvider
<1>2. \A j \in Identities : owner'[j] = IF j = i THEN NoPerson ELSE owner[j]
  BY <1>0, <1>1 DEF IdentitiesTypeOK
<1>3. \A q \in Persons : Rows(q)' = Rows(q) \ {i}
  BY <1>2 DEF Rows, Identities
<1>4. IdentitiesTypeOK'
  BY <1>0, <1>1 DEF IdentitiesTypeOK
<1>5. CodesRepeatProofs' /\ Addressed' /\ VerifiedWasProven' /\ IdentityKeepsItsPerson'
  BY <1>1 DEF Inv, CodesRepeatProofs, Addressed, VerifiedWasProven, IdentityKeepsItsPerson, Here
<1>6. LinkedByProof'
  <2> SUFFICES ASSUME NEW s \in Subjects, s \notin chosen', owner'[s] # NoPerson
               PROVE  \E e \in Addresses : <<owner'[s], e>> \in proven'
    BY DEF LinkedByProof
  <2>1. s \in Identities /\ s # i /\ owner'[s] = owner[s] /\ s \notin chosen
    BY <1>1, <1>2 DEF Identities
  <2> QED
    BY <1>1, <2>1 DEF Inv, LinkedByProof
<1>7. FirstIsOwner'
  <2> SUFFICES ASSUME NEW j \in Identities
               PROVE  first'[j] \in {owner'[j], NoPerson}
    BY DEF FirstIsOwner
  <2>1. CASE j = i
    BY <1>0, <1>1, <2>1 DEF IdentitiesTypeOK
  <2>2. CASE j # i
    BY <1>0, <1>1, <2>2 DEF IdentitiesTypeOK, Inv, FirstIsOwner
  <2> QED
    BY <2>1, <2>2
<1>8. WayInRemains'
  <2> SUFFICES ASSUME NEW q \in Persons, person[q].here
               PROVE  person[q].password \/ person[q].verified \/ Rows(q)' # {}
    BY <1>1 DEF WayInRemains, Here
  <2>1. person[q].password \/ person[q].verified \/ Rows(q) # {}
    BY DEF Inv, WayInRemains, Here
  <2>2. CASE q # p
    <3>1. i \notin Rows(q)
      BY <1>1, <2>2 DEF Rows
    <3> QED
      BY <1>3, <2>1, <3>1
  <2>3. CASE q = p /\ ~person[p].password
    <3>1. Cardinality(Rows(p)) - 1 > 0
      BY <1>1, <2>3 DEF LeavesAnother
    <3>2. Rows(p) # {i}
      <4>1. Cardinality({i}) = 1
        BY FS_Singleton
      <4> QED
        BY <3>1, <4>1
    <3>3. i \in Rows(p)
      BY <1>1 DEF Rows
    <3> QED
      BY <1>3, <2>3, <3>2, <3>3
  <2> QED
    BY <2>2, <2>3
<1> QED
  BY <1>4, <1>5, <1>6, <1>7, <1>8 DEF Inv

(* A registration or a confirmation: an account changes, no identity does. *)
LEMMA AccountStep ==
  ASSUME Inv, NEW p \in Persons, NEW row \in Row,
         person' = [person EXCEPT ![p] = row], UNCHANGED <<owner, codes, chosen, first, astray>>,
         row.email \in Addresses, proven' \subseteq Persons \X Addresses, proven \subseteq proven',
         row.verified = TRUE => <<p, row.email>> \in proven',
         row.password = TRUE \/ row.verified = TRUE
  PROVE  Inv'
<1>0. IdentitiesTypeOK
  BY DEF Inv
<1>1. LinkedByProof' /\ \A q \in Persons : Rows(q) \subseteq Rows(q)'
  BY NoneOwned
<1>2. Addressed' /\ VerifiedWasProven' /\ WayInRemains'
  <2>1. row.verified \in BOOLEAN
    BY DEF Row
  <2>2. /\ row.here => row.email \in Addresses
        /\ (row.here /\ row.verified) => <<p, row.email>> \in proven'
        /\ row.here => row.password \/ row.verified \/ Rows(p)' # {}
    BY <2>1
  <2> QED
    BY <1>1, <2>2, OneAccount
<1>3. FirstIsOwner' /\ IdentityKeepsItsPerson'
  BY NobodySignedIn
<1>4. CodesRepeatProofs'
  BY NothingWritten
<1>5. IdentitiesTypeOK'
  BY <1>0 DEF IdentitiesTypeOK
<1> QED
  BY <1>1, <1>2, <1>3, <1>4, <1>5 DEF Inv

(* The row create_user_with_password writes, and what it proves.           *)
LEMMA CreatesRow ==
  ASSUME Inv, NEW p \in Persons, NEW e \in Addresses, NEW required \in BOOLEAN,
         Creates(p, e, required)
  PROVE  \E row \in Row :
           /\ person' = [person EXCEPT ![p] = row]
           /\ row.here = TRUE /\ row.email = e /\ row.password = TRUE
           /\ proven \subseteq proven' /\ proven' \subseteq Persons \X Addresses
           /\ row.verified = TRUE => <<p, row.email>> \in proven'
<1>1. PICK row \in Row :
        row = [here |-> TRUE, email |-> e, verified |-> ~required, password |-> TRUE]
  <2>1. (~required) \in BOOLEAN
    OBVIOUS
  <2>2. [here |-> TRUE, email |-> e, verified |-> ~required, password |-> TRUE] \in Row
    BY <2>1, Zenon DEF Row
  <2> QED
    BY <2>2
<1>2. /\ person' = [person EXCEPT ![p] = row]
      /\ proven' = IF required THEN proven ELSE proven \cup {<<p, e>>}
  BY <1>1 DEF Creates
<1>3. /\ row.here = TRUE /\ row.email = e /\ row.password = TRUE
      /\ row.verified = TRUE => ~required
  BY <1>1
<1>4. /\ proven \subseteq proven' /\ proven' \subseteq Persons \X Addresses
      /\ row.verified = TRUE => <<p, row.email>> \in proven'
  BY <1>2, <1>3 DEF Inv, IdentitiesTypeOK
<1> QED
  BY <1>2, <1>3, <1>4

LEMMA RegisterStep ==
  ASSUME Inv, NEW p \in Persons, NEW e \in Addresses, NEW required \in BOOLEAN,
         Register(p, e, required)
  PROVE  Inv'
<1>1. Creates(p, e, required) /\ UNCHANGED <<owner, codes, chosen, first, astray>>
  BY DEF Register
<1>2. PICK row \in Row :
        /\ person' = [person EXCEPT ![p] = row]
        /\ row.here = TRUE /\ row.email = e /\ row.password = TRUE
        /\ proven \subseteq proven' /\ proven' \subseteq Persons \X Addresses
        /\ row.verified = TRUE => <<p, row.email>> \in proven'
  BY <1>1, CreatesRow
<1> QED
  BY <1>1, <1>2, AccountStep

LEMMA LocalRegisterStep ==
  ASSUME Inv, NEW p \in Persons, NEW e \in Addresses, LocalRegister(p, e)
  PROVE  Inv'
<1>1. Creates(p, e, FALSE) /\ CompleteLocalSignin(p, person'[p]) /\ person \in [Persons -> Row]
  BY DEF LocalRegister, Inv, IdentitiesTypeOK
<1>2. PICK row \in Row :
        /\ person' = [person EXCEPT ![p] = row]
        /\ row.here = TRUE /\ row.email = e /\ row.password = TRUE
        /\ proven \subseteq proven' /\ proven' \subseteq Persons \X Addresses
        /\ row.verified = TRUE => <<p, row.email>> \in proven'
  BY <1>1, CreatesRow
<1>3. CompleteLocalSignin(p, row)
  BY <1>1, <1>2
<1> QED
  BY <1>2, <1>3, CompletesLocal

LEMMA ConfirmStep ==
  ASSUME Inv, NEW p \in Persons, NEW keeps \in BOOLEAN, Confirm(p, keeps)
  PROVE  Inv'
<1>0. person \in [Persons -> Row] /\ proven \subseteq Persons \X Addresses
  BY DEF Inv, IdentitiesTypeOK
<1>1. PICK row \in Row : row = [person[p] EXCEPT !.verified = TRUE, !.password = keeps]
  BY <1>0 DEF Row
<1>2. /\ person' = [person EXCEPT ![p] = row] /\ UNCHANGED <<owner, codes, chosen, first, astray>>
      /\ proven' = proven \cup {<<p, person[p].email>>} /\ Here(p)
  BY <1>0, <1>1 DEF Confirm
<1>3. row.email = person[p].email /\ row.verified = TRUE
  BY <1>0, <1>1 DEF Row
<1>4. person[p].email \in Addresses
  BY <1>2 DEF Inv, Addressed
<1>5. /\ proven \subseteq proven' /\ proven' \subseteq Persons \X Addresses
      /\ <<p, row.email>> \in proven'
  BY <1>0, <1>2, <1>3, <1>4
<1> QED
  BY <1>2, <1>3, <1>4, <1>5, AccountStep

-----------------------------------------------------------------------------
LEMMA Initially == IdentitiesInit => Inv
<1> SUFFICES ASSUME IdentitiesInit PROVE Inv
  OBVIOUS
<1>1. IdentitiesTypeOK
  BY DEF IdentitiesInit, IdentitiesTypeOK, NoRow, Row
<1>2. /\ Addressed /\ CodesRepeatProofs /\ FirstIsOwner /\ VerifiedWasProven
      /\ IdentityKeepsItsPerson /\ WayInRemains
  BY DEF IdentitiesInit, NoRow, Addressed, CodesRepeatProofs, FirstIsOwner, VerifiedWasProven,
         IdentityKeepsItsPerson, WayInRemains, Here
<1>3. LinkedByProof
  BY DEF IdentitiesInit, LinkedByProof, Identities
<1> QED
  BY <1>1, <1>2, <1>3 DEF Inv

LEMMA Stutters ==
  ASSUME Inv, UNCHANGED identityVars
  PROVE  Inv'
<1>1. LinkedByProof' /\ \A q \in Persons : Rows(q) \subseteq Rows(q)'
  BY NoneOwned DEF identityVars
<1>2. Addressed' /\ VerifiedWasProven' /\ WayInRemains'
  BY <1>1, NoAccount DEF identityVars
<1>3. FirstIsOwner' /\ IdentityKeepsItsPerson'
  BY NobodySignedIn DEF identityVars
<1>4. IdentitiesTypeOK' /\ CodesRepeatProofs'
  BY DEF identityVars, Inv, IdentitiesTypeOK, CodesRepeatProofs
<1> QED
  BY <1>1, <1>2, <1>3, <1>4 DEF Inv

LEMMA Steps == Inv /\ [Resolution]_identityVars => Inv'
<1> SUFFICES ASSUME Inv, [Resolution]_identityVars PROVE Inv'
  OBVIOUS
<1>1. CASE \E s \in Subjects, e \in Addresses, vouched \in BOOLEAN : Callback(s, e, vouched)
  BY <1>1, CallbackStep
<1>2. CASE \E c \in codes : Redeem(c)
  BY <1>2, RedeemStep
<1>3. CASE \E p \in Persons : LocalPassword(p) \/ LocalOtp(p)
  BY <1>3, LocalPasswordStep, LocalOtpStep
<1>4. CASE \E p \in Persons : \E c \in codes : LinkProvider(p, c)
  BY <1>4, LinkStep
<1>5. CASE \E p \in Persons : \E i \in Identities : UnlinkProvider(p, i)
  BY <1>5, UnlinkStep
<1>6. CASE \E p \in Persons : \E e \in Addresses, required \in BOOLEAN : Register(p, e, required)
  BY <1>6, RegisterStep
<1>7. CASE \E p \in Persons : \E keeps \in BOOLEAN : Confirm(p, keeps)
  BY <1>7, ConfirmStep
<1>8. CASE \E p \in Persons : \E e \in Addresses : LocalRegister(p, e)
  BY <1>8, LocalRegisterStep
<1>9. CASE UNCHANGED identityVars
  BY <1>9, Stutters
<1> QED
  BY <1>1, <1>2, <1>3, <1>4, <1>5, <1>6, <1>7, <1>8, <1>9 DEF Resolution

-----------------------------------------------------------------------------
(* The invariant the four properties below are part of.                    *)
THEOREM Invariant == IdentitiesSpec => []Inv
BY Initially, Steps, PTL DEF IdentitiesSpec

(* get_or_create_user_by_oidc_identity, and what else writes               *)
(* email_verified of persons: a confirmed address was proven for the       *)
(* account, whatever changed between a code and its redemption.            *)
THEOREM ConfirmedWasProven == IdentitiesSpec => []VerifiedWasProven
<1>1. Inv => VerifiedWasProven
  BY DEF Inv
<1> QED
  BY <1>1, Invariant, PTL

(* get_or_create_user_by_oidc_identity links by address only where both    *)
(* sides proved it.                                                        *)
THEOREM LinksAreProven == IdentitiesSpec => []LinkedByProof
<1>1. Inv => LinkedByProof
  BY DEF Inv
<1> QED
  BY <1>1, Invariant, PTL

(* person_identities is the durable key: an identity signs in as one       *)
(* person until it is unlinked.                                            *)
THEOREM IdentityIsDurable == IdentitiesSpec => []IdentityKeepsItsPerson
<1>1. Inv => IdentityKeepsItsPerson
  BY DEF Inv
<1> QED
  BY <1>1, Invariant, PTL

(* unlink_identity and a provider's change of address leave a way in.      *)
THEOREM NobodyIsLockedOut == IdentitiesSpec => []WayInRemains
<1>1. Inv => WayInRemains
  BY DEF Inv
<1> QED
  BY <1>1, Invariant, PTL

-----------------------------------------------------------------------------
(* The codes themselves, for any clients, providers, verifiers, number of  *)
(* legs, lifetime and size of the caches. A leg's method is the one its    *)
(* proof will be given by; a code spent, or not yet written, is in no      *)
(* cache.                                                                  *)
LegsSound == \A r \in Requests : leg[r] # Idle => (leg[r].via = Local <=> leg[r].kind = "local")
SpentAreGone ==
  \A c \in Codes : /\ redeemed[c] \in {0, 1}
                   /\ c \in DOMAIN live \/ c > written => redeemed[c] = 0
PendingSound ==
  /\ DOMAIN pending \subseteq 1..started
  /\ pending \in [DOMAIN pending -> Request]
  /\ Cardinality(DOMAIN pending) <= MaxItems + 1
LiveSound ==
  /\ DOMAIN live \subseteq 1..written
  /\ live \in [DOMAIN live -> Grant]
  /\ Cardinality(DOMAIN live) <= MaxItems + 1
CountersSound ==
  now \in 0..MaxTime /\ started \in 0..MaxStarts /\ written \in 0..MaxWritten
AnswerSound == answer.kind \in {"none", "tokens", "linked", "not admitted", "server error"}
CodesInv ==
  /\ CountersSound /\ PendingSound /\ LiveSound /\ AnswerSound
  /\ leg \in [Requests -> {Idle} \cup Leg] /\ redeemed \in [Codes -> Nat]
  /\ LegsSound /\ SpentAreGone /\ MethodIsTheProof

(* A set of naturals that is not empty has a least element.                *)
LEMMA LeastNatural ==
  ASSUME NEW T \in SUBSET Nat, T # {}
  PROVE  \E x \in T : \A y \in T : x <= y
<1> DEFINE R == OpToRel(<, Nat)
<1>1. IsWellFoundedOn(R, Nat)
  BY NatLessThanWellFounded
<1>2. \A x, y \in Nat : <<y, x>> \in R <=> y < x
  BY DEF OpToRel
<1> HIDE DEF R
<1>3. PICK x \in T : \A y \in T : ~(<<y, x>> \in R)
  BY <1>1, WFMin
<1>4. x \in Nat /\ \A y \in T : y \in Nat
  OBVIOUS
<1>5. \A y \in T : ~(y < x)
  BY <1>2, <1>3, <1>4
<1>6. \A y \in T : x <= y
  BY <1>4, <1>5
<1> QED
  BY <1>6

(* f holds some of what g holds.                                           *)
Shrunk(f, g) == DOMAIN f \subseteq DOMAIN g /\ f = [x \in DOMAIN f |-> g[x]]

LEMMA ShrunkTwice ==
  ASSUME NEW f, NEW g, NEW h, Shrunk(f, g), Shrunk(g, h)
  PROVE  Shrunk(f, h)
<1>1. \A x \in DOMAIN f : x \in DOMAIN g /\ x \in DOMAIN h /\ f[x] = g[x] /\ g[x] = h[x]
  BY DEF Shrunk
<1>2. [x \in DOMAIN f |-> g[x]] = [x \in DOMAIN f |-> h[x]]
  BY <1>1
<1> QED
  BY <1>1, <1>2 DEF Shrunk

(* _prune_auth_cache and pop only take away.                               *)
LEMMA PruneShrinks == ASSUME NEW f PROVE Shrunk(Prune(f), f)
BY DEF Shrunk, Prune, Restrict

LEMMA DropShrinks == ASSUME NEW f, NEW x PROVE Shrunk(Drop(f, x), f) /\ x \notin DOMAIN Drop(f, x)
BY DEF Shrunk, Drop, Restrict

(* _prune_auth_cache leaves at most MaxItems entries.                      *)
LEMMA PruneBounds ==
  ASSUME NEW f, NEW n \in Nat, DOMAIN f \subseteq 1..n
  PROVE  IsFiniteSet(DOMAIN Prune(f)) /\ Cardinality(DOMAIN Prune(f)) <= MaxItems
<1> DEFINE kept == {x \in DOMAIN f : Fresh(f[x].at)}
           D == {x \in kept : Cardinality({y \in kept : y >= x}) <= MaxItems}
<1>1. DOMAIN Prune(f) = D
  BY DEF Prune, Restrict
<1>2. IsFiniteSet(1..n)
  BY FS_Interval
<1>3. kept \in SUBSET (1..n) /\ D \in SUBSET (1..n) /\ D \in SUBSET Nat
  OBVIOUS
<1>4. IsFiniteSet(D) /\ IsFiniteSet(kept)
  BY <1>2, <1>3, FS_Subset
<1> HIDE DEF kept
<1>5. CASE D = {}
  <2>1. Cardinality({}) = 0 /\ MaxItems \in Nat /\ 0 <= MaxItems
    BY FS_EmptySet, NumbersAssumption
  <2>2. DOMAIN Prune(f) = {}
    BY <1>1, <1>5
  <2>3. Cardinality(DOMAIN Prune(f)) = 0 /\ IsFiniteSet(DOMAIN Prune(f))
    BY <2>1, <2>2, FS_EmptySet
  <2> QED
    BY <2>1, <2>3
<1>6. CASE D # {}
  <2>1. PICK x \in D : \A y \in D : x <= y
    BY <1>3, <1>6, LeastNatural
  <2> DEFINE above == {y \in kept : y >= x}
  <2>2. D \in SUBSET above /\ above \in SUBSET kept
    BY <1>3, <2>1
  <2>3. IsFiniteSet(above)
    BY <1>4, <2>2, FS_Subset
  <2>4. Cardinality(D) <= Cardinality(above)
    BY <2>2, <2>3, FS_Subset
  <2>5. Cardinality(above) <= MaxItems
    BY <2>1
  <2>6. Cardinality(D) \in Nat /\ Cardinality(above) \in Nat /\ MaxItems \in Nat
    BY <1>4, <2>3, FS_CardinalityType, NumbersAssumption
  <2> QED
    BY <1>1, <1>4, <2>4, <2>5, <2>6
<1> QED
  BY <1>5, <1>6

LEMMA PutAdds ==
  ASSUME NEW f, NEW S, NEW x, NEW v \in S, f \in [DOMAIN f -> S], IsFiniteSet(DOMAIN f)
  PROVE  /\ DOMAIN Put(f, x, v) = DOMAIN f \cup {x}
         /\ Put(f, x, v) \in [DOMAIN Put(f, x, v) -> S]
         /\ Put(f, x, v)[x] = v
         /\ \A y \in DOMAIN f : y # x => Put(f, x, v)[y] = f[y]
         /\ IsFiniteSet(DOMAIN Put(f, x, v))
         /\ Cardinality(DOMAIN Put(f, x, v)) <= Cardinality(DOMAIN f) + 1
<1>1. /\ DOMAIN Put(f, x, v) = DOMAIN f \cup {x}
      /\ Put(f, x, v) \in [DOMAIN Put(f, x, v) -> S]
      /\ Put(f, x, v)[x] = v
      /\ \A y \in DOMAIN f : y # x => Put(f, x, v)[y] = f[y]
  BY DEF Put
<1>2. /\ IsFiniteSet(DOMAIN f \cup {x}) /\ Cardinality(DOMAIN f) \in Nat
      /\ Cardinality(DOMAIN f \cup {x}) = IF x \in DOMAIN f THEN Cardinality(DOMAIN f)
                                          ELSE Cardinality(DOMAIN f) + 1
  BY FS_AddElement, FS_CardinalityType
<1> QED
  BY <1>1, <1>2

LEMMA ShrunkBounds ==
  ASSUME NEW f, NEW g, NEW S, Shrunk(f, g), g \in [DOMAIN g -> S], IsFiniteSet(DOMAIN g)
  PROVE  /\ f \in [DOMAIN f -> S] /\ IsFiniteSet(DOMAIN f)
         /\ Cardinality(DOMAIN f) <= Cardinality(DOMAIN g)
<1>1. f \in [DOMAIN f -> S] /\ DOMAIN f \in SUBSET DOMAIN g
  BY DEF Shrunk
<1> QED
  BY <1>1, FS_Subset

-----------------------------------------------------------------------------
(* What a step does to each cache keeps what that cache promises.          *)

LEMMA CountersAreNaturals ==
  ASSUME CodesInv
  PROVE  /\ now \in Nat /\ started \in Nat /\ written \in Nat /\ MaxItems \in Nat
         /\ IsFiniteSet(DOMAIN pending) /\ Cardinality(DOMAIN pending) \in Nat
         /\ IsFiniteSet(DOMAIN live) /\ Cardinality(DOMAIN live) \in Nat
<1>1. now \in Nat /\ started \in Nat /\ written \in Nat /\ MaxItems \in Nat
  BY NumbersAssumption DEF CodesInv, CountersSound
<1>2. IsFiniteSet(1..started) /\ IsFiniteSet(1..written)
  BY <1>1, FS_Interval
<1>3. DOMAIN pending \in SUBSET (1..started) /\ DOMAIN live \in SUBSET (1..written)
  BY DEF CodesInv, PendingSound, LiveSound
<1>4. IsFiniteSet(DOMAIN pending) /\ IsFiniteSet(DOMAIN live)
  BY <1>2, <1>3, FS_Subset
<1> QED
  BY <1>1, <1>4, FS_CardinalityType

LEMMA PendingShrinks ==
  ASSUME CodesInv, Shrunk(pending', pending), started' = started
  PROVE  PendingSound'
<1>1. PICK f : f = pending'
  OBVIOUS
<1>2. /\ f \in [DOMAIN f -> Request] /\ IsFiniteSet(DOMAIN f)
      /\ Cardinality(DOMAIN f) <= Cardinality(DOMAIN pending)
  BY <1>1, CountersAreNaturals, ShrunkBounds DEF CodesInv, PendingSound
<1>3. DOMAIN f \subseteq 1..started /\ Cardinality(DOMAIN f) \in Nat
  BY <1>1, <1>2, FS_CardinalityType DEF CodesInv, PendingSound, Shrunk
<1> QED
  BY <1>1, <1>2, <1>3, CountersAreNaturals DEF CodesInv, PendingSound

LEMMA LiveShrinks ==
  ASSUME CodesInv, Shrunk(live', live), written' = written
  PROVE  LiveSound' /\ MethodIsTheProof'
<1>1. PICK f : f = live'
  OBVIOUS
<1>2. /\ f \in [DOMAIN f -> Grant] /\ IsFiniteSet(DOMAIN f)
      /\ Cardinality(DOMAIN f) <= Cardinality(DOMAIN live)
  BY <1>1, CountersAreNaturals, ShrunkBounds DEF CodesInv, LiveSound
<1>3. DOMAIN f \subseteq 1..written /\ Cardinality(DOMAIN f) \in Nat
  BY <1>1, <1>2, FS_CardinalityType DEF CodesInv, LiveSound, Shrunk
<1>4. LiveSound'
  BY <1>1, <1>2, <1>3, CountersAreNaturals DEF CodesInv, LiveSound
<1>5. \A c \in DOMAIN f : c \in DOMAIN live /\ f[c] = live[c]
  BY <1>1 DEF Shrunk
<1>6. MethodIsTheProof'
  BY <1>1, <1>5 DEF CodesInv, MethodIsTheProof
<1> QED
  BY <1>4, <1>6

LEMMA SpentStayGone ==
  ASSUME CodesInv, Shrunk(live', live), written' = written, redeemed' = redeemed
  PROVE  SpentAreGone'
BY DEF CodesInv, SpentAreGone, Shrunk

(* A code is spent: out of the cache, and counted once.                    *)
LEMMA SpendingCounts ==
  ASSUME CodesInv, NEW c \in Codes, c \in DOMAIN live, c \notin DOMAIN live',
         Shrunk(live', live), written' = written, redeemed' = [redeemed EXCEPT ![c] = @ + 1]
  PROVE  SpentAreGone' /\ redeemed' \in [Codes -> Nat]
<1>1. redeemed[c] = 0 /\ c \in 1..written /\ written \in Nat
  BY CountersAreNaturals DEF CodesInv, SpentAreGone, LiveSound
<1>2. redeemed' \in [Codes -> Nat] /\ redeemed'[c] = 1
      /\ \A d \in Codes : d # c => redeemed'[d] = redeemed[d]
  BY <1>1 DEF CodesInv
<1>3. \A d \in DOMAIN live' : d \in DOMAIN live
  BY DEF Shrunk
<1> QED
  BY <1>1, <1>2, <1>3 DEF CodesInv, SpentAreGone

LEMMA LegFields ==
  ASSUME CodesInv, NEW r \in Requests, leg[r] # Idle
  PROVE  /\ leg[r].kind \in {"local", "callback"} /\ leg[r].via \in Methods
         /\ leg[r].client \in Clients /\ leg[r].challenge \in Challenges
         /\ (leg[r].via = Local <=> leg[r].kind = "local")
BY DEF CodesInv, LegsSound, Leg

(* A leg writes a code.                                                    *)
LEMMA CodeIsWritten ==
  ASSUME CodesInv, NEW r \in Requests, leg[r] # Idle, written < MaxWritten,
         Shrunk(live', Put(Prune(live), NewCode, CodeOf(r))),
         Cardinality(DOMAIN live') <= MaxItems + 1,
         written' = NewCode, redeemed' = redeemed
  PROVE  LiveSound' /\ MethodIsTheProof' /\ SpentAreGone'
<1>1. PICK n, g, k, p : n = written + 1 /\ g = CodeOf(r) /\ p = Prune(live) /\ k = live'
  OBVIOUS
<1>2. g \in Grant /\ (g.via = Local <=> g.proof = "local")
  <2>1. /\ leg[r].client \in Clients /\ leg[r].challenge \in Challenges /\ Via(r) \in Methods
        /\ leg[r].kind \in {"local", "callback"} /\ now \in 0..MaxTime
    BY LegFields DEF Via, CodesInv, CountersSound
  <2> QED
    BY <1>1, <2>1, LegFields DEF CodeOf, Grant, Via
<1>3. /\ Shrunk(p, live) /\ p \in [DOMAIN p -> Grant] /\ IsFiniteSet(DOMAIN p)
      /\ DOMAIN p \subseteq 1..written
  BY <1>1, PruneShrinks, ShrunkBounds, CountersAreNaturals DEF CodesInv, LiveSound, Shrunk
<1>4. /\ DOMAIN Put(p, n, g) = DOMAIN p \cup {n}
      /\ Put(p, n, g) \in [DOMAIN Put(p, n, g) -> Grant]
      /\ Put(p, n, g)[n] = g
      /\ \A y \in DOMAIN p : y # n => Put(p, n, g)[y] = p[y]
      /\ IsFiniteSet(DOMAIN Put(p, n, g))
  <2>1. /\ DOMAIN Put(p, n, g) = DOMAIN p \cup {n}
        /\ Put(p, n, g)[n] = g
        /\ \A y \in DOMAIN p : y # n => Put(p, n, g)[y] = p[y]
    BY DEF Put
  <2>2. /\ Put(p, n, g) \in [DOMAIN Put(p, n, g) -> Grant]
        /\ IsFiniteSet(DOMAIN Put(p, n, g))
    BY <1>2, <1>3, PutAdds
  <2> QED
    BY <2>1, <2>2
<1>5. Shrunk(k, Put(p, n, g))
  BY <1>1 DEF NewCode
<1>6. k \in [DOMAIN k -> Grant] /\ \A c \in DOMAIN k : c \in DOMAIN p \cup {n}
  BY <1>4, <1>5, ShrunkBounds DEF Shrunk
<1>7. \A c \in DOMAIN k : k[c] = g \/ (c \in DOMAIN live /\ k[c] = live[c])
  BY <1>3, <1>4, <1>5 DEF Shrunk
<1>8. written \in Nat /\ written' = n /\ n \in Nat /\ n = written + 1
  BY <1>1, CountersAreNaturals DEF NewCode
<1>9. LiveSound'
  BY <1>1, <1>3, <1>6, <1>8 DEF LiveSound
<1>10. MethodIsTheProof'
  BY <1>1, <1>2, <1>7 DEF CodesInv, MethodIsTheProof
<1>11. SpentAreGone'
  <2>1. \A c \in Codes : c \in DOMAIN k => c \in DOMAIN live \/ c = n
    BY <1>3, <1>6 DEF Shrunk
  <2>2. \A c \in Codes : c \in Nat /\ (c = n \/ c > n => c > written)
    BY <1>8, NumbersAssumption DEF Codes
  <2>3. \A c \in Codes : redeemed[c] \in {0, 1}
                           /\ (c \in DOMAIN k \/ c > n => redeemed[c] = 0)
    BY <2>1, <2>2 DEF CodesInv, SpentAreGone
  <2> QED
    BY <1>1, <1>8, <2>3 DEF SpentAreGone
<1> QED
  BY <1>9, <1>10, <1>11

-----------------------------------------------------------------------------
(* One lemma per action.                                                   *)

LEMMA ReflexiveShrunk ==
  ASSUME CodesInv
  PROVE  Shrunk(pending, pending) /\ Shrunk(live, live)
BY DEF CodesInv, PendingSound, LiveSound, Shrunk

LEMMA AuthorizeStep ==
  ASSUME CodesInv, NEW cl \in Clients, NEW ch \in Challenges, NEW prov \in Methods,
         Authorize(cl, ch, prov)
  PROVE  CodesInv'
<1>1. PICK n, p, q : /\ n = started + 1 /\ p = Prune(pending)
                     /\ q = [client |-> cl, challenge |-> ch, provider |-> prov, at |-> now]
  OBVIOUS
<1>2. /\ started' = n /\ pending' = Put(p, n, q) /\ live' = Prune(live)
      /\ answer' = Silent /\ started < MaxStarts
      /\ UNCHANGED <<now, written, leg, redeemed>>
  BY <1>1 DEF Authorize
<1>3. q \in Request
  BY <1>1 DEF Request, CodesInv, CountersSound
<1>4. p \in [DOMAIN p -> Request] /\ IsFiniteSet(DOMAIN p) /\ DOMAIN p \subseteq 1..started
  BY <1>1, PruneShrinks, ShrunkBounds, CountersAreNaturals DEF CodesInv, PendingSound, Shrunk
<1>5. Cardinality(DOMAIN p) <= MaxItems /\ Cardinality(DOMAIN p) \in Nat
  BY <1>1, <1>4, PruneBounds, CountersAreNaturals, FS_CardinalityType DEF CodesInv, PendingSound
<1>6. /\ DOMAIN Put(p, n, q) = DOMAIN p \cup {n}
      /\ Put(p, n, q) \in [DOMAIN Put(p, n, q) -> Request]
      /\ IsFiniteSet(DOMAIN Put(p, n, q))
      /\ Cardinality(DOMAIN Put(p, n, q)) <= Cardinality(DOMAIN p) + 1
  BY <1>3, <1>4, PutAdds
<1>7. n \in Nat /\ started \in Nat /\ MaxStarts \in Nat /\ MaxItems \in Nat
      /\ Cardinality(DOMAIN Put(p, n, q)) \in Nat
  BY <1>1, <1>6, CountersAreNaturals, NumbersAssumption, FS_CardinalityType
<1>8. PendingSound'
  BY <1>1, <1>2, <1>4, <1>5, <1>6, <1>7 DEF PendingSound
<1>9. LiveSound' /\ MethodIsTheProof' /\ SpentAreGone'
  BY <1>2, PruneShrinks, LiveShrinks, SpentStayGone
<1>10. AnswerSound'
  BY <1>2 DEF AnswerSound, Silent
<1>11. CountersSound'
  <2>1. n \in 0..MaxStarts
    BY <1>1, <1>2, <1>7
  <2> QED
    BY <1>2, <2>1 DEF CodesInv, CountersSound
<1> QED
  BY <1>2, <1>8, <1>9, <1>10, <1>11 DEF CodesInv, LegsSound

LEMMA FederateStep ==
  ASSUME CodesInv, NEW h \in Handles, NEW prov \in Providers, Federate(h, prov)
  PROVE  CodesInv'
<1>1. /\ h \in DOMAIN pending /\ pending' = [pending EXCEPT ![h].provider = prov]
      /\ answer' = Silent /\ UNCHANGED <<now, started, written, live, leg, redeemed>>
  BY DEF Federate
<1>2. pending[h] \in Request /\ prov \in Methods
  BY <1>1 DEF CodesInv, PendingSound, Methods
<1>3. [pending[h] EXCEPT !.provider = prov] \in Request
  BY <1>2 DEF Request
<1>4. PendingSound'
  BY <1>1, <1>3 DEF CodesInv, PendingSound
<1> QED
  BY <1>1, <1>4 DEF CodesInv, CountersSound, LiveSound, AnswerSound, Silent, LegsSound,
                    SpentAreGone, MethodIsTheProof

LEMMA BeginStep ==
  ASSUME CodesInv, NEW r \in Requests, NEW h \in Handles,
         LocalBegin(r, h) \/ CallbackBegin(r, h)
  PROVE  CodesInv'
<1>1. PICK kind \in {"local", "callback"} :
        /\ h \in DOMAIN pending /\ leg' = [leg EXCEPT ![r] = LegOf(kind, h)]
        /\ (pending[h].provider = Local <=> kind = "local")
        /\ answer' = Silent /\ UNCHANGED <<now, started, pending, written, live, redeemed>>
  BY DEF LocalBegin, CallbackBegin
<1>2. PICK l : l = LegOf(kind, h)
  OBVIOUS
<1>3. pending[h] \in Request
  BY <1>1 DEF CodesInv, PendingSound
<1>4. l \in Leg /\ (l.via = Local <=> l.kind = "local")
  BY <1>1, <1>2, <1>3 DEF LegOf, Leg, Request
<1>5. leg' \in [Requests -> {Idle} \cup Leg] /\ LegsSound'
  BY <1>1, <1>2, <1>4 DEF CodesInv, LegsSound
<1> QED
  BY <1>1, <1>5 DEF CodesInv, CountersSound, PendingSound, LiveSound, AnswerSound, Silent,
                    SpentAreGone, MethodIsTheProof

LEMMA LegEnds ==
  ASSUME CodesInv, NEW r \in Requests, leg' = [leg EXCEPT ![r] = Idle]
  PROVE  leg' \in [Requests -> {Idle} \cup Leg] /\ LegsSound'
BY DEF CodesInv, LegsSound

LEMMA LocalEndStep ==
  ASSUME CodesInv, NEW r \in Requests, LocalEnd(r)
  PROVE  CodesInv'
<1>1. /\ leg[r] # Idle /\ written < MaxWritten
      /\ pending' = Prune(Drop(pending, leg[r].handle))
      /\ live' = Put(Prune(live), NewCode, CodeOf(r)) /\ written' = NewCode
      /\ leg' = [leg EXCEPT ![r] = Idle] /\ answer' = Silent
      /\ UNCHANGED <<now, started, redeemed>>
  BY DEF LocalEnd, Idle
<1>2. PendingSound'
  <2>1. Shrunk(pending', pending)
    BY <1>1, PruneShrinks, DropShrinks, ShrunkTwice
  <2> QED
    BY <1>1, <2>1, PendingShrinks
<1>3. Shrunk(live', Put(Prune(live), NewCode, CodeOf(r)))
  BY <1>1 DEF Shrunk, Put
<1>4. Cardinality(DOMAIN live') <= MaxItems + 1
  <2>1. PICK p, n, g, k : p = Prune(live) /\ n = NewCode /\ g = CodeOf(r) /\ k = live'
    OBVIOUS
  <2>2. p \in [DOMAIN p -> Grant] /\ IsFiniteSet(DOMAIN p)
    BY <2>1, PruneShrinks, ShrunkBounds, CountersAreNaturals DEF CodesInv, LiveSound
  <2>3. Cardinality(DOMAIN p) <= MaxItems /\ Cardinality(DOMAIN p) \in Nat
    BY <2>1, <2>2, PruneBounds, CountersAreNaturals, FS_CardinalityType DEF CodesInv, LiveSound
  <2>4. /\ IsFiniteSet(DOMAIN p \cup {n})
        /\ Cardinality(DOMAIN p \cup {n}) = IF n \in DOMAIN p THEN Cardinality(DOMAIN p)
                                            ELSE Cardinality(DOMAIN p) + 1
    BY <2>2, FS_AddElement
  <2>5. DOMAIN k = DOMAIN p \cup {n}
    BY <1>1, <2>1 DEF Put
  <2> QED
    BY <2>1, <2>3, <2>4, <2>5, CountersAreNaturals
<1>5. LiveSound' /\ MethodIsTheProof' /\ SpentAreGone'
  BY <1>1, <1>3, <1>4, CodeIsWritten
<1>6. AnswerSound'
  BY <1>1 DEF AnswerSound, Silent
<1>7. CountersSound'
  <2>1. NewCode \in 0..MaxWritten
    BY <1>1, CountersAreNaturals, NumbersAssumption DEF NewCode
  <2> QED
    BY <1>1, <2>1 DEF CodesInv, CountersSound
<1> QED
  BY <1>1, <1>2, <1>5, <1>6, <1>7, LegEnds DEF CodesInv

LEMMA CallbackEndStep ==
  ASSUME CodesInv, NEW r \in Requests, CallbackEnd(r)
  PROVE  CodesInv'
<1>1. /\ leg[r] # Idle /\ written < MaxWritten
      /\ pending' = Prune(pending)
      /\ live' = Prune(Put(Prune(live), NewCode, CodeOf(r))) /\ written' = NewCode
      /\ leg' = [leg EXCEPT ![r] = Idle] /\ answer' = Silent
      /\ UNCHANGED <<now, started, redeemed>>
  BY DEF CallbackEnd, Idle
<1>2. PendingSound'
  BY <1>1, PruneShrinks, PendingShrinks
<1>3. Shrunk(live', Put(Prune(live), NewCode, CodeOf(r)))
  BY <1>1, PruneShrinks
<1>4. Cardinality(DOMAIN live') <= MaxItems + 1
  <2>1. PICK p, n, f : p = Prune(live) /\ n = NewCode /\ f = Put(p, n, CodeOf(r))
    OBVIOUS
  <2>2. n \in Nat /\ DOMAIN p \subseteq 1..n
    BY <2>1, PruneShrinks, CountersAreNaturals DEF NewCode, Shrunk, CodesInv, LiveSound
  <2>3. DOMAIN f \subseteq 1..n
    <3>1. DOMAIN f = DOMAIN p \cup {n} /\ n > 0
      BY <2>1, CountersAreNaturals DEF Put, NewCode
    <3> QED
      BY <2>2, <3>1
  <2>4. PICK d : d = DOMAIN Prune(f)
    OBVIOUS
  <2>5. IsFiniteSet(d) /\ Cardinality(d) <= MaxItems
    BY <2>2, <2>3, <2>4, PruneBounds
  <2>6. DOMAIN live' = d
    BY <1>1, <2>1, <2>4
  <2> QED
    BY <2>5, <2>6, CountersAreNaturals, FS_CardinalityType
<1>5. LiveSound' /\ MethodIsTheProof' /\ SpentAreGone'
  BY <1>1, <1>3, <1>4, CodeIsWritten
<1>6. AnswerSound'
  BY <1>1 DEF AnswerSound, Silent
<1>7. CountersSound'
  <2>1. NewCode \in 0..MaxWritten
    BY <1>1, CountersAreNaturals, NumbersAssumption DEF NewCode
  <2> QED
    BY <1>1, <2>1 DEF CodesInv, CountersSound
<1> QED
  BY <1>1, <1>2, <1>5, <1>6, <1>7, LegEnds DEF CodesInv

(* /token and link_provider take from the cache, and count a code only as  *)
(* they take it.                                                           *)
LEMMA SpendStep ==
  ASSUME CodesInv, NEW c \in Codes, NEW cl \in Clients, NEW v \in Challenges,
         Exchange(c, cl, v) \/ Link(c, cl, v)
  PROVE  CodesInv'
<1>1. /\ c \in DOMAIN live /\ UNCHANGED <<now, started, written, leg>>
      /\ pending' = Prune(pending) \/ pending' = pending
  BY DEF Exchange, Link
<1>2. Shrunk(live', live)
  <2>1. PICK kept \in {Prune(live), live} :
          live' \in {OnRefusal(kept, c), Drop(kept, c), Spend(kept, c)}
    BY DEF Exchange, Link
  <2>2. Shrunk(kept, live) /\ Shrunk(Drop(kept, c), kept)
    BY PruneShrinks, ReflexiveShrunk, DropShrinks
  <2>3. Shrunk(Drop(kept, c), live)
    BY <2>2, ShrunkTwice
  <2> QED
    BY <2>1, <2>2, <2>3 DEF OnRefusal, Spend
<1>3. PendingSound' /\ LiveSound' /\ MethodIsTheProof'
  BY <1>1, <1>2, PendingShrinks, LiveShrinks, PruneShrinks, ReflexiveShrunk
<1>4. SpentAreGone' /\ redeemed' \in [Codes -> Nat]
  <2>1. CASE redeemed' = redeemed
    BY <1>1, <1>2, <2>1, SpentStayGone DEF CodesInv
  <2>2. CASE redeemed' = [redeemed EXCEPT ![c] = @ + 1] /\ c \notin DOMAIN live'
    BY <1>1, <1>2, <2>2, SpendingCounts
  <2>3. c \notin DOMAIN Spend(Prune(live), c) /\ c \notin DOMAIN Spend(live, c)
    BY DropShrinks DEF Spend
  <2> QED
    BY <2>1, <2>2, <2>3 DEF Exchange, Link
<1>5. CountersSound' /\ LegsSound' /\ leg' = leg
  BY <1>1 DEF CodesInv, CountersSound, LegsSound
<1>6. AnswerSound'
  <2>1. \/ answer' = Silent
        \/ \E kind \in {"not admitted", "server error"} : answer' = Failure(kind, c)
        \/ \E kind \in {"tokens", "linked"} : answer' = Grants(kind, c, cl, v)
    BY DEF Exchange, Link
  <2>2. CASE answer' = Silent
    BY <2>2 DEF Silent, AnswerSound
  <2>3. CASE \E kind \in {"not admitted", "server error"} : answer' = Failure(kind, c)
    <3>1. PICK kind \in {"not admitted", "server error"} : answer' = Failure(kind, c)
      BY <2>3
    <3>2. answer'.kind = kind
      BY <3>1 DEF Failure
    <3> QED
      BY <3>2 DEF AnswerSound
  <2>4. CASE \E kind \in {"tokens", "linked"} : answer' = Grants(kind, c, cl, v)
    <3>1. PICK kind \in {"tokens", "linked"} : answer' = Grants(kind, c, cl, v)
      BY <2>4
    <3>2. answer'.kind = kind
      BY <3>1 DEF Grants
    <3> QED
      BY <3>2 DEF AnswerSound
  <2> QED
    BY <2>1, <2>2, <2>3, <2>4
<1> QED
  BY <1>3, <1>4, <1>5, <1>6 DEF CodesInv

LEMMA RestartStep ==
  ASSUME CodesInv, Restart
  PROVE  CodesInv'
<1>1. /\ DOMAIN pending' = {} /\ DOMAIN live' = {}
      /\ leg' = [r \in Requests |-> Idle] /\ answer' = Silent
      /\ UNCHANGED <<now, started, written, redeemed>>
  BY DEF Restart, Nothing
<1>2. Shrunk(pending', pending) /\ Shrunk(live', live)
  BY DEF Restart, Nothing, Shrunk
<1>3. PendingSound' /\ LiveSound' /\ MethodIsTheProof' /\ SpentAreGone'
  BY <1>1, <1>2, PendingShrinks, LiveShrinks, SpentStayGone
<1>4. leg' \in [Requests -> {Idle} \cup Leg] /\ LegsSound'
  BY <1>1 DEF LegsSound
<1> QED
  BY <1>1, <1>3, <1>4 DEF CodesInv, CountersSound, AnswerSound, Silent

LEMMA CodesInitially == Init => CodesInv
<1> SUFFICES ASSUME Init PROVE CodesInv
  OBVIOUS
<1>1. /\ now = 0 /\ started = 0 /\ written = 0 /\ answer = Silent
      /\ DOMAIN pending = {} /\ DOMAIN live = {} /\ pending = Nothing /\ live = Nothing
      /\ leg = [r \in Requests |-> Idle] /\ redeemed = [c \in Codes |-> 0]
  BY DEF Init, Nothing
<1>2. Cardinality({}) = 0 /\ MaxItems \in Nat
  BY FS_EmptySet, NumbersAssumption
<1>3. pending \in [DOMAIN pending -> Request] /\ live \in [DOMAIN live -> Grant]
  BY <1>1 DEF Nothing
<1>4. PendingSound /\ LiveSound
  BY <1>1, <1>2, <1>3 DEF PendingSound, LiveSound
<1>5. CountersSound /\ AnswerSound
  BY <1>1, NumbersAssumption DEF CountersSound, AnswerSound, Silent
<1>6. LegsSound /\ SpentAreGone /\ MethodIsTheProof
  BY <1>1 DEF LegsSound, SpentAreGone, MethodIsTheProof
<1> QED
  BY <1>1, <1>4, <1>5, <1>6 DEF CodesInv

LEMMA CodeSteps == CodesInv /\ [Next]_vars => CodesInv'
<1> SUFFICES ASSUME CodesInv, [Next]_vars PROVE CodesInv'
  OBVIOUS
<1>1. CASE \E cl \in Clients, ch \in Challenges, prov \in Methods : Authorize(cl, ch, prov)
  BY <1>1, AuthorizeStep
<1>2. CASE \E h \in Handles : \E prov \in Providers : Federate(h, prov)
  BY <1>2, FederateStep
<1>3. CASE \E h \in Handles : \E r \in Requests : LocalBegin(r, h) \/ CallbackBegin(r, h)
  BY <1>3, BeginStep
<1>4. ASSUME NEW r \in Requests, LegFails(r)
      PROVE  CodesInv'
  <2>1. leg' \in [Requests -> {Idle} \cup Leg] /\ LegsSound'
    BY <1>4, LegEnds DEF LegFails
  <2> QED
    BY <1>4, <2>1 DEF LegFails, CodesInv, CountersSound, PendingSound, LiveSound, AnswerSound,
                      Silent, SpentAreGone, MethodIsTheProof
<1>5. CASE \E r \in Requests : LocalEnd(r) \/ CallbackEnd(r)
  BY <1>5, LocalEndStep, CallbackEndStep
<1>6. CASE \E c \in Codes, cl \in Clients, v \in Challenges : Exchange(c, cl, v) \/ Link(c, cl, v)
  BY <1>6, SpendStep
<1>7. CASE Tick
  <2>1. CountersSound'
    BY <1>7, NumbersAssumption DEF Tick, CodesInv, CountersSound
  <2> QED
    BY <1>7, <2>1 DEF Tick, CodesInv, PendingSound, LiveSound, AnswerSound, Silent, LegsSound,
                      SpentAreGone, MethodIsTheProof
<1>8. CASE Restart
  BY <1>8, RestartStep
<1>9. CASE UNCHANGED vars
  BY <1>9 DEF vars, CodesInv, CountersSound, PendingSound, LiveSound, AnswerSound, LegsSound,
              SpentAreGone, MethodIsTheProof
<1> QED
  BY <1>1, <1>2, <1>3, <1>4, <1>5, <1>6, <1>7, <1>8, <1>9 DEF Next

-----------------------------------------------------------------------------
(* The invariant the code flow's properties are part of.                   *)
THEOREM CodesInvariant == Spec => []CodesInv
BY CodesInitially, CodeSteps, PTL DEF Spec

(* The caches hold only handles given out and codes written.               *)
THEOREM CachesAreTyped == Spec => []TypeOK
<1>1. CodesInv => TypeOK
  BY DEF CodesInv, CountersSound, PendingSound, LiveSound, AnswerSound, TypeOK
<1> QED
  BY <1>1, CodesInvariant, PTL

(* _complete_local_signin and auth_callback: a code names the method its   *)
(* proof was given by, though authorize_federate may move the request on   *)
(* during the await.                                                       *)
THEOREM MethodStaysTheProof == Spec => []MethodIsTheProof
<1>1. CodesInv => MethodIsTheProof
  BY DEF CodesInv
<1> QED
  BY <1>1, CodesInvariant, PTL

(* /token and link_provider: between them a code is spent once.            *)
THEOREM CodesAreSpentOnce == Spec => []CodeSpentOnce
<1>1. CodesInv => CodeSpentOnce
  BY DEF CodesInv, SpentAreGone, CodeSpentOnce
<1> QED
  BY <1>1, CodesInvariant, PTL

(* _prune_auth_cache: no order of calls lets a cache grow past its limit   *)
(* by more than the entry just written.                                    *)
THEOREM CachesStayBounded == Spec => []CachesBounded
<1>1. CodesInv => CachesBounded
  BY DEF CodesInv, PendingSound, LiveSound, CachesBounded
<1> QED
  BY <1>1, CodesInvariant, PTL

(* _grant_authorization_code and link_provider answer with tokens or a     *)
(* link only the client, the verifier and the time the code was made for.  *)
THEOREM TokensGoToTheirClient == Spec => TokensAreEarned
<1> DEFINE Won == LET g == live[answer'.code] IN
                  /\ answer'.client = g.client
                  /\ g.challenge \in {NoChallenge, answer'.verifier}
                  /\ Fresh(g.at)
<1>1. [Next]_vars => (answer'.kind \in {"tokens", "linked"} => Won) \/ UNCHANGED vars
  <2> SUFFICES ASSUME Next, answer'.kind \in {"tokens", "linked"} PROVE Won
    OBVIOUS
  <2>1. answer' # Silent
    BY DEF Silent
  <2>2. PICK c \in Codes, cl \in Clients, v \in Challenges : Exchange(c, cl, v) \/ Link(c, cl, v)
    BY <2>1 DEF Next, Authorize, Federate, LocalBegin, CallbackBegin, LegFails, LocalEnd,
                CallbackEnd, Tick, Restart
  <2>3. \A kind \in {"not admitted", "server error"} : answer' # Failure(kind, c)
    <3>1. \A kind : Failure(kind, c).kind = kind
      BY DEF Failure
    <3> QED
      BY <3>1
  <2>4. /\ Earned(live[c], cl, v)
        /\ answer' = Grants("tokens", c, cl, v) \/ answer' = Grants("linked", c, cl, v)
    BY <2>1, <2>2, <2>3 DEF Exchange, Link
  <2>5. answer'.code = c /\ answer'.client = cl /\ answer'.verifier = v
    BY <2>4 DEF Grants
  <2> QED
    BY <2>4, <2>5 DEF Earned, VerifierMatches
<1> QED
  BY <1>1, PTL DEF Spec, TokensAreEarned

=============================================================================
