----------------------- MODULE ServerCredentials_proofs -----------------------
(***************************************************************************)
(* What a token can be turned into, for any persons, lifetimes and bounds: *)
(* each token alive is Sound, no step but the clock's takes from a token   *)
(* what makes it so, and the clock takes from both alike.                  *)
(***************************************************************************)
EXTENDS ServerCredentials, TLAPS

USE NamesAssumption, LifetimesAssumption, RolesAssumption, ServersAssumption

(* What is known of each token alive.                                      *)
OfItsSession(t) ==
  OfAPerson(t) => t.sub \in Persons /\ t.left <= session[t.sub] + Extra(t)
Demotable(t) ==
  (Admin \in t.grants /\ t.use = "access") =>
    (t.kind = "user" /\ (operator = t.sub \/ t.left <= demoted[t.sub]))
Switchable(t) ==
  (t.kind \in {"user", "scoped"} /\ t.use = "access") =>
    (t.left <= AccessTTL /\ (t.sub \in active \/ t.left <= switched[t.sub]))
OfItsRow(t) ==
  t.kind = "server" =>
    /\ t.sub \in Ids /\ t.left <= ServerTTL
    /\ \/ Here(t.sub) /\ t.grants \subseteq creds[t.sub].scopes
       \/ t.left <= lapse[t.sub]
Acts(t) ==
  /\ t.kind \in {"delegation", "system"} => t.actor # NoOne
  /\ t.use = "refresh" => t.kind \in {"user", "scoped"}

Sound(t) == OfItsSession(t) /\ Demotable(t) /\ Switchable(t) /\ OfItsRow(t) /\ Acts(t)

TokensSound == \A t \in issued : Sound(t)
Inv == TypeOK /\ TokensSound

(* No step but the clock's takes away what a token rests on, save by       *)
(* starting the time it has left.                                          *)
KeepsPerson(p) ==
  /\ session[p] <= session'[p]
  /\ demoted[p] <= demoted'[p]
  /\ operator = p => (operator' = p \/ demoted'[p] = AccessTTL)
  /\ switched[p] <= switched'[p]
  /\ p \in active => (p \in active' \/ switched'[p] = AccessTTL)
KeepsRow(id) ==
  /\ lapse[id] <= lapse'[id]
  /\ creds[id].state = "here" =>
       \/ creds'[id].state = "here" /\ creds[id].scopes \subseteq creds'[id].scopes
       \/ lapse'[id] = ServerTTL
Keeps == (\A p \in Persons : KeepsPerson(p)) /\ (\A id \in Ids : KeepsRow(id))

-----------------------------------------------------------------------------
LEMMA Numbers ==
  /\ AccessTTL \in Nat /\ AccessTTL > 0 /\ LinkTTL \in Nat /\ LinkTTL > 0
  /\ MaxDelegation \in Nat /\ MaxDelegation > 0 /\ RefreshTTL \in Nat /\ RefreshTTL > 0
  /\ ServerTTL \in Nat /\ ServerTTL > 0 /\ MaxRows \in Nat
  /\ LongOver \in Int /\ LongOver = -(AccessTTL + MaxDelegation)
BY DEF LongOver

LEMMA TokenFields ==
  ASSUME NEW t \in Token
  PROVE  /\ t.left \in Nat /\ t.left > 0 /\ t.kind \in Kinds /\ t.use \in Uses
         /\ t.actor \in Callers \cup {NoOne}
         /\ Extra(t) \in Nat
<1>1. t.left \in Nat /\ t.left > 0 /\ t.kind \in Kinds /\ t.use \in Uses
      /\ t.actor \in Callers \cup {NoOne}
  BY DEF Token
<1>2. Extra(t) \in {AccessTTL + MaxDelegation, AccessTTL, 0}
  BY <1>1 DEF Extra
<1> QED
  BY <1>1, <1>2, Numbers

LEMMA PersonFields ==
  ASSUME TypeOK, NEW p \in Persons
  PROVE  /\ session[p] \in Int /\ session[p] >= LongOver /\ session[p] <= RefreshTTL
         /\ demoted[p] \in Nat /\ demoted[p] <= AccessTTL
         /\ switched[p] \in Nat /\ switched[p] <= AccessTTL
BY Numbers DEF TypeOK

LEMMA RowFields ==
  ASSUME TypeOK, NEW id \in Ids
  PROVE  /\ creds[id] \in Row /\ creds[id].scopes \subseteq Scopes
         /\ lapse[id] \in Nat /\ lapse[id] <= ServerTTL
BY Numbers DEF TypeOK, Row

(* A token that was sound is sound after a step that keeps what it needs.  *)
LEMMA KeptSound ==
  ASSUME TypeOK, TypeOK', Keeps, NEW t \in Token, Sound(t)
  PROVE  Sound(t)'
<1>1. OfItsSession(t)'
  <2> SUFFICES ASSUME OfAPerson(t)
               PROVE  t.sub \in Persons /\ t.left <= session'[t.sub] + Extra(t)
    BY DEF OfItsSession, OfAPerson, Extra
  <2>1. PICK p \in Persons : p = t.sub
    BY DEF Sound, OfItsSession
  <2>2. t.left <= session[p] + Extra(t) /\ session[p] <= session'[p]
    BY <2>1 DEF Sound, OfItsSession, Keeps, KeepsPerson
  <2>3. session[p] \in Int /\ session'[p] \in Int
    BY Numbers DEF TypeOK
  <2> QED
    BY <2>1, <2>2, <2>3, TokenFields
<1>2. Demotable(t)'
  <2> SUFFICES ASSUME Admin \in t.grants, t.use = "access"
               PROVE  t.kind = "user" /\ (operator' = t.sub \/ t.left <= demoted'[t.sub])
    BY DEF Demotable
  <2>1. t.kind = "user" /\ (operator = t.sub \/ t.left <= demoted[t.sub])
    BY DEF Sound, Demotable
  <2>2. PICK p \in Persons : p = t.sub
    BY <2>1 DEF Sound, OfItsSession, OfAPerson
  <2>3. t.left <= AccessTTL
    BY <2>1 DEF Sound, Switchable
  <2>4. demoted[p] \in Nat /\ demoted'[p] \in Nat
    BY Numbers DEF TypeOK
  <2> QED
    BY <2>1, <2>2, <2>3, <2>4, TokenFields, Numbers DEF Keeps, KeepsPerson
<1>3. Switchable(t)'
  <2> SUFFICES ASSUME t.kind \in {"user", "scoped"}, t.use = "access"
               PROVE  t.left <= AccessTTL /\ (t.sub \in active' \/ t.left <= switched'[t.sub])
    BY DEF Switchable
  <2>1. t.left <= AccessTTL /\ (t.sub \in active \/ t.left <= switched[t.sub])
    BY DEF Sound, Switchable
  <2>2. PICK p \in Persons : p = t.sub
    BY DEF Sound, OfItsSession, OfAPerson
  <2>3. switched[p] \in Nat /\ switched'[p] \in Nat
    BY Numbers DEF TypeOK
  <2> QED
    BY <2>1, <2>2, <2>3, TokenFields, Numbers DEF Keeps, KeepsPerson
<1>4. OfItsRow(t)'
  <2> SUFFICES ASSUME t.kind = "server"
               PROVE  /\ t.sub \in Ids /\ t.left <= ServerTTL
                      /\ \/ creds'[t.sub].state = "here" /\ t.grants \subseteq creds'[t.sub].scopes
                         \/ t.left <= lapse'[t.sub]
    BY DEF OfItsRow, Here
  <2>1. /\ t.sub \in Ids /\ t.left <= ServerTTL
        /\ \/ creds[t.sub].state = "here" /\ t.grants \subseteq creds[t.sub].scopes
           \/ t.left <= lapse[t.sub]
    BY DEF Sound, OfItsRow, Here
  <2>2. PICK id \in Ids : id = t.sub
    BY <2>1
  <2>3. lapse[id] \in Nat /\ lapse'[id] \in Nat
    BY Numbers DEF TypeOK
  <2>4. KeepsRow(id)
    BY DEF Keeps
  <2> QED
    BY <2>1, <2>2, <2>3, <2>4, TokenFields, Numbers DEF KeepsRow
<1>5. Acts(t)'
  BY DEF Sound, Acts
<1> QED
  BY <1>1, <1>2, <1>3, <1>4, <1>5 DEF Sound

LEMMA Stays ==
  ASSUME Inv, TypeOK', Keeps, \A t \in issued' : t \in issued \/ Sound(t)'
  PROVE  Inv'
<1>1. ASSUME NEW t \in issued'
      PROVE  Sound(t)'
  <2>1. CASE t \in issued
    <3>1. t \in Token /\ Sound(t)
      BY <2>1 DEF Inv, TypeOK, TokensSound
    <3> QED
      BY <3>1, KeptSound DEF Inv
  <2>2. CASE t \notin issued
    BY <2>2
  <2> QED
    BY <2>1, <2>2
<1> QED
  BY <1>1 DEF Inv, TokensSound

(* A step that leaves accounts and rows alone and shortens no session.     *)
LEMMA MintingKeeps ==
  ASSUME TypeOK, UNCHANGED <<active, operator, demoted, switched, creds, lapse>>,
         \A p \in Persons : session[p] <= session'[p]
  PROVE  Keeps
<1>1. ASSUME NEW p \in Persons
      PROVE  KeepsPerson(p)
  BY PersonFields DEF KeepsPerson
<1>2. ASSUME NEW id \in Ids
      PROVE  KeepsRow(id)
  BY RowFields DEF KeepsRow
<1> QED
  BY <1>1, <1>2 DEF Keeps

-----------------------------------------------------------------------------
LEMMA PersonTokenSound ==
  ASSUME NEW p \in Persons, NEW kind \in {"user", "scoped"}, NEW use \in Uses,
         NEW roles \in SUBSET {Admin}, NEW left \in Nat \ {0},
         TypeOK',
         left <= session'[p] + (IF use = "access" THEN AccessTTL ELSE 0),
         use = "access" => left <= AccessTTL /\ p \in active',
         (Admin \in roles /\ use = "access") => (kind = "user" /\ operator' = p)
  PROVE  /\ PersonToken(kind, use, p, roles, left) \in Token
         /\ Sound(PersonToken(kind, use, p, roles, left))'
<1> DEFINE t == PersonToken(kind, use, p, roles, left)
<1>1. /\ t.kind = kind /\ t.use = use /\ t.sub = p /\ t.actor = NoOne
      /\ t.grants = roles /\ t.left = left
  BY DEF PersonToken
<1>2. t \in Token
  BY DEF PersonToken, Token, Kinds, Uses
<1>3. Extra(t) = IF use = "access" THEN AccessTTL ELSE 0
  BY <1>1 DEF Extra
<1> HIDE DEF t
<1>4. OfItsSession(t)'
  BY <1>1, <1>3 DEF OfItsSession, OfAPerson, Extra
<1>5. Demotable(t)'
  BY <1>1 DEF Demotable
<1>6. Switchable(t)'
  BY <1>1 DEF Switchable
<1>7. OfItsRow(t)' /\ Acts(t)'
  BY <1>1 DEF OfItsRow, Acts
<1> QED
  BY <1>2, <1>4, <1>5, <1>6, <1>7 DEF Sound, t

LEMMA ActingTokenSound ==
  ASSUME NEW kind \in {"delegation", "system"}, NEW sub \in Persons \cup {System},
         NEW actor \in Callers, NEW left \in 1..MaxDelegation,
         TypeOK',
         kind = "delegation" => sub \in Persons /\ session'[sub] + AccessTTL > 0
  PROVE  /\ ActingToken(kind, sub, actor, left) \in Token
         /\ Sound(ActingToken(kind, sub, actor, left))'
<1> DEFINE t == ActingToken(kind, sub, actor, left)
<1>1. /\ t.kind = kind /\ t.use = "access" /\ t.sub = sub /\ t.actor = actor
      /\ t.grants = {} /\ t.left = left
  BY DEF ActingToken
<1>2. t \in Token
  <2>1. left \in Nat \ {0}
    BY Numbers
  <2> QED
    BY <2>1 DEF ActingToken, Token, Kinds, Uses
<1>3. kind = "delegation" => Extra(t) = AccessTTL + MaxDelegation
  BY <1>1 DEF Extra
<1>4. actor # NoOne
  BY DEF Callers
<1> HIDE DEF t
<1>5. OfItsSession(t)'
  <2> SUFFICES ASSUME OfAPerson(t)
               PROVE  t.sub \in Persons /\ t.left <= session'[t.sub] + Extra(t)
    BY DEF OfItsSession, OfAPerson, Extra
  <2>1. kind = "delegation"
    BY <1>1 DEF OfAPerson
  <2>2. sub \in Persons /\ session'[sub] \in Int
    BY <2>1, Numbers DEF TypeOK
  <2> QED
    BY <1>1, <1>3, <2>1, <2>2, Numbers
<1>6. Demotable(t)'
  BY <1>1 DEF Demotable
<1>7. Switchable(t)' /\ OfItsRow(t)' /\ Acts(t)'
  BY <1>1, <1>4 DEF Switchable, OfItsRow, Acts
<1> QED
  BY <1>2, <1>5, <1>6, <1>7 DEF Sound, t

-----------------------------------------------------------------------------
(* The types after a step that signs tokens and changes no account.        *)
LEMMA MintingTyped ==
  ASSUME TypeOK, UNCHANGED <<active, operator, demoted, switched, creds, req, lapse>>,
         session' \in [Persons -> LongOver..RefreshTTL], issued' \subseteq Token
  PROVE  TypeOK'
BY DEF TypeOK

LEMMA SignsInStep ==
  ASSUME Inv, NEW p \in Persons, NEW kind \in {"user", "scoped"},
         NEW roles \in SUBSET {Admin}, Admin \in roles => (kind = "user" /\ operator = p),
         SignsIn(p, kind, roles), UNCHANGED <<creds, req, lapse>>
  PROVE  Inv'
<1> USE Numbers
<1> DEFINE access == PersonToken(kind, "access", p, roles, AccessTTL)
           refresh == PersonToken(kind, "refresh", p, roles, RefreshTTL)
<1>0. TypeOK
  BY DEF Inv
<1>1. session' = [session EXCEPT ![p] = RefreshTTL] /\ p \in active
      /\ UNCHANGED <<active, operator, demoted, switched>>
      /\ issued' = issued \cup {access, refresh}
  BY DEF SignsIn, Signs
<1>2. session' \in [Persons -> LongOver..RefreshTTL]
  BY <1>0, <1>1 DEF TypeOK
<1>3. session'[p] = RefreshTTL
  BY <1>0, <1>1 DEF TypeOK
<1>4. access \in Token /\ refresh \in Token
  BY DEF PersonToken, Token, Kinds, Uses
<1>5. TypeOK'
  <2>1. issued' \subseteq Token
    BY <1>0, <1>1, <1>4 DEF TypeOK
  <2> QED
    BY <1>0, <1>1, <1>2, <2>1, MintingTyped
<1>6. Sound(access)'
  BY <1>1, <1>3, <1>5, PersonTokenSound DEF Uses
<1>7. Sound(refresh)'
  BY <1>1, <1>3, <1>5, PersonTokenSound DEF Uses
<1>8. Keeps
  <2>1. \A q \in Persons : session[q] <= session'[q]
    BY <1>0, <1>1, PersonFields DEF TypeOK
  <2> QED
    BY <1>0, <1>1, <2>1, MintingKeeps
<1>9. \A t \in issued' : t \in issued \/ Sound(t)'
  <2> HIDE DEF access, refresh
  <2> QED
    BY <1>1, <1>6, <1>7
<1> QED
  BY <1>5, <1>8, <1>9, Stays

LEMMA RolesAreCurrent ==
  ASSUME NEW p
  PROVE  ComputeRoles(p) \in SUBSET {Admin} /\ (Admin \in ComputeRoles(p) => operator = p)
BY DEF ComputeRoles

LEMMA SignInSteps ==
  ASSUME Inv, NEW p \in Persons, UNCHANGED <<creds, req, lapse>>,
         \/ PasswordLogin(p) \/ OtpVerify(p)
         \/ \E firstParty \in BOOLEAN : GrantAuthorizationCode(p, firstParty)
  PROVE  Inv'
<1>1. PICK roles : roles = ComputeRoles(p)
  OBVIOUS
<1>2. \/ SignsIn(p, "user", roles) \/ SignsIn(p, "user", {}) \/ SignsIn(p, "scoped", {})
  BY <1>1 DEF PasswordLogin, OtpVerify, GrantAuthorizationCode
<1>3. CASE SignsIn(p, "user", roles)
  BY <1>1, <1>3, RolesAreCurrent, SignsInStep
<1>4. CASE SignsIn(p, "user", {})
  BY <1>4, SignsInStep
<1>5. CASE SignsIn(p, "scoped", {})
  BY <1>5, SignsInStep
<1> QED
  BY <1>2, <1>3, <1>4, <1>5

(* A step that signs one sound token and leaves the rest as it is.         *)
LEMMA MintsOne ==
  ASSUME Inv, NEW t \in Token, issued' = issued \cup {t}, TypeOK' => Sound(t)',
         UNCHANGED <<active, operator, session, demoted, switched, creds, req, lapse>>
  PROVE  Inv'
<1>1. TypeOK'
  BY DEF Inv, TypeOK
<1>2. Keeps
  <2>1. \A p \in Persons : session[p] <= session'[p]
    BY PersonFields DEF Inv
  <2> QED
    BY <2>1, MintingKeeps DEF Inv
<1> QED
  BY <1>1, <1>2, Stays

LEMMA MailLinkStep ==
  ASSUME Inv, NEW p \in Persons, MailLink(p), UNCHANGED <<creds, req, lapse>>
  PROVE  Inv'
<1> USE Numbers
<1> DEFINE link == PersonToken("user", "link", p, {}, LinkTTL)
<1>0. TypeOK
  BY DEF Inv
<1>1. /\ issued' = issued \cup {link} /\ UNCHANGED <<active, operator, demoted, switched>>
      /\ session' = [session EXCEPT ![p] = IF @ < LinkTTL THEN LinkTTL ELSE @]
  BY DEF MailLink, Signs
<1>2. LinkTTL <= RefreshTTL /\ LinkTTL \in Nat \ {0}
  OBVIOUS
<1>3. session' \in [Persons -> LongOver..RefreshTTL]
  BY <1>0, <1>1, <1>2 DEF TypeOK
<1>4. link \in Token
  BY <1>2 DEF PersonToken, Token, Kinds, Uses
<1>5. TypeOK'
  <2>1. issued' \subseteq Token
    BY <1>0, <1>1, <1>4 DEF TypeOK
  <2> QED
    BY <1>0, <1>1, <1>3, <2>1, MintingTyped
<1>6. session'[p] >= LinkTTL
  BY <1>0, <1>1, PersonFields DEF TypeOK
<1>7. Sound(link)'
  <2>1. "link" \in Uses /\ {} \in SUBSET {Admin} /\ "user" \in {"user", "scoped"}
    BY DEF Uses
  <2>2. LinkTTL <= session'[p] + 0
    BY <1>3, <1>6
  <2> QED
    BY <1>2, <1>5, <2>1, <2>2, PersonTokenSound
<1>8. Keeps
  <2>1. \A q \in Persons : session[q] <= session'[q]
    BY <1>0, <1>1, PersonFields DEF TypeOK
  <2> QED
    BY <1>0, <1>1, <2>1, MintingKeeps
<1>9. \A t \in issued' : t \in issued \/ Sound(t)'
  <2> HIDE DEF link
  <2> QED
    BY <1>1, <1>7
<1> QED
  BY <1>5, <1>8, <1>9, Stays

(* A token of a person: whose it is, and how long it has left.             *)
LEMMA HeldByAPerson ==
  ASSUME Inv, NEW t \in issued, t.kind \in {"user", "scoped"}
  PROVE  /\ t \in Token /\ t.sub \in Persons
         /\ t.left <= session[t.sub] + (IF t.use = "access" THEN AccessTTL ELSE 0)
<1>1. t \in Token /\ OfItsSession(t)
  BY DEF Inv, TypeOK, TokensSound, Sound
<1>2. Extra(t) = IF t.use = "access" THEN AccessTTL ELSE 0
  BY DEF Extra
<1> QED
  BY <1>1, <1>2 DEF OfItsSession, OfAPerson

LEMMA RefreshStep ==
  ASSUME Inv, NEW t \in issued, Refresh(t), UNCHANGED <<creds, req, lapse>>
  PROVE  Inv'
<1> USE Numbers
<1>1. PICK roles : roles = CurrentRoles(t)
  OBVIOUS
<1> DEFINE access == PersonToken(t.kind, "access", t.sub, roles, AccessTTL)
<1>2. /\ issued' = issued \cup {access} /\ t.use = "refresh" /\ t.sub \in active
      /\ UNCHANGED <<active, operator, session, demoted, switched>>
  BY <1>1 DEF Refresh, Signs, Refreshable, HolderActive
<1>3. t \in Token /\ OfItsSession(t) /\ active \subseteq Persons
  BY DEF Inv, TypeOK, TokensSound, Sound
<1>4. t.kind \in {"user", "scoped"} /\ t.sub \in Persons
  <2>1. t.sub \in Persons
    BY <1>2, <1>3
  <2>2. t.kind \in {"user", "scoped"}
    BY <1>2 DEF Inv, TokensSound, Sound, Acts
  <2> QED
    BY <2>1, <2>2
<1>5. roles \in SUBSET {Admin} /\ (Admin \in roles => t.kind = "user" /\ operator = t.sub)
  BY <1>1, RolesAreCurrent DEF CurrentRoles
<1>6. session[t.sub] > 0
  BY <1>2, <1>3, <1>4, HeldByAPerson, TokenFields, PersonFields DEF Inv
<1>7. TypeOK' => access \in Token /\ Sound(access)'
  <2> SUFFICES ASSUME TypeOK'
               PROVE  access \in Token /\ Sound(access)'
    OBVIOUS
  <2>1. AccessTTL <= session'[t.sub] + AccessTTL
    BY <1>2, <1>6, PersonFields, <1>4 DEF Inv
  <2> QED
    BY <1>2, <1>4, <1>5, <2>1, PersonTokenSound DEF Uses
<1>8. access \in Token
  BY <1>4, <1>5 DEF PersonToken, Token, Kinds, Uses
<1> HIDE DEF access
<1> QED
  BY <1>2, <1>7, <1>8, MintsOne

-----------------------------------------------------------------------------
LEMMA DelegateStep ==
  ASSUME Inv, NEW caller \in Callers, NEW actor \in Callers, NEW left \in 1..MaxDelegation,
         NEW t \in issued, Delegate(caller, actor, t, left), UNCHANGED <<creds, req, lapse>>
  PROVE  Inv'
<1> USE Numbers
<1> DEFINE new == ActingToken("delegation", t.sub, actor, left)
<1>1. /\ issued' = issued \cup {new} /\ t.kind \notin {"server", "delegation", "system"}
      /\ UNCHANGED <<active, operator, session, demoted, switched>>
  BY DEF Delegate, Signs, NamesAPerson
<1>2. t \in Token
  BY DEF Inv, TypeOK
<1>3. t.kind \in {"user", "scoped"}
  BY <1>1, <1>2, TokenFields DEF Kinds
<1>4. t.sub \in Persons /\ session[t.sub] + AccessTTL > 0
  BY <1>2, <1>3, HeldByAPerson, TokenFields, PersonFields DEF Inv
<1>5. new \in Token
  <2>1. left \in Nat \ {0}
    OBVIOUS
  <2> QED
    BY <1>4, <2>1 DEF ActingToken, Token, Kinds, Uses
<1>6. TypeOK' => Sound(new)'
  BY <1>1, <1>4, ActingTokenSound
<1> HIDE DEF new
<1> QED
  BY <1>1, <1>5, <1>6, MintsOne

LEMMA SystemSteps ==
  ASSUME Inv, NEW actor \in Callers, NEW left \in 1..MaxDelegation,
         \/ \E caller \in Callers : SystemDelegate(caller, actor, left)
         \/ \E caller \in Callers : DescribeDelegate(caller, actor, left),
         UNCHANGED <<creds, req, lapse>>
  PROVE  Inv'
<1> USE Numbers
<1> DEFINE new == ActingToken("system", System, actor, left)
<1>1. /\ issued' = issued \cup {new}
      /\ UNCHANGED <<active, operator, session, demoted, switched>>
  BY DEF SystemDelegate, DescribeDelegate, Signs
<1>2. new \in Token
  <2>1. left \in Nat \ {0}
    OBVIOUS
  <2> QED
    BY <2>1 DEF ActingToken, Token, Kinds, Uses
<1>3. TypeOK' => Sound(new)'
  BY ActingTokenSound
<1> HIDE DEF new
<1> QED
  BY <1>1, <1>2, <1>3, MintsOne

LEMMA MintedStep ==
  ASSUME Inv, Minted, UNCHANGED <<creds, req, lapse>>
  PROVE  Inv'
<1>1. CASE \E p \in Persons :
             \/ PasswordLogin(p) \/ OtpVerify(p)
             \/ \E firstParty \in BOOLEAN : GrantAuthorizationCode(p, firstParty)
  BY <1>1, SignInSteps
<1>2. CASE \E p \in Persons : MailLink(p)
  BY <1>2, MailLinkStep
<1>3. CASE \E t \in issued : Refresh(t)
  BY <1>3, RefreshStep
<1>4. CASE \E caller, actor \in Callers, left \in 1..MaxDelegation :
             \E t \in issued : Delegate(caller, actor, t, left)
  BY <1>4, DelegateStep
<1>5. CASE \E caller, actor \in Callers, left \in 1..MaxDelegation :
             SystemDelegate(caller, actor, left) \/ DescribeDelegate(caller, actor, left)
  BY <1>5, SystemSteps
<1> QED
  BY <1>1, <1>2, <1>3, <1>4, <1>5 DEF Minted

-----------------------------------------------------------------------------
(* The accounts and the rows: no token is signed, and Keeps holds.         *)
LEMMA NothingSigned ==
  ASSUME Inv, TypeOK', Keeps, UNCHANGED issued
  PROVE  Inv'
BY Stays

LEMMA AccountStep ==
  ASSUME Inv, AccountChanges, UNCHANGED <<creds, req, lapse>>
  PROVE  Inv'
<1> USE Numbers
<1>0. TypeOK
  BY DEF Inv
<1>1. PICK p \in Persons : SetOperator(p) \/ Deactivate(p) \/ Reactivate(p)
  BY DEF AccountChanges
<1>2. UNCHANGED <<issued, session>>
  BY <1>1 DEF SetOperator, Deactivate, Reactivate
<1>3. TypeOK'
  <2>1. CASE SetOperator(p)
    BY <1>0, <2>1 DEF TypeOK, SetOperator
  <2>2. CASE Deactivate(p)
    BY <1>0, <2>2 DEF TypeOK, Deactivate
  <2>3. CASE Reactivate(p)
    BY <1>0, <2>3 DEF TypeOK, Reactivate
  <2> QED
    BY <1>1, <2>1, <2>2, <2>3
<1>4. ASSUME NEW q \in Persons
      PROVE  KeepsPerson(q)
  <2>0. /\ session[q] \in Int /\ demoted[q] \in Nat /\ demoted[q] <= AccessTTL
        /\ switched[q] \in Nat /\ switched[q] <= AccessTTL
    BY <1>0, PersonFields
  <2>1. CASE SetOperator(p)
    BY <1>2, <2>0, <2>1 DEF KeepsPerson, SetOperator
  <2>2. CASE Deactivate(p)
    BY <1>0, <1>2, <2>0, <2>2 DEF KeepsPerson, Deactivate, TypeOK
  <2>3. CASE Reactivate(p)
    BY <1>2, <2>0, <2>3 DEF KeepsPerson, Reactivate
  <2> QED
    BY <1>1, <2>1, <2>2, <2>3
<1>5. ASSUME NEW id \in Ids
      PROVE  KeepsRow(id)
  BY <1>0, RowFields DEF KeepsRow
<1> QED
  BY <1>2, <1>3, <1>4, <1>5, NothingSigned DEF Keeps

LEMMA ManagementStep ==
  ASSUME Inv, Management
  PROVE  Inv'
<1> USE Numbers
<1>0. TypeOK
  BY DEF Inv
<1>1. PICK id \in Ids :
        \/ \E scopes \in SUBSET Scopes : Register(id, scopes)
        \/ \E active1 \in BOOLEAN, scopes \in SUBSET Scopes : Update(id, active1, scopes)
        \/ Delete(id)
  BY DEF Management
<1>2. UNCHANGED <<tokenVars, req>>
  BY <1>1 DEF Register, Update, Delete, Managed
<1>3. TypeOK' /\ \A i \in Ids : KeepsRow(i)
  <2> DEFINE Typed(cs, ls) == cs \in [Ids -> Row] /\ ls \in [Ids -> 0..ServerTTL]
  <2>0. creds \in [Ids -> Row] /\ lapse \in [Ids -> 0..ServerTTL]
    BY <1>0 DEF TypeOK
  <2>1. ASSUME NEW scopes \in SUBSET Scopes, Register(id, scopes)
        PROVE  Typed(creds', lapse') /\ \A i \in Ids : KeepsRow(i)
    <3>1. /\ creds[id].state = "unused" /\ UNCHANGED lapse
          /\ creds' = [creds EXCEPT ![id] = [state |-> "here", active |-> TRUE, scopes |-> scopes]]
      BY <2>1 DEF Register, Managed
    <3> QED
      BY <2>0, <3>1 DEF Row, KeepsRow
  <2>2. ASSUME NEW active1 \in BOOLEAN, NEW scopes \in SUBSET Scopes, Update(id, active1, scopes)
        PROVE  Typed(creds', lapse') /\ \A i \in Ids : KeepsRow(i)
    <3>1. /\ creds' = [creds EXCEPT ![id].active = active1, ![id].scopes = scopes]
          /\ lapse' = IF creds[id].scopes \subseteq scopes THEN lapse
                      ELSE [lapse EXCEPT ![id] = ServerTTL]
      BY <2>2 DEF Update, Managed
    <3>2. Typed(creds', lapse')
      <4>1. \A i \in Ids : creds'[i] \in Row
        BY <2>0, <3>1 DEF Row
      <4>2. lapse' \in [Ids -> 0..ServerTTL]
        BY <2>0, <3>1
      <4>3. creds' \in [Ids -> Row]
        BY <2>0, <3>1, <4>1
      <4> QED
        BY <4>2, <4>3
    <3>3. ASSUME NEW i \in Ids
          PROVE  KeepsRow(i)
      <4>1. lapse[i] <= lapse'[i]
        BY <2>0, <3>1
      <4>2. creds'[i].state = creds[i].state
        BY <2>0, <3>1 DEF Row
      <4>3. creds[i].scopes \subseteq creds'[i].scopes \/ lapse'[i] = ServerTTL
        BY <2>0, <3>1 DEF Row
      <4> QED
        BY <4>1, <4>2, <4>3 DEF KeepsRow
    <3> QED
      BY <3>2, <3>3
  <2>3. ASSUME Delete(id)
        PROVE  Typed(creds', lapse') /\ \A i \in Ids : KeepsRow(i)
    <3>1. creds' = [creds EXCEPT ![id] = NoRow("gone")] /\ lapse' = [lapse EXCEPT ![id] = ServerTTL]
      BY <2>3 DEF Delete, Managed
    <3>2. NoRow("gone") \in Row
      BY DEF Row, NoRow
    <3>3. creds' \in [Ids -> Row] /\ lapse' \in [Ids -> 0..ServerTTL]
      BY <2>0, <3>1, <3>2
    <3>4. ASSUME NEW i \in Ids
          PROVE  KeepsRow(i)
      <4>1. CASE i = id
        BY <2>0, <3>1, <4>1 DEF KeepsRow
      <4>2. CASE i # id
        BY <2>0, <3>1, <4>2 DEF KeepsRow
      <4> QED
        BY <4>1, <4>2
    <3> QED
      BY <3>3, <3>4
  <2>4. Typed(creds', lapse') /\ \A i \in Ids : KeepsRow(i)
    BY <1>1, <2>1, <2>2, <2>3
  <2> QED
    BY <1>0, <1>2, <2>4 DEF TypeOK, tokenVars
<1>4. ASSUME NEW p \in Persons
      PROVE  KeepsPerson(p)
  BY <1>0, <1>2, PersonFields DEF KeepsPerson, tokenVars
<1> QED
  BY <1>2, <1>3, <1>4, NothingSigned DEF Keeps, tokenVars

LEMMA GrantBeginStep ==
  ASSUME Inv, NEW r \in Requests, NEW id \in Ids, GrantBegin(r, id)
  PROVE  Inv'
<1> USE Numbers
<1>0. TypeOK /\ UNCHANGED <<tokenVars, creds, lapse>>
  BY DEF Inv, GrantBegin
<1>1. req' \in [Requests -> [id : 0..MaxRows, scopes : SUBSET Scopes]]
  <2>1. [id |-> id, scopes |-> creds[id].scopes] \in [id : 0..MaxRows, scopes : SUBSET Scopes]
    BY <1>0, RowFields DEF Ids
  <2> QED
    BY <1>0, <2>1 DEF TypeOK, GrantBegin
<1>2. TypeOK'
  BY <1>0, <1>1 DEF TypeOK, tokenVars
<1>3. Keeps
  BY <1>0, MintingKeeps, PersonFields DEF tokenVars
<1> QED
  BY <1>0, <1>2, <1>3, NothingSigned DEF tokenVars

LEMMA GrantEndStep ==
  ASSUME Inv, NEW r \in Requests, GrantEnd(r)
  PROVE  Inv'
<1> USE Numbers
<1> DEFINE new == {ServerToken(req[r].id, scopes) : scopes \in Reread(r)}
<1>0. TypeOK
  BY DEF Inv
<1>1. /\ issued' = issued \cup new /\ req' = [req EXCEPT ![r] = Idle]
      /\ UNCHANGED <<active, operator, session, demoted, switched, creds, lapse>>
  BY DEF GrantEnd, Signs
<1>2. ASSUME NEW t \in new
      PROVE  t \in Token /\ Sound(t)'
  <2>1. PICK id \in Ids : id = req[r].id /\ Here(id) /\ t = ServerToken(id, creds[id].scopes)
    BY DEF Reread, CurrentId
  <2>2. PICK scopes \in SUBSET Scopes : scopes = creds[id].scopes
    BY <1>0, RowFields
  <2>3. /\ t.kind = "server" /\ t.use = "access" /\ t.sub = id /\ t.grants = scopes
        /\ t.left = ServerTTL
    BY <2>1, <2>2 DEF ServerToken
  <2>4. t \in Token
    <3>1. id \in Nat /\ ServerTTL \in Nat \ {0}
      BY DEF Ids
    <3> QED
      BY <2>1, <2>2, <3>1 DEF ServerToken, Token, Kinds, Uses
  <2>5. Here(id)' /\ creds'[id].scopes = scopes
    BY <1>1, <2>1, <2>2 DEF Here
  <2>6. OfItsSession(t)' /\ Switchable(t)' /\ Acts(t)'
    BY <2>3 DEF OfItsSession, OfAPerson, Switchable, Acts
  <2>7. Demotable(t)'
    BY <2>3 DEF Demotable
  <2>8. OfItsRow(t)'
    BY <2>3, <2>5 DEF OfItsRow, Here
  <2> QED
    BY <2>4, <2>6, <2>7, <2>8 DEF Sound
<1>3. TypeOK'
  <2>1. req' \in [Requests -> [id : 0..MaxRows, scopes : SUBSET Scopes]]
    BY <1>0, <1>1 DEF TypeOK, Idle
  <2>2. issued' \subseteq Token
    BY <1>0, <1>1, <1>2 DEF TypeOK
  <2> QED
    BY <1>0, <1>1, <2>1, <2>2 DEF TypeOK
<1>4. Keeps
  BY <1>0, <1>1, MintingKeeps, PersonFields
<1> HIDE DEF new
<1> QED
  BY <1>1, <1>2, <1>3, <1>4, Stays

-----------------------------------------------------------------------------
(* The clock takes one from a token and, unless it is spent, one from what *)
(* bounds it.                                                              *)
LEMMA PassesStep ==
  ASSUME Inv, Passes, lapse' = [id \in Ids |-> Less(lapse[id])], UNCHANGED <<creds, req>>
  PROVE  Inv'
<1> USE Numbers
<1>0. TypeOK
  BY DEF Inv
<1>1. /\ UNCHANGED <<active, operator>>
      /\ \A p \in Persons :
           /\ session'[p] = IF session[p] = LongOver THEN LongOver ELSE session[p] - 1
           /\ demoted'[p] = Less(demoted[p]) /\ switched'[p] = Less(switched[p])
      /\ \A id \in Ids : lapse'[id] = Less(lapse[id])
  BY DEF Passes
<1>2. ASSUME NEW t \in issued'
      PROVE  \E u \in issued : u.left > 1 /\ t = [u EXCEPT !.left = @ - 1]
  BY DEF Passes, Aged
<1>3. ASSUME NEW t \in issued'
      PROVE  t \in Token /\ Sound(t)'
  <2>1. PICK u \in issued : u.left > 1 /\ t = [u EXCEPT !.left = @ - 1]
    BY <1>2
  <2>2. u \in Token /\ Sound(u)
    BY <1>0 DEF Inv, TypeOK, TokensSound
  <2>3. t \in Token /\ t.left = u.left - 1 /\ t.kind = u.kind /\ t.use = u.use
        /\ t.sub = u.sub /\ t.grants = u.grants /\ t.actor = u.actor
    BY <2>1, <2>2 DEF Token
  <2>4. u.left \in Nat /\ t.left \in Nat /\ t.left > 0
    BY <2>2, <2>3, TokenFields
  <2>5. Extra(t) = Extra(u) /\ Extra(u) \in Nat /\ Extra(u) <= AccessTTL + MaxDelegation
    BY <2>2, <2>3, TokenFields DEF Extra
  <2>6. OfItsSession(t)'
    <3> SUFFICES ASSUME OfAPerson(t)
                 PROVE  t.sub \in Persons /\ t.left <= session'[t.sub] + Extra(t)
      BY DEF OfItsSession, OfAPerson, Extra
    <3>1. PICK p \in Persons : p = t.sub /\ u.left <= session[p] + Extra(u)
      BY <2>2, <2>3 DEF Sound, OfItsSession, OfAPerson
    <3>2. session[p] \in Int /\ session[p] # LongOver
      BY <1>0, <2>1, <2>4, <2>5, <3>1, PersonFields
    <3>3. session'[p] = session[p] - 1
      BY <1>1, <3>2
    <3> QED
      BY <2>3, <2>4, <2>5, <3>1, <3>2, <3>3
  <2>7. Demotable(t)'
    <3> SUFFICES ASSUME Admin \in t.grants, t.use = "access"
                 PROVE  t.kind = "user" /\ (operator' = t.sub \/ t.left <= demoted'[t.sub])
      BY DEF Demotable
    <3>1. t.kind = "user" /\ (operator = t.sub \/ u.left <= demoted[t.sub])
      BY <2>2, <2>3 DEF Sound, Demotable
    <3>2. PICK p \in Persons : p = t.sub
      BY <2>2, <2>3, <3>1 DEF Sound, OfItsSession, OfAPerson
    <3>3. demoted[p] \in Nat /\ demoted'[p] = Less(demoted[p])
      BY <1>0, <1>1, PersonFields
    <3> QED
      BY <1>1, <2>3, <2>4, <3>1, <3>2, <3>3 DEF Less
  <2>8. Switchable(t)'
    <3> SUFFICES ASSUME t.kind \in {"user", "scoped"}, t.use = "access"
                 PROVE  t.left <= AccessTTL /\ (t.sub \in active' \/ t.left <= switched'[t.sub])
      BY DEF Switchable
    <3>1. u.left <= AccessTTL /\ (t.sub \in active \/ u.left <= switched[t.sub])
      BY <2>2, <2>3 DEF Sound, Switchable
    <3>2. PICK p \in Persons : p = t.sub
      BY <2>2, <2>3 DEF Sound, OfItsSession, OfAPerson
    <3>3. switched[p] \in Nat /\ switched'[p] = Less(switched[p])
      BY <1>0, <1>1, PersonFields
    <3> QED
      BY <1>1, <2>3, <2>4, <3>1, <3>2, <3>3 DEF Less
  <2>9. OfItsRow(t)' /\ Acts(t)'
    <3>1. Acts(t)'
      BY <2>2, <2>3 DEF Sound, Acts
    <3>2. CASE t.kind = "server"
      <4>1. PICK id \in Ids : id = t.sub
        BY <2>2, <2>3, <3>2 DEF Sound, OfItsRow
      <4>2. /\ u.left <= ServerTTL
            /\ \/ Here(id) /\ t.grants \subseteq creds[id].scopes
               \/ u.left <= lapse[id]
        BY <2>2, <2>3, <3>2, <4>1 DEF Sound, OfItsRow
      <4>3. lapse[id] \in Nat /\ lapse'[id] = Less(lapse[id])
        BY <1>0, <1>1, RowFields
      <4> QED
        BY <2>3, <2>4, <3>1, <4>1, <4>2, <4>3 DEF OfItsRow, Here, Less
    <3>3. CASE t.kind # "server"
      BY <3>1, <3>3 DEF OfItsRow
    <3> QED
      BY <3>2, <3>3
  <2> QED
    BY <2>3, <2>6, <2>7, <2>8, <2>9 DEF Sound
<1>4. TypeOK'
  <2>1. issued' \subseteq Token
    BY <1>3
  <2>2. /\ session' \in [Persons -> LongOver..RefreshTTL]
        /\ demoted' \in [Persons -> 0..AccessTTL] /\ switched' \in [Persons -> 0..AccessTTL]
        /\ lapse' \in [Ids -> 0..ServerTTL]
    <3>1. \A p \in Persons : /\ session'[p] \in LongOver..RefreshTTL
                             /\ demoted'[p] \in 0..AccessTTL /\ switched'[p] \in 0..AccessTTL
      BY <1>0, <1>1, PersonFields DEF Less
    <3>2. \A id \in Ids : lapse'[id] \in 0..ServerTTL
      BY <1>0, <1>1, RowFields DEF Less
    <3> QED
      BY <3>1, <3>2 DEF Passes
  <2> QED
    BY <1>0, <1>1, <2>1, <2>2 DEF TypeOK
<1> QED
  BY <1>3, <1>4 DEF Inv, TokensSound

-----------------------------------------------------------------------------
LEMMA Initially == Init => Inv
<1> USE Numbers
<1> SUFFICES ASSUME Init PROVE Inv
  OBVIOUS
<1>1. NoRow("unused") \in Row /\ Idle \in [id : 0..MaxRows, scopes : SUBSET Scopes]
  BY DEF NoRow, Row, Idle
<1>2. TypeOK
  BY <1>1 DEF Init, TokensInit, TypeOK
<1> QED
  BY <1>2 DEF Init, TokensInit, Inv, TokensSound

LEMMA Stutters ==
  ASSUME Inv, UNCHANGED vars
  PROVE  Inv'
<1>1. Keeps
  BY MintingKeeps, PersonFields DEF vars, tokenVars, Inv
<1>2. TypeOK'
  BY DEF vars, tokenVars, Inv, TypeOK
<1> QED
  BY <1>1, <1>2, NothingSigned DEF vars, tokenVars

LEMMA Steps == Inv /\ [Next]_vars => Inv'
<1> SUFFICES ASSUME Inv, [Next]_vars PROVE Inv'
  OBVIOUS
<1>1. CASE Minted /\ UNCHANGED <<creds, req, lapse>>
  BY <1>1, MintedStep
<1>2. CASE AccountChanges /\ UNCHANGED <<creds, req, lapse>>
  BY <1>2, AccountStep
<1>3. CASE Management
  BY <1>3, ManagementStep
<1>4. CASE \E r \in Requests, id \in Ids : GrantBegin(r, id)
  BY <1>4, GrantBeginStep
<1>5. CASE \E r \in Requests : GrantEnd(r)
  BY <1>5, GrantEndStep
<1>6. CASE Passes /\ lapse' = [id \in Ids |-> Less(lapse[id])] /\ UNCHANGED <<creds, req>>
  BY <1>6, PassesStep
<1>7. CASE UNCHANGED vars
  BY <1>7, Stutters
<1> QED
  BY <1>1, <1>2, <1>3, <1>4, <1>5, <1>6, <1>7 DEF Next

(* A change to a row is made by a live access token of the operator's own. *)
LEMMA ManagedInPerson == Inv /\ [Next]_vars => [creds' # creds =>
    operator \in active \/ (operator \in Persons /\ switched[operator] > 0)]_vars
<1> SUFFICES ASSUME Inv, [Next]_vars, creds' # creds
             PROVE  operator \in active \/ (operator \in Persons /\ switched[operator] > 0)
  OBVIOUS
<1>1. Management
  <2>1. ~UNCHANGED creds
    OBVIOUS
  <2>2. ~(\E r \in Requests, id \in Ids : GrantBegin(r, id))
    BY <2>1 DEF GrantBegin
  <2>3. ~(\E r \in Requests : GrantEnd(r))
    BY <2>1 DEF GrantEnd
  <2> QED
    BY <2>1, <2>2, <2>3 DEF Next, vars
<1>2. PICK t \in issued : Resolves(t) /\ InPerson(Principal(t))
  BY <1>1 DEF Management, Register, Update, Delete, Managed
<1>3. t \in Token /\ Sound(t)
  BY DEF Inv, TypeOK, TokensSound
<1>4. t.kind \notin {"server", "scoped"} /\ t.actor = NoOne /\ t.sub = operator
  BY <1>2 DEF InPerson, Principal
<1>5. t.kind = "user"
  BY <1>3, <1>4, TokenFields DEF Sound, Acts, Kinds
<1>6. t.sub \in active \/ t.left <= switched[t.sub]
  BY <1>2, <1>3, <1>5 DEF Sound, Switchable, Resolves
<1>7. PICK p \in Persons : p = t.sub
  BY <1>3, <1>5 DEF Sound, OfItsSession, OfAPerson
<1>8. switched[p] \in Nat
  BY PersonFields DEF Inv
<1> QED
  BY <1>3, <1>4, <1>6, <1>7, <1>8, TokenFields

-----------------------------------------------------------------------------
(* Every variable keeps its kind, and every token alive is sound.          *)
THEOREM Invariant == Spec => []Inv
BY Initially, Steps, PTL DEF Spec

(* _grant_refresh_token and the delegation exchanges: what a sign-in gives *)
(* cannot be made to last, for any lifetimes.                              *)
THEOREM SessionsEnd == Spec => []EverySessionEnds
<1>1. Inv => EverySessionEnds
  BY DEF Inv, TokensSound, Sound, OfItsSession, EverySessionEnds
<1> QED
  BY <1>1, Invariant, PTL

(* _grant_refresh_token takes the roles of now: platform:admin lags behind *)
(* a demotion by one access lifetime at most.                              *)
THEOREM DemotionTakesHold == Spec => []DemotionLag
<1>1. Inv => DemotionLag
  BY DEF Inv, TokensSound, Sound, Demotable, DemotionLag
<1> QED
  BY <1>1, Invariant, PTL

(* _grant_refresh_token asks whether its holder is active: a person's own  *)
(* access tokens outlive the account's deactivation by one lifetime at     *)
(* most.                                                                   *)
THEOREM DeactivationTakesHold == Spec => []DeactivationLag
<1>1. Inv => DeactivationLag
  BY DEF Inv, TokensSound, Sound, Switchable, DeactivationLag
<1> QED
  BY <1>1, Invariant, PTL

(* _grant_client_credentials reads the row again after its derivation: a   *)
(* server token outlives the deletion or the narrowing of its credential   *)
(* by one lifetime at most, whatever was managed during the derivation.    *)
THEOREM ServerTokensEnd == Spec => []ServerTokensLapse
<1>1. Inv => ServerTokensLapse
  BY DEF Inv, TokensSound, Sound, OfItsRow, ServerTokensLapse
<1> QED
  BY <1>1, Invariant, PTL

(* _require_operator: no delegation manages a credential, so management    *)
(* ends one access lifetime after the operator's account is switched off.  *)
THEOREM ManagementEnds == Spec => ManagementLapses
BY Invariant, ManagedInPerson, PTL DEF Spec, ManagementLapses

=============================================================================
