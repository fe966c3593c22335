------------------------------- MODULE Tokens -------------------------------
(***************************************************************************)
(* The tokens Origin signs and what each can be turned into: a sign-in     *)
(* gives an access and a refresh token, a refresh token any number of      *)
(* access tokens, a person's token any number of delegations.              *)
(*                                                                         *)
(* Nothing is stored when a token is minted, so nothing revokes one: it is *)
(* good until its exp. A token is what its claims say and the time it has  *)
(* left; peers accept every access token in issued, offline. Two tokens    *)
(* with the same claims are one.                                           *)
(***************************************************************************)
EXTENDS Integers, FiniteSets, Functions

CONSTANTS
  Persons,
  System,        \* the platform-system principal
  Services,      \* _PLATFORM_SERVICES
  Personas,      \* PERSONA_NAMES: personas that sign with a key of their own
  MailPersona,   \* the persona of the purpose platform-mail
  NoOne,
  Scopes,        \* scopes a server credential may be given
  AccessTTL,     \* access_token_ttl_hours
  RefreshTTL,    \* 30 days
  LinkTTL,       \* a confirmation link's 24 hours
  MaxDelegation, \* bound: the longest lifetime a delegation is asked for
  MaxTokens      \* bound: tokens alive at once

ASSUME NamesAssumption ==
  /\ System \notin Persons /\ NoOne \notin Persons \cup {System}
  /\ NoOne \notin Services \cup Personas
  /\ Services \cap Personas = {} /\ MailPersona \in Personas
ASSUME LifetimesAssumption ==
  /\ AccessTTL \in Nat \ {0} /\ LinkTTL \in Nat \ {0} /\ MaxDelegation \in Nat \ {0}
  /\ RefreshTTL \in Nat \ {0} /\ LinkTTL <= RefreshTTL
  /\ MaxTokens \in Nat

VARIABLES
  issued,    \* the tokens not yet expired
  active,    \* the persons not deactivated
  operator,  \* platform.operator_id
  session,   \* history: time left, below 0 the time since, of what a person's
             \* last sign-in or the last link mailed to them gave
  demoted,   \* history: AccessTTL less the time since a person was operator
  switched   \* history: AccessTTL less the time since a person was deactivated

tokenVars == <<issued, active, operator, session, demoted, switched>>

Admin == "platform:admin"
ASSUME RolesAssumption == Admin \notin Scopes

(* Who may call, and so act: agience-server-<persona> is written persona.  *)
Callers == Services \cup Personas
Kinds == {"user", "scoped", "delegation", "system", "server"}
Uses == {"access", "refresh", "link"}

Token == [kind : Kinds, use : Uses, sub : Persons \cup {System} \cup Nat,
          actor : Callers \cup {NoOne}, grants : SUBSET ({Admin} \cup Scopes), left : Nat \ {0}]

-----------------------------------------------------------------------------
Less(n) == IF n = 0 THEN 0 ELSE n - 1

(* A person's token: full for a first-party client, scoped (mcp_client)    *)
(* for any other; and the tokens that act for somebody. grants is the      *)
(* roles or scopes the claims name.                                        *)
PersonToken(kind, use, p, roles, left) ==
  [kind |-> kind, use |-> use, sub |-> p, actor |-> NoOne, grants |-> roles,
   left |-> left]

ActingToken(kind, sub, actor, left) ==
  [kind |-> kind, use |-> "access", sub |-> sub, actor |-> actor, grants |-> {},
   left |-> left]

(* _compute_roles: platform:admin for the operator, as of now.             *)
ComputeRoles(p) == IF operator = p THEN {Admin} ELSE {}

Signs(new) ==
  /\ Cardinality(issued \cup new) <= MaxTokens
  /\ issued' = issued \cup new

-----------------------------------------------------------------------------
(* person_token_claims: both tokens of a sign-in carry the same claims.     *)
SignsIn(p, kind, roles) ==
  /\ p \in active
  /\ Signs({PersonToken(kind, "access", p, roles, AccessTTL),
            PersonToken(kind, "refresh", p, roles, RefreshTTL)})
  /\ session' = [session EXCEPT ![p] = RefreshTTL]
  /\ UNCHANGED <<active, operator, demoted, switched>>

(* Password, registration, confirmation and claim; code and passkey, which *)
(* compute no roles; and /token, where a client that is not one of the     *)
(* platform's own gets the scoped token.                                   *)
PasswordLogin(p) == SignsIn(p, "user", ComputeRoles(p))
OtpVerify(p) == SignsIn(p, "user", {})
GrantAuthorizationCode(p, firstParty) ==
  IF firstParty THEN SignsIn(p, "user", ComputeRoles(p)) ELSE SignsIn(p, "scoped", {})

(* _verification_url: a link is a token of its person too.                 *)
MailLink(p) ==
  /\ p \in active
  /\ Signs({PersonToken("user", "link", p, {}, LinkTTL)})
  /\ session' = [session EXCEPT ![p] = IF @ < LinkTTL THEN LinkTTL ELSE @]
  /\ UNCHANGED <<active, operator, demoted, switched>>

(* _grant_refresh_token: the claims of the refresh token with the roles of *)
(* now, none for a scoped token. The refresh token stays good.             *)
Refreshable(t) == t.use = "refresh"

ReplayedRoles(t) == t.grants             \* fault: the claims copied through
CurrentRoles(t) == IF t.kind = "user" THEN ComputeRoles(t.sub) ELSE {}

AnyHolder(t) == TRUE                     \* fault: the holder not asked for
HolderActive(t) == t.sub \in active

Refresh(t) ==
  /\ Refreshable(t) /\ HolderActive(t)
  /\ Signs({PersonToken(t.kind, "access", t.sub, CurrentRoles(t), AccessTTL)})
  /\ UNCHANGED <<active, operator, session, demoted, switched>>

-----------------------------------------------------------------------------
(* /internal/delegation-token. The subject is that of a token Origin       *)
(* verifies: one of a person's, of whatever use.                           *)
Chained(t) == t.kind \notin {"server", "system"} \* fault: a delegation's too
NamesAPerson(t) == t.kind \notin {"server", "delegation", "system"}

(* A persona asks for itself only, a platform service for any.             *)
ProvenActor(caller, actor) == caller \in Services \/ actor = caller

Delegate(caller, actor, t, left) ==
  /\ ProvenActor(caller, actor)
  /\ NamesAPerson(t)
  /\ Signs({ActingToken("delegation", t.sub, actor, left)})
  /\ UNCHANGED <<active, operator, session, demoted, switched>>

(* /internal/system-delegation: the subject is fixed, and rooted in an     *)
(* operator. The persona a purpose names signs as itself; a service names  *)
(* in its own token which persona is acting, or acts itself.               *)
SystemDelegate(caller, actor, left) ==
  /\ caller \in Services \cup {MailPersona}
  /\ ProvenActor(caller, actor)
  /\ operator # NoOne
  /\ Signs({ActingToken("system", System, actor, left)})
  /\ UNCHANGED <<active, operator, session, demoted, switched>>

(* /internal/describe-delegation: addressed to a persona, and unsigned.    *)
DescribeDelegate(caller, persona, left) ==
  /\ caller \in Services
  /\ operator # NoOne
  /\ Signs({ActingToken("system", System, persona, left)})
  /\ UNCHANGED <<active, operator, session, demoted, switched>>

-----------------------------------------------------------------------------
(* platform.operator_id is written again, or for the first time.           *)
SetOperator(p) ==
  /\ p # operator
  /\ operator' = p
  /\ demoted' = [q \in Persons |-> IF q = operator THEN AccessTTL ELSE demoted[q]]
  /\ UNCHANGED <<issued, active, session, switched>>

Deactivate(p) ==
  /\ p \in active
  /\ active' = active \ {p}
  /\ switched' = [switched EXCEPT ![p] = AccessTTL]
  /\ UNCHANGED <<issued, operator, session, demoted>>

Reactivate(p) ==
  /\ p \notin active
  /\ active' = active \cup {p}
  /\ UNCHANGED <<issued, operator, session, demoted, switched>>

(* verify_token refuses a token past its exp. Nothing outlives a session   *)
(* by more than LongOver, and session counts no further.                   *)
LongOver == -(AccessTTL + MaxDelegation)

Aged(tokens) == {[t EXCEPT !.left = @ - 1] : t \in {u \in tokens : u.left > 1}}

Passes ==
  /\ issued' = Aged(issued)
  /\ session' = [p \in Persons |-> IF session[p] = LongOver THEN LongOver ELSE session[p] - 1]
  /\ demoted' = [p \in Persons |-> Less(demoted[p])]
  /\ switched' = [p \in Persons |-> Less(switched[p])]
  /\ UNCHANGED <<active, operator>>

TokensInit ==
  /\ issued = {}
  /\ active = Persons
  /\ operator = NoOne
  /\ session = [p \in Persons |-> LongOver]
  /\ demoted = [p \in Persons |-> 0]
  /\ switched = [p \in Persons |-> 0]

Minted ==
  \/ \E p \in Persons :
       \/ PasswordLogin(p)
       \/ OtpVerify(p)
       \/ \E firstParty \in BOOLEAN : GrantAuthorizationCode(p, firstParty)
       \/ MailLink(p)
  \/ \E t \in issued : Refresh(t)
  \/ \E caller, actor \in Callers, left \in 1..MaxDelegation :
       \/ \E t \in issued : Delegate(caller, actor, t, left)
       \/ SystemDelegate(caller, actor, left)
       \/ DescribeDelegate(caller, actor, left)

AccountChanges ==
  \E p \in Persons : SetOperator(p) \/ Deactivate(p) \/ Reactivate(p)

-----------------------------------------------------------------------------
OfAPerson(t) == t.kind \in {"user", "scoped", "delegation"}

(* "with no rotation and no revocation list": what a sign-in or a mailed   *)
(* link gives can be exchanged for as long as it lasts and no longer. The  *)
(* access tokens are dead one lifetime after it, the delegations one more  *)
(* delegation's lifetime after them: none is exchanged for another.        *)
Extra(t) ==
  CASE t.kind = "delegation" -> AccessTTL + MaxDelegation
    [] t.kind # "delegation" /\ t.use = "access" -> AccessTTL
    [] OTHER -> 0

EverySessionEnds ==
  \A t \in issued : OfAPerson(t) => t.sub \in Persons /\ t.left <= session[t.sub] + Extra(t)

(* _grant_refresh_token: no replay lets "a demoted operator keep           *)
(* platform:admin for up to a month"; it is gone one access lifetime after *)
(* the demotion, and never held by a scoped token.                         *)
DemotionLag ==
  \A t \in issued : Admin \in t.grants /\ t.use = "access" =>
    t.kind = "user" /\ (operator = t.sub \/ t.left <= demoted[t.sub])

(* access_token_ttl_hours is "the platform's revocation lag": a person's   *)
(* own access tokens are dead one lifetime after the account is switched   *)
(* off, whatever refresh tokens they hold. (A delegation asks nothing of   *)
(* the account: it is bounded by EverySessionEnds alone.)                  *)
DeactivationLag ==
  \A t \in issued : t.kind \in {"user", "scoped"} /\ t.use = "access" /\ t.sub \notin active =>
    t.left <= switched[t.sub]
=============================================================================
