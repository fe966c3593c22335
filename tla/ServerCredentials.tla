-------------------------- MODULE ServerCredentials --------------------------
(***************************************************************************)
(* The credentials of platform servers: the rows one client_id has had,    *)
(* managed by the operator with a token of Tokens, and exchanged for       *)
(* server tokens by the client_credentials grant.                          *)
(*                                                                         *)
(* The grant reads the row, derives bcrypt off the event loop and reads    *)
(* the row again: a Begin and an End, with any management between them.    *)
(* A wrong secret is refused and changes nothing; it is left out, and with *)
(* it which secret a row has.                                              *)
(***************************************************************************)
EXTENDS Tokens

CONSTANTS
  Requests,   \* grants that may wait for a derivation at once
  MaxRows,    \* bound: registrations in a behaviour
  ServerTTL   \* a server token's hour

ASSUME ServersAssumption ==
  MaxRows \in Nat /\ ServerTTL \in Nat \ {0} /\ 0 \notin Persons \cup {System}

VARIABLES
  creds,   \* server_credentials, by id
  req,     \* the row each waiting grant holds, and what it read of it
  lapse    \* history: ServerTTL less the time since a row was deleted or narrowed

vars == <<tokenVars, creds, req, lapse>>

Ids == 1..MaxRows
Row == [state : {"unused", "here", "gone"}, active : BOOLEAN, scopes : SUBSET Scopes]
NoRow(state) == [state |-> state, active |-> FALSE, scopes |-> {}]
Idle == [id |-> 0, scopes |-> {}]

Here(id) == creds[id].state = "here"
CurrentId == {id \in Ids : Here(id)}

ServerToken(id, scopes) ==
  [kind |-> "server", use |-> "access", sub |-> id, actor |-> NoOne,
   grants |-> scopes, left |-> ServerTTL]

-----------------------------------------------------------------------------
(* resolve_auth: the principal an access token stands for. A delegation    *)
(* stands for its subject, with an actor.                                  *)
Resolves(t) == t.use = "access"
Principal(t) ==
  CASE t.kind = "server" -> [type |-> "server", user |-> NoOne, actor |-> NoOne]
    [] t.kind = "scoped" -> [type |-> "mcp_client", user |-> t.sub, actor |-> NoOne]
    [] OTHER -> [type |-> "user", user |-> t.sub, actor |-> t.actor]

(* _require_operator                                                       *)
OnBehalf(auth) ==                        \* fault: the actor not asked for
  auth.type = "user" /\ auth.user = operator
InPerson(auth) == auth.type = "user" /\ auth.actor = NoOne /\ auth.user = operator

Managed(rows) ==
  /\ operator # NoOne
  /\ \E t \in issued : Resolves(t) /\ InPerson(Principal(t))
  /\ creds' = rows
  /\ UNCHANGED <<tokenVars, req>>

(* 409 while a row has the client_id; ids are never used again.            *)
Register(id, scopes) ==
  /\ CurrentId = {}
  /\ creds[id].state = "unused"
  /\ Managed([creds EXCEPT ![id] = [state |-> "here", active |-> TRUE, scopes |-> scopes]])
  /\ UNCHANGED lapse

Update(id, active1, scopes) ==
  /\ Here(id)
  /\ Managed([creds EXCEPT ![id].active = active1, ![id].scopes = scopes])
  /\ lapse' = IF creds[id].scopes \subseteq scopes THEN lapse
              ELSE [lapse EXCEPT ![id] = ServerTTL]

Delete(id) ==
  /\ Here(id)
  /\ Managed([creds EXCEPT ![id] = NoRow("gone")])
  /\ lapse' = [lapse EXCEPT ![id] = ServerTTL]

-----------------------------------------------------------------------------
GrantBegin(r, id) ==
  /\ req[r] = Idle
  /\ Here(id) /\ creds[id].active
  /\ req' = [req EXCEPT ![r] = [id |-> id, scopes |-> creds[id].scopes]]
  /\ UNCHANGED <<tokenVars, creds, lapse>>

(* _release_db expires the row held, so every attribute is read again: of  *)
(* a row deleted meanwhile there is nothing to read, and the grant fails.  *)
(* Whether it is still active is not asked.                                *)
AsHeld(r) == {req[r].scopes}             \* fault: the row as it was first read
Reread(r) == {creds[i].scopes : i \in {req[r].id} \cap CurrentId}

GrantEnd(r) ==
  /\ req[r] # Idle
  /\ Signs({ServerToken(req[r].id, scopes) : scopes \in Reread(r)})
  /\ req' = [req EXCEPT ![r] = Idle]
  /\ UNCHANGED <<active, operator, session, demoted, switched, creds, lapse>>

-----------------------------------------------------------------------------
Init ==
  /\ TokensInit
  /\ creds = [id \in Ids |-> NoRow("unused")]
  /\ req = [r \in Requests |-> Idle]
  /\ lapse = [id \in Ids |-> 0]

Management ==
  \E id \in Ids :
    \/ \E scopes \in SUBSET Scopes : Register(id, scopes)
    \/ \E active1 \in BOOLEAN, scopes \in SUBSET Scopes : Update(id, active1, scopes)
    \/ Delete(id)

Next ==
  \/ (Minted \/ AccountChanges) /\ UNCHANGED <<creds, req, lapse>>
  \/ Management
  \/ \E r \in Requests, id \in Ids : GrantBegin(r, id)
  \/ \E r \in Requests : GrantEnd(r)
  \/ Passes /\ lapse' = [id \in Ids |-> Less(lapse[id])] /\ UNCHANGED <<creds, req>>

Spec == Init /\ [][Next]_vars

-----------------------------------------------------------------------------
TypeOK ==
  /\ issued \subseteq Token
  /\ active \subseteq Persons /\ operator \in Persons \cup {NoOne}
  /\ session \in [Persons -> LongOver..RefreshTTL]
  /\ demoted \in [Persons -> 0..AccessTTL] /\ switched \in [Persons -> 0..AccessTTL]
  /\ creds \in [Ids -> Row]
  /\ req \in [Requests -> [id : 0..MaxRows, scopes : SUBSET Scopes]]
  /\ lapse \in [Ids -> 0..ServerTTL]

(* _grant_client_credentials mints from what the row says after the        *)
(* derivation: a server token of a credential that was deleted, or with a  *)
(* scope since taken from it, is dead one server lifetime after that.      *)
ServerTokensLapse ==
  \A t \in issued : t.kind = "server" =>
    \/ Here(t.sub) /\ t.grants \subseteq creds[t.sub].scopes
    \/ t.left <= lapse[t.sub]

(* _require_operator: "A delegated machine token must not stand in for the *)
(* operator here: the credentials this router mints and rotates outlive    *)
(* the delegation". Nothing is managed in the name of an operator whose    *)
(* account has been off for an access lifetime, whatever was delegated.    *)
ManagementLapses ==
  [][creds' # creds => operator \in active \/ (operator \in Persons /\ switched[operator] > 0)]_vars
=============================================================================
