----------------------------- MODULE AuthCodes -----------------------------
(***************************************************************************)
(* The authorization code flow of Origin: /authorize keeps a pending       *)
(* request, a local leg (password, one-time code, registration) or the     *)
(* upstream callback turns it into a code, and /token redeems the code for *)
(* tokens or /me/link-provider for an identity on the account signed in.   *)
(*                                                                         *)
(* Both caches are process-local dicts. A leg reads its pending request,   *)
(* awaits (a derivation, the upstream provider) and writes the code from   *)
(* the request it holds, whether or not it is still pending: a Begin and   *)
(* an End, with other legs, the chooser and /token in between. /token does *)
(* all it does to the caches in one step.                                  *)
(*                                                                         *)
(* Handles and codes are numbered in the order they are inserted, which is *)
(* the order of the dicts. A client stands for its id and redirect_uri.    *)
(***************************************************************************)
EXTENDS Integers, FiniteSets, Functions

CONSTANTS
  Clients,      \* client_id and redirect_uri, as one
  Verifiers,    \* PKCE verifiers; a challenge is the one its verifier makes
  NoChallenge,  \* no code_challenge, or no code_verifier, was sent
  Providers,    \* REGISTERED_PROVIDERS
  Local,        \* _LOCAL_PROVIDER: Origin itself
  Requests,     \* concurrent legs
  TTL,          \* _AUTH_CACHE_TTL
  MaxItems,     \* _AUTH_CACHE_MAX_ITEMS
  MaxStarts,    \* bound: calls of /authorize
  MaxWritten,   \* bound: codes ever written
  MaxTime       \* bound: the clock

ASSUME NamesAssumption == Local \notin Providers /\ NoChallenge \notin Verifiers
ASSUME NumbersAssumption ==
  /\ TTL \in Nat /\ MaxItems \in Nat \ {0}
  /\ MaxStarts \in Nat /\ MaxWritten \in Nat /\ MaxTime \in Nat

VARIABLES
  now,       \* the clock
  started,   \* history: handles ever given out
  pending,   \* pkce_challenges: handle -> request
  written,   \* history: codes ever written
  live,      \* authorization_codes: code -> what it grants
  leg,       \* the legs past their first await
  redeemed,  \* history: how often each code bought tokens or a link
  answer     \* what /token or link_provider answered in the last step; a refused
             \* or expired code is not told apart from no answer

vars == <<now, started, pending, written, live, leg, redeemed, answer>>

Handles == 1..MaxStarts
Codes == 1..MaxWritten
Challenges == Verifiers \cup {NoChallenge}
Methods == Providers \cup {Local}

Idle == [kind |-> "idle"]
Silent == [kind |-> "none"]

-----------------------------------------------------------------------------
(* _prune_auth_cache over one dict: what is past the TTL goes, then the    *)
(* oldest entries, down to MaxItems.                                       *)
Fresh(t) == now - t <= TTL
PruneByAge(f) == Restrict(f, {x \in DOMAIN f : Fresh(f[x].at)})  \* fault: never trimmed
Prune(f) ==
  LET kept == {x \in DOMAIN f : Fresh(f[x].at)}
  IN  Restrict(f, {x \in kept : Cardinality({y \in kept : y >= x}) <= MaxItems})

Put(f, x, item) == [y \in DOMAIN f \cup {x} |-> IF y = x THEN item ELSE f[y]]
Drop(f, x) == Restrict(f, DOMAIN f \ {x})

-----------------------------------------------------------------------------
(* authorize: prune, then keep the request under a fresh handle.           *)
Authorize(cl, ch, prov) ==
  /\ started < MaxStarts
  /\ started' = started + 1
  /\ pending' = Put(Prune(pending), started + 1,
                    [client |-> cl, challenge |-> ch, provider |-> prov, at |-> now])
  /\ live' = Prune(live)
  /\ answer' = Silent
  /\ UNCHANGED <<now, written, leg, redeemed>>

(* authorize_federate: a local request is handed to a provider, in place.  *)
Federate(h, prov) ==
  /\ h \in DOMAIN pending
  /\ pending[h].provider = Local
  /\ pending' = [pending EXCEPT ![h].provider = prov]
  /\ answer' = Silent
  /\ UNCHANGED <<now, started, written, live, leg, redeemed>>

(* A leg holds the request it read; the callback also its provider.        *)
LegOf(kind, h) ==
  [kind |-> kind, handle |-> h, via |-> pending[h].provider,
   client |-> pending[h].client, challenge |-> pending[h].challenge]

(* _pop_local_auth_request reads the request, and the leg awaits a proof.  *)
LocalBegin(r, h) ==
  /\ leg[r] = Idle
  /\ h \in DOMAIN pending
  /\ pending[h].provider = Local
  /\ leg' = [leg EXCEPT ![r] = LegOf("local", h)]
  /\ answer' = Silent
  /\ UNCHANGED <<now, started, pending, written, live, redeemed>>

(* auth_callback: the provider is read before the first await.             *)
CallbackBegin(r, h) ==
  /\ leg[r] = Idle
  /\ h \in DOMAIN pending
  /\ pending[h].provider # Local
  /\ leg' = [leg EXCEPT ![r] = LegOf("callback", h)]
  /\ answer' = Silent
  /\ UNCHANGED <<now, started, pending, written, live, redeemed>>

(* The proof fails, or the person is not admitted.                         *)
LegFails(r) ==
  /\ leg[r] # Idle
  /\ leg' = [leg EXCEPT ![r] = Idle]
  /\ answer' = Silent
  /\ UNCHANGED <<now, started, pending, written, live, redeemed>>

(* The code a leg writes names the method the leg began with. How the      *)
(* proof was given is kept beside it.                                      *)
ViaReread(r) ==                         \* fault: the provider is read after the await
  IF leg[r].handle \in DOMAIN pending THEN pending[leg[r].handle].provider ELSE leg[r].via
Via(r) == leg[r].via
NewCode == written + 1
CodeOf(r) ==
  [client |-> leg[r].client, challenge |-> leg[r].challenge,
   via |-> Via(r), proof |-> leg[r].kind, at |-> now]

(* _complete_local_signin: pop the request, prune, write the code.         *)
LocalEnd(r) ==
  /\ leg[r].kind = "local"
  /\ written < MaxWritten
  /\ pending' = Prune(Drop(pending, leg[r].handle))
  /\ live' = Put(Prune(live), NewCode, CodeOf(r))
  /\ written' = NewCode
  /\ leg' = [leg EXCEPT ![r] = Idle]
  /\ answer' = Silent
  /\ UNCHANGED <<now, started, redeemed>>

(* auth_callback: prune, write, prune; the request stays pending.          *)
CallbackEnd(r) ==
  /\ leg[r].kind = "callback"
  /\ written < MaxWritten
  /\ pending' = Prune(pending)
  /\ live' = Prune(Put(Prune(live), NewCode, CodeOf(r)))
  /\ written' = NewCode
  /\ leg' = [leg EXCEPT ![r] = Idle]
  /\ answer' = Silent
  /\ UNCHANGED <<now, started, redeemed>>

-----------------------------------------------------------------------------
(* _grant_authorization_code. The code's data is read, then the caches are *)
(* pruned, then every check is made against the data.                      *)
AnyVerifier(g, v) == TRUE               \* fault: the challenge is not compared
VerifierMatches(g, v) == g.challenge \in {NoChallenge, v}

(* Invalid client_id, Invalid redirect_uri; Authorization code expired;    *)
(* Invalid code_verifier: in that order.                                   *)
Expired(g, cl) == cl = g.client /\ ~Fresh(g.at)
Refused(g, cl, v) == cl # g.client \/ (Fresh(g.at) /\ ~VerifierMatches(g, v))
Earned(g, cl, v) == cl = g.client /\ Fresh(g.at) /\ VerifierMatches(g, v)

KeepCode(f, c) == f                     \* fault: the code is not deleted
Spend(f, c) == Drop(f, c)
OnRefusal(f, c) == f

Failure(kind, c) == [kind |-> kind, code |-> c]
Grants(kind, c, cl, v) == [kind |-> kind, code |-> c, client |-> cl, verifier |-> v]

Exchange(c, cl, v) ==
  /\ c \in DOMAIN live
  /\ pending' = Prune(pending)
  /\ LET kept == Prune(live) IN
     \/ /\ Refused(live[c], cl, v)
        /\ live' = OnRefusal(kept, c)
        /\ answer' = Silent
        /\ UNCHANGED redeemed
     \/ /\ Expired(live[c], cl)
        /\ live' = Drop(kept, c)       \* del raises KeyError if it was pruned
        /\ answer' = IF c \in DOMAIN kept THEN Silent ELSE Failure("server error", c)
        /\ UNCHANGED redeemed
     \/ /\ Earned(live[c], cl, v)
        /\ live' = Spend(kept, c)
        /\ \/ /\ c \notin DOMAIN kept   \* del raises KeyError
              /\ answer' = Failure("server error", c)
              /\ UNCHANGED redeemed
           \/ /\ c \in DOMAIN kept      \* the identity or the person is refused
              /\ answer' = Failure("not admitted", c)
              /\ UNCHANGED redeemed
           \/ /\ c \in DOMAIN kept
              /\ answer' = Grants("tokens", c, cl, v)
              /\ redeemed' = [redeemed EXCEPT ![c] = @ + 1]
  /\ UNCHANGED <<now, started, written, leg>>

(* link_provider spends a code too: on the account signed in already, and  *)
(* without pruning. The client is known by its redirect_uri only.          *)
Link(c, cl, v) ==
  /\ c \in DOMAIN live
  /\ \/ /\ Refused(live[c], cl, v)
        /\ live' = OnRefusal(live, c)
        /\ answer' = Silent
        /\ UNCHANGED redeemed
     \/ /\ Expired(live[c], cl)
        /\ live' = Drop(live, c)
        /\ answer' = Silent
        /\ UNCHANGED redeemed
     \/ /\ Earned(live[c], cl, v)
        /\ live' = Spend(live, c)
        /\ \/ /\ answer' = Failure("not admitted", c)    \* linked to another account
              /\ UNCHANGED redeemed
           \/ /\ answer' = Grants("linked", c, cl, v)
              /\ redeemed' = [redeemed EXCEPT ![c] = @ + 1]
  /\ UNCHANGED <<now, started, pending, written, leg>>

-----------------------------------------------------------------------------
Tick ==
  /\ now < MaxTime
  /\ now' = now + 1
  /\ answer' = Silent
  /\ UNCHANGED <<started, pending, written, live, leg, redeemed>>

Nothing == [x \in {} |-> Silent]

(* Both caches and every leg are the process's own.                        *)
Restart ==
  /\ pending' = Nothing
  /\ live' = Nothing
  /\ leg' = [r \in Requests |-> Idle]
  /\ answer' = Silent
  /\ UNCHANGED <<now, started, written, redeemed>>

Init ==
  /\ now = 0
  /\ started = 0 /\ written = 0
  /\ pending = Nothing /\ live = Nothing
  /\ leg = [r \in Requests |-> Idle]
  /\ redeemed = [c \in Codes |-> 0]
  /\ answer = Silent

Next ==
  \/ \E cl \in Clients, ch \in Challenges, prov \in Methods : Authorize(cl, ch, prov)
  \/ \E h \in Handles :
       \/ \E prov \in Providers : Federate(h, prov)
       \/ \E r \in Requests : LocalBegin(r, h) \/ CallbackBegin(r, h)
  \/ \E r \in Requests : LegFails(r) \/ LocalEnd(r) \/ CallbackEnd(r)
  \/ \E c \in Codes, cl \in Clients, v \in Challenges : Exchange(c, cl, v) \/ Link(c, cl, v)
  \/ Tick
  \/ Restart

Spec == Init /\ [][Next]_vars

-----------------------------------------------------------------------------
Request == [client : Clients, challenge : Challenges, provider : Methods, at : 0..MaxTime]
Grant == [client : Clients, challenge : Challenges, via : Methods,
          proof : {"local", "callback"}, at : 0..MaxTime]
Leg == [kind : {"local", "callback"}, handle : Handles, via : Methods,
        client : Clients, challenge : Challenges]

(* Every variable holds a value of its kind; only handles given out are    *)
(* pending and only codes written are live.                                *)
TypeOK ==
  /\ now \in 0..MaxTime
  /\ started \in 0..MaxStarts /\ written \in 0..MaxWritten
  /\ DOMAIN pending \subseteq 1..started
  /\ DOMAIN live \subseteq 1..written
  /\ pending \in [DOMAIN pending -> Request]
  /\ live \in [DOMAIN live -> Grant]
  /\ leg \in [Requests -> {Idle} \cup Leg]
  /\ redeemed \in [Codes -> Nat]
  /\ answer.kind \in {"none", "tokens", "linked", "not admitted", "server error"}

(* The method a code names is the one its proof was given by: a password   *)
(* or one-time code proof never passes for a provider's, nor the reverse,  *)
(* though the chooser may hand the request to a provider during the await. *)
(* /token resolves the person by (provider, subject) on the strength of it. *)
MethodIsTheProof ==
  \A c \in DOMAIN live : live[c].via = Local <=> live[c].proof = "local"

(* Tokens or a link go to the client the code was written for, against the *)
(* verifier of the challenge it was asked with, while the code is fresh,   *)
(* and once.                                                               *)
TokensAreEarned ==
  [][answer'.kind \in {"tokens", "linked"} =>
       LET g == live[answer'.code] IN
       /\ answer'.client = g.client
       /\ g.challenge \in {NoChallenge, answer'.verifier}
       /\ Fresh(g.at)]_vars
CodeSpentOnce == \A c \in Codes : redeemed[c] <= 1

(* _AUTH_CACHE_MAX_ITEMS: a dict holds at most one item more, the one that *)
(* was written after the last prune.                                       *)
CachesBounded ==
  /\ Cardinality(DOMAIN pending) <= MaxItems + 1
  /\ Cardinality(DOMAIN live) <= MaxItems + 1

=============================================================================
