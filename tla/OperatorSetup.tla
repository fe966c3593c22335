--------------------------- MODULE OperatorSetup ---------------------------
(***************************************************************************)
(* How a fresh Origin gets its operator: /auth/bootstrap/claim, the wizard *)
(* (/setup/complete), the promotion of the first sign-in that carries the  *)
(* setup token (_grant_authorization_code), and the manifest applied at    *)
(* start-up.                                                               *)
(*                                                                         *)
(* The three settings rows and the cache readers consult change together,  *)
(* with nothing awaited between a commit and the cache, so one variable    *)
(* stands for both. A password is derived between the checks of a claim or *)
(* wizard call and its writes: a Begin and an End. The wizard's writes are *)
(* separate commits with no await: nobody else runs between them, but the  *)
(* process can stop there.                                                 *)
(*                                                                         *)
(* The callers modelled hold the right bootstrap or setup token, and the   *)
(* operator does not rewrite these settings by hand (PATCH /system).       *)
(***************************************************************************)
CONSTANTS
  Persons,            \* people who get an account
  ManifestOperators,  \* those a manifest may name as operator
  Requests,           \* concurrent claim and wizard calls
  NoOne,              \* no operator
  NoCall              \* no wizard call is between its commits

ASSUME PersonsAssumption == ManifestOperators \subseteq Persons /\ NoOne \notin Persons
ASSUME RequestsAssumption == NoCall \notin Requests

VARIABLES
  complete,    \* platform.setup_complete
  operator,    \* platform.operator_id
  promotion,   \* platform.setup_operator_token: absent, carried or spent
  tokenFile,   \* the setup token is on disk
  tokenLive,   \* the setup token is in memory
  people,      \* rows of persons
  call,        \* what each request awaits a derivation for
  writing,     \* the wizard call between its commits, and what it does next
  setBy,       \* history: what set the operator last
  cutShort     \* history: the process stopped between the wizard's commits

setupVars == <<complete, operator, promotion, tokenFile, tokenLive, people, call,
          writing, setBy, cutShort>>

Between == [req |-> NoCall, next |-> "none"]
LoopFree == writing = Between
InFlight == {r \in Requests : call[r] # "none"}

(* The account's row is in the commit that names its owner operator.       *)
RowsLeftOut(who) == people              \* fault: the row is not flushed with the settings
RowsWith(who) == people \cup ({who} \ {NoOne})

-----------------------------------------------------------------------------
(* bootstrap_claim: setup must be incomplete when the call begins.         *)
ClaimOpen == ~complete

Claim(p) ==
  /\ p \in Persons \ people
  /\ people' = RowsWith(p)
  /\ complete' = TRUE
  /\ operator' = p
  /\ setBy' = "claim"
  /\ UNCHANGED <<promotion, tokenFile, tokenLive, writing, cutShort>>

ClaimBegin(r) ==
  /\ LoopFree
  /\ call[r] = "none"
  /\ ClaimOpen
  /\ call' = [call EXCEPT ![r] = "claim"]
  /\ UNCHANGED <<complete, operator, promotion, tokenFile, tokenLive, people,
                 writing, setBy, cutShort>>

ClaimEnd(r, p) ==
  /\ LoopFree
  /\ call[r] = "claim"
  /\ Claim(p)
  /\ call' = [call EXCEPT ![r] = "none"]

(* Without a password nothing is awaited.                                  *)
ClaimAtOnce(p) ==
  /\ LoopFree
  /\ ClaimOpen
  /\ Claim(p)
  /\ UNCHANGED call

-----------------------------------------------------------------------------
(* complete_setup: _verify_setup_token asks for incomplete setup and a     *)
(* live token; the token alone is not enough, for its file can outlive it. *)
SetupTokenAlone == tokenLive            \* fault: needs_setup not asked
SetupOpen == ~complete /\ tokenLive

SetupBegin(r) ==
  /\ LoopFree
  /\ call[r] = "none"
  /\ SetupOpen
  /\ call' = [call EXCEPT ![r] = "setup"]
  /\ UNCHANGED <<complete, operator, promotion, tokenFile, tokenLive, people,
                 writing, setBy, cutShort>>

NeverCarry(who) == "delete"             \* fault: the token is dropped, not carried forward
AfterSettings(who) == IF who = NoOne THEN "carry" ELSE "delete"

(* The person and every setting, one commit. who is the account the wizard *)
(* creates, NoOne when it asks for none.                                   *)
SetupWrites(r, who) ==
  /\ LoopFree
  /\ \/ call[r] = "setup" /\ who # NoOne
     \/ call[r] = "none" /\ SetupOpen
  /\ who \notin people
  /\ people' = RowsWith(who)
  /\ complete' = TRUE
  /\ operator' = IF who = NoOne THEN operator ELSE who
  /\ setBy' = IF who = NoOne THEN setBy ELSE "setup"
  /\ call' = [call EXCEPT ![r] = "none"]
  /\ writing' = [req |-> r, next |-> AfterSettings(who)]
  /\ UNCHANGED <<promotion, tokenFile, tokenLive, cutShort>>

(* No operator yet: carry the token forward for the first sign-in.         *)
SetupCarries ==
  /\ writing.next = "carry"
  /\ promotion' = IF tokenLive THEN "carried" ELSE promotion
  /\ writing' = [writing EXCEPT !.next = "delete"]
  /\ UNCHANGED <<complete, operator, tokenFile, tokenLive, people, call,
                 setBy, cutShort>>

(* delete_setup_token leaves the file where KEYS_DIR is read-only.         *)
SetupDeletes ==
  /\ writing.next = "delete"
  /\ tokenLive' = FALSE
  /\ tokenFile' \in {FALSE, tokenFile}
  /\ writing' = Between
  /\ UNCHANGED <<complete, operator, promotion, people, call, setBy, cutShort>>

(* A claim or wizard call fails after its derivation: the address is taken. *)
CallFails(r) ==
  /\ LoopFree
  /\ call[r] # "none"
  /\ call' = [call EXCEPT ![r] = "none"]
  /\ UNCHANGED <<complete, operator, promotion, tokenFile, tokenLive, people,
                 writing, setBy, cutShort>>

-----------------------------------------------------------------------------
(* A sign-in redeems a code whose pending request carried the setup token. *)
PromotionStored == complete /\ promotion = "carried"  \* fault: operator_id not asked
Promotable == complete /\ promotion = "carried" /\ operator = NoOne

Promote(p) ==
  /\ LoopFree
  /\ Promotable
  /\ people' = RowsWith(p)
  /\ operator' = p
  /\ promotion' = "spent"
  /\ setBy' = "promotion"
  /\ UNCHANGED <<complete, tokenFile, tokenLive, call, writing, cutShort>>

(* manifest._ensure_operator: create the operator, or stamp the existing.  *)
EnsureOperator(m) ==
  /\ people' = RowsWith(m)
  /\ operator' = m
  /\ setBy' = "manifest"

(* The process stops anywhere and starts again: init_setup_token reads the *)
(* file, and the manifest, if there is one, is applied.                    *)
Restart ==
  /\ call' = [r \in Requests |-> "none"]
  /\ writing' = Between
  /\ cutShort' = (cutShort \/ writing.next = "carry")
  /\ tokenLive' = tokenFile
  /\ UNCHANGED <<complete, promotion, tokenFile>>
  /\ \/ UNCHANGED <<operator, people, setBy>>
     \/ \E m \in ManifestOperators : EnsureOperator(m)

SetupInit ==
  /\ complete = FALSE
  /\ operator = NoOne
  /\ promotion = "absent"
  /\ tokenFile = TRUE
  /\ tokenLive = TRUE
  /\ people = {}
  /\ call = [r \in Requests |-> "none"]
  /\ writing = Between
  /\ setBy = "nobody"
  /\ cutShort = FALSE

SetupNext ==
  \/ \E r \in Requests :
       \/ ClaimBegin(r)
       \/ SetupBegin(r)
       \/ CallFails(r)
       \/ \E p \in Persons : ClaimEnd(r, p)
       \/ \E who \in Persons \cup {NoOne} : SetupWrites(r, who)
  \/ \E p \in Persons : ClaimAtOnce(p) \/ Promote(p)
  \/ SetupCarries
  \/ SetupDeletes
  \/ Restart

SetupSpec == SetupInit /\ [][SetupNext]_setupVars

-----------------------------------------------------------------------------
(* Every variable holds a value of its kind; an operator is somebody who   *)
(* has an account.                                                         *)
SetupTypeOK ==
  /\ complete \in BOOLEAN /\ tokenFile \in BOOLEAN /\ tokenLive \in BOOLEAN
  /\ cutShort \in BOOLEAN
  /\ people \subseteq Persons
  /\ operator \in people \cup {NoOne}
  /\ promotion \in {"absent", "carried", "spent"}
  /\ call \in [Requests -> {"none", "claim", "setup"}]
  /\ writing \in [req : Requests, next : {"carry", "delete"}] \cup {Between}
  /\ setBy \in {"nobody", "claim", "setup", "promotion", "manifest"}

(* _verify_setup_token's reason for asking needs_setup: once setup is      *)
(* complete and the calls that began before it have ended, no claim and no *)
(* wizard call sets the operator again, though a token file that outlived  *)
(* setup is live again after a restart.                                    *)
SurvivingTokenIsInert ==
  [][complete /\ InFlight = {} /\ operator' # operator
       => setBy' \in {"promotion", "manifest"}]_setupVars

(* "Promoted to platform operator" happens once, to the first sign-in, and *)
(* displaces nobody: not the operator a slower wizard call or a manifest   *)
(* put there after the token was carried forward.                          *)
PromotionFillsAVacancy ==
  [][promotion # promotion' /\ promotion' = "spent"
       => operator = NoOne /\ promotion = "carried"]_setupVars

(* "Operator captured on first OAuth sign-in": a completed setup has an    *)
(* operator or the means to get one, unless the process stopped between    *)
(* the commit that completes it and the one that carries the token.        *)
Reachable == operator # NoOne \/ promotion = "carried"
StrandedOnlyIfCutShort ==
  complete /\ LoopFree /\ ~Reachable => cutShort

=============================================================================
