# Origin in TLA+

Origin (`src/src/origin`) is the identity node of an Agience installation: it signs people in
(password, e-mailed one-time code, passkey, upstream provider), issues authorization codes and
tokens, keeps the operator's settings, and holds one share of each Mantle master key. It is one
FastAPI process (`main` refuses more workers) over one SQLite file.

This directory holds TLA+ modules translated from that code, TLC configurations that check them on
small instances, and TLAPS proofs of what matters most for every instance. `PROJECT.json` maps
every definition to the lines it models.

## How the process runs, and what that makes a step

* Most handlers are coroutines on **one event loop**. What a coroutine does between two awaits is
  one step; anything may run while it waits. The awaits that matter are key derivations (`run_kdf`:
  PBKDF2 or bcrypt on a worker thread) and calls to an upstream provider. So a handler that awaits
  once is a *Begin* and an *End* action, and each re-reads or does not re-read its state exactly as
  the code does.
* Plain `def` handlers and dependencies run in a **thread pool** and can interleave with the loop
  and with each other between any two statements; locks and conditional UPDATEs are what makes
  their steps atomic.
* **No write transaction spans an await** (`db/session.py`), so a step ends in commit or rollback
  and the tables survive a restart. Dicts and counters of the process do not. Each module with
  process state has a `Restart` (or `Boot`) action, enabled at any time.
* `get_db` closes a session that did not commit, which **rolls it back**; a handler without an await
  is one step whatever it writes, and what it writes is kept only if it commits on its way out.
* The **clock** is a variable where the code reads it, and ticks at any time, also during an await.

## Inventory

| Component | Code | State | Operations | What is hard about it |
|---|---|---|---|---|
| One-time codes | `services/otp_service.py`, `db/otp_codes.py`, `routers/otp_router.py` | `otp_codes` rows | issue (supersede, insert), verify (take an attempt, compare, claim), delete expired | hash awaited between the limit check and the insert; comparison awaited between the attempt and the claim; budget over a sliding window |
| Key-derivation admission | `services/auth_service.py`, `services/dependencies.py` | `_kdf_admitted`, `_kdf_in_flight`, the limiter's queue | admit, queue, derive, release | counters must stay exact over every exit; shed must lift; one client must not fill the queue |
| Password guess budget | `services/guess_budget.py` | `_Ledger`: ordered dict, two indices | charge, refuse, clear, evict at random | bursts between check and derivation; bounded store; spellings |
| Mail budget | `services/guess_budget.py` | one `_Ledger`, three keys per send | refuse, record | charging one key may evict another |
| Authorization codes | `routers/auth_router.py` | `pkce_challenges`, `authorization_codes` (dicts, time to live and size bound) | authorize, federate, local sign-in legs, callback, `/token`, link a provider | legs await between reading and writing; the chooser may rewrite the request; pruning |
| Operator setup | `routers/setup_router.py`, `routers/auth_router.py`, `services/manifest.py` | three settings rows, setup token in memory and on disk, persons | claim, wizard, promotion at first sign-in, manifest at start-up | overlapping claims; a stop between two commits; a token file that cannot be deleted |
| Accounts | `routers/auth_router.py`, `services/person_service.py`, `db/persons.py` | persons' password hash, verification, activity | register, login, re-hash, change, reset, confirm an address, disown, deactivate | every password check is awaited and the row can change meanwhile |
| Account linking | `services/person_service.py`, `db/person_identities.py` | persons' address and its confirmation, `person_identities` rows, waiting codes | resolve at `/token`, link, unlink, register, confirm | a code says what was known when it was written; never merge on an unproven address; never remove the last way in |
| Passkeys | `routers/passkey_router.py`, `services/passkey_service.py`, `db/passkey_*.py` | challenges, credentials with their counter | options, complete, delete | single use across replays, and across exits that do not commit |
| Platform settings, key oracle | `services/platform_settings_service.py`, `routers/system_router.py`, `services/key_oracle.py`, `routers/oracle_router.py` | rows, a cache of them, what start-up copied into `config` | list, patch, put a secret, boot | the cache must follow the commit, with threads in between; a change served only after a restart must say so |
| Key share custody | `services/key_shares.py`, `routers/key_share_router.py` | shares, spent token ids | store, supersede, release | threadpool writers; a share of another key must not be overwritten; an unreadable share is not an absent one |
| Account-created notices | `services/account_notify.py` | queue on a session, times sent | queue, send, discard | rollback; rate bound |
| Tokens | `routers/auth_router.py`, `services/auth_service.py`, `services/dependencies.py`, `services/auth_verifier.py` | none: a token is good until its `exp` | sign-in, refresh, delegation, system and describe delegation, mailed links, resolution | nothing is revoked, and tokens are exchanged for tokens; roles and accounts change meanwhile |
| Server credentials, OAuth clients | `routers/server_credentials_router.py`, `db/server_credentials.py`, `db/oauth_clients.py` | rows | register, update, rotate, delete, the `client_credentials` grant | the grant awaits bcrypt between reading the row and minting from it |
| Mail delivery, start-up, scripts, migrations, web pages | `services/email_service.py`, `main.py`, `config.py`, `scripts/`, `alembic/`, `web/` | none of their own | | pure I/O and wiring; what start-up does to other components' state is in their `Restart` |

How they interact: the sign-in routes pass the admission first (a dependency), then charge the guess
budget, then derive (through the limiter), then read the account, then write an authorization code;
`/token` resolves the code's identity to a person, turns it into tokens and may promote the person to
operator; refresh and delegation turn tokens into tokens. The operator's own token manages server
credentials and settings. One-time codes and confirmation mails are gated by the mail budget.
Settings are read through the cache by nearly all.

`PROJECT.json` `hazards` lists, at its line, every place where this goes wrong in a way a test would
hardly reach, and the property that would catch it.

## Modules

A proof module holds the theorems of one component, or of two that a reader of the code meets
together: `SignInLimits_proofs` those of `KdfAdmission` and `GuessBudget`, `CodeFlow_proofs` those of
`Identities` and `AuthCodes`, `SettingsAndSetup_proofs` those of `Settings` and `OperatorSetup`. It
extends both and composes nothing: each theorem is of the specification of one, and the two share no
variable. The other modules that end in `_proofs` are named after what they are about.

### OneTimeCode, OtpCodes, OtpCodes_proofs

`OneTimeCode` is the promise with no clock, no table and no requests: guesses are taken only on a
mailbox's newest code, at most `MaxAttempts` of them and none after a sign-in; a code signs in once.

`OtpCodes` is the code. `rows` and `code` are the table (the record of a deleted row is kept so that
history can be spoken of), `req` what each request holds across its await. `IssueBegin` is the limit
check before `_hash_code_async`, `IssueEnd` the second check, `supersede_live_for_email` and the
insert in one transaction. `VerifyBegin` is `get_latest_valid_for_email` and `claim_attempt`,
committed before the comparison; `VerifyFails` and `VerifySucceeds` are the comparison's two
outcomes with `claim_use`. Which guess is right is left open. Addresses are a mailbox and a way of
writing it, and `Normalize` keeps one form, as `normalize_email` does.

### KdfAdmission

`Admit` is `kdf_admit` (the shed is asked before the client's cap; a client in
`SHARED_CLIENT_NETWORKS` counts in the shared total only), `AskToDerive`, `StartDerivation`,
`EndDerivation` are `run_kdf` on anyio's `CapacityLimiter` (external; first come, first served),
`Finish` is the endpoint's end and the `finally` that releases. `/setup/complete` derives with no
admission (`AdmitSetup`), as in the code; so what is bounded is the number of *admitted* requests.

### OperatorSetup

The three settings (`platform.setup_complete`, `platform.operator_id`,
`platform.setup_operator_token`), the setup token in memory and on disk, and the persons' rows. A
claim or wizard call with a password derives between its checks and its writes. The wizard's commits
follow one another with no await, so no other request runs between them, but the process can stop
there: `writing` says which commit is next. `Restart` includes `init_setup_token` and the manifest.

### AuthCodes

Both process dicts, the legs that await between reading a pending request and writing a code, and
the two handlers that spend a code. `Prune` is `_prune_auth_cache` (age, then size); each handler
prunes where the code does. `/token` reads a code's data, prunes, then checks and deletes, in that
order. A code remembers the method it names (`via`) and, beside it, how the proof was really given.

### Ledger, GuessBudget

`Ledger` holds the operators on one `_Ledger`: order, stamps, the slot list, its index; drop (the
last slot fills the hole), make room (the front if it is dead, else a uniform draw: a set of possible
results), prune, charge. The code filters a key's times for the live ones; `LiveOf` is what follows
the aged ones, which is the same because the times of a key ascend (part of `StampsSound`, proved of
every ledger the budget can reach). `GuessBudget` is the password ledger as the sign-in routes use it: the check
and the charge in one step, the derivation in flight, the clear on success.

### AccountPassword, Accounts, Accounts_proofs

`AccountPassword` is what is promised of one account's password: chosen at registration, afterwards
set only through a mailed link, each of which works once and not past the password it was mailed for,
and dropped only where the address becomes confirmed.

`Accounts` is the code for one address. `person` is the row of `persons`, `rows` the table
`password_resets`, `mailed` whether a confirmation link is in the mailbox, `required` what
`email_verification_required` answers. A hash is a record with an `id` of its own, because it is
salted; the fingerprint in a reset link is that id. Every handler that derives is a *Begin* (what it
reads and keeps) and an *End* (what it checks again and writes): registration, login (with a second
derivation when the stored hash is stale), reset, confirmation. Disowning, sign-in by code or provider
and deactivation do not wait. `session` is how the last step signed the person in, `voucher` is a
history of what stands behind the stored password. A request with a wrong password changes nothing
but the guess budget and is left out here.

### KeyShares, KeyShares_proofs

`Verify` (the dependency `get_auth`), `Spend` (`spend_token`), then `GetShare`, or `PutReads` and
`PutWrites`, are separate steps since these routes run on the thread pool. `locking` is chosen in
`Init` and says whether writers take `_WRITE_LOCK`: the code says its rule holds without it. A row
carries the number of its write as its seal, because Fernet ciphertexts never repeat. A token is named
by its expiry. `Gap` bounds the time from a token's verification to the record of its use and is
assumed at most `Slack` (five seconds in `spend_token`): a request delayed for longer between the
dependency and the handler could find that record gone, and the code bounds nothing there.

### Tokens, ServerCredentials, ServerCredentials_proofs

Nothing is stored when a token is minted, so `issued` is the set of tokens that exist: a token is its
claims (what it is, whose, in whose hands, with which roles or scopes) and the time it has `left`.
Every route that mints is an action: the sign-ins (`PasswordLogin`, `OtpVerify`,
`GrantAuthorizationCode`), `MailLink`, `Refresh`, and the three `/internal` exchanges (`Delegate`,
`SystemDelegate`, `DescribeDelegate`). `SetOperator`, `Deactivate` and `Reactivate` change what a
token was minted on. `Passes` ages them all. The caller of an exchange is a platform service or a
persona; that it is the one its signature says is taken from `verify_token`.

`ServerCredentials` extends it with the rows of one `client_id`. `GrantBegin` is the row read before
bcrypt, `GrantEnd` the row read again after `_release_db` (`Reread`) and the mint. Management asks
for a token that `Resolves` to a principal `InPerson`. `session`, `demoted`, `switched` and `lapse`
are histories: how long ago the thing a token rests on was given or went.

### Identities

`person` holds an account's address, whether it is confirmed and whether there is a password; `owner`
is `person_identities`, with `(local, id)` an identity like the others; `codes` what the waiting
authorization codes say. A code is written in one step (`Callback`, `LocalPassword`, `LocalOtp`,
`LocalRegister`) and redeemed in a later one, by `/token` (`RedeemKnown`, `RedeemClaimed`,
`RedeemNew`: the three branches of `get_or_create_user_by_oidc_identity`) or by `link_provider`.
That a code is spent once is `AuthCodes`'; here a redeemed code leaves. `proven`, `chosen`, `first`
and `astray` are histories.

### Passkeys, Passkeys_proofs

A challenge is handed out, lost or live, used or expired. An answer is a challenge, a key and a
counter, and may be sent by anyone who was handed the challenge, at any time and again
(`Answers`): replays, late answers, copied authenticators and the answers of two keys to one
challenge are all among them. `LoginComplete` has the three ways the handler ends: refused with the
challenge spent and committed, refused without a commit (the account is off: the challenge is live
again), signed in. Which counters the library lets pass (`Ascends`) is external.

### Settings

`rows`, the cache's two maps, and `config`. A writer stages a batch, commits, mirrors it into the
cache a key at a time and answers; the loop's `PATCH`, the setup wizard and the oracle's threads are
writers alike, so one's commit may fall between another's commit and mirroring, and `by` says which
route a batch came by. A wizard call is a `WizardBegin` (setup is open) and, past its derivation, a
`WizardWrites` that does not ask again; `BootstrapClaim` may close setup in between (`needsSetup`). A
`PATCH` answers whether a restart is required (`Answers`, `told`); the wizard stores boot keys as
well and its answer has no such field, so what it was the last to store is kept in the history
`silent`. `Boot` is `load_all`, the manifest and `_apply_db_settings_to_config`, where a stored empty
value counts as none, save for a key read with `get_bool` (`Flags`), where it is a no. Which keys are
secret is decided three ways in the code, and is three constants here: `Sensitive` (by the key's
name), `Marked` (by the manifest's own test), `Vault` (the oracle's, whatever their name).

## Runs

| Run | Instance | What it shows |
|---|---|---|
| `otp_codes` | 1 mailbox, 2 spellings, 3 requests, 3 codes, 2 attempts, budget 3, window 3, expiry 2 | the budget over codes issued in a window; a bound on guesses taken in a window; one sign-in per code; refinement of `OneTimeCode` (one code of a mailbox accepts guesses) |
| `kdf_admission` | 2 clients (1 exempt), 4 requests, 1 thread, capacity 3, cap 2, 2 derivations each | counts exact, capacity and cap, every admitted request ends |
| `operator_setup` | 4 people (1 named by a manifest), 2 overlapping calls | who can become operator, and when the means to become one is lost |
| `auth_codes` | 2 clients, 1 verifier (or none), 1 provider, 2 legs, 3 requests, 2 codes, dicts of 1 item | a code names the proof it rests on and is spent once, by its client and verifier; dicts stay bounded |
| `guess_budget` | 4 names, 2 spellings, a store of 3, cap 2, window 2, 2 requests | cap under bursts, refusals earned, store indices and eviction rule |
| `accounts` (0.2 million) | 2 requests, 2 passwords, 2 links, 3 hashes | what a password of a confirmed account rests on, and one that signs in; that deactivation holds over every wait; refinement of `AccountPassword` |
| `key_shares` | 2 requests, 2 keys split 2 ways, tokens expiring at 0, 1, 3, slack 1, gap 1, clock to 4, 3 writes | a share gives way only by the rule, with or without the lock; answers are true; a token is accepted once |
| `tokens` (0.4 million states) | 2 people, 1 service, 1 persona, 1 credential of 1 scope, 1 waiting grant; access 1, refresh 2, delegation up to 2, 2 tokens alive | nothing outlives what it was exchanged from but by the lags stated; a demotion, a deactivation, a deleted credential each take hold in one lifetime; a machine's token does not manage credentials |
| `identities` (0.4 million) | 2 people with their local identities, 1 provider subject, 2 addresses, 2 waiting codes | a confirmed address was proven for its account; identities are put on others' accounts only by proof; an identity signs in as one person; no account is left without a way in |
| `passkeys` | 2 people, 2 keys, 3 challenges, counters to 2 | a challenge and a counter each sign in once |
| `settings` (0.4 million) | 3 keys (a provider's secret, a flag the manifest names, one of the oracle's), 2 values, the loop and 2 threads, batches of 2, 1 waiting wizard call | the cache says what is stored; what a `PATCH` was the last to store, and is not served, has been told |
| `settings_round_trip` (violation) | 4 keys (no flag; a plain boot key, and one the manifest names), otherwise as above | the listing sent back as it came overwrites an oracle secret |

Why the bounds are enough. Every shared resource is exceeded by the instance: more names than the
store holds, more requests than the capacity, more items than a dict keeps, a clock that runs past
every window and expiry, more codes than the budget allows, as many codes waiting as there
are addresses, more challenges than keys. Every race in the code is between *two* requests at one await, and each
run has two (three where two may race while a third issues, or beside the event loop); in `tokens`
the race is of one waiting grant with the management of its row. Chains of exchanges are short in
`tokens` (two tokens alive at once), but none is longer: what is exchanged needs the one it comes
from, and the proof has no such bound. Symmetry is used only over values the modules treat alike, and not in the run with liveness.

Deadlock is checked in every run: every module can always restart, serve another call or let time pass.

## Fairness

Only `KdfAdmission` has liveness (`FairSpec`). Assumed: the event loop runs every coroutine that is
ready (`WF` on each request's own step); the limiter wakes its oldest waiter when a thread is free
(`WF` on `StartDerivation`, which takes the head of the queue); a derivation ends (a bounded number of
iterations on a thread of its own). Nothing is assumed of clients: nobody needs to arrive. A request
asks for a bounded number of derivations (`MaxDerivations`); no route asks in a loop.

## Proofs

Every property below is proved for every value of the constants, from the named assumptions of its
module, which TLC evaluates in each run.

`OtpCodes_proofs` proves `Typed`, `AtMostOneLiveCode`, `WindowNeverOverspent`, `OneCodeOverlaps`,
`SignInsAreClaimed` and `Refinement`. The assumptions are those named in `OtpCodes`; `RetentionAssumption` (a row is kept at least as long as
the window) is what the budget rests on, since `count_recent_misses` counts rows. The argument is one
inductive invariant: no two codes of a mailbox are both unused and unexpired and the live one is the
newest; attempts on a code equal the draws recorded on it; every code of a window is still in the
table; and the attempts *already taken or still available* on a mailbox's codes of one window sum to
at most the budget. The last one is why the plain budget is not inductive by itself: an issue must
pay in advance for every guess its code can take. `OneCodeOverlaps` measures by when guesses are
taken instead. It needs `Recorded` (every guess is on a code issued by then, under a number of its
own) and `GuessedInTurn` (none is taken on a code after its mailbox's next one is issued): of the
codes issued before a window only the newest can be guessed at inside it, and its guesses are
numbered up to `MaxAttempts`.

`SignInLimits_proofs` proves of `KdfAdmission` `Typed`, `CountsStayExact`, `AdmissionIsBounded` and
`OneClientNeverSheds` from `NumbersAssumption` (`PerClient` below the capacity, as
`KDF_IN_FLIGHT_PER_CLIENT` is). The invariant: the counters equal the cardinalities of what is open,
and a request that queues or derives is of one kind at one time.

Of `GuessBudget` it proves `BudgetIsTyped`, `StoreStaysIndexed`, `GuessesStayWithinCap`,
`RefusalsAreEarned` and `LiveKeysAreKept`, for any names, store, cap and window. `StoreSound` is the invariant of one
`_Ledger`, and every operator of `Ledger` is shown to keep it (`DropSound`, `RoomIsMade`,
`PruningSound`, `WriteSound`, `ChargeSound`): order and slots each list the keys once, the index is the
inverse of the slots, a key's times ascend, are at most `Cap` and end no later than now, and the order
is by *last write*. The last one is why it is enough to look at the front: it is the key that dies
first. `BudgetInv` adds that what the store holds live of a name *is* what was let through under it
since it was last forgotten (`DrawnIsLive`). Neither cap nor earned refusal is inductive without
that: the code knows only its times, and the properties are about the guesses.

`KeyShares_proofs` proves `Typed`, `TokenIsSpent`, `AnswersAreTrue` and `KeyIsKept`. The replacement
rule needs nothing but the conditional statement, so it holds for either value of `locking`. The
invariant: a token accepted once is recorded or past the slack, a verified one is within the gap
(`NumbersAssumption`: `Gap <= Slack`), and under the lock a writer is alone and what it read is what
is stored. `RowsAssumption` says that no row is the value that stands for none.

`Accounts_proofs` proves all the properties of the `accounts` run, the refinement of
`AccountPassword` among them, and that a link confirms once (`LinkConfirmsOnce`). The invariant says
what a waiting request may rely on: the password presented is that of the hash it was checked
against; a reset in flight without a password means a confirmed address; a login in flight holds the
stored password, or that password was disowned or replaced through a mailed link; and a confirmation
in flight still holds the stored password, or the address is confirmed, or somebody vouches for what
replaced it. The last is why `PasswordVouchedFor` is not inductive alone: `ConfirmEnd` asks for the
link again but not for the password. `GateHolds` says of the confirmation gate what is true of it:
where confirmation is required, a password that signs in is stored and vouched for, or whoever reads
the mailbox replaced it while it was checked. The second is no slack of the statement: a login whose
password is disowned while it waits does sign in (Findings), and the theorem says that this, and the
same with a reset, are the only ways round the gate. `StaysSound` proves
once, for every step that keeps its ground, that a request stays sound.

`ServerCredentials_proofs` proves all five properties of the `tokens` run: `SessionsEnd`,
`DemotionTakesHold`, `DeactivationTakesHold`, `ServerTokensEnd`, `ManagementEnds`. Each token alive is
`Sound`: it rests on something that is there, or that went no longer ago than the token will last. A
step that is not the clock's takes nothing from a token but by starting the time it has left
(`Keeps`), and the clock takes one from both sides. `ManagementEnds` needs one thing more, that a
delegation always names an actor (`Acts`), since that is all that tells it from its person.

`CodeFlow_proofs` proves the four properties of `identities`. They are inductive together with
`CodesRepeatProofs` (a waiting local code that vouches for an address repeats a proof that was given,
however old the code) and `FirstIsOwner` (whom an identity signed in as is whom its row names).

Of `AuthCodes` it proves `CachesAreTyped`, `MethodStaysTheProof`, `CodesAreSpentOnce`,
`CachesStayBounded` and `TokensGoToTheirClient`. `CodesInv` says what the caches hold: only handles
given out and codes written, at most one more of each than the limit; and what a leg may rely on
across its await: the method it will write is the one its proof is given by (`LegsSound`), which is
why the chooser's rewriting of the pending request does no harm. `SpentAreGone` (a code that was spent
is in no cache, nor is one not yet written) is what `CodeSpentOnce` needs, over a cache that pruning,
expiry and both redeeming routes empty. Pruning keeps the newest, so that the bound needs a least
element among the entries kept: `LeastNatural`, from the well-foundedness of the naturals.

`Passkeys_proofs` proves both properties of `passkeys`, from: a challenge that signed in is used, and
a row's counter is at or past every count it signed in with.

`SettingsAndSetup_proofs` proves both properties of `settings`: what a writer still has to mirror is
what is stored, unless the key is the oracle's and was committed again meanwhile; and a boot key is
written only by a `PATCH`, which will answer, or by the wizard, which makes it `silent`.
`StaleSettingsAreTold` says nothing of a key that is `silent`: with the wizard's writes in the
statement TLC refutes it in three steps.

Of `OperatorSetup` it proves `OperatorHasAnAccount`, `StrandedByAStopOnly`, `TokenIsInert` and
`PromotionDisplacesNobody`. `SetupInv` is the types, which hold that the operator is somebody with an
account, and two facts more: the wizard carries its token forward only between its commits and while
the token is live (`CarriesALiveToken`), and from then on an operator, the carried token or the record
of a stop is there (`OperatorInReach`). The two action properties then follow from single steps: a
claim or a wizard call that sets the operator after completion is one that began before it, and a
promotion finds the carried token live and no operator.

Every property of every passing run is proved so, but one. Model-checked only: `AdmittedEnds`, since
liveness under fairness is out of the prover's reach. The violation run refutes its property, and
needs no proof.

## Findings

`settings_round_trip`: `update_settings` says that an unchanged secret, which the listing shows as
`null`, is skipped when it comes back. It skips only keys that look secret by their name. The key
oracle's secrets are stored under `oracle.<id>` whatever the id is, so sending `GET /system/settings`
back with `PATCH` stores each of them as an empty value in the clear. The same befalls a key the
manifest takes for a secret and `is_secret_key` does not (`auth.password.min_length`).

Disagreements with a docstring that the runs above still contain, not as runs of their own:

* `bootstrap_claim` is documented as single-use but checks `setup_complete` only before its await:
  two overlapping claims both succeed and the later displaces the earlier operator.
  `SurvivingTokenIsInert` excepts calls that are under way, and says nothing of this.
* `_grant_authorization_code` prunes and then deletes with `del`: a code that pruning removed is a
  `KeyError` (500) where the handler means to answer 400.
* `_limit_reached` says a window never yields more draws than the tolerance buys; it counts by when a
  code was issued, so guesses taken late on an older code come on top. `DrawsOverlapBound` shows that
  they are at most one code's attempts.
* The disowning in `email_verify_confirm` promises that the password someone else set does not open
  the account. `password_login` compares with the hash it read before its derivation and afterwards
  asks only for confirmation and activity: a login that waits while its password is disowned signs in
  to the account that disowning has just confirmed.
* `get_registration_options` says "Remember it before handing it out", and `db/passkey_challenges.create`
  that the row is persisted; `register-options` only flushes it, and closing the session rolls it
  back. As the code stands no passkey can be enrolled: `RegisterComplete` always refuses, and
  `Passkeys` starts from the keys of a node that enrolled them before challenges were stored.
* `requirements.txt` asks for `webauthn>=2.5.0`, in whose releases the credential classes are plain
  dataclasses, while both completions call `model_validate` on them (`passkey_service.py:158`, `365`).
  Where it is missing each completion raises after its challenge was consumed and before a commit.
  `Passkeys` models what the handlers are written to do, which allows that outcome and more.
* `complete_login` says a failed attempt "cannot be retried either". It can where the failure raises
  after the challenge was consumed and before the commit: a deactivated account, or a body that is no
  credential.

Observed while modelling, and claimed by no document. *Accounts*: a login that waits across a reset
signs in with the old password; an ordinary re-hash kills a reset link that was mailed before it; a
confirmation that waits while its account is deactivated still confirms the address; a provider's
sign-in links its identity to a deactivated account before it is refused; a sign-in by code confirms
an account with whatever password it has. *Identities*: the row of a local identity can be unlinked
while a local code waits, whose redemption then writes it again or, unproven, is refused; a provider that reports an address
somebody else holds is refused by the unique index, a 500 with the code spent. *Tokens*: a delegation
is given on any token of a person, a refresh token or a mailed link among them, asks nothing of the
account, and its lifetime is the caller's choice (`MaxDelegation` is a bound of the model); a server
token is minted after the derivation without asking again whether its credential is active, and no
property is about that.
*Settings*: two threads that put one oracle secret may commit in one order and mirror in the other,
and the cache is stale until the next boot; a `PATCH` of an `oracle.*` key makes it plain text; the
setup wizard stores keys that are served only after a restart and its answer does not say so, which
is why `StaleIsTold` excepts what it was the last to store; a null value is an
empty string in the cache and a null in the row. *Elsewhere*: the comment in `store_share` on an
unreadable share leaves out the second way it can be replaced, by a call that names it; one pending
request can yield several codes (each is still spent once); local legs do not check a pending
request's age, only pruning removes it; a manifest stamps the operator at every start; a stop between
the wizard's commits leaves a completed node whose operator only a manifest can name; a correct
password forgets the guesses in flight under the same name; neither `cleanup_expired` nor the
challenges' `delete_expired` has a caller.

## Plan

Done: one-time codes, admission, operator setup, the code flow, the guess budget, accounts, key
shares, tokens and server credentials, identities, passkeys, settings. What would come next:

1. `MailBudget` over `Ledger`: the three keys of one send in one store, shared networks exempt.
2. Account-created notices, over the session's commit and rollback.
3. A composition of admission, the guess budget and the code flow along one sign-in.
4. Theorems: that `/token` and `link_provider` between them implement an abstract code spent at most once.

## Not modelled, and why

Cryptography, token formats and signatures, redirect matching, dynamic client registration, mail and
page rendering, configuration parsing and migrations are data or I/O. The mail budget and the
account-created notices have state and are left for later. Shamir splitting in the key oracle is
arithmetic on key material. SQLAlchemy, SQLite, anyio, WebAuthn and the upstream providers are
external: the modules use what the code relies on (a conditional UPDATE is atomic, a session closed
without commit rolls back, the limiter is first come, first served). Hand edits of the setup settings
by the operator (`PATCH /system/settings`) are left out of `OperatorSetup`, where the cache equals the
rows (`Settings` shows when it does); password hashes restored by hand, and a change of the address a
provider reports (which is in `Identities`), out of `Accounts`; persons without an address and
usernames out of `Identities`; the secret of a credential and its rotation out of `ServerCredentials`;
decoy challenges, which are no rows, out of `Passkeys`; encryption at rest out of `Settings`; the form of a
token and of a body, and principals other than one (nothing happens between two), out of `KeyShares`.
The single-process rule is taken from `main`, which refuses to start otherwise.
