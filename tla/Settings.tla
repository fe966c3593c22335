------------------------------- MODULE Settings -------------------------------
(***************************************************************************)
(* platform_settings: the rows, the cache every reader consults, and what  *)
(* start-up copies of it into config.                                      *)
(*                                                                         *)
(* PATCH /system/settings and the setup wizard write on the event loop,    *)
(* one at a time; a wizard call that derives a password waits between its  *)
(* check that setup is open and its batch. The key oracle keeps its        *)
(* secrets in the same table and cache, and its handlers run in threads,   *)
(* beside the loop and one another. A writer commits, then mirrors what it *)
(* committed into the cache key by key; in between, others commit. Only a  *)
(* PATCH answers whether a restart is required.                            *)
(*                                                                         *)
(* platform.setup_complete is the variable needsSetup, which no PATCH or   *)
(* manifest writes here; the rows that name the operator are not modelled. *)
(***************************************************************************)
EXTENDS Naturals, FiniteSets, Functions

CONSTANTS
  Keys,
  Sensitive,      \* is_secret_key
  Vault,          \* the oracle's: not sensitive by their name
  Marked,         \* keys the manifest takes for secrets
  BootKeys,       \* what _apply_db_settings_to_config reads and the environment
                  \* does not set
  Flags,          \* those read with get_bool: an empty value is a no
  Manifest,       \* what manifest.yml writes at every boot
  Values, Empty, Null,
  Loop, Threads,
  MaxItems,       \* bound: the items of a batch
  MaxWizards      \* bound: wizard calls waiting at once

ASSUME SettingsAssumption ==
  /\ Sensitive \cup Vault \cup Marked \cup BootKeys \subseteq Keys
  /\ Vault \cap (Sensitive \cup BootKeys) = {} /\ Flags \subseteq BootKeys \ Sensitive
  /\ Empty \in Values /\ Null \notin Values
  /\ DOMAIN Manifest \subseteq Keys \ Vault /\ Range(Manifest) \subseteq Values
  /\ Loop \notin Threads /\ MaxItems \in Nat /\ MaxWizards \in Nat

VARIABLES
  rows,     \* platform_settings
  values,   \* the cache's _values
  secrets,  \* the cache's _secrets
  config,   \* what the process serves of the BootKeys
  writer,   \* what each writer has staged, or committed and not yet mirrored
  needsSetup,  \* setup is not complete
  wizards,  \* wizard calls that found setup open and have not written yet
  told,     \* history: BootKeys an answer has said a restart is required for
  silent,   \* history: BootKeys whose row the wizard was the last to write
  raced     \* history: keys committed again before the last commit was mirrored

vars == <<rows, values, secrets, config, writer, needsSetup, wizards, told, silent, raced>>

Writers == {Loop} \cup Threads
Row == [secret : BOOLEAN, value : Values \cup {Null}]
NoRow == [secret |-> FALSE, value |-> Null]

(* A batch: the rows to be, by key. The order of its items is left open.   *)
Batches == UNION {[D -> Row] : D \in SUBSET Keys}
Nothing == [k \in {} |-> NoRow]
Routes == {"patch", "back", "wizard", "oracle"}
Idle == [at |-> "idle", batch |-> Nothing, left |-> {}, by |-> "oracle"]

Over(f, batch) == [k \in Keys |-> IF k \in DOMAIN batch THEN batch[k] ELSE f[k]]

-----------------------------------------------------------------------------
Stages(w, batch, route) ==
  /\ writer[w] = Idle
  /\ writer' = [writer EXCEPT ![w] =
       [at |-> "staged", batch |-> batch, left |-> DOMAIN batch, by |-> route]]
  /\ UNCHANGED <<rows, values, secrets, config, needsSetup, told, silent, raced>>

(* update_settings: sent is a value or Null by key. A secret that comes    *)
(* empty is skipped; the classification is the server's, from the key.     *)
Kept(sent) == {k \in DOMAIN sent : k \in Sensitive => sent[k] \notin {Null, Empty}}

Patched(sent) ==
  [k \in Kept(sent) |->
    [secret |-> k \in Sensitive, value |-> IF sent[k] = Null THEN Empty ELSE sent[k]]]

Patch(sent) == Stages(Loop, Patched(sent), "patch") /\ UNCHANGED wizards

(* GET /system/settings: secrets are masked. Sent back as it came.         *)
SettingsGrouped ==
  [k \in {i \in Keys : values[i] # Null \/ secrets[i] # Null} |-> values[k]]

PatchBack == Stages(Loop, Patched(SettingsGrouped), "back") /\ UNCHANGED wizards

(* key_oracle.store_secret: secret whatever the key is named.              *)
PutSecret(t, k, v) ==
  /\ Stages(t, [i \in {k} |-> [secret |-> TRUE, value |-> v]], "oracle")
  /\ UNCHANGED wizards

(* complete_setup: setup is open when the call begins. It stores whatever  *)
(* keys it is sent, skipping and classifying as a PATCH does; the mail     *)
(* settings it adds from the environment are nothing start-up reads.       *)
WizardBegin ==
  /\ writer[Loop] = Idle
  /\ needsSetup /\ wizards < MaxWizards
  /\ wizards' = wizards + 1
  /\ UNCHANGED <<rows, values, secrets, config, writer, needsSetup, told, silent, raced>>

WizardWrites(sent) ==
  /\ wizards > 0
  /\ Stages(Loop, Patched(sent), "wizard")
  /\ wizards' = wizards - 1

(* bootstrap_claim completes setup beside a wizard call that waits.        *)
BootstrapClaim ==
  /\ writer[Loop] = Idle
  /\ needsSetup' = FALSE
  /\ UNCHANGED <<rows, values, secrets, config, writer, wizards, told, silent, raced>>

-----------------------------------------------------------------------------
(* set_many, and set_value for one: one transaction. SQLite has one writer *)
(* from its first flush to its commit.                                     *)
Mirroring(k) == \E w \in Writers : writer[w].at = "committed" /\ k \in writer[w].left

Commit(w) ==
  /\ writer[w].at = "staged"
  /\ rows' = Over(rows, writer[w].batch)
  /\ writer' = [writer EXCEPT ![w].at = "committed"]
  /\ needsSetup' = (needsSetup /\ writer[w].by # "wizard")
  /\ silent' = IF writer[w].by = "wizard" THEN silent \cup (BootKeys \cap DOMAIN writer[w].batch)
               ELSE silent \ DOMAIN writer[w].batch
  /\ raced' = (raced \ DOMAIN writer[w].batch) \cup {k \in DOMAIN writer[w].batch : Mirroring(k)}
  /\ UNCHANGED <<values, secrets, config, wizards, told>>

(* A reserved key, a key another thread inserted meanwhile, a wizard's     *)
(* person whose address is taken, a database busy for too long: something  *)
(* raises, and what was flushed rolls back.                                *)
Fails(w) ==
  /\ writer[w].at = "staged"
  /\ writer' = [writer EXCEPT ![w] = Idle]
  /\ UNCHANGED <<rows, values, secrets, config, needsSetup, wizards, told, silent, raced>>

(* _apply_to_cache, a key at a time.                                       *)
LeavesOther(k, row) ==                   \* fault: the other map is not popped
  IF row.secret
  THEN secrets' = [secrets EXCEPT ![k] = row.value] /\ UNCHANGED values
  ELSE values' = [values EXCEPT ![k] = row.value] /\ UNCHANGED secrets
AppliesToCache(k, row) ==
  /\ values' = [values EXCEPT ![k] = IF row.secret THEN Null ELSE row.value]
  /\ secrets' = [secrets EXCEPT ![k] = IF row.secret THEN row.value ELSE Null]

Mirror(w, k) ==
  /\ writer[w].at = "committed" /\ k \in writer[w].left
  /\ AppliesToCache(k, writer[w].batch[k])
  /\ writer' = [writer EXCEPT ![w].left = @ \ {k}]
  /\ UNCHANGED <<rows, config, needsSetup, wizards, told, silent, raced>>

(* UpdateSettingsResponse: restart_required is of the whole batch. The     *)
(* wizard's answer and the oracle's have no such field.                    *)
OnlyPrefs(batch) ==                      \* fault: a list that stops matching
  DOMAIN batch \cap BootKeys \cap Sensitive # {}
RestartRequired(batch) == DOMAIN batch \cap BootKeys # {}

Patches(w) == writer[w].by \in {"patch", "back"}

Answers(w) ==
  /\ writer[w].at = "committed" /\ writer[w].left = {}
  /\ told' = IF Patches(w) /\ RestartRequired(writer[w].batch)
             THEN told \cup (BootKeys \cap DOMAIN writer[w].batch) ELSE told
  /\ writer' = [writer EXCEPT ![w] = Idle]
  /\ UNCHANGED <<rows, values, secrets, config, needsSetup, wizards, silent, raced>>

-----------------------------------------------------------------------------
(* lifespan: load_all, the manifest, which overwrites what it names, and   *)
(* config from the cache. A stored empty value counts as none, save of a   *)
(* flag, where it is a no and not the default.                             *)
ValuesOf(stored) == [k \in Keys |-> IF stored[k].secret THEN Null ELSE stored[k].value]
SecretsOf(stored) == [k \in Keys |-> IF stored[k].secret THEN stored[k].value ELSE Null]

ManifestRows ==
  [k \in DOMAIN Manifest |->
    [secret |-> k \in Marked \cup Sensitive, value |-> Manifest[k]]]

AtBoot(stored) ==
  [k \in BootKeys |->
    IF stored[k].secret = (k \in Sensitive) /\ (stored[k].value # Empty \/ k \in Flags)
    THEN stored[k].value ELSE Null]

Boot ==
  /\ rows' = Over(rows, ManifestRows)
  /\ values' = ValuesOf(rows')
  /\ secrets' = SecretsOf(rows')
  /\ config' = AtBoot(rows')
  /\ writer' = [w \in Writers |-> Idle]
  /\ wizards' = 0 /\ told' = {} /\ silent' = {} /\ raced' = {}
  /\ UNCHANGED needsSetup

(* Booted on a new database.                                               *)
Init ==
  /\ rows = Over([k \in Keys |-> NoRow], ManifestRows)
  /\ values = ValuesOf(rows)
  /\ secrets = SecretsOf(rows)
  /\ config = AtBoot(rows)
  /\ writer = [w \in Writers |-> Idle]
  /\ needsSetup = TRUE
  /\ wizards = 0 /\ told = {} /\ silent = {} /\ raced = {}

Next ==
  \/ \E D \in SUBSET Keys : Cardinality(D) <= MaxItems /\
       \/ \E sent \in [D -> Values \cup {Null}] : Patch(sent)
       \/ \E sent \in [D -> Values] : WizardWrites(sent)
  \/ WizardBegin
  \/ BootstrapClaim
  \/ PatchBack
  \/ \E t \in Threads, k \in Vault, v \in Values \ {Empty} : PutSecret(t, k, v)
  \/ \E w \in Writers :
       \/ Commit(w) \/ Fails(w)
       \/ \E k \in Keys : Mirror(w, k)
       \/ Answers(w)
  \/ Boot

Spec == Init /\ [][Next]_vars

-----------------------------------------------------------------------------
TypeOK ==
  /\ rows \in [Keys -> Row]
  /\ values \in [Keys -> Values \cup {Null}] /\ secrets \in [Keys -> Values \cup {Null}]
  /\ config \in [BootKeys -> Values \cup {Null}]
  /\ writer \in [Writers -> [at : {"idle", "staged", "committed"}, batch : Batches,
                             left : SUBSET Keys, by : Routes]]
  /\ needsSetup \in BOOLEAN /\ wizards \in 0..MaxWizards
  /\ told \subseteq BootKeys /\ silent \subseteq BootKeys /\ raced \subseteq Keys

(* _apply_to_cache: "mutating the cache first leaves it advertising values *)
(* that were rolled back, and the cache is what every reader consults". A  *)
(* key no writer is mirroring reads, in the map its row belongs to and in  *)
(* no other, what is stored; save one of the oracle's that two threads     *)
(* wrote at once, whose commits and mirrorings may fall in two orders.     *)
CacheMirrorsRows ==
  \A k \in Keys : Mirroring(k) \/ k \in Vault \cap raced \/
    (values[k] = ValuesOf(rows)[k] /\ secrets[k] = SecretsOf(rows)[k])

(* UpdateSettingsResponse: restart_required "is how an operator learns     *)
(* that" a write waits for the next boot. What a PATCH stored of what the  *)
(* next boot would serve is served, or an answer has said so, or one is on *)
(* its way, however its keys were written before, between and after. What  *)
(* the wizard was the last to store is nowhere told of, and is excepted.   *)
StaleIsTold ==
  \A k \in BootKeys \ silent :
    \/ config[k] = AtBoot(rows)[k]
    \/ k \in told
    \/ \E w \in Writers :
         writer[w].at = "committed" /\ Patches(w) /\ k \in DOMAIN writer[w].batch

(* update_settings: "an unchanged secret comes back empty on a round-trip. *)
(* Skip those rather than blanking the stored value".                      *)
RoundTripKeepsSecrets ==
  [][writer[Loop].by = "back" /\ writer'[Loop].at = "committed" =>
       \A k \in Keys : rows[k].secret => rows'[k] = rows[k]]_vars
=============================================================================
