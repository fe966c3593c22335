---------------------- MODULE SettingsAndSetup_proofs ----------------------
(***************************************************************************)
(* What the cache and config tell of the settings rows, for any keys,      *)
(* batches and number of threads; and, of the rows that make an operator,  *)
(* what claims, wizard calls, promotions and manifests leave in them, for  *)
(* any people and number of calls.                                         *)
(***************************************************************************)
EXTENDS Settings, OperatorSetup, TLAPS

USE SettingsAssumption

(* A writer mirrors keys of its batch; a thread writes the oracle's, and   *)
(* the oracle's alone go by no request of the loop.                        *)
WritersSound ==
  \A w \in Writers :
    /\ writer[w].left \subseteq DOMAIN writer[w].batch
    /\ writer[w].at = "staged" => writer[w].left = DOMAIN writer[w].batch
    /\ w \in Threads \/ writer[w].by = "oracle" => DOMAIN writer[w].batch \subseteq Vault

(* Only the oracle's keys are raced for, and what is yet to be mirrored of *)
(* a key that is not is what is stored.                                    *)
MirroringSound ==
  /\ raced \subseteq Vault
  /\ \A w \in Writers : writer[w].at = "committed" =>
       \A k \in writer[w].left : k \in raced \/ writer[w].batch[k] = rows[k]

Mirrors(k) == values[k] = ValuesOf(rows)[k] /\ secrets[k] = SecretsOf(rows)[k]

(* A PATCH has committed the key and has yet to answer.                    *)
AnswerDue(k) ==
  \E w \in Writers :
    writer[w].at = "committed" /\ Patches(w) /\ k \in DOMAIN writer[w].batch

Inv == TypeOK /\ WritersSound /\ MirroringSound /\ CacheMirrorsRows /\ StaleIsTold

-----------------------------------------------------------------------------
LEMMA BatchFields ==
  ASSUME NEW b \in Batches
  PROVE  DOMAIN b \subseteq Keys /\ \A k \in DOMAIN b : b[k] \in Row
BY DEF Batches

LEMMA BatchOf ==
  ASSUME NEW D \in SUBSET Keys, NEW b \in [D -> Row]
  PROVE  b \in Batches /\ DOMAIN b = D
BY DEF Batches

LEMMA WriterFields ==
  ASSUME TypeOK, NEW w \in Writers
  PROVE  /\ writer[w].at \in {"idle", "staged", "committed"} /\ writer[w].batch \in Batches
         /\ writer[w].left \subseteq Keys /\ DOMAIN writer[w].batch \subseteq Keys
         /\ \A k \in DOMAIN writer[w].batch : writer[w].batch[k] \in Row
<1>1. /\ writer[w].at \in {"idle", "staged", "committed"} /\ writer[w].batch \in Batches
      /\ writer[w].left \subseteq Keys
  BY DEF TypeOK
<1> QED
  BY <1>1, BatchFields

LEMMA RowFields ==
  ASSUME NEW row \in Row
  PROVE  row.secret \in BOOLEAN /\ row.value \in Values \cup {Null}
BY DEF Row

LEMMA CacheOf ==
  ASSUME NEW stored, NEW k \in Keys
  PROVE  /\ ValuesOf(stored)[k] = IF stored[k].secret THEN Null ELSE stored[k].value
         /\ SecretsOf(stored)[k] = IF stored[k].secret THEN stored[k].value ELSE Null
BY DEF ValuesOf, SecretsOf

LEMMA BootTyped ==
  ASSUME NEW stored \in [Keys -> Row]
  PROVE  /\ ValuesOf(stored) \in [Keys -> Values \cup {Null}]
         /\ SecretsOf(stored) \in [Keys -> Values \cup {Null}]
         /\ AtBoot(stored) \in [BootKeys -> Values \cup {Null}]
<1>1. \A k \in Keys : stored[k].value \in Values \cup {Null}
  BY RowFields
<1> QED
  BY <1>1 DEF ValuesOf, SecretsOf, AtBoot

LEMMA OverTyped ==
  ASSUME NEW f \in [Keys -> Row], NEW b \in Batches
  PROVE  /\ Over(f, b) \in [Keys -> Row]
         /\ \A k \in Keys : Over(f, b)[k] = IF k \in DOMAIN b THEN b[k] ELSE f[k]
BY BatchFields DEF Over

LEMMA ManifestTyped == ManifestRows \in Batches
<1>1. DOMAIN Manifest \in SUBSET Keys
  OBVIOUS
<1>2. ASSUME NEW k \in DOMAIN Manifest
      PROVE  [secret |-> k \in Marked \cup Sensitive, value |-> Manifest[k]] \in Row
  <2>1. Manifest[k] \in Values
    BY DEF Range
  <2>2. (k \in Marked \cup Sensitive) \in BOOLEAN
    OBVIOUS
  <2> QED
    BY <2>1, <2>2, Zenon DEF Row
<1>3. ManifestRows \in [DOMAIN Manifest -> Row]
  BY <1>2 DEF ManifestRows
<1> QED
  BY <1>1, <1>3, BatchOf

(* Nobody is mirroring when nothing is committed.                          *)
LEMMA NothingTyped == Nothing \in Batches /\ DOMAIN Nothing = {}
<1>1. Nothing \in [{} -> Row]
  BY DEF Nothing
<1> QED
  BY <1>1, BatchOf

LEMMA IdleTyped ==
  /\ Idle \in [at : {"idle", "staged", "committed"}, batch : Batches,
               left : SUBSET Keys, by : Routes]
  /\ Idle.at = "idle" /\ Idle.left = {} /\ DOMAIN Idle.batch = {}
BY NothingTyped DEF Idle, Routes

-----------------------------------------------------------------------------
(* A writer stages, or drops what it staged or has answered for: nothing   *)
(* is being mirrored by it before or after.                                *)
LEMMA WriterStep ==
  ASSUME Inv, NEW w \in Writers,
         NEW new \in [at : {"idle", "staged", "committed"}, batch : Batches,
                      left : SUBSET Keys, by : Routes],
         writer' = [writer EXCEPT ![w] = new], new.at # "committed",
         new.left \subseteq DOMAIN new.batch,
         new.at = "staged" => new.left = DOMAIN new.batch,
         w \in Threads \/ new.by = "oracle" => DOMAIN new.batch \subseteq Vault,
         writer[w].at = "committed" => writer[w].left = {},
         told' \in SUBSET BootKeys, told \subseteq told', wizards' \in 0..MaxWizards,
         writer[w].at = "committed" /\ Patches(w) =>
           \A k \in BootKeys \cap DOMAIN writer[w].batch : k \in told',
         UNCHANGED <<rows, values, secrets, config, needsSetup, silent, raced>>
  PROVE  Inv'
<1>1. /\ \A v \in Writers : writer'[v] = IF v = w THEN new ELSE writer[v]
      /\ TypeOK'
  BY DEF Inv, TypeOK
<1>2. WritersSound' /\ MirroringSound'
  BY <1>1 DEF Inv, WritersSound, MirroringSound
<1>3. CacheMirrorsRows'
  <2> SUFFICES ASSUME NEW k \in Keys
               PROVE  Mirroring(k)' \/ k \in Vault \cap raced \/ Mirrors(k)
    BY DEF CacheMirrorsRows, Mirrors, ValuesOf, SecretsOf
  <2>1. Mirroring(k) => Mirroring(k)'
    BY <1>1 DEF Mirroring
  <2> QED
    BY <2>1 DEF Inv, CacheMirrorsRows, Mirrors
<1>4. StaleIsTold'
  <2> SUFFICES ASSUME NEW k \in BootKeys \ silent
               PROVE  config[k] = AtBoot(rows)[k] \/ k \in told' \/ AnswerDue(k)'
    BY DEF StaleIsTold, AnswerDue, AtBoot
  <2>1. CASE config[k] = AtBoot(rows)[k] \/ k \in told
    BY <2>1
  <2>2. CASE AnswerDue(k)
    BY <1>1, <2>2 DEF AnswerDue, Patches
  <2> QED
    BY <2>1, <2>2 DEF Inv, StaleIsTold, AnswerDue
<1> QED
  BY <1>1, <1>2, <1>3, <1>4 DEF Inv

LEMMA StagesStep ==
  ASSUME Inv, NEW w \in Writers, NEW b \in Batches, NEW route \in Routes,
         w \in Threads \/ route = "oracle" => DOMAIN b \subseteq Vault,
         Stages(w, b, route), wizards' \in 0..MaxWizards
  PROVE  Inv'
<1>1. PICK new : new = [at |-> "staged", batch |-> b, left |-> DOMAIN b, by |-> route]
  OBVIOUS
<1>2. /\ writer' = [writer EXCEPT ![w] = new] /\ writer[w] = Idle
      /\ UNCHANGED <<rows, values, secrets, config, needsSetup, told, silent, raced>>
  BY <1>1 DEF Stages
<1>3. /\ new \in [at : {"idle", "staged", "committed"}, batch : Batches,
                  left : SUBSET Keys, by : Routes]
      /\ new.at = "staged" /\ new.left = DOMAIN new.batch
      /\ new.batch = b /\ new.by = route
  BY <1>1, BatchFields
<1>4. told' \in SUBSET BootKeys /\ told \subseteq told' /\ writer[w].at = "idle"
  BY <1>2, IdleTyped DEF Inv, TypeOK
<1> QED
  BY <1>2, <1>3, <1>4, WriterStep

LEMMA PatchedTyped ==
  ASSUME NEW D \in SUBSET Keys, NEW sent \in [D -> Values \cup {Null}]
  PROVE  Patched(sent) \in Batches
<1>1. Kept(sent) \in SUBSET Keys /\ \A k \in Kept(sent) : sent[k] \in Values \cup {Null}
  BY DEF Kept
<1>2. ASSUME NEW k \in Kept(sent)
      PROVE  [secret |-> k \in Sensitive, value |-> IF sent[k] = Null THEN Empty ELSE sent[k]] \in Row
  <2>1. (IF sent[k] = Null THEN Empty ELSE sent[k]) \in Values
    BY <1>1
  <2>2. (k \in Sensitive) \in BOOLEAN
    OBVIOUS
  <2> QED
    BY <2>1, <2>2, Zenon DEF Row
<1>3. Patched(sent) \in [Kept(sent) -> Row]
  BY <1>2 DEF Patched
<1> QED
  BY <1>1, <1>3, BatchOf

(* A wizard call begins, or setup is completed beside it: no row changes.  *)
LEMMA SetupStep ==
  ASSUME Inv, wizards' \in 0..MaxWizards, needsSetup' \in BOOLEAN,
         UNCHANGED <<rows, values, secrets, config, writer, told, silent, raced>>
  PROVE  Inv'
<1>1. TypeOK'
  BY DEF Inv, TypeOK
<1> QED
  BY <1>1 DEF Inv, WritersSound, MirroringSound, CacheMirrorsRows, StaleIsTold,
              Mirroring, Patches, ValuesOf, SecretsOf, AtBoot

LEMMA RequestSteps ==
  ASSUME Inv,
         \/ \E D \in SUBSET Keys : \E sent \in [D -> Values \cup {Null}] : Patch(sent)
         \/ \E D \in SUBSET Keys : \E sent \in [D -> Values] : WizardWrites(sent)
         \/ WizardBegin \/ BootstrapClaim \/ PatchBack
         \/ \E t \in Threads, k \in Vault, v \in Values \ {Empty} : PutSecret(t, k, v)
  PROVE  Inv'
<1>0. Loop \in Writers /\ Loop \notin Threads /\ wizards \in 0..MaxWizards
      /\ needsSetup \in BOOLEAN
  BY DEF Writers, Inv, TypeOK
<1>1. CASE \E D \in SUBSET Keys : \E sent \in [D -> Values \cup {Null}] : Patch(sent)
  <2>1. PICK D \in SUBSET Keys : \E sent \in [D -> Values \cup {Null}] : Patch(sent)
    BY <1>1
  <2>2. PICK sent \in [D -> Values \cup {Null}] : Patch(sent)
    BY <2>1
  <2>3. Patched(sent) \in Batches
    BY PatchedTyped
  <2> QED
    BY <1>0, <2>2, <2>3, StagesStep DEF Patch, Routes
<1>2. CASE PatchBack
  <2>1. PICK sent : sent = SettingsGrouped
    OBVIOUS
  <2>2. PICK D \in SUBSET Keys : sent \in [D -> Values \cup {Null}]
    <3>1. {i \in Keys : values[i] # Null \/ secrets[i] # Null} \in SUBSET Keys
      OBVIOUS
    <3>2. SettingsGrouped \in [{i \in Keys : values[i] # Null \/ secrets[i] # Null} -> Values \cup {Null}]
      BY DEF SettingsGrouped, Inv, TypeOK
    <3> QED
      BY <2>1, <3>1, <3>2
  <2>3. PICK b \in Batches : b = Patched(sent)
    BY <2>2, PatchedTyped
  <2>4. Stages(Loop, b, "back") /\ wizards' = wizards
    BY <1>2, <2>1, <2>3 DEF PatchBack
  <2> QED
    BY <1>0, <2>4, StagesStep DEF Routes
<1>3. CASE \E t \in Threads, k \in Vault, v \in Values \ {Empty} : PutSecret(t, k, v)
  <2>1. PICK t \in Threads, k \in Vault, v \in Values \ {Empty} : PutSecret(t, k, v)
    BY <1>3
  <2>2. PICK b : b = [i \in {k} |-> [secret |-> TRUE, value |-> v]]
    OBVIOUS
  <2>3. b \in Batches /\ DOMAIN b = {k}
    <3>1. [secret |-> TRUE, value |-> v] \in Row
      BY DEF Row
    <3>2. b \in [{k} -> Row] /\ {k} \in SUBSET Keys
      BY <2>2, <3>1
    <3> QED
      BY <3>2, BatchOf
  <2>4. Stages(t, b, "oracle") /\ t \in Writers /\ wizards' = wizards
    BY <2>1, <2>2 DEF PutSecret, Writers
  <2> QED
    BY <1>0, <2>3, <2>4, StagesStep DEF Routes
<1>4. CASE \E D \in SUBSET Keys : \E sent \in [D -> Values] : WizardWrites(sent)
  <2>1. PICK D \in SUBSET Keys : \E sent \in [D -> Values] : WizardWrites(sent)
    BY <1>4
  <2>2. PICK sent \in [D -> Values] : WizardWrites(sent)
    BY <2>1
  <2>3. PICK b \in Batches : b = Patched(sent)
    BY PatchedTyped
  <2>4. Stages(Loop, b, "wizard") /\ wizards' \in 0..MaxWizards
    BY <1>0, <2>2, <2>3 DEF WizardWrites
  <2> QED
    BY <1>0, <2>4, StagesStep DEF Routes
<1>5. CASE WizardBegin \/ BootstrapClaim
  <2>1. wizards' \in 0..MaxWizards
    BY <1>0, <1>5 DEF WizardBegin, BootstrapClaim
  <2>2. needsSetup' \in BOOLEAN
    BY <1>0, <1>5, Zenon DEF WizardBegin, BootstrapClaim
  <2> QED
    BY <1>5, <2>1, <2>2, SetupStep DEF WizardBegin, BootstrapClaim
<1> QED
  BY <1>1, <1>2, <1>3, <1>4, <1>5

LEMMA EndSteps ==
  ASSUME Inv, NEW w \in Writers, Fails(w) \/ Answers(w)
  PROVE  Inv'
<1>1. /\ writer' = [writer EXCEPT ![w] = Idle]
      /\ UNCHANGED <<rows, values, secrets, config, needsSetup, silent, raced>>
      /\ wizards' \in 0..MaxWizards
  BY DEF Fails, Answers, Inv, TypeOK
<1>2. /\ Idle.at # "committed" /\ Idle.at # "staged" /\ Idle.left \subseteq DOMAIN Idle.batch
      /\ DOMAIN Idle.batch \subseteq Vault
  BY IdleTyped
<1>3. CASE Fails(w)
  <2>1. writer[w].at = "staged" /\ told' = told /\ told \in SUBSET BootKeys
    BY <1>3 DEF Fails, Inv, TypeOK
  <2> QED
    BY <1>1, <1>2, <2>1, IdleTyped, WriterStep
<1>4. CASE Answers(w)
  <2>1. /\ writer[w].at = "committed" /\ writer[w].left = {}
        /\ told' = IF Patches(w) /\ RestartRequired(writer[w].batch)
                   THEN told \cup (BootKeys \cap DOMAIN writer[w].batch) ELSE told
    BY <1>4 DEF Answers
  <2>2. told \in SUBSET BootKeys /\ DOMAIN writer[w].batch \in SUBSET Keys
    BY WriterFields DEF Inv, TypeOK
  <2>3. Patches(w) => \A k \in BootKeys \cap DOMAIN writer[w].batch : k \in told'
    BY <2>1 DEF RestartRequired
  <2> QED
    BY <1>1, <1>2, <2>1, <2>2, <2>3, IdleTyped, WriterStep
<1> QED
  BY <1>3, <1>4

-----------------------------------------------------------------------------
(* Two writers of one key: the key is the oracle's.                        *)
LEMMA CommitStep ==
  ASSUME Inv, NEW w \in Writers, Commit(w)
  PROVE  Inv'
<1> DEFINE b == writer[w].batch
<1>0. TypeOK
  BY DEF Inv
<1>1. /\ writer[w].at = "staged" /\ rows' = Over(rows, b)
      /\ writer' = [writer EXCEPT ![w].at = "committed"]
      /\ needsSetup' = (needsSetup /\ writer[w].by # "wizard")
      /\ silent' = IF writer[w].by = "wizard" THEN silent \cup (BootKeys \cap DOMAIN b)
                   ELSE silent \ DOMAIN b
      /\ raced' = (raced \ DOMAIN b) \cup {k \in DOMAIN b : Mirroring(k)}
      /\ UNCHANGED <<values, secrets, config, wizards, told>>
  BY DEF Commit
<1>2. /\ b \in Batches /\ DOMAIN b \subseteq Keys /\ writer[w].left \subseteq DOMAIN b
      /\ writer[w].left \subseteq Keys
  BY <1>0, WriterFields DEF Inv, WritersSound
<1>3. /\ \A v \in Writers \ {w} : writer'[v] = writer[v]
      /\ writer'[w].at = "committed" /\ writer'[w].batch = b /\ writer'[w].left = writer[w].left
      /\ writer' \in [Writers -> [at : {"idle", "staged", "committed"}, batch : Batches,
                                  left : SUBSET Keys, by : Routes]]
  BY <1>0, <1>1 DEF TypeOK
<1>4. /\ rows' \in [Keys -> Row]
      /\ \A k \in Keys : rows'[k] = IF k \in DOMAIN b THEN b[k] ELSE rows[k]
  BY <1>0, <1>1, <1>2, OverTyped DEF TypeOK
<1> HIDE DEF b
<1>5. \A k \in DOMAIN b : Mirroring(k) => k \in Vault
  <2> SUFFICES ASSUME NEW k \in DOMAIN b, Mirroring(k)
               PROVE  k \in Vault
    OBVIOUS
  <2>1. PICK v \in Writers : writer[v].at = "committed" /\ k \in writer[v].left
    BY DEF Mirroring
  <2>2. v # w /\ k \in DOMAIN writer[v].batch
    BY <1>1, <2>1 DEF Inv, WritersSound
  <2>3. v \in Threads \/ w \in Threads
    BY <2>2 DEF Writers
  <2> QED
    BY <2>2, <2>3 DEF Inv, WritersSound, b
<1>6. TypeOK'
  BY <1>0, <1>1, <1>2, <1>3, <1>4 DEF TypeOK
<1>7. WritersSound'
  <2> SUFFICES ASSUME NEW v \in Writers
               PROVE  /\ writer'[v].left \subseteq DOMAIN writer'[v].batch
                      /\ writer'[v].at = "staged" => writer'[v].left = DOMAIN writer'[v].batch
                      /\ v \in Threads \/ writer'[v].by = "oracle" => DOMAIN writer'[v].batch \subseteq Vault
    BY DEF WritersSound
  <2>1. CASE v = w
    <3>1. writer'[w].by = writer[w].by
      BY <1>0, <1>1 DEF TypeOK
    <3> QED
      BY <1>2, <1>3, <2>1, <3>1 DEF Inv, WritersSound, b
  <2>2. CASE v # w
    BY <1>3, <2>2 DEF Inv, WritersSound
  <2> QED
    BY <2>1, <2>2
<1>8. MirroringSound'
  <2>1. raced' \subseteq Vault
    BY <1>1, <1>5 DEF Inv, MirroringSound, b
  <2>2. ASSUME NEW v \in Writers, writer'[v].at = "committed", NEW k \in writer'[v].left
        PROVE  k \in raced' \/ writer'[v].batch[k] = rows'[k]
    <3>1. CASE v = w
      <4>1. k \in DOMAIN b /\ k \in Keys
        BY <1>2, <1>3, <2>2, <3>1
      <4> QED
        BY <1>3, <1>4, <3>1, <4>1
    <3>2. CASE v # w
      <4>1. writer[v].at = "committed" /\ k \in writer[v].left /\ writer'[v] = writer[v] /\ k \in Keys
        BY <1>0, <1>3, <2>2, <3>2, WriterFields
      <4>2. Mirroring(k)
        BY <4>1 DEF Mirroring
      <4>3. CASE k \in DOMAIN b
        BY <1>1, <4>2, <4>3 DEF b
      <4>4. CASE k \notin DOMAIN b
        <5>1. k \in raced \/ writer[v].batch[k] = rows[k]
          BY <4>1 DEF Inv, MirroringSound
        <5> QED
          BY <1>1, <1>4, <4>1, <4>4, <5>1 DEF b
      <4> QED
        BY <4>3, <4>4
    <3> QED
      BY <3>1, <3>2
  <2> QED
    BY <2>1, <2>2 DEF MirroringSound
<1>9. CacheMirrorsRows'
  <2> SUFFICES ASSUME NEW k \in Keys
               PROVE  Mirroring(k)' \/ k \in Vault \cap raced' \/ Mirrors(k)'
    BY DEF CacheMirrorsRows, Mirrors
  <2>1. CASE k \in writer[w].left
    BY <1>3, <2>1 DEF Mirroring
  <2>2. CASE Mirroring(k)
    <3>1. PICK v \in Writers : writer[v].at = "committed" /\ k \in writer[v].left
      BY <2>2 DEF Mirroring
    <3>2. v # w
      BY <1>1, <3>1
    <3> QED
      BY <1>3, <3>1, <3>2 DEF Mirroring
  <2>3. CASE k \notin DOMAIN b /\ ~Mirroring(k)
    <3>1. k \in Vault \cap raced \/ Mirrors(k)
      BY <2>3 DEF Inv, CacheMirrorsRows, Mirrors
    <3>2. rows'[k] = rows[k]
      BY <1>4, <2>3
    <3>3. ValuesOf(rows)'[k] = ValuesOf(rows)[k] /\ SecretsOf(rows)'[k] = SecretsOf(rows)[k]
      BY <3>2 DEF ValuesOf, SecretsOf
    <3>4. Mirrors(k) => Mirrors(k)'
      BY <1>1, <3>3 DEF Mirrors
    <3> QED
      BY <1>1, <2>3, <3>1, <3>4 DEF b
  <2>4. DOMAIN b = writer[w].left
    BY <1>1 DEF Inv, WritersSound, b
  <2> QED
    BY <2>1, <2>2, <2>3, <2>4
<1>10. StaleIsTold'
  <2> SUFFICES ASSUME NEW k \in BootKeys, k \notin silent'
               PROVE  config[k] = AtBoot(rows)'[k] \/ k \in told \/ AnswerDue(k)'
    BY <1>1 DEF StaleIsTold, AnswerDue
  <2>1. CASE k \in DOMAIN b
    <3>1. writer[w].by \notin {"wizard", "oracle"} /\ writer[w].by \in Routes
      BY <1>0, <1>1, <2>1 DEF Inv, WritersSound, TypeOK, b
    <3>2. writer'[w].by = writer[w].by
      BY <1>0, <1>1 DEF TypeOK
    <3> QED
      BY <1>3, <2>1, <3>1, <3>2 DEF AnswerDue, Patches, Routes
  <2>2. CASE k \notin DOMAIN b
    <3>1. rows'[k] = rows[k]
      BY <1>4, <2>2
    <3>2. AtBoot(rows)'[k] = AtBoot(rows)[k]
      BY <3>1 DEF AtBoot
    <3>3. k \notin silent
      BY <1>1, <2>2
    <3>4. CASE AnswerDue(k)
      BY <1>1, <1>3, <3>4 DEF AnswerDue, Patches
    <3> QED
      BY <3>2, <3>3, <3>4 DEF Inv, StaleIsTold, AnswerDue
  <2> QED
    BY <2>1, <2>2
<1> QED
  BY <1>6, <1>7, <1>8, <1>9, <1>10 DEF Inv

(* What is mirrored last of a key nobody raced for is what is stored.      *)
LEMMA MirrorStep ==
  ASSUME Inv, NEW w \in Writers, NEW k \in Keys, Mirror(w, k)
  PROVE  Inv'
<1>0. TypeOK
  BY DEF Inv
<1>1. /\ writer[w].at = "committed" /\ k \in writer[w].left
      /\ writer' = [writer EXCEPT ![w].left = @ \ {k}]
      /\ UNCHANGED <<rows, config, needsSetup, wizards, told, silent, raced>>
  BY DEF Mirror
<1>2. PICK row \in Row : row = writer[w].batch[k]
  BY <1>0, <1>1, WriterFields DEF Inv, WritersSound
<1>3. /\ values' = [values EXCEPT ![k] = IF row.secret THEN Null ELSE row.value]
      /\ secrets' = [secrets EXCEPT ![k] = IF row.secret THEN row.value ELSE Null]
  BY <1>2 DEF Mirror, AppliesToCache
<1>4. /\ \A v \in Writers \ {w} : writer'[v] = writer[v]
      /\ writer'[w].at = "committed" /\ writer'[w].batch = writer[w].batch
      /\ writer'[w].left = writer[w].left \ {k} /\ writer'[w].by = writer[w].by
      /\ writer' \in [Writers -> [at : {"idle", "staged", "committed"}, batch : Batches,
                                  left : SUBSET Keys, by : Routes]]
  BY <1>0, <1>1 DEF TypeOK
<1>5. /\ \A j \in Keys \ {k} : values'[j] = values[j] /\ secrets'[j] = secrets[j]
      /\ values'[k] = IF row.secret THEN Null ELSE row.value
      /\ secrets'[k] = IF row.secret THEN row.value ELSE Null
      /\ values' \in [Keys -> Values \cup {Null}] /\ secrets' \in [Keys -> Values \cup {Null}]
  BY <1>0, <1>3, RowFields DEF TypeOK
<1>6. TypeOK'
  BY <1>0, <1>1, <1>4, <1>5 DEF TypeOK
<1>7. WritersSound'
  <2> SUFFICES ASSUME NEW v \in Writers
               PROVE  /\ writer'[v].left \subseteq DOMAIN writer'[v].batch
                      /\ writer'[v].at = "staged" => writer'[v].left = DOMAIN writer'[v].batch
                      /\ v \in Threads \/ writer'[v].by = "oracle" => DOMAIN writer'[v].batch \subseteq Vault
    BY DEF WritersSound
  <2>1. CASE v = w
    BY <1>4, <2>1 DEF Inv, WritersSound
  <2>2. CASE v # w
    BY <1>4, <2>2 DEF Inv, WritersSound
  <2> QED
    BY <2>1, <2>2
<1>8. MirroringSound'
  <2>1. raced' \subseteq Vault
    BY <1>1 DEF Inv, MirroringSound
  <2>2. ASSUME NEW v \in Writers, writer'[v].at = "committed", NEW j \in writer'[v].left
        PROVE  j \in raced' \/ writer'[v].batch[j] = rows'[j]
    <3>1. /\ writer[v].at = "committed" /\ j \in writer[v].left
          /\ writer'[v].batch = writer[v].batch
      BY <1>1, <1>4, <2>2
    <3> QED
      BY <1>1, <3>1 DEF Inv, MirroringSound
  <2> QED
    BY <2>1, <2>2 DEF MirroringSound
<1>9. CacheMirrorsRows'
  <2> SUFFICES ASSUME NEW j \in Keys
               PROVE  Mirroring(j)' \/ j \in Vault \cap raced \/ Mirrors(j)'
    BY <1>1 DEF CacheMirrorsRows, Mirrors
  <2>1. CASE j # k
    <3>1. Mirroring(j) => Mirroring(j)'
      <4> SUFFICES ASSUME NEW v \in Writers, writer[v].at = "committed", j \in writer[v].left
                   PROVE  writer'[v].at = "committed" /\ j \in writer'[v].left
        BY DEF Mirroring
      <4> QED
        BY <1>4, <2>1
    <3>2. ValuesOf(rows)' = ValuesOf(rows) /\ SecretsOf(rows)' = SecretsOf(rows)
      BY <1>1 DEF ValuesOf, SecretsOf
    <3>3. Mirrors(j) => Mirrors(j)'
      BY <1>5, <2>1, <3>2 DEF Mirrors
    <3> QED
      BY <3>1, <3>3 DEF Inv, CacheMirrorsRows, Mirrors
  <2>2. CASE j = k /\ k \notin raced
    <3>1. row = rows[k]
      BY <1>1, <1>2, <2>2 DEF Inv, MirroringSound
    <3>2. /\ ValuesOf(rows)'[k] = IF row.secret THEN Null ELSE row.value
          /\ SecretsOf(rows)'[k] = IF row.secret THEN row.value ELSE Null
      BY <1>1, <3>1 DEF ValuesOf, SecretsOf
    <3> QED
      BY <1>5, <2>2, <3>2 DEF Mirrors
  <2>3. CASE j = k /\ k \in raced
    BY <2>3 DEF Inv, MirroringSound
  <2> QED
    BY <2>1, <2>2, <2>3
<1>10. StaleIsTold'
  <2> SUFFICES ASSUME NEW j \in BootKeys \ silent
               PROVE  config[j] = AtBoot(rows)[j] \/ j \in told \/ AnswerDue(j)'
    BY <1>1 DEF StaleIsTold, AnswerDue, AtBoot
  <2>1. CASE AnswerDue(j)
    BY <1>4, <2>1 DEF AnswerDue, Patches
  <2> QED
    BY <2>1 DEF Inv, StaleIsTold, AnswerDue
<1> QED
  BY <1>6, <1>7, <1>8, <1>9, <1>10 DEF Inv

-----------------------------------------------------------------------------
(* Started: the cache and config are taken from the rows.                  *)
LEMMA Started ==
  ASSUME NEW stored \in [Keys -> Row]
  PROVE  (/\ rows = stored /\ values = ValuesOf(stored) /\ secrets = SecretsOf(stored)
          /\ config = AtBoot(stored) /\ writer = [w \in Writers |-> Idle]
          /\ needsSetup \in BOOLEAN /\ wizards = 0
          /\ told = {} /\ silent = {} /\ raced = {}) => Inv
<1> SUFFICES ASSUME rows = stored, values = ValuesOf(stored), secrets = SecretsOf(stored),
                    config = AtBoot(stored), writer = [w \in Writers |-> Idle],
                    needsSetup \in BOOLEAN, wizards = 0, told = {}, silent = {}, raced = {}
             PROVE  Inv
  OBVIOUS
<1>1. TypeOK
  BY BootTyped, IdleTyped DEF TypeOK
<1>2. WritersSound /\ MirroringSound
  BY IdleTyped DEF WritersSound, MirroringSound
<1>3. CacheMirrorsRows /\ StaleIsTold
  BY DEF CacheMirrorsRows, StaleIsTold
<1> QED
  BY <1>1, <1>2, <1>3 DEF Inv

LEMMA BootStep ==
  ASSUME Inv, Boot
  PROVE  Inv'
<1>1. PICK stored \in [Keys -> Row] : stored = Over(rows, ManifestRows)
  BY ManifestTyped, OverTyped DEF Inv, TypeOK
<1>2. /\ rows' = stored /\ values' = ValuesOf(stored) /\ secrets' = SecretsOf(stored)
      /\ config' = AtBoot(stored) /\ writer' = [w \in Writers |-> Idle]
      /\ needsSetup' \in BOOLEAN /\ wizards' = 0
      /\ told' = {} /\ silent' = {} /\ raced' = {}
  BY <1>1 DEF Boot, ValuesOf, SecretsOf, AtBoot, Inv, TypeOK
<1>3. TypeOK'
  BY <1>2, BootTyped, IdleTyped DEF TypeOK
<1>4. WritersSound' /\ MirroringSound'
  BY <1>2, IdleTyped DEF WritersSound, MirroringSound
<1>5. CacheMirrorsRows' /\ StaleIsTold'
  BY <1>2 DEF CacheMirrorsRows, StaleIsTold, ValuesOf, SecretsOf, AtBoot
<1> QED
  BY <1>3, <1>4, <1>5 DEF Inv

LEMMA Initially == Init => Inv
<1> SUFFICES ASSUME Init PROVE Inv
  OBVIOUS
<1>1. NoRow \in Row
  BY DEF NoRow, Row
<1>2. [k \in Keys |-> NoRow] \in [Keys -> Row]
  BY <1>1
<1>3. PICK stored \in [Keys -> Row] : stored = Over([k \in Keys |-> NoRow], ManifestRows)
  BY <1>2, ManifestTyped, OverTyped
<1> QED
  BY <1>3, Started DEF Init

LEMMA Steps == Inv /\ [Next]_vars => Inv'
<1> SUFFICES ASSUME Inv, [Next]_vars PROVE Inv'
  OBVIOUS
<1>1. CASE \/ \E D \in SUBSET Keys : \E sent \in [D -> Values \cup {Null}] : Patch(sent)
           \/ \E D \in SUBSET Keys : \E sent \in [D -> Values] : WizardWrites(sent)
           \/ WizardBegin \/ BootstrapClaim \/ PatchBack
           \/ \E t \in Threads, k \in Vault, v \in Values \ {Empty} : PutSecret(t, k, v)
  BY <1>1, RequestSteps
<1>2. CASE \E w \in Writers : Commit(w)
  BY <1>2, CommitStep
<1>3. CASE \E w \in Writers : Fails(w) \/ Answers(w)
  BY <1>3, EndSteps
<1>4. CASE \E w \in Writers : \E k \in Keys : Mirror(w, k)
  BY <1>4, MirrorStep
<1>5. CASE Boot
  BY <1>5, BootStep
<1>6. CASE UNCHANGED vars
  BY <1>6 DEF vars, Inv, TypeOK, WritersSound, MirroringSound, CacheMirrorsRows, StaleIsTold,
              Mirroring, Patches, ValuesOf, SecretsOf, AtBoot
<1> QED
  BY <1>1, <1>2, <1>3, <1>4, <1>5, <1>6 DEF Next

-----------------------------------------------------------------------------
(* The invariant the two properties below are part of.                     *)
THEOREM Invariant == Spec => []Inv
BY Initially, Steps, PTL DEF Spec

(* set_many and _apply_to_cache: the cache tells what is stored, with any  *)
(* number of writers between their commits and their mirroring.            *)
THEOREM CacheTellsTheRows == Spec => []CacheMirrorsRows
<1>1. Inv => CacheMirrorsRows
  BY DEF Inv
<1> QED
  BY <1>1, Invariant, PTL

(* restart_required: of what a PATCH was the last to store, whatever is    *)
(* not served as the next boot would serve it has been told of, or is by   *)
(* an answer on its way. The wizard's answer has no such field, and a key  *)
(* it was the last to store is out of the statement until a PATCH stores   *)
(* it again or the process boots.                                          *)
THEOREM StaleSettingsAreTold == Spec => []StaleIsTold
<1>1. Inv => StaleIsTold
  BY DEF Inv
<1> QED
  BY <1>1, Invariant, PTL

-----------------------------------------------------------------------------
(* Operator setup. The wizard carries its token forward only when it has   *)
(* named nobody and the token is live; from then on an operator, the       *)
(* carried token or the record of a stop between the two commits is there. *)
CarriesALiveToken == writing.next = "carry" => complete = TRUE /\ tokenLive = TRUE
OperatorInReach ==
  complete = TRUE /\ writing.next # "carry" => Reachable \/ cutShort = TRUE
SetupInv == SetupTypeOK /\ CarriesALiveToken /\ OperatorInReach

LEMMA WritingFields ==
  ASSUME SetupTypeOK
  PROVE  /\ writing.next \in {"carry", "delete", "none"}
         /\ writing.next = "none" => writing = Between
         /\ LoopFree => writing.next = "none"
BY RequestsAssumption DEF SetupTypeOK, Between, LoopFree

LEMMA RowsTyped ==
  ASSUME SetupTypeOK, NEW who \in Persons \cup {NoOne}
  PROVE  RowsWith(who) \subseteq Persons /\ people \subseteq RowsWith(who)
         /\ (who # NoOne => who \in RowsWith(who))
BY DEF SetupTypeOK, RowsWith

(* A claim, a promotion and the manifest name an operator with an account, *)
(* and touch neither the wizard nor the token.                             *)
LEMMA NamingKeepsInv ==
  ASSUME SetupInv, NEW p \in Persons, people' = RowsWith(p), operator' = p,
         complete' \in BOOLEAN, promotion' \in {"absent", "carried", "spent"},
         setBy' \in {"nobody", "claim", "setup", "promotion", "manifest"},
         call' \in [Requests -> {"none", "claim", "setup"}],
         writing' = Between, cutShort' \in BOOLEAN,
         tokenFile' \in BOOLEAN, tokenLive' \in BOOLEAN
  PROVE  SetupInv'
<1>1. p # NoOne
  BY PersonsAssumption
<1>2. people' \subseteq Persons /\ operator' \in people'
  BY <1>1, RowsTyped DEF SetupInv
<1>3. SetupTypeOK'
  BY <1>2 DEF SetupTypeOK
<1>4. Reachable'
  BY <1>1 DEF Reachable
<1>5. writing'.next = "none"
  BY DEF Between
<1> QED
  BY <1>3, <1>4, <1>5 DEF SetupInv, CarriesALiveToken, OperatorInReach

LEMMA ClaimKeepsInv ==
  ASSUME SetupInv, NEW p \in Persons, Claim(p), LoopFree,
         call' \in [Requests -> {"none", "claim", "setup"}]
  PROVE  SetupInv'
<1>1. writing' = Between
  BY DEF Claim, LoopFree
<1> QED
  BY <1>1, NamingKeepsInv DEF Claim, SetupInv, SetupTypeOK

LEMMA WizardKeepsInv ==
  ASSUME SetupInv, NEW r \in Requests, NEW who \in Persons \cup {NoOne}, SetupWrites(r, who)
  PROVE  SetupInv'
<1>1. people' \subseteq Persons /\ people \subseteq people' /\ (who # NoOne => who \in people')
  BY RowsTyped DEF SetupInv, SetupWrites
<1>2. operator' \in people' \cup {NoOne}
  BY <1>1 DEF SetupInv, SetupTypeOK, SetupWrites
<1>3. AfterSettings(who) \in {"carry", "delete"}
  BY DEF AfterSettings
<1>4. writing' \in [req : Requests, next : {"carry", "delete"}]
      /\ writing'.next = AfterSettings(who)
  BY <1>3 DEF SetupWrites
<1>5. SetupTypeOK'
  BY <1>1, <1>2, <1>4 DEF SetupInv, SetupTypeOK, SetupWrites
<1>6. who = NoOne => complete' = TRUE /\ tokenLive' = TRUE
  BY DEF SetupWrites, SetupOpen, SetupInv, SetupTypeOK
<1>7. who # NoOne => Reachable'
  BY DEF SetupWrites, Reachable
<1> QED
  BY <1>4, <1>5, <1>6, <1>7 DEF SetupInv, CarriesALiveToken, OperatorInReach, AfterSettings

LEMMA CarryKeepsInv ==
  ASSUME SetupInv, SetupCarries
  PROVE  SetupInv'
<1>1. tokenLive = TRUE /\ promotion' = "carried"
  BY DEF SetupCarries, SetupInv, CarriesALiveToken
<1>2. writing' \in [req : Requests, next : {"carry", "delete"}] /\ writing'.next = "delete"
  BY DEF SetupCarries, SetupInv, SetupTypeOK, Between
<1>3. SetupTypeOK'
  BY <1>1, <1>2 DEF SetupCarries, SetupInv, SetupTypeOK
<1> QED
  BY <1>1, <1>2, <1>3 DEF SetupInv, CarriesALiveToken, OperatorInReach, Reachable

LEMMA RestartKeepsInv ==
  ASSUME SetupInv, Restart
  PROVE  SetupInv'
<1>1. /\ writing' = Between /\ call' \in [Requests -> {"none", "claim", "setup"}]
      /\ cutShort' \in BOOLEAN /\ tokenLive' \in BOOLEAN /\ tokenFile' \in BOOLEAN
      /\ complete' \in BOOLEAN /\ promotion' \in {"absent", "carried", "spent"}
  BY DEF Restart, SetupInv, SetupTypeOK
<1>2. CASE \E m \in ManifestOperators : EnsureOperator(m)
  <2>1. PICK m \in Persons : EnsureOperator(m)
    BY <1>2, PersonsAssumption
  <2> QED
    BY <1>1, <2>1, NamingKeepsInv DEF EnsureOperator
<1>3. CASE UNCHANGED <<operator, people, setBy>>
  <2>1. SetupTypeOK'
    BY <1>1, <1>3 DEF SetupInv, SetupTypeOK
  <2>2. writing'.next = "none"
    BY <1>1 DEF Between
  <2>3. complete' = complete /\ promotion' = promotion
        /\ cutShort' = (cutShort \/ writing.next = "carry")
    BY DEF Restart
  <2>4. OperatorInReach'
    BY <1>3, <2>3 DEF SetupInv, OperatorInReach, Reachable
  <2> QED
    BY <2>1, <2>2, <2>4 DEF SetupInv, CarriesALiveToken
<1> QED
  BY <1>2, <1>3 DEF Restart

(* The steps that name nobody: a call begins or fails, the token goes.     *)
LEMMA QuietSetup ==
  ASSUME SetupInv, UNCHANGED <<complete, operator, promotion, people, setBy, cutShort>>,
         \/ /\ call' \in [Requests -> {"none", "claim", "setup"}]
            /\ UNCHANGED <<tokenFile, tokenLive, writing>>
         \/ SetupDeletes
         \/ UNCHANGED setupVars
  PROVE  SetupInv'
<1>1. CASE /\ call' \in [Requests -> {"none", "claim", "setup"}]
           /\ UNCHANGED <<tokenFile, tokenLive, writing>>
  BY <1>1 DEF SetupInv, SetupTypeOK, CarriesALiveToken, OperatorInReach, Reachable
<1>2. CASE SetupDeletes
  <2>1. /\ writing' = Between /\ writing'.next = "none" /\ writing.next = "delete"
        /\ tokenLive' \in BOOLEAN /\ tokenFile' \in BOOLEAN /\ call' = call
    BY <1>2 DEF SetupDeletes, Between, SetupInv, SetupTypeOK
  <2>2. SetupTypeOK'
    BY <2>1 DEF SetupInv, SetupTypeOK
  <2> QED
    BY <2>1, <2>2 DEF SetupInv, CarriesALiveToken, OperatorInReach, Reachable
<1>3. CASE UNCHANGED setupVars
  BY <1>3 DEF setupVars, SetupInv, SetupTypeOK, CarriesALiveToken, OperatorInReach, Reachable
<1> QED
  BY <1>1, <1>2, <1>3

LEMMA SetupSteps == SetupInv /\ [SetupNext]_setupVars => SetupInv'
<1> SUFFICES ASSUME SetupInv, [SetupNext]_setupVars PROVE SetupInv'
  OBVIOUS
<1>1. ASSUME NEW r \in Requests, ClaimBegin(r) \/ SetupBegin(r) \/ CallFails(r)
      PROVE  SetupInv'
  <2>1. call' \in [Requests -> {"none", "claim", "setup"}]
    BY <1>1 DEF ClaimBegin, SetupBegin, CallFails, SetupInv, SetupTypeOK
  <2> QED
    BY <1>1, <2>1, QuietSetup DEF ClaimBegin, SetupBegin, CallFails
<1>2. ASSUME NEW r \in Requests, NEW p \in Persons, ClaimEnd(r, p)
      PROVE  SetupInv'
  <2>1. call' \in [Requests -> {"none", "claim", "setup"}]
    BY <1>2 DEF ClaimEnd, SetupInv, SetupTypeOK
  <2> QED
    BY <1>2, <2>1, ClaimKeepsInv DEF ClaimEnd
<1>3. ASSUME NEW r \in Requests, NEW who \in Persons \cup {NoOne}, SetupWrites(r, who)
      PROVE  SetupInv'
  BY <1>3, WizardKeepsInv
<1>4. ASSUME NEW p \in Persons, ClaimAtOnce(p)
      PROVE  SetupInv'
  BY <1>4, ClaimKeepsInv DEF ClaimAtOnce, SetupInv, SetupTypeOK
<1>5. ASSUME NEW p \in Persons, Promote(p)
      PROVE  SetupInv'
  <2>1. writing' = Between
    BY <1>5 DEF Promote, LoopFree
  <2> QED
    BY <1>5, <2>1, NamingKeepsInv DEF Promote, SetupInv, SetupTypeOK
<1>6. CASE SetupCarries
  BY <1>6, CarryKeepsInv
<1>7. CASE SetupDeletes
  BY <1>7, QuietSetup DEF SetupDeletes
<1>8. CASE Restart
  BY <1>8, RestartKeepsInv
<1>9. CASE UNCHANGED setupVars
  BY <1>9, QuietSetup DEF setupVars
<1> QED
  BY <1>1, <1>2, <1>3, <1>4, <1>5, <1>6, <1>7, <1>8, <1>9 DEF SetupNext

LEMMA SetupInitially == SetupInit => SetupInv
<1> SUFFICES ASSUME SetupInit PROVE SetupInv
  OBVIOUS
<1>1. SetupTypeOK
  BY DEF SetupInit, SetupTypeOK
<1>2. writing.next = "none" /\ complete = FALSE
  BY DEF SetupInit, Between
<1> QED
  BY <1>1, <1>2 DEF SetupInv, CarriesALiveToken, OperatorInReach

(* The invariant the two properties below are part of.                     *)
THEOREM SetupInvariant == SetupSpec => []SetupInv
BY SetupInitially, SetupSteps, PTL DEF SetupSpec

(* Whatever claims, wizard calls, promotions, manifests and restarts       *)
(* interleave, the operator is somebody who has an account.                *)
THEOREM OperatorHasAnAccount == SetupSpec => []SetupTypeOK
<1>1. SetupInv => SetupTypeOK
  BY DEF SetupInv
<1> QED
  BY <1>1, SetupInvariant, PTL

(* complete_setup: a completed setup has an operator or the token that     *)
(* makes the first sign-in one, unless a stop fell between the commits.    *)
THEOREM StrandedByAStopOnly == SetupSpec => []StrandedOnlyIfCutShort
<1>1. SetupInv => StrandedOnlyIfCutShort
  BY WritingFields DEF SetupInv, OperatorInReach, StrandedOnlyIfCutShort
<1> QED
  BY <1>1, SetupInvariant, PTL

(* _verify_setup_token: with setup complete and nothing in flight, neither *)
(* a claim nor a wizard call sets the operator, live token or not.         *)
THEOREM TokenIsInert == SetupSpec => SurvivingTokenIsInert
<1>1. SetupInv /\ [SetupNext]_setupVars =>
        (complete /\ InFlight = {} /\ operator' # operator
           => setBy' \in {"promotion", "manifest"})
  <2> SUFFICES ASSUME SetupInv, [SetupNext]_setupVars, complete, InFlight = {},
                      operator' # operator
               PROVE  setBy' \in {"promotion", "manifest"}
    OBVIOUS
  <2>1. \A r \in Requests : call[r] = "none"
    BY DEF InFlight
  <2>2. ASSUME NEW r \in Requests
        PROVE  /\ \A p \in Persons : ~ClaimEnd(r, p)
               /\ \A who \in Persons \cup {NoOne} : ~SetupWrites(r, who)
    BY <2>1 DEF ClaimEnd, SetupWrites, SetupOpen
  <2>3. \A p \in Persons : ~ClaimAtOnce(p)
    BY DEF ClaimAtOnce, ClaimOpen
  <2>4. ASSUME NEW p \in Persons, Promote(p) PROVE setBy' = "promotion"
    BY <2>4 DEF Promote
  <2>5. ASSUME Restart PROVE setBy' = "manifest"
    BY <2>5 DEF Restart, EnsureOperator
  <2>6. \A r \in Requests : ~ClaimBegin(r) /\ ~SetupBegin(r) /\ ~CallFails(r)
    BY DEF ClaimBegin, SetupBegin, CallFails
  <2>7. ~SetupCarries /\ ~SetupDeletes /\ ~UNCHANGED setupVars
    BY DEF SetupCarries, SetupDeletes, setupVars
  <2> QED
    BY <2>2, <2>3, <2>4, <2>5, <2>6, <2>7 DEF SetupNext
<1> QED
  BY <1>1, SetupInvariant, PTL DEF SetupSpec, SurvivingTokenIsInert

(* _grant_authorization_code: the promotion is spent once, on a carried    *)
(* token, and only while there is no operator to displace.                 *)
THEOREM PromotionDisplacesNobody == SetupSpec => PromotionFillsAVacancy
<1>1. [SetupNext]_setupVars =>
        (promotion # promotion' /\ promotion' = "spent"
           => operator = NoOne /\ promotion = "carried")
  <2> SUFFICES ASSUME [SetupNext]_setupVars, promotion # promotion', promotion' = "spent"
               PROVE  operator = NoOne /\ promotion = "carried"
    OBVIOUS
  <2>1. ASSUME NEW p \in Persons, Promote(p) PROVE operator = NoOne /\ promotion = "carried"
    BY <2>1 DEF Promote, Promotable
  <2>2. \A r \in Requests : /\ ~ClaimBegin(r) /\ ~SetupBegin(r) /\ ~CallFails(r)
                            /\ \A p \in Persons : ~ClaimEnd(r, p)
                            /\ \A who \in Persons \cup {NoOne} : ~SetupWrites(r, who)
    BY DEF ClaimBegin, SetupBegin, CallFails, ClaimEnd, Claim, SetupWrites
  <2>3. \A p \in Persons : ~ClaimAtOnce(p)
    BY DEF ClaimAtOnce, Claim
  <2>4. ~SetupCarries /\ ~SetupDeletes /\ ~Restart /\ ~UNCHANGED setupVars
    BY DEF SetupCarries, SetupDeletes, Restart, setupVars
  <2> QED
    BY <2>1, <2>2, <2>3, <2>4 DEF SetupNext
<1> QED
  BY <1>1, PTL DEF SetupSpec, PromotionFillsAVacancy

=============================================================================
