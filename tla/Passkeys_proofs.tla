--------------------------- MODULE Passkeys_proofs ---------------------------
(***************************************************************************)
(* What a challenge and a counter are worth, for any persons, keys and     *)
(* challenges.                                                             *)
(***************************************************************************)
EXTENDS Passkeys, TLAPS

USE PasskeysAssumption

(* What is handed out is somebody's, and only login challenges have a row. *)
ChallengesSound ==
  \A c \in Challenges :
    /\ challenge[c].state # "new" => challenge[c].person \in Persons
    /\ challenge[c].state = "live" => challenge[c].purpose = "login"

(* An assertion that signed in has used its challenge and is counted.      *)
EnteredSound ==
  \A a \in entered :
    /\ challenge[a.to].state = "used"
    /\ credential[a.key].person = NoOne \/ a.count <= credential[a.key].count

Inv == TypeOK /\ ChallengesSound /\ EnteredSound /\ ChallengeSpentOnce /\ CounterSpentOnce

(* No step but a sign-in changes what the last three speak of.             *)
Keeps ==
  /\ UNCHANGED <<entered, again>>
  /\ \A c \in Challenges : challenge[c].state = "used" => challenge'[c].state = "used"
  /\ \A k \in Keys : credential'[k] = credential[k] \/ credential'[k] = NoCredential

-----------------------------------------------------------------------------
LEMMA AnswerFields ==
  ASSUME NEW a \in Answer
  PROVE  a.to \in Challenges /\ a.key \in Keys /\ a.count \in 0..MaxCount
BY DEF Answer

LEMMA StateFields ==
  ASSUME TypeOK
  PROVE  /\ \A c \in Challenges : /\ challenge[c] \in Challenge
                                  /\ challenge[c].person \in Persons \cup {NoOne}
         /\ \A k \in Keys : credential[k].count \in Nat
BY DEF TypeOK, Challenge, Credential

LEMMA Stays ==
  ASSUME Inv, TypeOK', ChallengesSound', Keeps
  PROVE  Inv'
<1>1. EnteredSound'
  <2> SUFFICES ASSUME NEW a \in entered
               PROVE  /\ challenge'[a.to].state = "used"
                      /\ credential'[a.key].person = NoOne \/ a.count <= credential'[a.key].count
    BY DEF EnteredSound, Keeps
  <2>1. a.to \in Challenges /\ a.key \in Keys
    BY AnswerFields DEF Inv, TypeOK
  <2>2. credential'[a.key] = credential[a.key] \/ credential'[a.key].person = NoOne
    BY <2>1 DEF Keeps, NoCredential
  <2> QED
    BY <2>1, <2>2 DEF Inv, EnteredSound, Keeps
<1>2. ChallengeSpentOnce' /\ CounterSpentOnce'
  BY DEF Inv, Keeps, ChallengeSpentOnce, CounterSpentOnce
<1> QED
  BY <1>1, <1>2 DEF Inv

(* A challenge takes another state.                                        *)
LEMMA ChallengeStep ==
  ASSUME Inv, NEW c \in Challenges, NEW new \in Challenge,
         challenge[c].state # "used", challenge' = [challenge EXCEPT ![c] = new],
         new.state # "new" => new.person \in Persons,
         new.state = "live" => new.purpose = "login",
         UNCHANGED <<active, credential, entered, again>>
  PROVE  Inv'
<1>1. \A d \in Challenges : challenge'[d] = IF d = c THEN new ELSE challenge[d]
  BY DEF Inv, TypeOK
<1>2. TypeOK'
  BY DEF Inv, TypeOK
<1>3. ChallengesSound'
  BY <1>1 DEF Inv, ChallengesSound
<1>4. Keeps
  BY <1>1 DEF Keeps
<1> QED
  BY <1>2, <1>3, <1>4, Stays

LEMMA OptionsStep ==
  ASSUME Inv, NEW p \in Persons, NEW c \in Challenges, LoginOptions(p, c) \/ RegisterOptions(p, c)
  PROVE  Inv'
<1>1. PICK new : \/ new = [state |-> "live", purpose |-> "login", person |-> p]
                 \/ new = [state |-> "lost", purpose |-> "register", person |-> p]
      /\ challenge[c].state = "new" /\ challenge' = [challenge EXCEPT ![c] = new]
      /\ UNCHANGED <<active, credential, entered, again>>
  <2>1. CASE LoginOptions(p, c)
    BY <2>1 DEF LoginOptions, HandsOut
  <2>2. CASE RegisterOptions(p, c)
    BY <2>2 DEF RegisterOptions, HandsOut
  <2> QED
    BY <2>1, <2>2
<1>2. new \in Challenge
  BY <1>1 DEF Challenge, Purposes
<1> QED
  BY <1>1, <1>2, ChallengeStep

(* A challenge that is live is consumed, and nobody signs in.              *)
LEMMA ConsumedStep ==
  ASSUME Inv, NEW c \in Challenges, challenge[c].state \in {"live", "expired"},
         NEW state \in {"used", "expired"},
         challenge' = [challenge EXCEPT ![c].state = state],
         UNCHANGED <<active, credential, entered, again>>
  PROVE  Inv'
<1>1. challenge \in [Challenges -> Challenge] /\ challenge[c].person \in Persons
  BY DEF Inv, TypeOK, ChallengesSound
<1>2. PICK new : new = [challenge[c] EXCEPT !.state = state]
  OBVIOUS
<1>3. new \in Challenge /\ new.state = state /\ new.person = challenge[c].person
      /\ challenge' = [challenge EXCEPT ![c] = new]
  BY <1>1, <1>2 DEF Challenge
<1> QED
  BY <1>1, <1>3, ChallengeStep

-----------------------------------------------------------------------------
(* A sign-in: its challenge had signed nobody in, and its count is above   *)
(* that of every assertion of its key before it.                           *)
LEMMA SignsInStep ==
  ASSUME Inv, NEW c \in Challenges, NEW a \in Answer, Consumes(c, "login"), SignsIn(c, a),
         UNCHANGED active
  PROVE  Inv'
<1>0. TypeOK /\ a.to \in Challenges /\ a.key \in Keys /\ a.count \in 0..MaxCount
  BY AnswerFields DEF Inv
<1>1. /\ challenge[c].state = "live" /\ a.to = c
      /\ credential[a.key].person = challenge[c].person /\ challenge[c].person \in Persons
      /\ Ascends(credential[a.key].count, a.count)
  BY DEF Consumes, SignsIn, Verifies, Inv, ChallengesSound
<1>2. /\ challenge' = [challenge EXCEPT ![c].state = "used"]
      /\ credential' = [credential EXCEPT ![a.key].count = a.count]
      /\ entered' = entered \cup {a}
  BY DEF SignsIn, Consumed, CountUpdated
<1>3. \A b \in entered : b \in Answer /\ b.to # c
  BY <1>0, <1>1 DEF Inv, EnteredSound, TypeOK
<1>4. again' = again
  BY <1>3 DEF SignsIn
<1>5. /\ \A d \in Challenges \ {c} : challenge'[d] = challenge[d]
      /\ challenge'[c].state = "used" /\ challenge'[c].person = challenge[c].person
      /\ challenge' \in [Challenges -> Challenge]
  BY <1>0, <1>2 DEF TypeOK, Challenge
<1>6. /\ \A k \in Keys \ {a.key} : credential'[k] = credential[k]
      /\ credential'[a.key].count = a.count /\ credential'[a.key].person = credential[a.key].person
      /\ credential' \in [Keys -> Credential]
  BY <1>0, <1>2 DEF TypeOK, Credential
<1>7. TypeOK'
  BY <1>0, <1>2, <1>4, <1>5, <1>6 DEF TypeOK
<1>8. ChallengesSound'
  BY <1>1, <1>5 DEF Inv, ChallengesSound
<1>9. credential[a.key].count \in Nat /\ a.count \in Nat /\ credential[a.key].count <= a.count
  BY <1>0, <1>1, StateFields DEF Ascends
<1>10. ASSUME NEW b \in entered, b.key = a.key
       PROVE  b.count \in Nat /\ b.count <= credential[a.key].count
  <2>1. b.count \in Nat
    BY <1>3, AnswerFields
  <2>2. credential[a.key].person # NoOne
    BY <1>1
  <2> QED
    BY <1>10, <2>1, <2>2 DEF Inv, EnteredSound
<1>11. EnteredSound'
  <2> SUFFICES ASSUME NEW b \in entered'
               PROVE  /\ challenge'[b.to].state = "used"
                      /\ credential'[b.key].person = NoOne \/ b.count <= credential'[b.key].count
    BY DEF EnteredSound
  <2>1. CASE b = a
    BY <1>1, <1>5, <1>6, <1>9, <2>1
  <2>2. CASE b \in entered
    <3>1. b.to \in Challenges \ {c} /\ b.key \in Keys
      BY <1>3, <2>2, AnswerFields
    <3>2. challenge'[b.to].state = "used"
      BY <1>5, <2>2, <3>1 DEF Inv, EnteredSound
    <3>3. CASE b.key = a.key
      BY <1>6, <1>9, <1>10, <2>2, <3>2, <3>3
    <3>4. CASE b.key # a.key
      BY <1>6, <2>2, <3>1, <3>2, <3>4 DEF Inv, EnteredSound
    <3> QED
      BY <3>3, <3>4
  <2> QED
    BY <1>2, <2>1, <2>2
<1>12. ChallengeSpentOnce'
  BY <1>1, <1>2, <1>3, <1>4 DEF Inv, ChallengeSpentOnce
<1>13. CounterSpentOnce'
  <2>1. ASSUME NEW b \in entered, b.key = a.key, b.count = a.count, a.count > 0
        PROVE  FALSE
    BY <1>1, <1>9, <1>10, <2>1 DEF Ascends
  <2> QED
    BY <1>2, <2>1 DEF Inv, CounterSpentOnce
<1> QED
  BY <1>7, <1>8, <1>11, <1>12, <1>13 DEF Inv

LEMMA LoginStep ==
  ASSUME Inv, NEW c \in Challenges, NEW a \in Answer, LoginComplete(c, a)
  PROVE  Inv'
<1>1. Consumes(c, "login") /\ challenge[c].state = "live" /\ UNCHANGED active
  BY DEF LoginComplete, Consumes
<1>2. CASE Refused(c, a)
  <2>1. challenge' = [challenge EXCEPT ![c].state = "used"] /\ UNCHANGED <<credential, entered, again>>
    BY <1>2 DEF Refused, Consumed
  <2> QED
    BY <1>1, <2>1, ConsumedStep
<1>3. CASE SwitchedOff(c, a)
  <2>1. UNCHANGED vars
    BY <1>1, <1>3 DEF SwitchedOff, vars
  <2>2. Keeps /\ TypeOK' /\ ChallengesSound'
    BY <2>1 DEF vars, Keeps, Inv, TypeOK, ChallengesSound
  <2> QED
    BY <2>2, Stays
<1>4. CASE SignsIn(c, a)
  BY <1>1, <1>4, SignsInStep
<1> QED
  BY <1>2, <1>3, <1>4 DEF LoginComplete

(* No challenge of the purpose register is live.                           *)
LEMMA RegisterStep ==
  ASSUME Inv, NEW p \in Persons, NEW c \in Challenges, NEW a \in Answer, RegisterComplete(p, c, a)
  PROVE  Inv'
<1>1. ~Consumes(c, "register")
  BY DEF Inv, ChallengesSound, Consumes
<1>2. UNCHANGED vars
  BY <1>1 DEF RegisterComplete, vars
<1>3. Keeps /\ TypeOK' /\ ChallengesSound'
  BY <1>2 DEF vars, Keeps, Inv, TypeOK, ChallengesSound
<1> QED
  BY <1>3, Stays

LEMMA ExpireStep ==
  ASSUME Inv, NEW c \in Challenges, Expire(c)
  PROVE  Inv'
BY ConsumedStep DEF Expire

LEMMA PersonStep ==
  ASSUME Inv, NEW p \in Persons,
         \/ \E k \in Keys : DeletePasskey(p, k)
         \/ SetActive(active \ {p}) \/ SetActive(active \cup {p})
  PROVE  Inv'
<1>0. UNCHANGED <<challenge, entered, again>>
  BY DEF DeletePasskey, SetActive
<1>1. active' \subseteq Persons /\ credential' \in [Keys -> Credential]
  <2>1. NoCredential \in Credential
    BY DEF NoCredential, Credential
  <2> QED
    BY <2>1 DEF Inv, TypeOK, DeletePasskey, SetActive
<1>2. \A k \in Keys : credential'[k] = credential[k] \/ credential'[k] = NoCredential
  BY DEF Inv, TypeOK, DeletePasskey, SetActive
<1>3. TypeOK' /\ ChallengesSound'
  BY <1>0, <1>1 DEF Inv, TypeOK, ChallengesSound
<1> QED
  BY <1>0, <1>2, <1>3, Stays DEF Keeps

-----------------------------------------------------------------------------
LEMMA Initially == Init => Inv
<1> SUFFICES ASSUME Init PROVE Inv
  OBVIOUS
<1>1. challenge \in [Challenges -> Challenge]
  BY DEF Init, Challenge, Purposes
<1>2. credential \in [Keys -> Credential]
  <2>1. \A k \in Keys : credential[k] \in Credential
    BY DEF Init, Credential
  <2> QED
    BY <2>1 DEF Init
<1>3. TypeOK
  BY <1>1, <1>2 DEF Init, TypeOK
<1> QED
  BY <1>3 DEF Init, Inv, ChallengesSound, EnteredSound, ChallengeSpentOnce, CounterSpentOnce

LEMMA Steps == Inv /\ [Next]_vars => Inv'
<1> SUFFICES ASSUME Inv, [Next]_vars PROVE Inv'
  OBVIOUS
<1>1. CASE \E p \in Persons, c \in Challenges : LoginOptions(p, c) \/ RegisterOptions(p, c)
  BY <1>1, OptionsStep
<1>2. CASE \E c \in Challenges, a \in Answers : LoginComplete(c, a)
  BY <1>2, LoginStep DEF Answers
<1>3. CASE \E p \in Persons, c \in Challenges, a \in Answers : RegisterComplete(p, c, a)
  BY <1>3, RegisterStep DEF Answers
<1>4. CASE \E c \in Challenges : Expire(c)
  BY <1>4, ExpireStep
<1>5. CASE \E p \in Persons : \/ \E k \in Keys : DeletePasskey(p, k)
                              \/ SetActive(active \ {p}) \/ SetActive(active \cup {p})
  BY <1>5, PersonStep
<1>6. CASE UNCHANGED vars
  <2>1. Keeps /\ TypeOK' /\ ChallengesSound'
    BY <1>6 DEF vars, Keeps, Inv, TypeOK, ChallengesSound
  <2> QED
    BY <2>1, Stays
<1> QED
  BY <1>1, <1>2, <1>3, <1>4, <1>5, <1>6 DEF Next

-----------------------------------------------------------------------------
(* The invariant the two properties below are part of.                     *)
THEOREM Invariant == Spec => []Inv
BY Initially, Steps, PTL DEF Spec

(* passkey_challenges.consume: however many answers arrive, from however   *)
(* many authenticators, one of them signs in.                              *)
THEOREM ChallengesAreSpent == Spec => []ChallengeSpentOnce
<1>1. Inv => ChallengeSpentOnce
  BY DEF Inv
<1> QED
  BY <1>1, Invariant, PTL

(* update_sign_count: a count above zero signs in once.                    *)
THEOREM CountsAreSpent == Spec => []CounterSpentOnce
<1>1. Inv => CounterSpentOnce
  BY DEF Inv
<1> QED
  BY <1>1, Invariant, PTL

=============================================================================
