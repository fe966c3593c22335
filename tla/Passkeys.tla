------------------------------ MODULE Passkeys ------------------------------
(***************************************************************************)
(* The passkey ceremonies: a challenge is handed out, an authenticator     *)
(* answers it, and the answer comes back: once, many times, late, or       *)
(* beside the challenge of another ceremony.                               *)
(*                                                                         *)
(* A handler works on a database session. What it wrote is kept if it      *)
(* commits; get_db closes the session of any other, and that rolls back.   *)
(* No handler awaits, and Origin runs one worker: each is one step.        *)
(***************************************************************************)
EXTENDS Naturals

CONSTANTS
  Persons,
  Keys,           \* authenticators' credential ids
  NoOne,
  MaxChallenges,  \* bound: challenges handed out in a behaviour
  MaxCount        \* bound: an authenticator's signature counter

ASSUME PasskeysAssumption ==
  /\ NoOne \notin Persons
  /\ MaxChallenges \in Nat /\ MaxCount \in Nat

VARIABLES
  active,      \* the persons not deactivated
  credential,  \* passkey_credentials: the person and sign_count of each row
  challenge,   \* passkey_challenges, the unrecorded ones with them
  entered,     \* history: the assertions that have signed in
  again        \* history: the challenges that have signed in more than once

vars == <<active, credential, challenge, entered, again>>

Challenges == 1..MaxChallenges
Purposes == {"login", "register"}

(* new: not handed out yet. lost: handed out, and no row holds it.         *)
Challenge == [state : {"new", "lost", "live", "used", "expired"},
              purpose : Purposes, person : Persons \cup {NoOne}]
Credential == [person : Persons \cup {NoOne}, count : 0..MaxCount]
Answer == [to : Challenges, key : Keys, count : 0..MaxCount]

NoCredential == [person |-> NoOne, count |-> 0]
KeysOf(p) == {k \in Keys : credential[k].person = p}

-----------------------------------------------------------------------------
HandsOut(c, state, purpose, p) ==
  /\ challenge[c].state = "new"
  /\ challenge' = [challenge EXCEPT ![c] =
       [state |-> state, purpose |-> purpose, person |-> p]]
  /\ UNCHANGED <<active, credential, entered, again>>

(* login-options commits the row of its challenge. (For an address with no *)
(* passkey it fabricates an answer and records nothing.)                   *)
LoginOptions(p, c) ==
  /\ KeysOf(p) # {}
  /\ HandsOut(c, "live", "login", p)

(* register-options does not: the row is lost with the session.            *)
RegisterOptions(p, c) == HandsOut(c, "lost", "register", p)

(* Whoever was handed a challenge has it signed by whichever authenticator *)
(* they hold, or by a copy of one, and may send the answer at any time and *)
(* again.                                                                  *)
Answers == {a \in Answer : challenge[a.to].state # "new"}

-----------------------------------------------------------------------------
(* consume: one UPDATE that asks for everything it needs.                  *)
SpentIsLive(c, purpose) ==               \* fault: used is not asked for
  challenge[c].purpose = purpose /\ challenge[c].state \in {"live", "used"}
Consumes(c, purpose) ==
  challenge[c].purpose = purpose /\ challenge[c].state = "live"

Consumed(c) == [challenge EXCEPT ![c].state = "used"]

(* The library's check of the counter, on a row of the challenge's person. *)
Ascends(old, new) == new > old \/ (new = 0 /\ old = 0)
Verifies(c, a) ==
  /\ a.to = c
  /\ credential[a.key].person = challenge[c].person
  /\ Ascends(credential[a.key].count, a.count)

CountKept(a) == credential               \* fault: update_sign_count is left out
CountUpdated(a) == [credential EXCEPT ![a.key].count = a.count]

(* login-complete: the caller names the challenge, whatever they send with *)
(* it. Refused, the challenge stays consumed; of a deactivated account, or *)
(* with a body that is no credential, it is live again.                    *)
Refused(c, a) ==
  /\ ~Verifies(c, a)
  /\ challenge' = Consumed(c)
  /\ UNCHANGED <<credential, entered, again>>

SwitchedOff(c, a) ==
  /\ Verifies(c, a) /\ challenge[c].person \notin active
  /\ UNCHANGED <<challenge, credential, entered, again>>

SignsIn(c, a) ==
  /\ Verifies(c, a) /\ challenge[c].person \in active
  /\ challenge' = Consumed(c)
  /\ credential' = CountUpdated(a)
  /\ entered' = entered \cup {a}
  /\ again' = IF \E b \in entered : b.to = c THEN again \cup {c} ELSE again

LoginComplete(c, a) ==
  /\ Consumes(c, "login")
  /\ Refused(c, a) \/ SwitchedOff(c, a) \/ SignsIn(c, a)
  /\ UNCHANGED active

(* register-complete refuses, for want of a row, whatever register-options *)
(* handed out.                                                             *)
RegisterComplete(p, c, a) ==
  /\ a.to = c
  /\ IF Consumes(c, "register")
     THEN /\ challenge' = Consumed(c)
          /\ credential' = IF challenge[c].person = p
               THEN [credential EXCEPT ![a.key] = [person |-> p, count |-> a.count]]
               ELSE credential
     ELSE UNCHANGED <<challenge, credential>>
  /\ UNCHANGED <<active, entered, again>>

-----------------------------------------------------------------------------
(* expires_at, five minutes on.                                            *)
Expire(c) ==
  /\ challenge[c].state = "live"
  /\ challenge' = [challenge EXCEPT ![c].state = "expired"]
  /\ UNCHANGED <<active, credential, entered, again>>

(* delete_for_person: a row of the caller's own.                           *)
DeletePasskey(p, k) ==
  /\ credential[k].person = p
  /\ credential' = [credential EXCEPT ![k] = NoCredential]
  /\ UNCHANGED <<active, challenge, entered, again>>

SetActive(persons) ==
  /\ active' = persons
  /\ UNCHANGED <<credential, challenge, entered, again>>

(* The rows of a node that enrolled them before challenges were stored.    *)
Init ==
  /\ active = Persons
  /\ credential \in [Keys -> [person : Persons \cup {NoOne}, count : {0}]]
  /\ challenge = [c \in Challenges |-> [state |-> "new", purpose |-> "login", person |-> NoOne]]
  /\ entered = {}
  /\ again = {}

Next ==
  \/ \E p \in Persons, c \in Challenges : LoginOptions(p, c) \/ RegisterOptions(p, c)
  \/ \E c \in Challenges, a \in Answers : LoginComplete(c, a)
  \/ \E p \in Persons, c \in Challenges, a \in Answers : RegisterComplete(p, c, a)
  \/ \E c \in Challenges : Expire(c)
  \/ \E p \in Persons :
       (\E k \in Keys : DeletePasskey(p, k)) \/ SetActive(active \ {p}) \/ SetActive(active \cup {p})

Spec == Init /\ [][Next]_vars

-----------------------------------------------------------------------------
TypeOK ==
  /\ active \subseteq Persons
  /\ credential \in [Keys -> Credential]
  /\ challenge \in [Challenges -> Challenge]
  /\ entered \subseteq Answer
  /\ again \subseteq Challenges

(* passkey_challenges: "single-use WebAuthn challenge storage". However    *)
(* often an answer is sent, refused with a rollback and sent again, and    *)
(* however many authenticators answered it, a challenge signs in once.     *)
ChallengeSpentOnce ==
  /\ again = {}
  /\ \A a, b \in entered : a.to = b.to => a = b

(* update_sign_count: of an authenticator and its copy, the one that is    *)
(* behind is refused. A counter that is not zero signs in once for each    *)
(* enrolment, on whichever challenge.                                      *)
CounterSpentOnce ==
  \A a, b \in entered : a.key = b.key /\ a.count = b.count /\ a.count > 0 => a = b
=============================================================================
