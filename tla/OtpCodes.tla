------------------------------ MODULE OtpCodes ------------------------------
(***************************************************************************)
(* The one-time code ledger of Origin: otp_service.issue_otp, verify_otp   *)
(* and cleanup_expired over the otp_codes table.                           *)
(*                                                                         *)
(* Handlers are coroutines on one event loop, so what runs between two     *)
(* awaits is one step. issue_otp and verify_otp each await one key         *)
(* derivation: each is a Begin and an End action, and other requests, the  *)
(* clock, cleanup and a process restart run in between. A step ends in     *)
(* commit or rollback, so the table survives a restart and the requests    *)
(* in flight do not.                                                       *)
(*                                                                         *)
(* Codes are numbered in the order they are inserted, which is the order   *)
(* of created_time. Which guess is right is left open: a comparison        *)
(* answers either way.                                                     *)
(***************************************************************************)
EXTENDS Integers, FiniteSets

CONSTANTS
  Mailboxes,    \* who reads the mail: one person each
  Forms, Plain, \* ways to write an address; the stripped, lower-cased one
  Requests,     \* concurrent requests of the issuing and verifying routes
  Expiry,       \* _OTP_EXPIRY_MINUTES
  Window,       \* _ISSUE_WINDOW_MINUTES
  Retention,    \* the day delete_expired keeps a code past its expiry
  MaxAttempts,  \* _MAX_ATTEMPTS_PER_CODE
  MaxDraws,     \* _max_draws_per_window()
  MaxCodes,     \* bound: codes ever issued
  MaxTime,      \* bound: the clock
  NoBox         \* the mailbox of a code not yet issued

ASSUME PlainAssumption == Plain \in Forms
ASSUME NumbersAssumption ==
  /\ Expiry \in Nat \ {0} /\ Window \in Nat /\ Retention \in Nat
  /\ MaxAttempts \in Nat \ {0} /\ MaxDraws \in Nat
  /\ MaxCodes \in Nat /\ MaxTime \in Nat
ASSUME NoBoxAssumption == NoBox \notin Mailboxes
ASSUME RetentionAssumption == Retention + Expiry > Window

VARIABLES
  now,      \* the clock, in minutes
  rows,     \* the codes in the table
  code,     \* what each code's row holds; kept here after the row is deleted
  issued,   \* history: how many codes were ever issued
  req,      \* what each request holds across its await
  signins,  \* history: how many verifications each code has satisfied
  draws     \* history: every attempt taken, with the time it was taken at

vars == <<now, rows, code, issued, req, signins, draws>>

CodeIds == 1..MaxCodes
NoCode == 0
Emails == [box : Mailboxes \cup {NoBox}, form : Forms]
NoEmail == [box |-> NoBox, form |-> Plain]
Row == [email : Emails, created : 0..MaxTime, attempts : 0..MaxAttempts, used : BOOLEAN]

(* A person types an address some way; the ledger is keyed by one form.    *)
Spellings == [box : Mailboxes, form : Forms]
Normalize(s) == [s EXCEPT !.form = Plain]

Idle == [op |-> "idle"]
Issuing == [op : {"issue"}, email : Spellings]
Verifying == [op : {"verify"}, code : CodeIds \cup {NoCode}]

-----------------------------------------------------------------------------
(* The rows a query selects.                                               *)

Unexpired(c) == now < code[c].created + Expiry
Live(c) == c \in rows /\ ~code[c].used /\ Unexpired(c)
Guessable(c) == Live(c) /\ code[c].attempts < MaxAttempts

LatestValid(e) ==
  {c \in rows : /\ code[c].email = e /\ Guessable(c)
                /\ \A d \in rows : code[d].email = e /\ Guessable(d) => d <= c}

(* Attempts over a set of codes: sum(attempts), counted as pairs.          *)
Tries(C) == {p \in CodeIds \X (1..MaxAttempts) : p[1] \in C /\ p[2] <= code[p[1]].attempts}
RecentUnusedCodes(e) ==                 \* fault: a replaced code's guesses forgotten
  {c \in rows : /\ code[c].email = e /\ ~code[c].used
                /\ code[c].created >= now - Window}
RecentCodes(e) == {c \in rows : code[c].email = e /\ code[c].created >= now - Window}
RecentMisses(e) == Cardinality(Tries(RecentCodes(e)))
LimitReachedLate(e) == RecentMisses(e) >= MaxDraws  \* fault: the new code's own guesses uncounted
LimitReached(e) == RecentMisses(e) + MaxAttempts > MaxDraws

-----------------------------------------------------------------------------
(* issue_otp. A request the first check refuses spends a hash and changes  *)
(* nothing, so it is no step here.                                         *)
IssueBegin(r, s) ==
  /\ req[r] = Idle
  /\ ~LimitReached(Normalize(s))
  /\ req' = [req EXCEPT ![r] = [op |-> "issue", email |-> Normalize(s)]]
  /\ UNCHANGED <<now, rows, code, issued, signins, draws>>

(* supersede_live_for_email, then create: one transaction.                 *)
SupersedeNothing(e) == code             \* fault: older codes left live
Supersede(e) ==
  [c \in CodeIds |-> IF Live(c) /\ code[c].email = e
                     THEN [code[c] EXCEPT !.used = TRUE] ELSE code[c]]

IssueEnd(r) ==
  /\ req[r].op = "issue"
  /\ LET e == req[r].email
         c == issued + 1 IN
     \/ /\ LimitReached(e)
        /\ UNCHANGED <<rows, code, issued>>
     \/ /\ ~LimitReached(e)
        /\ issued < MaxCodes
        /\ code' = [Supersede(e) EXCEPT ![c] =
                      [email |-> e, created |-> now, attempts |-> 0, used |-> FALSE]]
        /\ rows' = rows \cup {c}
        /\ issued' = c
  /\ req' = [req EXCEPT ![r] = Idle]
  /\ UNCHANGED <<now, signins, draws>>

-----------------------------------------------------------------------------
(* verify_otp. The attempt is claimed and committed before the comparison; *)
(* with no live code a dummy hash is compared instead.                     *)
ClaimAttempt(c) ==
  /\ Guessable(c)
  /\ code' = [code EXCEPT ![c].attempts = @ + 1]
  /\ draws' = draws \cup {[code |-> c, nth |-> code[c].attempts + 1, at |-> now]}

VerifyBegin(r, s) ==
  /\ req[r] = Idle
  /\ LET valid == LatestValid(Normalize(s)) IN
     \/ \E c \in valid :
          /\ ClaimAttempt(c)
          /\ req' = [req EXCEPT ![r] = [op |-> "verify", code |-> c]]
     \/ /\ valid = {}
        /\ req' = [req EXCEPT ![r] = [op |-> "verify", code |-> NoCode]]
        /\ UNCHANGED <<code, draws>>
  /\ UNCHANGED <<now, rows, issued, signins>>

(* claim_use: the one UPDATE conditioned on the code not being used yet.   *)
CanClaimUseAgain(c) == c \in rows        \* fault: used not rechecked after the await
CanClaimUse(c) == c \in rows /\ ~code[c].used

(* The comparison came out wrong, the code was already used, or the person *)
(* is not admitted (the claim is then rolled back): no sign-in, no change. *)
VerifyFails(r) ==
  /\ req[r].op = "verify"
  /\ req' = [req EXCEPT ![r] = Idle]
  /\ UNCHANGED <<now, rows, code, issued, signins, draws>>

VerifySucceeds(r) ==
  /\ req[r].op = "verify"
  /\ LET c == req[r].code IN
     /\ c # NoCode
     /\ CanClaimUse(c)
     /\ code' = [code EXCEPT ![c].used = TRUE]
     /\ signins' = [signins EXCEPT ![c] = @ + 1]
  /\ req' = [req EXCEPT ![r] = Idle]
  /\ UNCHANGED <<now, rows, issued, draws>>

-----------------------------------------------------------------------------
CleanupExpired ==
  /\ rows' = {c \in rows : code[c].created + Expiry > now - Retention}
  /\ UNCHANGED <<now, code, issued, req, signins, draws>>

Tick ==
  /\ now < MaxTime
  /\ now' = now + 1
  /\ UNCHANGED <<rows, code, issued, req, signins, draws>>

(* The process stops and starts again: the requests in flight are gone.    *)
Restart ==
  /\ req' = [r \in Requests |-> Idle]
  /\ UNCHANGED <<now, rows, code, issued, signins, draws>>

Init ==
  /\ now = 0
  /\ rows = {}
  /\ code = [c \in CodeIds |->
               [email |-> NoEmail, created |-> 0, attempts |-> 0, used |-> FALSE]]
  /\ issued = 0
  /\ req = [r \in Requests |-> Idle]
  /\ signins = [c \in CodeIds |-> 0]
  /\ draws = {}

Next ==
  \/ \E r \in Requests :
       \/ \E s \in Spellings : IssueBegin(r, s) \/ VerifyBegin(r, s)
       \/ IssueEnd(r)
       \/ VerifyFails(r)
       \/ VerifySucceeds(r)
  \/ CleanupExpired
  \/ Tick
  \/ Restart

Spec == Init /\ [][Next]_vars

-----------------------------------------------------------------------------
(* Every variable holds a value of its kind, and only issued codes have rows. *)
TypeOK ==
  /\ now \in 0..MaxTime
  /\ issued \in 0..MaxCodes
  /\ rows \subseteq 1..issued
  /\ code \in [CodeIds -> Row]
  /\ req \in [Requests -> {Idle} \cup Issuing \cup Verifying]
  /\ signins \in [CodeIds -> Nat]
  /\ draws \subseteq [code : CodeIds, nth : 1..MaxAttempts, at : 0..MaxTime]

(* "At most one live code per address" (issue_otp): however requests for   *)
(* the spellings of one mailbox interleave, two codes never both accept    *)
(* guesses, so guesses drawn on one mailbox never overlap.                 *)
OneLiveCode ==
  \A c, d \in rows :
    Live(c) /\ Live(d) /\ code[c].email.box = code[d].email.box => c = d

(* The guess budget of _limit_reached: over the codes issued to a mailbox  *)
(* within one window, deleted ones included, no more than MaxDraws guesses *)
(* are ever taken, though the limit is read before the hash is awaited and *)
(* the attempts are spent by other requests.                               *)
IssuedWithin(m) ==
  {c \in 1..issued : code[c].email.box = m /\ code[c].created >= now - Window}
DrawsWithinBudget ==
  \A m \in Mailboxes : Cardinality(Tries(IssuedWithin(m))) <= MaxDraws

(* The same budget measured by when the guesses are taken: one code issued *)
(* before the window may still be guessed at inside it, and no more.       *)
DrawsAt(m) ==
  {d \in draws : code[d.code].email.box = m /\ d.at >= now - Window}
DrawsOverlapBound ==
  \A m \in Mailboxes : Cardinality(DrawsAt(m)) <= MaxDraws + MaxAttempts

(* verify_otp's claim_use: concurrent verifications of one code, each      *)
(* right and each past its await, sign in once between them; and a code    *)
(* signs in only on a guess that was taken while it was live.              *)
SignInIsClaimed ==
  \A c \in CodeIds :
    /\ signins[c] <= 1
    /\ signins[c] = 1 => /\ code[c].used
                         /\ \E d \in draws : d.code = c /\ d.at < code[c].created + Expiry

(* The ledger implements the abstract promise.                             *)
NewestCodes ==
  {c \in 1..issued : \A d \in 1..issued : d > c => code[d].email.box # code[c].email.box}
Abstract == INSTANCE OneTimeCode WITH
  Codes <- CodeIds,
  owner <- [c \in CodeIds |-> code[c].email.box],
  newest <- NewestCodes,
  tries <- [c \in CodeIds |-> code[c].attempts]
ImplementsOneTimeCode == Abstract!Spec

=============================================================================
