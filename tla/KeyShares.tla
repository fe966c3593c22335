----------------------------- MODULE KeyShares -----------------------------
(***************************************************************************)
(* Origin's custody of one principal's share of a Mantle master key: the   *)
(* two /internal/key-shares routes, the spending of their tokens, and the  *)
(* stored row. Both routes are plain functions on the thread pool, so      *)
(* other requests run between any two of their database statements, and    *)
(* between the verification of a token and the record of its use.          *)
(*                                                                         *)
(* The tokens and bodies modelled are well formed and bound to the call    *)
(* they come with. Nothing happens between principals.                     *)
(***************************************************************************)
EXTENDS Naturals

CONSTANTS
  Keys,      \* master keys, told apart by their check values (kcv)
  Splits,    \* ways a key has been split
  Requests,
  Tokens,    \* custody tokens, each named by the time it expires
  Slack,     \* a spent token is remembered this long past its expiry
  Gap,       \* the longest a request waits between its token's verification and its use
  Nothing,   \* no share, no key named
  MaxTime, MaxWrites  \* bounds: the clock, the rows written

ASSUME TokensAssumption == Tokens \subseteq Nat
ASSUME KeysAssumption == Nothing \notin Keys
ASSUME NumbersAssumption ==
  {Slack, Gap, MaxTime, MaxWrites} \subseteq Nat /\ Gap <= Slack

VARIABLES
  now,
  locking,   \* writers take _WRITE_LOCK; the code also claims its rule without it
  row,       \* the principal's row of key_custody_shares, or Nothing
  cipher,    \* the encryption key in use
  spent,     \* key_custody_nonces
  req,       \* what each request is about to do
  writes,    \* rows written so far
  told,      \* the answer given by the last step, if it gave one
  uses       \* history: how often each token was accepted

vars == <<now, locking, row, cipher, spent, req, writes, told, uses>>

Shares == [key : Keys, split : Splits]
Ciphers == {"first", "second"}

(* Encryption is randomised: no two writes seal alike, so a write is known *)
(* by its number.                                                          *)
Rows == [share : Shares, seal : 1..MaxWrites, cipher : Ciphers]
ASSUME RowsAssumption == Nothing \notin Rows

Idle == [step |-> "idle"]
Accepted == [step |-> "accepted"]
Verified == [step : {"verified"}, token : Tokens, at : 0..MaxTime]
Writing == [step : {"write"}, share : Shares, over : Keys \cup {Nothing},
            read : Rows \cup {Nothing}]

Silence == [kind |-> "none"]
Tells(kind, share) == [kind |-> kind, share |-> share]
Answers ==
  {Silence} \cup {Tells("absent", Nothing), Tells("unreadable", Nothing)}
    \cup [kind : {"stored", "replaced", "unchanged", "conflict", "share"}, share : Shares]

-----------------------------------------------------------------------------
(* get_auth verifies the token: it has not expired.                        *)
Verify(r, t) ==
  /\ req[r] = Idle
  /\ now <= t
  /\ req' = [req EXCEPT ![r] = [step |-> "verified", token |-> t, at |-> now]]
  /\ told' = Silence
  /\ UNCHANGED <<now, locking, row, cipher, spent, writes, uses>>

(* spend_token: drop expired records, insert this one's, commit; a second  *)
(* insert fails and rolls back.                                            *)
DropAtExpiry(tokens) == {t \in tokens : t >= now}  \* fault: no slack past the expiry
StillKept(tokens) == {t \in tokens : t + Slack >= now}

Spend(r) ==
  /\ req[r].step = "verified"
  /\ LET t == req[r].token
         kept == StillKept(spent)
     IN IF t \in kept
        THEN /\ req' = [req EXCEPT ![r] = Idle]
             /\ UNCHANGED <<spent, uses>>
        ELSE /\ req' = [req EXCEPT ![r] = Accepted]
             /\ spent' = kept \cup {t}
             /\ uses' = [uses EXCEPT ![t] = @ + 1]
  /\ told' = Silence
  /\ UNCHANGED <<now, locking, row, cipher, writes>>

-----------------------------------------------------------------------------
Readable(w) == w # Nothing /\ w.cipher = cipher

(* get_share: the row is read once and answered from.                      *)
AbsentIfShut == IF Readable(row) THEN Tells("share", row.share)
                ELSE Tells("absent", Nothing)      \* fault: a shut share is not there
Released ==
  IF row = Nothing THEN Tells("absent", Nothing)
  ELSE IF Readable(row) THEN Tells("share", row.share)
  ELSE Tells("unreadable", Nothing)

GetShare(r) ==
  /\ req[r].step = "accepted"
  /\ told' = Released
  /\ req' = [req EXCEPT ![r] = Idle]
  /\ UNCHANGED <<now, locking, row, cipher, spent, writes, uses>>

(* put_share up to the read: the lock is taken first, if it is taken.      *)
LockFree == \A r \in Requests : req[r].step # "write"

PutReads(r, share, over) ==
  /\ req[r].step = "accepted"
  /\ locking => LockFree
  /\ req' = [req EXCEPT ![r] = [step |-> "write", share |-> share, over |-> over,
                                read |-> row]]
  /\ told' = Silence
  /\ UNCHANGED <<now, locking, row, cipher, spent, writes, uses>>

(* store_share from the read on: one statement, one commit.                *)
Same(w, share) == Readable(w) /\ w.share = share
MayReplace(w, share, over) == w.share.key \in {share.key, over}

(* Insert and update are conditioned on what was read.                     *)
StillThere(w) == w = Nothing <=> row = Nothing     \* fault: only the principal is matched
Unchanged(w) == row = w

Writes(share) ==
  /\ writes < MaxWrites
  /\ writes' = writes + 1
  /\ row' = [share |-> share, seal |-> writes + 1, cipher |-> cipher]

PutWrites(r) ==
  /\ req[r].step = "write"
  /\ LET read == req[r].read
         share == req[r].share
         allowed == \/ read = Nothing
                    \/ read # Nothing /\ MayReplace(read, share, req[r].over)
     IN \/ /\ Same(read, share)
           /\ told' = Tells("unchanged", share)
           /\ UNCHANGED <<row, writes>>
        \/ /\ ~Same(read, share) /\ allowed /\ Unchanged(read)
           /\ Writes(share)
           /\ told' = Tells(IF read = Nothing THEN "stored" ELSE "replaced", share)
        \/ /\ ~Same(read, share) /\ ~(allowed /\ Unchanged(read))
           /\ told' = Tells("conflict", share)
           /\ UNCHANGED <<row, writes>>
  /\ req' = [req EXCEPT ![r] = Idle]
  /\ UNCHANGED <<now, locking, cipher, spent, uses>>

-----------------------------------------------------------------------------
(* No request waits longer than Gap between its token's verification and   *)
(* its use.                                                                *)
Tick ==
  /\ now < MaxTime
  /\ \A r \in Requests : req[r].step = "verified" => now < req[r].at + Gap
  /\ now' = now + 1
  /\ told' = Silence
  /\ UNCHANGED <<locking, row, cipher, spent, req, writes, uses>>

(* The process starts again, perhaps with another encryption.key.          *)
Restart ==
  /\ req' = [r \in Requests |-> Idle]
  /\ cipher' \in Ciphers
  /\ told' = Silence
  /\ UNCHANGED <<now, locking, row, spent, writes, uses>>

Init ==
  /\ now = 0
  /\ locking \in BOOLEAN
  /\ row = Nothing
  /\ cipher = "first"
  /\ spent = {}
  /\ req = [r \in Requests |-> Idle]
  /\ writes = 0
  /\ told = Silence
  /\ uses = [t \in Tokens |-> 0]

Next ==
  \/ \E r \in Requests :
       \/ \E t \in Tokens : Verify(r, t)
       \/ Spend(r)
       \/ GetShare(r)
       \/ \E share \in Shares, over \in Keys \cup {Nothing} : PutReads(r, share, over)
       \/ PutWrites(r)
  \/ Tick
  \/ Restart

Spec == Init /\ [][Next]_vars

-----------------------------------------------------------------------------
(* Every variable holds a value of its kind; a row's seal is one of those  *)
(* made so far.                                                            *)
TypeOK ==
  /\ now \in 0..MaxTime
  /\ locking \in BOOLEAN
  /\ row \in {w \in Rows : w.seal <= writes} \cup {Nothing}
  /\ cipher \in Ciphers
  /\ spent \subseteq Tokens
  /\ req \in [Requests -> {Idle, Accepted} \cup Verified \cup Writing]
  /\ writes \in 0..MaxWrites
  /\ told \in Answers
  /\ uses \in [Tokens -> Nat]

(* key_shares' rule, "the conditional statements hold [it] even without    *)
(* [the lock]": a share, readable or not, gives way only to a share of the *)
(* same key or to a call that names the key it supersedes, however many    *)
(* writers read the same row; and it is never removed.                     *)
KeyGivesWayOnlyIfNamed ==
  [][row # Nothing /\ row' # row =>
       /\ row' # Nothing
       /\ \E r \in Requests :
            /\ req[r].step = "write" /\ req'[r] = Idle
            /\ row'.share = req[r].share
            /\ row.share.key \in {req[r].share.key, req[r].over}]_vars

(* What Mantle is told is what Origin holds as it is told: absent only of  *)
(* a key that has no share ("absent would let Mantle mint a key over one   *)
(* that exists"), and a share acknowledged is the share stored. Without    *)
(* the lock, unchanged may be said of what was read.                       *)
AnswerIsTrue ==
  /\ told.kind = "absent" => row = Nothing
  /\ \/ told.kind \in {"stored", "replaced", "share"}
     \/ told.kind = "unchanged" /\ locking
     => row # Nothing /\ row.share = told.share

(* "so a token is accepted once": also of copies presented at one moment,  *)
(* or verified just before it expires and used after its record could be   *)
(* dropped.                                                                *)
TokenAcceptedOnce == \A t \in Tokens : uses[t] <= 1

=============================================================================
