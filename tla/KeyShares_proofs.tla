-------------------------- MODULE KeyShares_proofs --------------------------
(***************************************************************************)
(* What holds of the custody of a share for any number of keys, writers    *)
(* and tokens, any clock, any slack, and with or without the write lock.   *)
(***************************************************************************)
EXTENDS KeyShares, TLAPS

USE KeysAssumption, RowsAssumption

LEMMA Numbers ==
  /\ Slack \in Nat /\ Gap \in Nat /\ MaxTime \in Nat /\ MaxWrites \in Nat
  /\ Gap <= Slack
  /\ \A t \in Tokens : t \in Nat
  /\ \A n \in 0..MaxTime : n \in Nat
BY NumbersAssumption, TokensAssumption
USE Numbers

(* A token accepted once is remembered, or is past the slack; a verified   *)
(* one is no later than the gap.                                           *)
Remembered ==
  /\ \A t \in Tokens : uses[t] = 0 \/ (uses[t] = 1 /\ (t \in spent \/ t + Slack < now))
  /\ \A r \in Requests : req[r].step = "verified" =>
       req[r].at <= req[r].token /\ now <= req[r].at + Gap

(* Under the lock a writer is alone, and what it read is what is stored.   *)
Serial ==
  locking => \A r \in Requests : req[r].step = "write" =>
    /\ req[r].read = row
    /\ \A q \in Requests : req[q].step = "write" => q = r

Inv == TypeOK /\ Remembered /\ Serial /\ AnswerIsTrue

-----------------------------------------------------------------------------
(* What a request holds, by the step it is at.                             *)
LEMMA Holds ==
  ASSUME NEW c \in {Idle, Accepted} \cup Verified \cup Writing
  PROVE  /\ c.step \in {"idle", "accepted", "verified", "write"}
         /\ c.step = "verified" => c \in Verified /\ c.token \in Tokens /\ c.at \in 0..MaxTime
         /\ c.step = "write" =>
              /\ c \in Writing /\ c.share \in Shares /\ c.over \in Keys \cup {Nothing}
              /\ c.read \in Rows \cup {Nothing}
<1>1. CASE c \in {Idle, Accepted}
  BY <1>1 DEF Idle, Accepted
<1>2. CASE c \in Verified
  BY <1>2 DEF Verified
<1>3. CASE c \in Writing
  BY <1>3 DEF Writing
<1> QED
  BY <1>1, <1>2, <1>3

LEMMA RequestHolds ==
  ASSUME TypeOK, NEW r \in Requests
  PROVE  /\ req[r] \in {Idle, Accepted} \cup Verified \cup Writing
         /\ req[r].step = "verified" => req[r].token \in Tokens /\ req[r].at \in 0..MaxTime
         /\ req[r].step = "write" =>
              /\ req[r].share \in Shares /\ req[r].over \in Keys \cup {Nothing}
              /\ req[r].read \in Rows \cup {Nothing}
<1>1. PICK c \in {Idle, Accepted} \cup Verified \cup Writing : c = req[r]
  BY DEF TypeOK
<1> QED
  BY <1>1, Holds

LEMMA IdleStep == Idle.step = "idle" /\ Accepted.step = "accepted"
BY DEF Idle, Accepted

-----------------------------------------------------------------------------
(* Type correctness, action by action.                                     *)

LEMMA InitTyped == Init => TypeOK
BY DEF Init, TypeOK, Ciphers, Answers

LEMMA VerifyTyped ==
  ASSUME TypeOK, NEW r \in Requests, NEW t \in Tokens, Verify(r, t)
  PROVE  TypeOK'
<1>1. [step |-> "verified", token |-> t, at |-> now] \in Verified
  BY DEF TypeOK, Verified
<1> QED
  BY <1>1 DEF Verify, TypeOK, Answers

LEMMA SpendTyped ==
  ASSUME TypeOK, NEW r \in Requests, Spend(r)
  PROVE  TypeOK'
<1>1. req[r].token \in Tokens /\ StillKept(spent) \subseteq Tokens
  BY RequestHolds DEF Spend, StillKept, TypeOK
<1>2. req' \in [Requests -> {Idle, Accepted} \cup Verified \cup Writing]
  BY DEF Spend, TypeOK
<1>3. spent' \subseteq Tokens
  BY <1>1 DEF Spend, TypeOK
<1>4. uses' \in [Tokens -> Nat]
  <2>1. CASE uses' = uses
    BY <2>1 DEF TypeOK
  <2>2. CASE uses' = [uses EXCEPT ![req[r].token] = @ + 1]
    <3>1. uses \in [Tokens -> Nat]
      BY DEF TypeOK
    <3>2. uses[req[r].token] + 1 \in Nat
      BY <3>1, <1>1
    <3> QED
      BY <2>2, <3>1, <3>2, <1>1
  <2> QED
    BY <2>1, <2>2 DEF Spend
<1> QED
  BY <1>2, <1>3, <1>4 DEF Spend, TypeOK, Answers

LEMMA GetShareTyped ==
  ASSUME TypeOK, NEW r \in Requests, GetShare(r)
  PROVE  TypeOK'
<1>1. row = Nothing \/ row.share \in Shares
  BY DEF TypeOK, Rows
<1>2. told' \in Answers
  BY <1>1 DEF GetShare, Released, Readable, Answers, Tells
<1> QED
  BY <1>2 DEF GetShare, TypeOK

LEMMA PutReadsTyped ==
  ASSUME TypeOK, NEW r \in Requests, NEW share \in Shares, NEW over \in Keys \cup {Nothing},
         PutReads(r, share, over)
  PROVE  TypeOK'
<1>1. [step |-> "write", share |-> share, over |-> over, read |-> row] \in Writing
  BY DEF TypeOK, Writing
<1> QED
  BY <1>1 DEF PutReads, TypeOK, Answers

LEMMA PutWritesTyped ==
  ASSUME TypeOK, NEW r \in Requests, PutWrites(r)
  PROVE  TypeOK'
<1>1. req[r].share \in Shares
  BY RequestHolds DEF PutWrites
<1>2. req' \in [Requests -> {Idle, Accepted} \cup Verified \cup Writing]
  BY DEF PutWrites, TypeOK
<1>3. told' \in Answers
  BY <1>1 DEF PutWrites, Answers, Tells
<1>4. row' \in {w \in Rows : w.seal <= writes'} \cup {Nothing} /\ writes' \in 0..MaxWrites
  <2>1. CASE UNCHANGED <<row, writes>>
    BY <2>1 DEF TypeOK
  <2>2. CASE Writes(req[r].share)
    BY <2>2, <1>1 DEF Writes, TypeOK, Rows
  <2> QED
    BY <2>1, <2>2 DEF PutWrites
<1> QED
  BY <1>2, <1>3, <1>4 DEF PutWrites, TypeOK

LEMMA NextTyped ==
  ASSUME TypeOK, [Next]_vars
  PROVE  TypeOK'
<1>1. CASE Tick
  BY <1>1 DEF Tick, TypeOK, Answers
<1>2. CASE Restart
  BY <1>2 DEF Restart, TypeOK, Answers
<1>3. CASE UNCHANGED vars
  BY <1>3 DEF vars, TypeOK
<1> QED
  BY <1>1, <1>2, <1>3, VerifyTyped, SpendTyped, GetShareTyped, PutReadsTyped, PutWritesTyped
  DEF Next

-----------------------------------------------------------------------------
(* A token's record outlives the last request that can present it.         *)

LEMMA SpendRemembers ==
  ASSUME TypeOK, TypeOK', Remembered, NEW r \in Requests, Spend(r)
  PROVE  Remembered'
<1> DEFINE t == req[r].token
<1>1. t \in Tokens /\ req[r].at \in 0..MaxTime /\ now \in Nat /\ Slack \in Nat /\ Gap \in Nat
  BY RequestHolds DEF Spend, TypeOK
<1>2. t + Slack >= now
  <2>1. req[r].at <= t /\ now <= req[r].at + Gap
    BY DEF Spend, Remembered
  <2>2. t \in Nat /\ req[r].at \in Nat /\ Gap <= Slack
    BY <1>1
  <2> QED
    BY <2>1, <2>2, <1>1
<1>3. \A q \in Requests : req'[q].step = "verified" => req'[q] = req[q] /\ now' = now
  BY IdleStep DEF Spend, TypeOK
<1>4. CASE t \in StillKept(spent)
  BY <1>3, <1>4 DEF Spend, Remembered
<1>5. CASE t \notin StillKept(spent)
  <2>1. spent' = StillKept(spent) \cup {t} /\ uses' = [uses EXCEPT ![t] = @ + 1] /\ now' = now
    BY <1>5 DEF Spend
  <2>2. uses[t] = 0
    <3>1. uses[t] = 0 \/ t \in spent \/ t + Slack < now
      BY <1>1 DEF Remembered
    <3>2. t \notin spent
      BY <1>1, <1>2, <1>5 DEF StillKept
    <3>3. ~(t + Slack < now)
      BY <1>1, <1>2
    <3> QED
      BY <3>1, <3>2, <3>3
  <2>3. ASSUME NEW u \in Tokens
        PROVE  uses'[u] = 0 \/ (uses'[u] = 1 /\ (u \in spent' \/ u + Slack < now'))
    <3>1. CASE u = t
      BY <3>1, <2>1, <2>2 DEF TypeOK
    <3>2. CASE u # t
      <4>1. uses'[u] = uses[u]
        BY <3>2, <2>1 DEF TypeOK
      <4>2. uses[u] = 0 \/ (uses[u] = 1 /\ (u \in spent \/ u + Slack < now))
        BY DEF Remembered
      <4>3. u \in spent => u \in StillKept(spent) \/ u + Slack < now
        BY <1>1 DEF StillKept
      <4> QED
        BY <4>1, <4>2, <4>3, <2>1
    <3> QED
      BY <3>1, <3>2
  <2> QED
    BY <2>3, <1>3 DEF Remembered
<1> QED
  BY <1>4, <1>5

LEMMA NextRemembers ==
  ASSUME TypeOK, TypeOK', Remembered, [Next]_vars
  PROVE  Remembered'
<1>0. now \in Nat /\ Slack \in Nat /\ Gap \in Nat
  BY DEF TypeOK
<1>1. CASE UNCHANGED <<now, spent, uses>>
           /\ \A r \in Requests : req'[r].step = "verified" => req'[r] = req[r]
  BY <1>1 DEF Remembered
<1>2. ASSUME NEW r \in Requests, NEW t \in Tokens, Verify(r, t)
      PROVE  Remembered'
  <2>1. ASSUME NEW q \in Requests, req'[q].step = "verified"
        PROVE  req'[q].at <= req'[q].token /\ now <= req'[q].at + Gap
    <3>1. CASE q = r
      <4>1. req'[r] = [step |-> "verified", token |-> t, at |-> now] /\ now <= t
        BY <1>2 DEF Verify, TypeOK
      <4> QED
        BY <4>1, <3>1, <1>0
    <3>2. CASE q # r
      <4>1. req'[q] = req[q]
        BY <1>2, <3>2 DEF Verify, TypeOK
      <4> QED
        BY <4>1, <2>1 DEF Remembered
    <3> QED
      BY <3>1, <3>2
  <2> QED
    BY <2>1, <1>2 DEF Verify, Remembered
<1>3. CASE \E r \in Requests : Spend(r)
  BY <1>3, SpendRemembers
<1>4. CASE \E r \in Requests : GetShare(r) \/ PutWrites(r)
  BY <1>4, <1>1, IdleStep DEF GetShare, PutWrites, TypeOK
<1>5. ASSUME NEW r \in Requests, NEW share \in Shares, NEW over \in Keys \cup {Nothing},
             PutReads(r, share, over)
      PROVE  Remembered'
  BY <1>5, <1>1 DEF PutReads, TypeOK
<1>6. CASE Tick
  <2>1. now' = now + 1 /\ UNCHANGED <<req, spent, uses>>
    BY <1>6 DEF Tick
  <2>2. ASSUME NEW r \in Requests, req[r].step = "verified"
        PROVE  req[r].at <= req[r].token /\ now + 1 <= req[r].at + Gap
    <3>1. req[r].at \in Nat /\ now < req[r].at + Gap
      BY <1>6, <2>2, RequestHolds DEF Tick
    <3> QED
      BY <3>1, <1>0, <2>2 DEF Remembered
  <2>3. \A t \in Tokens : t + Slack < now => t + Slack < now + 1
    BY <1>0
  <2> QED
    BY <2>1, <2>2, <2>3 DEF Remembered
<1>7. CASE Restart
  BY <1>7, <1>1, IdleStep DEF Restart
<1>8. CASE UNCHANGED vars
  BY <1>8, <1>1 DEF vars
<1> QED
  BY <1>2, <1>3, <1>4, <1>5, <1>6, <1>7, <1>8 DEF Next

-----------------------------------------------------------------------------
(* The lock, where it is taken, keeps writers apart.                       *)

LEMMA NextSerial ==
  ASSUME TypeOK, TypeOK', Serial, [Next]_vars
  PROVE  Serial'
<1>0. locking' = locking
  BY DEF Next, Verify, Spend, GetShare, PutReads, PutWrites, Tick, Restart, vars
<1>1. CASE UNCHANGED row
           /\ \A r \in Requests : req'[r].step = "write" => req'[r] = req[r]
  BY <1>0, <1>1 DEF Serial
<1>2. ASSUME NEW r \in Requests, NEW t \in Tokens, Verify(r, t)
      PROVE  Serial'
  BY <1>2, <1>1 DEF Verify, TypeOK
<1>3. CASE \E r \in Requests : Spend(r) \/ GetShare(r)
  BY <1>3, <1>1, IdleStep DEF Spend, GetShare, TypeOK
<1>4. ASSUME NEW r \in Requests, NEW share \in Shares, NEW over \in Keys \cup {Nothing},
             PutReads(r, share, over)
      PROVE  Serial'
  <2>1. \A q \in Requests : q # r => req'[q] = req[q]
    BY <1>4 DEF PutReads, TypeOK
  <2>2. req'[r].read = row /\ row' = row
    BY <1>4 DEF PutReads, TypeOK
  <2>3. locking => \A q \in Requests : req[q].step # "write"
    BY <1>4 DEF PutReads, LockFree
  <2> QED
    BY <2>1, <2>2, <2>3, <1>0 DEF Serial
<1>5. ASSUME NEW r \in Requests, PutWrites(r)
      PROVE  Serial'
  <2>1. req'[r].step # "write" /\ \A q \in Requests : q # r => req'[q] = req[q]
    BY <1>5, IdleStep DEF PutWrites, TypeOK
  <2>2. locking => \A q \in Requests : req[q].step = "write" => q = r
    BY <1>5 DEF PutWrites, Serial
  <2> QED
    BY <2>1, <2>2, <1>0 DEF Serial
<1>6. CASE Tick
  BY <1>6, <1>1 DEF Tick
<1>7. CASE Restart
  BY <1>7, <1>1, IdleStep DEF Restart
<1>8. CASE UNCHANGED vars
  BY <1>8, <1>1 DEF vars
<1> QED
  BY <1>2, <1>3, <1>4, <1>5, <1>6, <1>7, <1>8 DEF Next

-----------------------------------------------------------------------------
(* An answer is given from what is stored as it is given.                  *)

LEMMA SilenceIsTrue ==
  ASSUME told' = Silence
  PROVE  AnswerIsTrue'
BY DEF AnswerIsTrue, Silence

LEMMA NextTrue ==
  ASSUME TypeOK, Serial, AnswerIsTrue, [Next]_vars
  PROVE  AnswerIsTrue'
<1>1. ASSUME NEW r \in Requests, GetShare(r)
      PROVE  AnswerIsTrue'
  BY <1>1 DEF GetShare, Released, Readable, Tells, AnswerIsTrue
<1>2. ASSUME NEW r \in Requests, PutWrites(r)
      PROVE  AnswerIsTrue'
  <2> DEFINE read == req[r].read
             share == req[r].share
  <2>0. read \in Rows \cup {Nothing} /\ share \in Shares
    BY <1>2, RequestHolds DEF PutWrites
  <2>1. CASE Same(read, share) /\ told' = Tells("unchanged", share) /\ UNCHANGED <<row, writes>>
    <3>1. locking => row = read
      BY <1>2 DEF PutWrites, Serial
    <3>2. read # Nothing /\ read.share = share
      BY <2>1 DEF Same, Readable
    <3>3. locking' = locking
      BY <1>2 DEF PutWrites
    <3> QED
      BY <2>1, <3>1, <3>2, <3>3 DEF AnswerIsTrue, Tells
  <2>2. CASE Writes(share) /\ told' = Tells(IF read = Nothing THEN "stored" ELSE "replaced", share)
    <3>1. row' \in Rows /\ row'.share = share
      BY <2>2, <2>0 DEF Writes, Rows, TypeOK
    <3> QED
      BY <3>1, <2>2 DEF AnswerIsTrue, Tells
  <2>3. CASE told' = Tells("conflict", share)
    BY <2>3 DEF AnswerIsTrue, Tells
  <2> QED
    BY <1>2, <2>1, <2>2, <2>3 DEF PutWrites
<1>3. CASE UNCHANGED vars
  BY <1>3 DEF vars, AnswerIsTrue
<1> QED
  BY <1>1, <1>2, <1>3, SilenceIsTrue DEF Next, Verify, Spend, PutReads, Tick, Restart

-----------------------------------------------------------------------------
LEMMA Invariant == Spec => []Inv
<1>1. Init => Inv
  <2> SUFFICES ASSUME Init
               PROVE  Inv
    OBVIOUS
  <2>1. \A r \in Requests : req[r].step = "idle"
    BY IdleStep DEF Init
  <2>2. \A t \in Tokens : uses[t] = 0
    BY DEF Init
  <2>3. Remembered
    <3>1. \A t \in Tokens : uses[t] = 0 \/ (uses[t] = 1 /\ (t \in spent \/ t + Slack < now))
      BY <2>2
    <3>2. \A r \in Requests : req[r].step = "verified" =>
            req[r].at <= req[r].token /\ now <= req[r].at + Gap
      BY <2>1
    <3> QED
      BY <3>1, <3>2, Zenon DEF Remembered
  <2>4. Serial
    BY <2>1 DEF Serial
  <2>5. AnswerIsTrue
    <3>1. told.kind = "none"
      BY DEF Init, Silence
    <3> QED
      BY <3>1 DEF AnswerIsTrue
  <2> QED
    BY <2>3, <2>4, <2>5, InitTyped DEF Inv
<1>2. Inv /\ [Next]_vars => Inv'
  BY NextTyped, NextRemembers, NextSerial, NextTrue DEF Inv
<1> QED
  BY <1>1, <1>2, PTL DEF Spec

(* Every variable of the custody keeps its kind.                           *)
THEOREM Typed == Spec => []TypeOK
BY Invariant, PTL DEF Inv

(* A custody token is accepted at most once, however many copies are       *)
(* presented and whenever its record is dropped, where no request waits    *)
(* longer for its use than the record is kept past the expiry.             *)
THEOREM TokenIsSpent == Spec => []TokenAcceptedOnce
<1>1. Inv => TokenAcceptedOnce
  BY DEF Inv, Remembered, TokenAcceptedOnce, TypeOK
<1> QED
  BY <1>1, Invariant, PTL

(* Mantle is told what Origin holds as it is told; absent only of a key    *)
(* with no share.                                                          *)
THEOREM AnswersAreTrue == Spec => []AnswerIsTrue
BY Invariant, PTL DEF Inv

(* The rule of replacement holds in every step, with or without the lock:  *)
(* it rests on the conditional statement alone.                            *)
THEOREM KeyIsKept == Spec => KeyGivesWayOnlyIfNamed
<1>1. ASSUME TypeOK, [Next]_vars, row # Nothing, row' # row
      PROVE  /\ row' # Nothing
             /\ \E r \in Requests :
                  /\ req[r].step = "write" /\ req'[r] = Idle
                  /\ row'.share = req[r].share
                  /\ row.share.key \in {req[r].share.key, req[r].over}
  <2>1. PICK r \in Requests : PutWrites(r)
    BY <1>1 DEF Next, Verify, Spend, GetShare, PutReads, Tick, Restart, vars
  <2>2. req[r].step = "write" /\ req'[r] = Idle
    BY <2>1, <1>1 DEF PutWrites, TypeOK
  <2>3. /\ row = req[r].read
        /\ MayReplace(row, req[r].share, req[r].over)
        /\ Writes(req[r].share)
    BY <2>1, <1>1 DEF PutWrites, Unchanged
  <2>4. row' \in Rows /\ row'.share = req[r].share
    BY <2>2, <2>3, <1>1, RequestHolds DEF Writes, Rows, TypeOK
  <2> QED
    BY <2>2, <2>3, <2>4 DEF MayReplace
<1>2. TypeOK /\ [Next]_vars =>
        [row # Nothing /\ row' # row =>
           /\ row' # Nothing
           /\ \E r \in Requests :
                /\ req[r].step = "write" /\ req'[r] = Idle
                /\ row'.share = req[r].share
                /\ row.share.key \in {req[r].share.key, req[r].over}]_vars
  BY <1>1
<1> QED
  BY <1>2, Typed, PTL DEF Spec, KeyGivesWayOnlyIfNamed

=============================================================================
