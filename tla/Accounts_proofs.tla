--------------------------- MODULE Accounts_proofs ---------------------------
(***************************************************************************)
(* What holds of an account for any passwords, links and number of         *)
(* handlers waiting at once, and that it keeps what AccountPassword says.  *)
(***************************************************************************)
EXTENDS Accounts, TLAPS

USE PasswordsAssumption, MaxHashesAssumption

(* A password is stored under an id of its own, 0 is no password, and no   *)
(* id is yet to come.                                                      *)
IdsInUse ==
  /\ person.hash.id <= minted
  /\ person.hash.id = 0 <=> person.hash.pw = NoPassword

(* Nothing hangs on an account that is not there, and a link is mailed     *)
(* without a password only to a confirmed address.                         *)
Founded ==
  /\ ~person.here => person.hash = NoHash /\ ~person.verified /\ ~person.linked /\ rows = {}
  /\ \A row \in rows : row.fingerprint = 0 => person.verified

(* What a waiting request x holds: the password presented is that of the   *)
(* hash it was checked against, and the one presented with a confirmation  *)
(* link is still the stored one, or somebody vouches for what replaced it. *)
(* One that is being checked is still stored, disowned, or was replaced    *)
(* through a mailed link.                                                  *)
Sound(x) ==
  /\ x.held.id <= minted
  /\ x.op # "idle" => x.pw \in Passwords
  /\ x.op \in {"login", "rehash", "reset", "confirm"} => person.here
  /\ x.op = "reset" => x.link \in Links /\ (x.held.id = 0 => person.verified)
  /\ x.op \in {"login", "rehash"} =>
       /\ x.held.pw = x.pw
       /\ person.hash.pw \in {x.pw, NoPassword} \/ voucher = "mailbox"
  /\ x.op = "confirm" =>
       \/ person.verified \/ voucher # "nobody" \/ person.hash.pw = x.pw

RequestsSound == \A r \in Requests : Sound(req[r])

Inv ==
  /\ TypeOK /\ IdsInUse /\ Founded /\ RequestsSound
  /\ PasswordVouchedFor /\ DeactivatedSignsInNowhere

(* No step takes away what a request relies on.                            *)
Keeps ==
  /\ minted <= minted'
  /\ person.here => person'.here
  /\ person.verified => person'.verified
  /\ \/ person'.verified \/ voucher' # "nobody"
     \/ person.here => voucher = "nobody" /\ person'.hash.pw = person.hash.pw
  /\ \/ person'.hash.pw = NoPassword \/ voucher' = "mailbox"
     \/ person.here => voucher # "mailbox" /\ person'.hash.pw = person.hash.pw
     \/ person.here => voucher' = voucher /\ person'.hash.pw = person.hash.pw

-----------------------------------------------------------------------------
LEMMA Fields ==
  ASSUME TypeOK
  PROVE  /\ person.here \in BOOLEAN /\ person.verified \in BOOLEAN
         /\ person.active \in BOOLEAN /\ person.linked \in BOOLEAN
         /\ person.hash \in Hashes /\ person.hash.id \in 0..MaxHashes
         /\ person.hash.pw \in Passwords \cup {NoPassword}
         /\ minted \in Nat
BY DEF TypeOK, Persons, Hashes

LEMMA RequestFields ==
  ASSUME TypeOK, NEW r \in Requests
  PROVE  /\ req[r] \in Waits /\ req[r].held \in Hashes
         /\ req[r].held.id \in 0..MaxHashes
         /\ req[r].pw \in Passwords \cup {NoPassword} /\ req[r].link \in Links \cup {NoLink}
BY DEF TypeOK, Waits, Hashes

LEMMA EmptyRecords ==
  /\ NoHash \in Hashes /\ NoHash.id = 0 /\ NoHash.pw = NoPassword
  /\ Idle \in Waits /\ Idle.op = "idle" /\ Idle.held = NoHash
BY DEF NoHash, Idle, Hashes, Waits

LEMMA NewHash ==
  ASSUME TypeOK, minted < MaxHashes, NEW p \in Passwords
  PROVE  Hashed(p) \in Hashes /\ Hashed(p).id = minted + 1 /\ Hashed(p).pw = p
BY DEF TypeOK, Hashed, Hashes

(* What a request holds stays sound over a step that keeps its ground.     *)
LEMMA StaysSound ==
  ASSUME NEW x \in Waits, TypeOK, TypeOK', Keeps, Sound(x)
  PROVE  Sound(x)'
<1>1. x.held.id <= minted'
  <2>1. x.held.id \in Nat /\ minted \in Nat /\ minted' \in Nat
    BY DEF TypeOK, Waits, Hashes
  <2> QED
    BY <2>1 DEF Keeps, Sound
<1>2. x.op = "confirm" =>
        \/ person'.verified \/ voucher' # "nobody" \/ person'.hash.pw = x.pw
  BY DEF Keeps, Sound
<1>3. x.op \in {"login", "rehash", "reset", "confirm"} => person'.here
  BY DEF Keeps, Sound
<1>5. x.op \in {"login", "rehash"} =>
        person'.hash.pw \in {x.pw, NoPassword} \/ voucher' = "mailbox"
  BY DEF Keeps, Sound
<1>4. x.op = "reset" => x.link \in Links /\ (x.held.id = 0 => person'.verified)
  BY DEF Keeps, Sound
<1> QED
  BY <1>1, <1>2, <1>3, <1>4, <1>5 DEF Sound

LEMMA RequestsStaySound ==
  ASSUME TypeOK, TypeOK', Keeps, RequestsSound,
         \A r \in Requests : req'[r] = req[r] \/ req'[r] = Idle \/ Sound(req[r])'
  PROVE  RequestsSound'
<1> SUFFICES ASSUME NEW r \in Requests
             PROVE  Sound(req[r])'
  BY DEF RequestsSound
<1>1. CASE req'[r] = req[r]
  <2>1. PICK x : x = req[r]
    OBVIOUS
  <2>2. x \in Waits /\ Sound(x)
    BY <2>1, RequestFields DEF RequestsSound
  <2>3. Sound(x)'
    BY <2>2, StaysSound
  <2> QED
    BY <2>1, <2>3, <1>1
<1>2. CASE req'[r] = Idle
  <2>1. minted' \in Nat
    BY DEF TypeOK
  <2> QED
    BY <1>2, <2>1, EmptyRecords DEF Sound
<1> QED
  BY <1>1, <1>2

-----------------------------------------------------------------------------
(* Steps that only take up, carry on or end a wait.                        *)

LEMMA WaitingKeeps ==
  ASSUME Inv, NEW r \in Requests, NEW op \in {"register", "login", "reset", "confirm"},
         NEW p \in Passwords, NEW h \in Hashes, NEW l \in Links \cup {NoLink},
         Waiting(r, op, p, h, l),
         Sound([op |-> op, pw |-> p, held |-> h, link |-> l])
  PROVE  Inv'
<1> DEFINE x == [op |-> op, pw |-> p, held |-> h, link |-> l]
<1>1. x \in Waits
  BY DEF Waits
<1>2. UNCHANGED Settled /\ session' = "none" /\ req' = [req EXCEPT ![r] = x]
  BY DEF Waiting
<1>3. TypeOK'
  BY <1>1, <1>2 DEF Inv, TypeOK, Settled
<1>4. Keeps
  BY <1>2, Fields DEF Settled, Keeps, Inv
<1>5. \A q \in Requests : req'[q] = req[q] \/ Sound(req[q])'
  <2>1. req'[r] = x /\ \A q \in Requests : q # r => req'[q] = req[q]
    BY <1>2 DEF Inv, TypeOK
  <2>2. PICK y : y = x
    OBVIOUS
  <2>3. Sound(y)
    BY <2>2
  <2>4. Sound(y)'
    BY <2>3, <1>2 DEF Sound, Settled
  <2> QED
    BY <2>1, <2>2, <2>4
<1> QED
  BY <1>2, <1>3, <1>4, <1>5, RequestsStaySound
  DEF Inv, Settled, IdsInUse, Founded, PasswordVouchedFor, DeactivatedSignsInNowhere,
      HasPassword

LEMMA BeginKeeps ==
  ASSUME Inv, NEW r \in Requests, NEW p \in Passwords,
         \/ RegisterBegin(r, p) \/ LoginBegin(r, p) \/ ConfirmBegin(r, p)
         \/ \E row \in rows : ResetBegin(r, row, p)
  PROVE  Inv'
<1>1. PICK h : h = person.hash
  OBVIOUS
<1>2. h \in Hashes /\ h.id <= minted /\ h.id \in Nat /\ minted \in Nat
  BY <1>1, Fields DEF Inv, IdsInUse
<1>3. CASE RegisterBegin(r, p)
  <2>1. Sound([op |-> "register", pw |-> p, held |-> NoHash, link |-> NoLink])
    BY <1>2, EmptyRecords DEF Sound
  <2> QED
    BY <1>3, <2>1, EmptyRecords, WaitingKeeps DEF RegisterBegin
<1>4. CASE LoginBegin(r, p)
  <2>1. Sound([op |-> "login", pw |-> p, held |-> h, link |-> NoLink])
    <3>1. person.hash.pw = p /\ person.here
      BY <1>4, EmptyRecords DEF LoginBegin, Inv, Founded
    <3> QED
      BY <1>1, <1>2, <3>1 DEF Sound
  <2>2. Waiting(r, "login", p, h, NoLink)
    BY <1>1, <1>4 DEF LoginBegin
  <2> QED
    BY <1>2, <2>1, <2>2, WaitingKeeps
<1>5. CASE ConfirmBegin(r, p)
  <2>1. Sound([op |-> "confirm", pw |-> p, held |-> h, link |-> NoLink])
    BY <1>1, <1>2, <1>5 DEF ConfirmBegin, Opened, Sound
  <2>2. Waiting(r, "confirm", p, h, NoLink)
    BY <1>1, <1>5 DEF ConfirmBegin
  <2> QED
    BY <1>2, <2>1, <2>2, WaitingKeeps
<1>6. ASSUME NEW row \in rows, ResetBegin(r, row, p)
      PROVE  Inv'
  <2>1. PICK l : l = row.link
    OBVIOUS
  <2>2. l \in Links
    BY <2>1 DEF Inv, TypeOK
  <2>3. person.here /\ (h.id = 0 => person.verified)
    BY <1>1, <1>6, EmptyRecords DEF ResetBegin, StillApplies, Resettable, HasPassword, Inv,
                                    IdsInUse, Founded
  <2>4. Sound([op |-> "reset", pw |-> p, held |-> h, link |-> l])
    BY <1>2, <2>2, <2>3 DEF Sound
  <2>5. Waiting(r, "reset", p, h, l)
    BY <1>1, <2>1, <1>6 DEF ResetBegin
  <2> QED
    BY <1>2, <2>2, <2>4, <2>5, WaitingKeeps
<1> QED
  BY <1>3, <1>4, <1>5, <1>6

(* Steps that leave the account and its password as they are.              *)
LEMMA QuietKeeps ==
  ASSUME Inv, UNCHANGED <<person, required, minted, voucher>>,
         rows' \subseteq rows, mailed' \in BOOLEAN, req' \in [Requests -> Waits],
         \A r \in Requests : req'[r] = req[r] \/ req'[r] = Idle \/ Sound(req[r])',
         session' = "none" \/ (session' = "password" /\ MaySignIn)
  PROVE  Inv'
<1>1. TypeOK'
  BY DEF Inv, TypeOK
<1>2. Keeps
  BY Fields DEF Keeps, Inv
<1>3. RequestsSound'
  BY <1>1, <1>2, RequestsStaySound DEF Inv
<1>4. IdsInUse' /\ Founded' /\ PasswordVouchedFor'
  BY DEF Inv, IdsInUse, Founded, PasswordVouchedFor, HasPassword
<1>5. DeactivatedSignsInNowhere'
  BY DEF Inv, DeactivatedSignsInNowhere, MaySignIn
<1> QED
  BY <1>1, <1>3, <1>4, <1>5 DEF Inv

LEMMA DoneType ==
  ASSUME TypeOK, NEW r \in Requests, NEW op, Done(r, op)
  PROVE  /\ req[r].op = op /\ req' \in [Requests -> Waits] /\ req'[r] = Idle
         /\ \A q \in Requests : q # r => req'[q] = req[q]
BY EmptyRecords DEF Done, TypeOK

LEMMA QuietSteps ==
  ASSUME Inv, NEW r \in Requests,
         \/ LoginEnd(r) \/ Refused(r) \/ ConfirmRequest
         \/ \E row \in rows : ResetExpires(row)
         \/ RehashEnd(r) /\ UNCHANGED <<person, minted>>
  PROVE  Inv'
<1>0. TypeOK
  BY DEF Inv
<1>1. CASE LoginEnd(r)
  BY <1>0, <1>1, DoneType, QuietKeeps, Fields DEF LoginEnd, Answer, TypeOK
<1>2. CASE RehashEnd(r) /\ UNCHANGED <<person, minted>>
  BY <1>0, <1>2, DoneType, QuietKeeps, Fields DEF RehashEnd, Answer, TypeOK
<1>3. CASE Refused(r)
  <2>1. \E op : Done(r, op)
    BY <1>3 DEF Refused
  <2> QED
    BY <1>0, <1>3, <2>1, DoneType, QuietKeeps DEF Refused, Settled, TypeOK
<1>4. CASE ConfirmRequest
  BY <1>0, <1>4, QuietKeeps DEF ConfirmRequest, TypeOK
<1>5. CASE \E row \in rows : ResetExpires(row)
  BY <1>0, <1>5, QuietKeeps DEF ResetExpires, TypeOK
<1> QED
  BY <1>1, <1>2, <1>3, <1>4, <1>5

LEMMA LoginRehashesKeeps ==
  ASSUME Inv, NEW r \in Requests, LoginRehashes(r)
  PROVE  Inv'
<1>1. PICK x : x = req[r]
  OBVIOUS
<1>2. x \in Waits /\ Sound(x) /\ x.op = "login"
  BY <1>1, RequestFields DEF Inv, RequestsSound, LoginRehashes
<1>3. PICK y : y = [x EXCEPT !.op = "rehash"]
  OBVIOUS
<1>4. y \in Waits /\ Sound(y)
  BY <1>2, <1>3 DEF Waits, Sound
<1>5. UNCHANGED Settled /\ session' = "none"
  BY DEF LoginRehashes
<1>6. Sound(y)'
  BY <1>4, <1>5 DEF Sound, Settled
<1>7. req' = [req EXCEPT ![r] = y]
  BY <1>1, <1>3 DEF LoginRehashes, Inv, TypeOK
<1>8. req' \in [Requests -> Waits] /\ req'[r] = y /\ \A q \in Requests : q # r => req'[q] = req[q]
  BY <1>4, <1>7 DEF Inv, TypeOK
<1> QED
  BY <1>5, <1>6, <1>8, QuietKeeps DEF Settled, Inv, TypeOK

-----------------------------------------------------------------------------
(* Steps that write the account's row, by what they leave it in.           *)

LEMMA RegisterEndKeeps ==
  ASSUME Inv, NEW r \in Requests, RegisterEnd(r)
  PROVE  Inv'
<1>1. PICK p : p = req[r].pw
  OBVIOUS
<1>2. p \in Passwords /\ p # NoPassword
  BY <1>1 DEF Inv, RequestsSound, Sound, RegisterEnd, Done
<1>3. /\ Hashed(p) \in Hashes /\ Hashed(p).id = minted + 1 /\ Hashed(p).pw = p
      /\ minted' = minted + 1 /\ minted' \in 0..MaxHashes /\ minted \in Nat
  BY <1>2, NewHash DEF RegisterEnd, Stores, Inv, TypeOK
<1>4. /\ person'.here /\ person'.hash = Hashed(p) /\ person'.verified = ~required
      /\ person'.active /\ person'.linked = FALSE /\ person' \in Persons
      /\ voucher' = IF required THEN "nobody" ELSE "waived"
  BY <1>1, <1>3 DEF RegisterEnd, Persons, Inv, TypeOK
<1>5. ~person.here /\ rows = {} /\ rows' = {} /\ UNCHANGED required
  BY DEF RegisterEnd, Registered, Inv, Founded
<1>6. req' \in [Requests -> Waits] /\ \A q \in Requests : req'[q] = req[q] \/ req'[q] = Idle
  BY DoneType DEF RegisterEnd, Inv
<1>7. TypeOK'
  BY <1>3, <1>4, <1>5, <1>6 DEF RegisterEnd, Inv, TypeOK
<1>8. Keeps
  BY <1>3, <1>4, <1>5 DEF Keeps, Inv, Founded
<1>9. RequestsSound'
  BY <1>6, <1>7, <1>8, RequestsStaySound DEF Inv
<1>10. IdsInUse' /\ Founded'
  BY <1>2, <1>3, <1>4, <1>5 DEF IdsInUse, Founded
<1>11. PasswordVouchedFor' /\ DeactivatedSignsInNowhere'
  BY <1>4, <1>5 DEF RegisterEnd, Inv, TypeOK, PasswordVouchedFor, DeactivatedSignsInNowhere
<1> QED
  BY <1>7, <1>9, <1>10, <1>11 DEF Inv

(* A hash is replaced by one of the same password, or set through a link.  *)
LEMMA NewHashKeeps ==
  ASSUME Inv, NEW r \in Requests, NEW p \in Passwords, NEW op, Done(r, op),
         person.here, Stores, person' = [person EXCEPT !.hash = Hashed(p)],
         UNCHANGED required, rows' \subseteq rows, mailed' \in BOOLEAN,
         \/ person.hash.pw = p /\ voucher' = voucher
         \/ voucher' = "mailbox",
         session' = "none" \/ (session' = "password" /\ MaySignIn)
  PROVE  Inv'
<1>1. p # NoPassword
  OBVIOUS
<1>2. /\ Hashed(p) \in Hashes /\ Hashed(p).id = minted + 1 /\ Hashed(p).pw = p
      /\ minted' = minted + 1 /\ minted' \in 0..MaxHashes /\ minted \in Nat
  BY NewHash DEF Stores, Inv, TypeOK
<1>3. /\ person'.hash = Hashed(p) /\ person' \in Persons
      /\ person'.here = person.here /\ person'.verified = person.verified
      /\ person'.active = person.active /\ person'.linked = person.linked
  BY <1>2 DEF Persons, Inv, TypeOK
<1>4. req' \in [Requests -> Waits] /\ \A q \in Requests : req'[q] = req[q] \/ req'[q] = Idle
  BY DoneType DEF Inv
<1>5. TypeOK'
  <2>1. rows' \subseteq [link : Links, fingerprint : 0..minted']
    BY <1>2 DEF Inv, TypeOK
  <2> QED
    BY <1>2, <1>3, <1>4, <2>1 DEF Inv, TypeOK
<1>6. Keeps
  BY <1>2, <1>3 DEF Keeps
<1>7. RequestsSound'
  BY <1>4, <1>5, <1>6, RequestsStaySound DEF Inv
<1>8. IdsInUse' /\ Founded'
  BY <1>1, <1>2, <1>3 DEF Inv, IdsInUse, Founded
<1>9. PasswordVouchedFor'
  BY <1>1, <1>3 DEF Inv, PasswordVouchedFor, HasPassword
<1>10. DeactivatedSignsInNowhere'
  BY <1>1, <1>3 DEF Inv, DeactivatedSignsInNowhere, MaySignIn
<1> QED
  BY <1>5, <1>7, <1>8, <1>9, <1>10 DEF Inv

LEMMA RehashEndKeeps ==
  ASSUME Inv, NEW r \in Requests, RehashEnd(r)
  PROVE  Inv'
<1>1. CASE UNCHANGED <<person, minted>>
  BY <1>1, QuietSteps
<1>2. CASE Rehashed(r)
  <2>1. PICK p : p = req[r].pw
    OBVIOUS
  <2>2. req[r].op = "rehash" /\ p \in Passwords /\ person.hash.pw = p
    BY <1>2, <2>1 DEF RehashEnd, Rehashed, StillStored, Done, Inv, RequestsSound, Sound
  <2>3. person.here
    BY <2>2, EmptyRecords DEF Inv, Founded
  <2>4. Stores /\ person' = [person EXCEPT !.hash = Hashed(p)]
    BY <1>2, <2>1 DEF Rehashed
  <2> QED
    BY <2>2, <2>3, <2>4, NewHashKeeps, Fields DEF RehashEnd, Answer, Inv, TypeOK
<1> QED
  BY <1>1, <1>2 DEF RehashEnd

LEMMA ResetEndKeeps ==
  ASSUME Inv, NEW r \in Requests, ResetEnd(r)
  PROVE  Inv'
<1>1. PICK p : p = req[r].pw
  OBVIOUS
<1>2. req[r].op = "reset" /\ p \in Passwords /\ person.here
  BY <1>1 DEF ResetEnd, Done, Inv, RequestsSound, Sound
<1>3. Done(r, "reset") /\ Stores /\ person' = [person EXCEPT !.hash = Hashed(p)]
  BY <1>1 DEF ResetEnd
<1> QED
  BY <1>2, <1>3, NewHashKeeps DEF ResetEnd, Inv, TypeOK

(* The row's marks change, its password stays or goes.                     *)
LEMMA MarksKeep ==
  ASSUME Inv, person' \in Persons, UNCHANGED <<required, mailed, rows, minted>>,
         \/ person'.hash.id = person.hash.id /\ person'.hash.pw = person.hash.pw
         \/ person'.hash = NoHash,
         Keeps, ~person'.here => ~person.here /\ person' = person,
         voucher' \in {"nobody", "waived", "holder", "mailbox", "code"},
         req' \in [Requests -> Waits],
         \A r \in Requests : req'[r] = req[r] \/ req'[r] = Idle,
         PasswordVouchedFor',
         session' \in {"none", "confirm", "code", "provider"},
         session' # "none" => person'.active
  PROVE  Inv'
<1>1. TypeOK'
  BY DEF Inv, TypeOK
<1>2. RequestsSound'
  BY <1>1, RequestsStaySound DEF Inv
<1>3. IdsInUse'
  BY EmptyRecords, Fields DEF Inv, IdsInUse
<1>4. Founded'
  BY DEF Inv, Founded, Keeps
<1>5. DeactivatedSignsInNowhere'
  BY DEF DeactivatedSignsInNowhere
<1> QED
  BY <1>1, <1>2, <1>3, <1>4, <1>5 DEF Inv

LEMMA ConfirmEndKeeps ==
  ASSUME Inv, NEW r \in Requests, ConfirmEnd(r)
  PROVE  Inv'
<1>1. /\ person' = [person EXCEPT !.verified = TRUE]
      /\ voucher' = IF voucher = "nobody" /\ person.hash.pw = req[r].pw
                    THEN "holder" ELSE voucher
      /\ ~person.verified
  BY DEF ConfirmEnd, LinkUsable
<1>2. /\ person' \in Persons /\ person'.verified /\ person'.hash = person.hash
      /\ person'.here = person.here /\ person'.active = person.active
  BY <1>1 DEF Inv, TypeOK, Persons
<1>3. req[r].op = "confirm" /\ person.here
  BY DEF ConfirmEnd, Done, Inv, RequestsSound, Sound
<1>4. voucher # "nobody" \/ person.hash.pw = req[r].pw
  BY <1>1, <1>3 DEF Inv, RequestsSound, Sound
<1>5. PasswordVouchedFor'
  BY <1>1, <1>4 DEF PasswordVouchedFor
<1>6. Keeps
  BY <1>2, Fields DEF Keeps, Inv, ConfirmEnd
<1>7. req' \in [Requests -> Waits] /\ \A q \in Requests : req'[q] = req[q] \/ req'[q] = Idle
  BY DoneType DEF ConfirmEnd, Inv
<1> QED
  BY <1>1, <1>2, <1>3, <1>5, <1>6, <1>7, MarksKeep
  DEF ConfirmEnd, SignsInIfActive, Inv, TypeOK

LEMMA RowStepsKeep ==
  ASSUME Inv, \/ ConfirmAtOnce \/ Disown \/ CodeSignIn \/ SwitchAccount
              \/ \E vouches \in BOOLEAN : ProviderSignIn(vouches)
  PROVE  Inv'
<1>0. req \in [Requests -> Waits] /\ person \in Persons /\ TypeOK /\ minted \in Nat
  BY DEF Inv, TypeOK
<1>1. CASE ConfirmAtOnce
  <2>1. /\ person' \in Persons /\ person'.verified /\ person'.hash = person.hash
        /\ person'.here = person.here /\ person'.active = person.active
    BY <1>0, <1>1 DEF ConfirmAtOnce, Persons
  <2>2. Keeps /\ PasswordVouchedFor'
    BY <1>0, <1>1, <2>1 DEF Keeps, ConfirmAtOnce, PasswordVouchedFor, HasPassword
  <2>3. person.here
    BY <1>1 DEF ConfirmAtOnce, Opened
  <2> QED
    BY <1>0, <1>1, <2>1, <2>2, <2>3, MarksKeep DEF ConfirmAtOnce, SignsInIfActive, TypeOK
<1>2. CASE Disown
  <2>1. /\ person' \in Persons /\ person'.verified /\ person'.hash = NoHash
        /\ person'.here = person.here /\ person'.active = person.active
    BY <1>0, <1>2, EmptyRecords DEF Disown, Persons
  <2>2. Keeps /\ PasswordVouchedFor'
    BY <1>0, <1>2, <2>1, EmptyRecords DEF Keeps, Disown, PasswordVouchedFor, HasPassword
  <2>3. person.here
    BY <1>2 DEF Disown, Opened
  <2> QED
    BY <1>0, <1>2, <2>1, <2>2, <2>3, MarksKeep DEF Disown
<1>3. CASE CodeSignIn
  <2>1. /\ person' \in Persons /\ person'.verified /\ person'.here /\ person'.active
        /\ person'.hash = person.hash \/ person'.hash = NoHash
    BY <1>0, <1>3, EmptyRecords DEF CodeSignIn, Newcomer, Persons
  <2>2. person'.hash.pw # NoPassword => voucher' # "nobody"
    BY <1>0, <1>3, <2>1, EmptyRecords DEF CodeSignIn, HasPassword, Newcomer, Persons
  <2>3. Keeps
    <3>1. minted' = minted
      BY <1>3 DEF CodeSignIn
    <3>2. person.here => person'.hash = person.hash /\ (voucher' = voucher \/ voucher = "nobody")
      BY <1>0, <1>3 DEF CodeSignIn, Persons
    <3> QED
      BY <1>0, <2>1, <3>1, <3>2 DEF Keeps
  <2>4. PasswordVouchedFor'
    BY <2>2 DEF PasswordVouchedFor, HasPassword
  <2> QED
    BY <1>0, <1>3, <2>1, <2>3, <2>4, MarksKeep DEF CodeSignIn, TypeOK
<1>4. CASE SwitchAccount
  <2>1. /\ person' \in Persons /\ person'.verified = person.verified /\ person'.here = person.here
        /\ person'.hash = person.hash /\ person'.linked = person.linked /\ person.here
    BY <1>0, <1>4 DEF SwitchAccount, Persons
  <2>2. Keeps /\ PasswordVouchedFor'
    BY <1>0, <1>4, <2>1 DEF Keeps, SwitchAccount, Inv, PasswordVouchedFor, HasPassword
  <2> QED
    BY <1>0, <1>4, <2>1, <2>2, MarksKeep DEF SwitchAccount, TypeOK
<1>5. ASSUME NEW vouches \in BOOLEAN, ProviderSignIn(vouches)
      PROVE  Inv'
  <2>1. CASE ~person.here /\ person' = Newcomer(vouches, TRUE)
    <3>1. /\ person' \in Persons /\ person'.here /\ person'.hash = NoHash /\ person'.active
      BY <2>1, EmptyRecords DEF Newcomer, Persons
    <3>2. person.hash = NoHash /\ ~person.verified
      BY <2>1 DEF Inv, Founded
    <3>3. Keeps
      <4>1. minted <= minted'
        BY <1>0, <1>5 DEF ProviderSignIn
      <4>2. person.here = FALSE /\ person.verified = FALSE
        BY <1>0, <2>1, <3>2 DEF Persons
      <4> QED
        BY <3>1, <4>1, <4>2, Zenon DEF Keeps
    <3>4. PasswordVouchedFor'
      BY <3>1, EmptyRecords DEF PasswordVouchedFor, HasPassword
    <3> QED
      BY <1>0, <1>5, <3>1, <3>3, <3>4, MarksKeep DEF ProviderSignIn, TypeOK
  <2>2. CASE /\ person.here /\ (person.linked \/ BothProve(vouches))
             /\ person' = [person EXCEPT !.linked = TRUE]
    <3>1. /\ person' \in Persons /\ person'.verified = person.verified
          /\ person'.here = person.here /\ person'.hash = person.hash
      BY <1>0, <2>2 DEF Persons
    <3>2. Keeps /\ PasswordVouchedFor'
      BY <1>0, <1>5, <2>2, <3>1 DEF Keeps, ProviderSignIn, BothProve, Inv, PasswordVouchedFor, HasPassword
    <3> QED
      BY <1>0, <1>5, <2>2, <3>1, <3>2, MarksKeep DEF ProviderSignIn, TypeOK
  <2> QED
    BY <1>5, <2>1, <2>2 DEF ProviderSignIn
<1> QED
  BY <1>1, <1>2, <1>3, <1>4, <1>5

(* The rows of links and the process's own memory.                         *)
LEMMA ResetRequestKeeps ==
  ASSUME Inv, NEW l \in Links, ResetRequest(l)
  PROVE  Inv'
<1>1. UNCHANGED <<person, required, mailed, req, minted, voucher>> /\ session' = "none"
  BY DEF ResetRequest
<1>2. /\ rows' = rows \cup {[link |-> l, fingerprint |-> person.hash.id]}
      /\ person.here /\ (HasPassword \/ person.verified)
  BY DEF ResetRequest, Resettable
<1>3. person.hash.id \in 0..minted
  BY Fields DEF Inv, IdsInUse
<1>4. TypeOK'
  BY <1>1, <1>2, <1>3 DEF Inv, TypeOK
<1>5. Keeps
  BY <1>1, Fields DEF Keeps, Inv
<1>6. RequestsSound'
  BY <1>1, <1>4, <1>5, RequestsStaySound DEF Inv
<1>7. IdsInUse' /\ PasswordVouchedFor' /\ DeactivatedSignsInNowhere'
  BY <1>1 DEF Inv, IdsInUse, PasswordVouchedFor, HasPassword, DeactivatedSignsInNowhere
<1>8. Founded'
  <2>1. person.hash.id = 0 => person.verified
    BY <1>2 DEF HasPassword, Inv, IdsInUse
  <2> QED
    BY <1>1, <1>2, <2>1 DEF Inv, Founded
<1> QED
  BY <1>4, <1>6, <1>7, <1>8 DEF Inv

LEMMA RestartKeeps ==
  ASSUME Inv, Restart
  PROVE  Inv'
<1>1. /\ UNCHANGED <<mailed, rows, minted, voucher>> /\ session' = "none" /\ required' \in BOOLEAN
      /\ req' = [r \in Requests |-> Idle]
  BY DEF Restart
<1>2. person' = person \/ (HasPassword /\ person' = [person EXCEPT !.hash.current = FALSE])
  BY DEF Restart
<1>3. /\ person' \in Persons /\ person'.hash.id = person.hash.id
      /\ person'.hash.pw = person.hash.pw /\ person'.here = person.here
      /\ person'.verified = person.verified /\ person'.linked = person.linked
      /\ HasPassword \/ person' = person
  <2>1. person \in Persons /\ person.hash \in Hashes
    BY Fields DEF Inv, TypeOK
  <2>2. [person.hash EXCEPT !.current = FALSE] \in Hashes
    BY <2>1 DEF Hashes
  <2> QED
    BY <1>2, <2>1, <2>2 DEF Persons, Hashes
<1>4. TypeOK'
  BY <1>1, <1>3, EmptyRecords DEF Inv, TypeOK
<1>5. Keeps
  BY <1>1, <1>3, Fields DEF Keeps, Inv
<1>6. RequestsSound'
  BY <1>1, <1>4, <1>5, RequestsStaySound DEF Inv
<1>7. IdsInUse' /\ DeactivatedSignsInNowhere'
  BY <1>1, <1>3 DEF Inv, IdsInUse, DeactivatedSignsInNowhere
<1>8. Founded'
  BY <1>1, <1>3, EmptyRecords DEF Inv, Founded, HasPassword
<1>9. PasswordVouchedFor'
  BY <1>1, <1>3 DEF Inv, PasswordVouchedFor, HasPassword
<1> QED
  BY <1>4, <1>6, <1>7, <1>8, <1>9 DEF Inv

-----------------------------------------------------------------------------
LEMMA Invariant == Spec => []Inv
<1>1. Init => Inv
  <2> SUFFICES ASSUME Init
               PROVE  Inv
    OBVIOUS
  <2>1. /\ person.here = FALSE /\ person.hash = NoHash /\ person.verified = FALSE
        /\ person.active = FALSE /\ person.linked = FALSE /\ person \in Persons
    BY EmptyRecords DEF Init, Persons
  <2>2. TypeOK
    <3>1. req \in [Requests -> Waits]
      BY EmptyRecords DEF Init
    <3>2. minted \in 0..MaxHashes /\ rows \subseteq [link : Links, fingerprint : 0..minted]
      BY DEF Init
    <3> QED
      BY <2>1, <3>1, <3>2 DEF Init, TypeOK
  <2>3. IdsInUse /\ Founded
    BY <2>1, EmptyRecords DEF Init, IdsInUse, Founded
  <2>4. RequestsSound
    <3>1. \A r \in Requests : req[r] = Idle
      BY DEF Init
    <3> QED
      BY <3>1, EmptyRecords DEF Init, RequestsSound, Sound
  <2>5. PasswordVouchedFor /\ DeactivatedSignsInNowhere
    BY <2>1 DEF Init, PasswordVouchedFor, DeactivatedSignsInNowhere
  <2> QED
    BY <2>2, <2>3, <2>4, <2>5 DEF Inv
<1>2. Inv /\ [Next]_vars => Inv'
  <2> SUFFICES ASSUME Inv, [Next]_vars
               PROVE  Inv'
    OBVIOUS
  <2>1. CASE UNCHANGED vars
    BY <2>1 DEF vars, Inv, TypeOK, IdsInUse, Founded, RequestsSound, Sound, PasswordVouchedFor,
                HasPassword, DeactivatedSignsInNowhere
  <2>2. ASSUME NEW r \in Requests,
               \/ RegisterEnd(r) \/ LoginEnd(r) \/ LoginRehashes(r) \/ RehashEnd(r)
               \/ ResetEnd(r) \/ ConfirmEnd(r) \/ Refused(r)
        PROVE  Inv'
    BY <2>2, RegisterEndKeeps, QuietSteps, LoginRehashesKeeps, RehashEndKeeps, ResetEndKeeps,
       ConfirmEndKeeps
  <2>3. ASSUME NEW row \in rows, ResetExpires(row)
        PROVE  Inv'
    BY <2>3, QuietKeeps DEF ResetExpires, Inv, TypeOK
  <2>4. CASE ConfirmRequest
    BY <2>4, QuietKeeps DEF ConfirmRequest, Inv, TypeOK
  <2> QED
    BY <2>1, <2>2, <2>3, <2>4, BeginKeeps, ResetRequestKeeps, RowStepsKeep, RestartKeeps DEF Next
<1> QED
  BY <1>1, <1>2, PTL DEF Spec

(* Every variable of the account keeps its kind.                           *)
THEOREM Typed == Spec => []TypeOK
BY Invariant, PTL DEF Inv

(* The password of a confirmed or linked account is never one that nobody  *)
(* who reads the mailbox, or the operator's waiver, stands behind.         *)
THEOREM PasswordsAreVouchedFor == Spec => []PasswordVouchedFor
BY Invariant, PTL DEF Inv

(* The confirmation gate over every wait: a password that signs in is one  *)
(* that is stored and vouched for by then, or that whoever reads the       *)
(* mailbox disowned or replaced while it was checked.                      *)
THEOREM GateHolds == Spec => VouchedOrOvertaken
<1>1. ASSUME Inv, [Next]_vars
      PROVE  [\A r \in Requests :
                required /\ SignsIn(r) => Vouched(r) \/ Overtaken(r)]_vars
  <2> SUFFICES ASSUME NEW r \in Requests, required, SignsIn(r)
               PROVE  Vouched(r) \/ Overtaken(r)
    OBVIOUS
  <2>1. Sound(req[r]) /\ req[r].pw # NoPassword /\ req[r] # Idle
    BY <1>1, EmptyRecords DEF Inv, RequestsSound, Sound, SignsIn
  <2>2. MaySignIn
    <3>1. \E q \in Requests : LoginEnd(q) \/ RehashEnd(q)
      <4>1. session' = "password" /\ req' # req
        BY <2>1 DEF SignsIn
      <4>2. Next
        BY <1>1, <4>1 DEF vars
      <4> QED
        BY <4>1, <4>2 DEF Next, RegisterEnd, LoginRehashes, ResetEnd, ConfirmEnd, SignsInIfActive,
             Refused, RegisterBegin, LoginBegin, ConfirmBegin, ResetBegin, Waiting, ResetRequest,
             ResetExpires, ConfirmRequest, ConfirmAtOnce, Disown, CodeSignIn, ProviderSignIn,
             SwitchAccount, Restart
    <3> QED
      BY <3>1 DEF LoginEnd, RehashEnd, Answer, SignsIn
  <2>3. HasPassword => voucher # "nobody"
    BY <1>1, <2>2 DEF MaySignIn, Confirmed, Inv, PasswordVouchedFor
  <2> QED
    BY <2>1, <2>3 DEF Sound, SignsIn, Vouched, Overtaken, HasPassword
<1> QED
  BY <1>1, Invariant, PTL DEF Spec, VouchedOrOvertaken

(* Deactivation holds over every wait.                                     *)
THEOREM DeactivationHolds == Spec => []DeactivatedSignsInNowhere
BY Invariant, PTL DEF Inv

(* A step that signs somebody in through a confirmation link confirms the  *)
(* address, which was not confirmed before.                                *)
THEOREM LinkConfirmsOnce == Spec => ConfirmationWorksOnce
<1>1. ASSUME TypeOK, [Next]_vars, session' = "confirm"
      PROVE  (~person.verified /\ person'.verified) \/ UNCHANGED vars
  <2>1. CASE UNCHANGED vars
    BY <2>1
  <2>2. CASE ConfirmAtOnce
    BY <2>2, <1>1 DEF ConfirmAtOnce, Opened, LinkUsable, TypeOK, Persons
  <2>3. CASE \E r \in Requests : ConfirmEnd(r)
    BY <2>3, <1>1 DEF ConfirmEnd, LinkUsable, TypeOK, Persons
  <2>4. CASE ~ConfirmAtOnce /\ ~(\E r \in Requests : ConfirmEnd(r)) /\ Next
    BY <2>4, <1>1 DEF Next, RegisterEnd, LoginEnd, LoginRehashes, RehashEnd, Answer, ResetEnd,
         Refused, RegisterBegin, LoginBegin, ConfirmBegin, ResetBegin, Waiting, ResetRequest,
         ResetExpires, ConfirmRequest, Disown, CodeSignIn, ProviderSignIn, SwitchAccount, Restart
  <2> QED
    BY <1>1, <2>1, <2>2, <2>3, <2>4
<1> QED
  BY <1>1, Typed, PTL DEF Spec, ConfirmationWorksOnce

-----------------------------------------------------------------------------
(* Refinement. A link in a mailbox or in a request's hands works while the *)
(* hash it was mailed for is the stored one.                               *)
AbstractVars == <<person.hash.pw, person.verified, Working>>

LEMMA WorkingMembers ==
  ASSUME NEW l
  PROVE  l \in Working <=>
           \/ \E row \in rows : row.fingerprint = person.hash.id /\ row.link = l
           \/ \E r \in Requests : /\ req[r].op = "reset" /\ req[r].held.id = person.hash.id
                                  /\ req[r].link = l
BY DEF Working

(* Steps that neither touch the password nor mail a link.                  *)
LEMMA FewerLinks ==
  ASSUME Inv, person'.hash.id = person.hash.id, rows' \subseteq rows,
         \A r \in Requests : req'[r] = req[r] \/ req'[r] = Idle
  PROVE  Working' \subseteq Working
BY EmptyRecords DEF Working

LEMMA NoLinks ==
  ASSUME Inv, Inv', person'.hash.id = minted + 1, rows' \subseteq rows,
         \A r \in Requests : req'[r] = req[r] \/ req'[r] = Idle
  PROVE  Working' = {}
<1>1. \A row \in rows : row.fingerprint # minted + 1
  BY DEF Inv, TypeOK
<1>2. ASSUME NEW r \in Requests
      PROVE  req[r].held.id # minted + 1
  BY RequestFields, Fields DEF Inv, RequestsSound, Sound
<1> QED
  BY <1>1, <1>2, EmptyRecords DEF Working

(* A step that keeps the password and gains no link is a lapse of links,   *)
(* and, where the address becomes confirmed, keeps them all.               *)
LEMMA LapseRefines ==
  ASSUME Working' \subseteq Working, person'.hash.pw = person.hash.pw,
         person'.verified = person.verified
  PROVE  Abstract!Next
<1>1. Working' \in SUBSET Working
  OBVIOUS
<1> QED
  BY <1>1 DEF Abstract!Next, Abstract!Lapse

LEMMA BeginRefines ==
  ASSUME Inv, NEW r \in Requests, NEW p \in Passwords,
         \/ RegisterBegin(r, p) \/ LoginBegin(r, p) \/ ConfirmBegin(r, p)
         \/ \E row \in rows : ResetBegin(r, row, p)
  PROVE  UNCHANGED AbstractVars
<1>1. /\ UNCHANGED <<person, rows>> /\ req[r] = Idle /\ req[r].op = "idle"
      /\ \A q \in Requests : q # r => req'[q] = req[q]
  BY EmptyRecords DEF RegisterBegin, LoginBegin, ConfirmBegin, ResetBegin, Waiting, Settled,
                      Inv, TypeOK
<1>2. CASE RegisterBegin(r, p) \/ LoginBegin(r, p) \/ ConfirmBegin(r, p)
  <2>1. req'[r].op # "reset"
    BY <1>2 DEF RegisterBegin, LoginBegin, ConfirmBegin, Waiting, Inv, TypeOK
  <2> QED
    BY <1>1, <2>1 DEF AbstractVars, Working
<1>3. ASSUME NEW row \in rows, ResetBegin(r, row, p)
      PROVE  UNCHANGED AbstractVars
  <2>1. row.fingerprint = person.hash.id
    BY <1>3 DEF ResetBegin, StillApplies
  <2>2. req'[r].op = "reset" /\ req'[r].held.id = person.hash.id /\ req'[r].link = row.link
    BY <1>3 DEF ResetBegin, Waiting, Inv, TypeOK
  <2>3. Working' = Working
    BY <1>1, <2>1, <2>2 DEF Working
  <2> QED
    BY <1>1, <2>3 DEF AbstractVars
<1> QED
  BY <1>2, <1>3

LEMMA RegisterRefines ==
  ASSUME Inv, Inv', NEW r \in Requests, RegisterEnd(r)
  PROVE  Abstract!Next
<1>1. PICK p : p = req[r].pw
  OBVIOUS
<1>2. p \in Passwords /\ minted < MaxHashes
  BY <1>1 DEF Inv, RequestsSound, Sound, RegisterEnd, Done, Stores
<1>3. Hashed(p).id = minted + 1 /\ Hashed(p).pw = p
  BY <1>2, NewHash DEF Inv
<1>4. person'.hash = Hashed(p) /\ person'.verified = ~required
  BY <1>1 DEF RegisterEnd
<1>5. ~person.here /\ rows = {} /\ rows' = {} /\ person.hash.pw = NoPassword /\ ~person.verified
  BY EmptyRecords DEF RegisterEnd, Registered, Inv, Founded
<1>6. \A q \in Requests : req'[q] = req[q] \/ req'[q] = Idle
  BY DoneType DEF RegisterEnd, Inv
<1>7. \A q \in Requests : req[q].op # "reset"
  BY <1>5 DEF Inv, RequestsSound, Sound
<1>8. Working = {} /\ Working' = {}
  BY <1>5, <1>6, <1>7, EmptyRecords DEF Working
<1>9. required \in BOOLEAN
  BY DEF Inv, TypeOK
<1>10. Abstract!Register(p, ~required)
  BY <1>3, <1>4, <1>5, <1>8 DEF Abstract!Register
<1> QED
  BY <1>2, <1>9, <1>10 DEF Abstract!Next

LEMMA ResetRefines ==
  ASSUME Inv, Inv', NEW r \in Requests, ResetEnd(r)
  PROVE  Abstract!Next
<1>1. PICK p : p = req[r].pw
  OBVIOUS
<1>2. PICK l : l = req[r].link
  OBVIOUS
<1>3. /\ req[r].op = "reset" /\ p \in Passwords /\ l \in Links /\ minted < MaxHashes
      /\ req[r].held.id = person.hash.id
  BY <1>1, <1>2 DEF ResetEnd, StillApplies, Stores, Done, Inv, RequestsSound, Sound
<1>4. Hashed(p).id = minted + 1 /\ Hashed(p).pw = p
  BY <1>3, NewHash DEF Inv
<1>5. person'.hash = Hashed(p) /\ person'.verified = person.verified /\ rows' = {}
  BY <1>1 DEF ResetEnd, Inv, TypeOK, Persons
<1>6. l \in Working
  BY <1>2, <1>3, WorkingMembers
<1>7. \A q \in Requests : req'[q] = req[q] \/ req'[q] = Idle
  BY DoneType DEF ResetEnd, Inv
<1>8. Working' = {}
  BY <1>4, <1>5, <1>7, NoLinks
<1>9. Abstract!Use(l, p)
  BY <1>4, <1>5, <1>6, <1>8 DEF Abstract!Use
<1> QED
  BY <1>3, <1>9 DEF Abstract!Next

LEMMA RehashRefines ==
  ASSUME Inv, Inv', NEW r \in Requests, RehashEnd(r)
  PROVE  Abstract!Next
<1>1. rows' = rows /\ \A q \in Requests : req'[q] = req[q] \/ req'[q] = Idle
  BY DoneType DEF RehashEnd, Inv
<1>2. CASE UNCHANGED <<person, minted>>
  <2>1. Working' \subseteq Working
    BY <1>1, <1>2, FewerLinks
  <2> QED
    BY <1>2, <2>1, LapseRefines
<1>3. CASE Rehashed(r)
  <2>1. PICK p : p = req[r].pw
    OBVIOUS
  <2>2. p \in Passwords /\ person.hash.pw = p /\ minted < MaxHashes
    BY <1>3, <2>1 DEF RehashEnd, Rehashed, StillStored, Stores, Done, Inv, RequestsSound, Sound
  <2>3. Hashed(p).id = minted + 1 /\ Hashed(p).pw = p
    BY <2>2, NewHash DEF Inv
  <2>4. person'.hash = Hashed(p) /\ person'.verified = person.verified
    BY <1>3, <2>1 DEF Rehashed, Inv, TypeOK, Persons
  <2>5. Working' = {}
    BY <1>1, <2>3, <2>4, NoLinks
  <2> QED
    BY <2>2, <2>3, <2>4, <2>5, LapseRefines
<1> QED
  BY <1>2, <1>3 DEF RehashEnd

(* The steps that touch neither the hash nor the confirmation.             *)
LEMMA OtherEndsRefine ==
  ASSUME Inv, NEW r \in Requests, LoginEnd(r) \/ LoginRehashes(r) \/ Refused(r)
  PROVE  Abstract!Next
<1>1. UNCHANGED <<person, rows>>
  BY DEF LoginEnd, LoginRehashes, Refused, Settled
<1>2. CASE LoginEnd(r) \/ Refused(r)
  <2>1. \A q \in Requests : req'[q] = req[q] \/ req'[q] = Idle
    BY <1>2, DoneType DEF LoginEnd, Refused, Inv
  <2>2. Working' \subseteq Working
    BY <1>1, <2>1, FewerLinks
  <2> QED
    BY <1>1, <2>2, LapseRefines
<1>3. CASE LoginRehashes(r)
  <2>1. req'[r].op = "rehash" /\ \A q \in Requests : q # r => req'[q] = req[q]
    <3>1. req' = [req EXCEPT ![r].op = "rehash"] /\ req[r] \in Waits /\ req \in [Requests -> Waits]
      BY <1>3 DEF LoginRehashes, Inv, TypeOK
    <3> QED
      BY <3>1 DEF Waits
  <2>2. Working' \subseteq Working
    BY <1>1, <2>1 DEF Working
  <2> QED
    BY <1>1, <2>2, LapseRefines
<1> QED
  BY <1>2, <1>3

(* Confirming the address, and the steps that may do so.                   *)
LEMMA ConfirmRefines ==
  ASSUME person'.hash.pw = person.hash.pw, person.verified = FALSE, person'.verified = TRUE,
         Working' = Working
  PROVE  Abstract!Next
BY DEF Abstract!Next, Abstract!Confirm

LEMMA SameLinks ==
  ASSUME Inv, person'.hash.id = person.hash.id, rows' = rows,
         \A r \in Requests : req'[r] = req[r] \/ (req[r].op # "reset" /\ req'[r] = Idle)
  PROVE  Working' = Working
BY EmptyRecords DEF Working

LEMMA ConfirmingRefines ==
  ASSUME Inv, ConfirmAtOnce \/ \E r \in Requests : ConfirmEnd(r)
  PROVE  Abstract!Next
<1>1. /\ person' = [person EXCEPT !.verified = TRUE] /\ rows' = rows /\ ~person.verified
      /\ \A r \in Requests : req'[r] = req[r] \/ (req[r].op # "reset" /\ req'[r] = Idle)
  <2>1. CASE ConfirmAtOnce
    BY <2>1 DEF ConfirmAtOnce, Opened, LinkUsable
  <2>2. CASE \E r \in Requests : ConfirmEnd(r)
    BY <2>2, DoneType DEF ConfirmEnd, LinkUsable, Inv
  <2> QED
    BY <2>1, <2>2
<1>2. person'.hash = person.hash /\ person'.verified = TRUE /\ person.verified = FALSE
  BY <1>1, Fields DEF Inv, TypeOK, Persons
<1>3. Working' = Working
  BY <1>1, <1>2, SameLinks
<1> QED
  BY <1>2, <1>3, ConfirmRefines

LEMMA DisownRefines ==
  ASSUME Inv, Disown
  PROVE  Abstract!Next
<1>1. /\ person' = [person EXCEPT !.verified = TRUE, !.hash = NoHash]
      /\ ~person.verified /\ UNCHANGED <<rows, req>>
  BY DEF Disown, Opened, LinkUsable
<1>2. person'.hash = NoHash /\ person'.verified = TRUE /\ person.verified = FALSE
  BY <1>1, Fields DEF Inv, TypeOK, Persons
<1>3. Working' = {}
  <2>1. \A row \in rows : row.fingerprint # 0
    BY <1>2 DEF Inv, Founded
  <2>2. \A r \in Requests : req[r].op = "reset" => req[r].held.id # 0
    BY <1>2 DEF Inv, RequestsSound, Sound
  <2> QED
    BY <1>1, <1>2, <2>1, <2>2, EmptyRecords DEF Working
<1>4. Abstract!Disown
  BY <1>2, <1>3, EmptyRecords DEF Abstract!Disown
<1> QED
  BY <1>4 DEF Abstract!Next

LEMMA NewcomerRefines ==
  ASSUME Inv, \/ CodeSignIn \/ \E vouches \in BOOLEAN : ProviderSignIn(vouches)
  PROVE  [Abstract!Next]_AbstractVars
<1>1. UNCHANGED <<rows, req>>
  BY DEF CodeSignIn, ProviderSignIn
<1>2. /\ person'.hash = person.hash
      /\ person'.verified = person.verified \/ (~person.verified /\ person'.verified = TRUE)
  <2>1. CASE person.here
    BY <2>1 DEF CodeSignIn, ProviderSignIn, Inv, TypeOK, Persons
  <2>2. CASE ~person.here
    <3>1. person.hash = NoHash /\ ~person.verified /\ person.verified \in BOOLEAN
      BY <2>2, Fields DEF Inv, Founded
    <3>2. \E v, l \in BOOLEAN : person' = Newcomer(v, l)
      BY <2>2 DEF CodeSignIn, ProviderSignIn
    <3> QED
      BY <3>1, <3>2 DEF Newcomer
  <2> QED
    BY <2>1, <2>2
<1>3. Working' = Working
  BY <1>1, <1>2, SameLinks
<1>4. CASE person'.verified = person.verified
  BY <1>2, <1>3, <1>4 DEF AbstractVars
<1>5. CASE ~person.verified /\ person'.verified = TRUE
  BY <1>2, <1>3, <1>5, Fields, ConfirmRefines DEF Inv
<1> QED
  BY <1>2, <1>4, <1>5

LEMMA MailRefines ==
  ASSUME Inv, NEW l \in Links, ResetRequest(l)
  PROVE  Abstract!Next
<1>1. /\ UNCHANGED <<person, req>>
      /\ rows' = rows \cup {[link |-> l, fingerprint |-> person.hash.id]}
      /\ person.hash.pw # NoPassword \/ person.verified
  BY DEF ResetRequest, Resettable, HasPassword
<1>2. PICK row : row = [link |-> l, fingerprint |-> person.hash.id]
  OBVIOUS
<1>3. rows' = rows \cup {row} /\ row.link = l /\ row.fingerprint = person.hash.id
  BY <1>1, <1>2
<1>4. Working' = Working \cup {l}
  BY <1>1, <1>3 DEF Working
<1>5. Abstract!Mail(l)
  BY <1>1, <1>4 DEF Abstract!Mail
<1> QED
  BY <1>5 DEF Abstract!Next

LEMMA RestRefines ==
  ASSUME Inv, \/ SwitchAccount \/ Restart \/ ConfirmRequest \/ \E row \in rows : ResetExpires(row)
  PROVE  Abstract!Next
<1>1. /\ person'.hash.id = person.hash.id /\ person'.hash.pw = person.hash.pw
      /\ person'.verified = person.verified
  BY Fields DEF SwitchAccount, Restart, ConfirmRequest, ResetExpires, Inv, TypeOK, Persons, Hashes
<1>2. rows' \subseteq rows /\ \A r \in Requests : req'[r] = req[r] \/ req'[r] = Idle
  BY DEF SwitchAccount, Restart, ConfirmRequest, ResetExpires
<1>3. Working' \subseteq Working
  BY <1>1, <1>2, FewerLinks
<1> QED
  BY <1>1, <1>3, LapseRefines

LEMMA StepRefines ==
  ASSUME Inv, Inv', [Next]_vars
  PROVE  [Abstract!Next]_AbstractVars
<1>1. CASE UNCHANGED vars
  BY <1>1 DEF vars, AbstractVars, Working
<1>2. CASE Next
  BY <1>2, BeginRefines, RegisterRefines, OtherEndsRefine, RehashRefines, ResetRefines,
     ConfirmingRefines, DisownRefines, NewcomerRefines, MailRefines, RestRefines DEF Next
<1> QED
  BY <1>1, <1>2

(* The code keeps what AccountPassword says: a re-hash is invisible, a     *)
(* link sets a password once and only in place of the one it was mailed    *)
(* for, whatever was awaited meanwhile.                                    *)
THEOREM Refinement == Spec => ImplementsAccountPassword
<1>1. Init => Abstract!Init
  BY EmptyRecords DEF Init, Abstract!Init, Working
<1>2. Inv /\ Inv' /\ [Next]_vars => [Abstract!Next]_(Abstract!vars)
  BY StepRefines DEF AbstractVars, Abstract!vars
<1> QED
  BY <1>1, <1>2, Invariant, PTL DEF Spec, ImplementsAccountPassword, Abstract!Spec
=============================================================================
