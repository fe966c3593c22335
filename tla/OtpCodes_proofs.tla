--------------------------- MODULE OtpCodes_proofs ---------------------------
(***************************************************************************)
(* What holds of the one-time code ledger for every number of mailboxes,   *)
(* requests and codes and for every expiry, window, retention and draw     *)
(* budget the assumptions of OtpCodes allow.                               *)
(***************************************************************************)
EXTENDS OtpCodes, FiniteSetTheorems, TLAPS

(* The rows written are well formed: an issued code is keyed by a          *)
(* normalised address, the others hold nothing yet, and a verification in  *)
(* flight holds an issued code it took a guess on.                         *)
Shape ==
  /\ \A c \in 1..issued : /\ code[c].email \in [box : Mailboxes, form : {Plain}]
                          /\ code[c].created <= now
  /\ \A c \in CodeIds : c > issued => code[c].email = NoEmail /\ code[c].attempts = 0
  /\ \A r \in Requests : req[r].op = "issue" => req[r].email \in [box : Mailboxes, form : {Plain}]
  /\ \A r \in Requests :
       req[r].op = "verify" /\ req[r].code # NoCode =>
         req[r].code \in 1..issued /\ code[req[r].code].attempts > 0

USE PlainAssumption, NumbersAssumption, NoBoxAssumption

LEMMA NormalizeType ==
  ASSUME NEW s \in Spellings
  PROVE  Normalize(s) \in [box : Mailboxes, form : {Plain}]
BY DEF Normalize, Spellings

-----------------------------------------------------------------------------
(* Type correctness, with the shape of the rows.                           *)

LEMMA InitTyped == Init => TypeOK /\ Shape
BY DEF Init, TypeOK, Shape, CodeIds, Emails, NoEmail, Idle, NoCode, Row

LEMMA IssueEndTyped ==
  ASSUME TypeOK, Shape, NEW r \in Requests, IssueEnd(r)
  PROVE  TypeOK' /\ Shape'
<1> DEFINE e == req[r].email
<1>1. e \in [box : Mailboxes, form : {Plain}]
  BY DEF IssueEnd, Shape
<1>2. req' = [req EXCEPT ![r] = Idle] /\ UNCHANGED <<now, signins, draws>>
  BY DEF IssueEnd
<1>3. CASE UNCHANGED <<rows, code, issued>>
  BY <1>2, <1>3 DEF TypeOK, Shape, Idle, Issuing, Verifying, CodeIds, NoCode
<1>4. CASE /\ issued < MaxCodes
           /\ code' = [Supersede(e) EXCEPT ![issued + 1] =
                         [email |-> e, created |-> now, attempts |-> 0, used |-> FALSE]]
           /\ rows' = rows \cup {issued + 1}
           /\ issued' = issued + 1
  <2>1. issued + 1 \in CodeIds /\ issued' \in 0..MaxCodes /\ rows' \subseteq 1..issued'
    BY <1>4 DEF TypeOK, CodeIds
  <2>2. \A c \in CodeIds :
          code'[c] = IF c = issued + 1
                     THEN [email |-> e, created |-> now, attempts |-> 0, used |-> FALSE]
                     ELSE IF Live(c) /\ code[c].email = e
                          THEN [code[c] EXCEPT !.used = TRUE] ELSE code[c]
    BY <1>4, <2>1 DEF Supersede
  <2>3. ASSUME NEW c \in CodeIds PROVE code'[c] \in Row
    <3>1. CASE c = issued + 1
      <4>1. e \in Emails /\ now \in 0..MaxTime /\ 0 \in 0..MaxAttempts
        BY <1>1 DEF TypeOK, Emails
      <4>2. [email |-> e, created |-> now, attempts |-> 0, used |-> FALSE] \in Row
        BY <4>1 DEF Row
      <4> QED BY <2>2, <3>1, <4>2
    <3>2. CASE c # issued + 1
      <4>1. code[c] \in Row
        BY DEF TypeOK
      <4> QED BY <2>2, <3>2, <4>1 DEF Row
    <3> QED BY <3>1, <3>2
  <2>4. code' \in [CodeIds -> Row]
    BY <1>4, <2>3 DEF Supersede
  <2>5. \A c \in CodeIds : c # issued + 1 =>
          /\ code'[c].email = code[c].email /\ code'[c].created = code[c].created
          /\ code'[c].attempts = code[c].attempts
    BY <2>2 DEF TypeOK, Row
  <2>6. TypeOK'
    BY <1>2, <2>1, <2>4 DEF TypeOK, Idle
  <2>7. \A c \in 1..issued' : /\ code'[c].email \in [box : Mailboxes, form : {Plain}]
                              /\ code'[c].created <= now'
    <3> SUFFICES ASSUME NEW c \in 1..issued'
                 PROVE  /\ code'[c].email \in [box : Mailboxes, form : {Plain}]
                        /\ code'[c].created <= now'
      OBVIOUS
    <3>1. CASE c = issued + 1
      <4>1. code'[c] = [email |-> e, created |-> now, attempts |-> 0, used |-> FALSE]
        BY <2>1, <2>2, <3>1
      <4> QED BY <1>1, <1>2, <4>1 DEF TypeOK
    <3>2. CASE c # issued + 1
      <4>1. c \in 1..issued /\ c \in CodeIds
        BY <1>4, <3>2 DEF TypeOK, CodeIds
      <4> QED BY <1>2, <2>5, <3>2, <4>1 DEF Shape
    <3> QED BY <3>1, <3>2
  <2>8. \A c \in CodeIds : c > issued' => code'[c].email = NoEmail /\ code'[c].attempts = 0
    <3> SUFFICES ASSUME NEW c \in CodeIds, c > issued'
                 PROVE  code'[c].email = NoEmail /\ code'[c].attempts = 0
      OBVIOUS
    <3>1. c > issued /\ c # issued + 1
      BY <1>4 DEF TypeOK, CodeIds
    <3> QED BY <2>5, <3>1 DEF Shape
  <2>9. \A q \in Requests : /\ req'[q].op = "issue" => req'[q] = req[q]
                            /\ req'[q].op = "verify" => req'[q] = req[q]
    BY <1>2 DEF TypeOK, Idle
  <2>10. \A q \in Requests :
           req'[q].op = "verify" /\ req'[q].code # NoCode =>
             req'[q].code \in 1..issued' /\ code'[req'[q].code].attempts > 0
    <3> SUFFICES ASSUME NEW q \in Requests, req'[q].op = "verify", req'[q].code # NoCode
                 PROVE  req'[q].code \in 1..issued' /\ code'[req'[q].code].attempts > 0
      OBVIOUS
    <3> DEFINE d == req[q].code
    <3>1. d \in 1..issued /\ code[d].attempts > 0 /\ req'[q].code = d
      BY <2>9 DEF Shape
    <3>2. d \in CodeIds /\ d # issued + 1 /\ d \in 1..issued'
      BY <1>4, <3>1 DEF TypeOK, CodeIds
    <3> QED BY <2>5, <3>1, <3>2
  <2>11. \A q \in Requests : req'[q].op = "issue" =>
           req'[q].email \in [box : Mailboxes, form : {Plain}]
    BY <2>9 DEF Shape
  <2> QED BY <2>6, <2>7, <2>8, <2>10, <2>11 DEF Shape
<1> QED BY <1>3, <1>4 DEF IssueEnd

LEMMA VerifyBeginTyped ==
  ASSUME TypeOK, Shape, NEW r \in Requests, NEW s \in Spellings, VerifyBegin(r, s)
  PROVE  TypeOK' /\ Shape'
<1>1. UNCHANGED <<now, rows, issued, signins>>
  BY DEF VerifyBegin
<1>2. ASSUME NEW c \in LatestValid(Normalize(s)), ClaimAttempt(c),
             req' = [req EXCEPT ![r] = [op |-> "verify", code |-> c]]
      PROVE  TypeOK' /\ Shape'
  <2>1. c \in 1..issued /\ c \in CodeIds /\ c # NoCode
    BY DEF LatestValid, TypeOK, CodeIds, NoCode
  <2>2. code[c].attempts \in 0..MaxAttempts /\ code[c].attempts < MaxAttempts
    BY <1>2, <2>1 DEF ClaimAttempt, Guessable, TypeOK, Row
  <2>3. \A d \in CodeIds : /\ code'[d].email = code[d].email
                           /\ code'[d].created = code[d].created
                           /\ code'[d].attempts = IF d = c THEN code[d].attempts + 1
                                                           ELSE code[d].attempts
    BY <1>2, <2>1 DEF ClaimAttempt, TypeOK, Row
  <2>4. code' \in [CodeIds -> Row]
    BY <1>2, <2>1, <2>2 DEF ClaimAttempt, TypeOK, Row
  <2>5. draws' \subseteq [code : CodeIds, nth : 1..MaxAttempts, at : 0..MaxTime]
    BY <1>2, <2>1, <2>2 DEF ClaimAttempt, TypeOK
  <2>6. TypeOK'
    BY <1>1, <1>2, <2>1, <2>4, <2>5 DEF TypeOK, Verifying
  <2>7. \A q \in Requests : q # r => req'[q] = req[q]
    BY <1>2 DEF TypeOK
  <2>8. req'[r] = [op |-> "verify", code |-> c]
    BY <1>2 DEF TypeOK
  <2>9. \A q \in Requests :
          req'[q].op = "verify" /\ req'[q].code # NoCode =>
            req'[q].code \in 1..issued' /\ code'[req'[q].code].attempts > 0
    <3> SUFFICES ASSUME NEW q \in Requests, req'[q].op = "verify", req'[q].code # NoCode
                 PROVE  req'[q].code \in 1..issued' /\ code'[req'[q].code].attempts > 0
      OBVIOUS
    <3>1. CASE q = r
      BY <1>1, <2>1, <2>2, <2>3, <2>8, <3>1
    <3>2. CASE q # r
      <4> DEFINE d == req[q].code
      <4>1. d \in 1..issued /\ code[d].attempts > 0 /\ req'[q].code = d
        BY <2>7, <3>2 DEF Shape
      <4>2. d \in CodeIds /\ code[d].attempts \in Nat
        BY <4>1 DEF TypeOK, CodeIds, Row
      <4> QED BY <1>1, <2>3, <4>1, <4>2
    <3> QED BY <3>1, <3>2
  <2>10. \A q \in Requests : req'[q].op = "issue" => req'[q] = req[q]
    BY <2>7, <2>8
  <2>11. \A d \in CodeIds : d > issued => d # c
    BY <2>1 DEF TypeOK, CodeIds
  <2>12. \A d \in CodeIds : d > issued => code'[d].email = NoEmail /\ code'[d].attempts = 0
    BY <2>3, <2>11 DEF Shape
  <2>13. \A d \in 1..issued : d \in CodeIds
    BY DEF TypeOK, CodeIds
  <2> QED BY <1>1, <2>3, <2>6, <2>9, <2>10, <2>12, <2>13 DEF Shape
<1>3. CASE /\ req' = [req EXCEPT ![r] = [op |-> "verify", code |-> NoCode]]
           /\ UNCHANGED <<code, draws>>
  BY <1>1, <1>3 DEF TypeOK, Shape, Verifying, CodeIds, NoCode
<1> QED BY <1>2, <1>3 DEF VerifyBegin

LEMMA VerifySucceedsTyped ==
  ASSUME TypeOK, Shape, NEW r \in Requests, VerifySucceeds(r)
  PROVE  TypeOK' /\ Shape'
<1> DEFINE c == req[r].code
<1>1. /\ c \in 1..issued /\ c \in CodeIds
      /\ code' = [code EXCEPT ![c].used = TRUE]
      /\ signins' = [signins EXCEPT ![c] = @ + 1]
      /\ req' = [req EXCEPT ![r] = Idle]
      /\ UNCHANGED <<now, rows, issued, draws>>
  BY DEF VerifySucceeds, Shape, TypeOK, CodeIds
<1>2. \A d \in CodeIds : /\ code'[d].email = code[d].email
                         /\ code'[d].created = code[d].created
                         /\ code'[d].attempts = code[d].attempts
  BY <1>1 DEF TypeOK
<1>3. TypeOK'
  <2>1. code' \in [CodeIds -> Row]
    BY <1>1 DEF TypeOK, Row
  <2>2. signins' \in [CodeIds -> Nat] /\ req' \in [Requests -> {Idle} \cup Issuing \cup Verifying]
    BY <1>1 DEF TypeOK
  <2> QED BY <1>1, <2>1, <2>2 DEF TypeOK
<1>4. \A q \in Requests : /\ req'[q].op = "issue" => req'[q] = req[q]
                          /\ req'[q].op = "verify" => req'[q] = req[q]
  BY <1>1 DEF TypeOK, Idle
<1>5. \A q \in Requests :
        req'[q].op = "verify" /\ req'[q].code # NoCode =>
          req'[q].code \in 1..issued' /\ code'[req'[q].code].attempts > 0
  BY <1>1, <1>2, <1>4 DEF Shape, TypeOK, CodeIds
<1>6. (\A q \in Requests : req'[q].op = "issue" => req'[q].email \in [box : Mailboxes, form : {Plain}])
  BY <1>4 DEF Shape
<1>7. \A d \in 1..issued : d \in CodeIds
  BY DEF TypeOK, CodeIds
<1> QED BY <1>1, <1>2, <1>3, <1>5, <1>6, <1>7 DEF Shape

LEMMA NextTyped == TypeOK /\ Shape /\ [Next]_vars => TypeOK' /\ Shape'
<1> SUFFICES ASSUME TypeOK, Shape, [Next]_vars
             PROVE  TypeOK' /\ Shape'
  OBVIOUS
<1>1. ASSUME NEW r \in Requests, NEW s \in Spellings, IssueBegin(r, s)
      PROVE  TypeOK' /\ Shape'
  <2>1. Normalize(s) \in [box : Mailboxes, form : {Plain}]
    BY NormalizeType
  <2> QED BY <1>1, <2>1 DEF IssueBegin, TypeOK, Shape, Issuing, Spellings, CodeIds
<1>2. ASSUME NEW r \in Requests, VerifyFails(r)
      PROVE  TypeOK' /\ Shape'
  BY <1>2 DEF VerifyFails, TypeOK, Shape, Idle, CodeIds
<1>3. ASSUME CleanupExpired
      PROVE  TypeOK' /\ Shape'
  BY <1>3 DEF CleanupExpired, TypeOK, Shape
<1>4. ASSUME Tick
      PROVE  TypeOK' /\ Shape'
  <2>1. now \in Nat /\ now' = now + 1 /\ now' \in 0..MaxTime
    BY <1>4 DEF Tick, TypeOK
  <2>2. \A c \in 1..issued : code[c].created \in Nat
    BY DEF TypeOK, CodeIds, Row
  <2> QED BY <1>4, <2>1, <2>2 DEF Tick, TypeOK, Shape
<1>5. ASSUME Restart
      PROVE  TypeOK' /\ Shape'
  BY <1>5 DEF Restart, TypeOK, Shape, Idle
<1>6. CASE UNCHANGED vars
  BY <1>6 DEF vars, TypeOK, Shape
<1> QED
  BY <1>1, <1>2, <1>3, <1>4, <1>5, <1>6, IssueEndTyped, VerifyBeginTyped, VerifySucceedsTyped
  DEF Next

(* Every reachable state is well typed.                                    *)
THEOREM Typed == Spec => []TypeOK
<1>1. Init => TypeOK /\ Shape
  BY InitTyped
<1>2. (TypeOK /\ Shape) /\ [Next]_vars => (TypeOK /\ Shape)'
  BY NextTyped
<1> QED BY <1>1, <1>2, PTL DEF Spec

-----------------------------------------------------------------------------
(* One live code. The invariant behind it: of two codes of one mailbox the *)
(* older is used or past its expiry, and a row is deleted only long after  *)
(* its code expired, so superseding the live ROWS retires every live code. *)

Retired ==
  \A c, d \in 1..issued :
    c < d /\ code[c].email.box = code[d].email.box =>
      code[c].used = TRUE \/ code[c].created + Expiry <= now
Kept == \A c \in 1..issued : c \in rows \/ code[c].created + Expiry + Retention <= now

LEMMA RowFields ==
  ASSUME TypeOK, NEW c \in CodeIds
  PROVE  /\ code[c].created \in Nat /\ code[c].attempts \in 0..MaxAttempts
         /\ code[c].used \in BOOLEAN /\ code[c].email \in Emails
BY DEF TypeOK, Row

LEMMA IssuedIds == ASSUME TypeOK PROVE \A c \in 1..issued : c \in CodeIds /\ c \in Nat
BY DEF TypeOK, CodeIds

(* Only issue_otp adds a code; every other step leaves addresses and       *)
(* times as they are and never brings a used code back.                    *)
Settled ==
  /\ issued' = issued
  /\ \A c \in CodeIds : /\ code'[c].email = code[c].email
                        /\ code'[c].created = code[c].created
                        /\ code[c].used = TRUE => code'[c].used = TRUE

LEMMA OtherStepsSettled ==
  ASSUME TypeOK, Shape, [Next]_vars, \A r \in Requests : ~IssueEnd(r)
  PROVE  Settled /\ now' >= now /\ now' \in Nat
<1> USE DEF Settled
<1>1. ASSUME NEW r \in Requests, NEW s \in Spellings, IssueBegin(r, s)
      PROVE  Settled /\ now' >= now /\ now' \in Nat
  BY <1>1 DEF IssueBegin, TypeOK
<1>2. ASSUME NEW r \in Requests, NEW s \in Spellings, VerifyBegin(r, s)
      PROVE  Settled /\ now' >= now /\ now' \in Nat
  <2>1. \A c \in CodeIds : ClaimAttempt(c) => Settled \/ issued' # issued
    BY DEF ClaimAttempt, TypeOK, Row
  <2>2. \A c \in LatestValid(Normalize(s)) : c \in CodeIds
    BY IssuedIds DEF LatestValid, TypeOK
  <2> QED BY <1>2, <2>1, <2>2 DEF VerifyBegin, TypeOK
<1>3. ASSUME NEW r \in Requests, VerifyFails(r)
      PROVE  Settled /\ now' >= now /\ now' \in Nat
  BY <1>3 DEF VerifyFails, TypeOK
<1>4. ASSUME NEW r \in Requests, VerifySucceeds(r)
      PROVE  Settled /\ now' >= now /\ now' \in Nat
  <2>1. req[r].code \in CodeIds
    BY <1>4, IssuedIds DEF VerifySucceeds, Shape
  <2> QED BY <1>4, <2>1 DEF VerifySucceeds, TypeOK, Row
<1>5. ASSUME CleanupExpired \/ Tick \/ Restart \/ UNCHANGED vars
      PROVE  Settled /\ now' >= now /\ now' \in Nat
  BY <1>5 DEF CleanupExpired, Tick, Restart, vars, TypeOK
<1> QED BY <1>1, <1>2, <1>3, <1>4, <1>5 DEF Next

(* What a code issue_otp inserts finds and leaves.                         *)
LEMMA IssueEffect ==
  ASSUME TypeOK, Shape, NEW r \in Requests, IssueEnd(r), issued' # issued
  PROVE  /\ ~LimitReached(req[r].email)
         /\ req[r].email \in [box : Mailboxes, form : {Plain}]
         /\ issued' = issued + 1 /\ issued + 1 \in CodeIds /\ now' = now
         /\ issued \in Nat /\ 1..issued' = (1..issued) \cup {issued + 1}
         /\ rows' = rows \cup {issued + 1}
         /\ code'[issued + 1] = [email |-> req[r].email, created |-> now,
                                 attempts |-> 0, used |-> FALSE]
         /\ \A c \in 1..issued :
              /\ code'[c].email = code[c].email
              /\ code'[c].created = code[c].created
              /\ code'[c].attempts = code[c].attempts
              /\ code[c].used = TRUE => code'[c].used = TRUE
              /\ Live(c) /\ code[c].email = req[r].email => code'[c].used = TRUE
<1>1. issued + 1 \in CodeIds /\ issued' = issued + 1
  BY DEF IssueEnd, TypeOK, CodeIds
<1>2. \A c \in 1..issued : c \in CodeIds /\ c # issued + 1 /\ code[c] \in Row
  BY IssuedIds DEF TypeOK
<1>3. \A c \in 1..issued : code'[c] = IF Live(c) /\ code[c].email = req[r].email
                                     THEN [code[c] EXCEPT !.used = TRUE] ELSE code[c]
  BY <1>1, <1>2 DEF IssueEnd, Supersede
<1>4. \A c \in 1..issued :
        /\ code'[c].email = code[c].email
        /\ code'[c].created = code[c].created
        /\ code'[c].attempts = code[c].attempts
        /\ code[c].used = TRUE => code'[c].used = TRUE
        /\ Live(c) /\ code[c].email = req[r].email => code'[c].used = TRUE
  BY <1>2, <1>3 DEF Row
<1>5. /\ ~LimitReached(req[r].email) /\ now' = now /\ rows' = rows \cup {issued + 1}
      /\ code'[issued + 1] = [email |-> req[r].email, created |-> now,
                              attempts |-> 0, used |-> FALSE]
  BY <1>1 DEF IssueEnd, Supersede
<1>6. req[r].email \in [box : Mailboxes, form : {Plain}]
  BY DEF IssueEnd, Shape
<1>7. issued \in Nat /\ 1..issued' = (1..issued) \cup {issued + 1}
  BY <1>1 DEF TypeOK
<1> QED BY <1>1, <1>4, <1>5, <1>6, <1>7

LEMMA KeptStep ==
  ASSUME TypeOK, Shape, Kept, [Next]_vars
  PROVE  Kept'
<1>1. ASSUME NEW r \in Requests, IssueEnd(r), issued' # issued
      PROVE  Kept'
  <2>1. /\ issued \in Nat /\ 1..issued' = (1..issued) \cup {issued + 1}
        /\ rows' = rows \cup {issued + 1} /\ now' = now
        /\ \A c \in 1..issued : code'[c].created = code[c].created
    BY <1>1, IssueEffect
  <2> QED BY <2>1 DEF Kept
<1>2. ASSUME NEW r \in Requests, IssueEnd(r), issued' = issued
      PROVE  Kept'
  <2>1. UNCHANGED <<rows, code, issued, now>>
    BY <1>2 DEF IssueEnd, TypeOK
  <2> QED BY <2>1 DEF Kept
<1>3. ASSUME \A r \in Requests : ~IssueEnd(r)
      PROVE  Kept'
  <2>1. Settled /\ now' >= now /\ now' \in Nat /\ now \in Nat
    BY <1>3, OtherStepsSettled DEF TypeOK
  <2> SUFFICES ASSUME NEW c \in 1..issued
               PROVE  c \in rows' \/ code'[c].created + Expiry + Retention <= now'
    BY <2>1 DEF Kept, Settled
  <2>2. c \in CodeIds
    BY IssuedIds
  <2>3. code'[c].created = code[c].created /\ code[c].created \in Nat
    <3>1. code'[c].created = code[c].created
      BY <2>1, <2>2 DEF Settled
    <3>2. code[c].created \in Nat
      BY <2>2, RowFields
    <3> QED BY <3>1, <3>2
  <2>4. CASE CleanupExpired
    BY <2>1, <2>3, <2>4 DEF CleanupExpired, Kept
  <2>5. CASE ~CleanupExpired
    <3>1. rows' = rows
      BY <1>3, <2>5 DEF Next, vars, IssueBegin, VerifyBegin, VerifyFails, VerifySucceeds, Tick, Restart
    <3> QED BY <2>1, <2>3, <3>1 DEF Kept
  <2> QED BY <2>4, <2>5
<1> QED BY <1>1, <1>2, <1>3

LEMMA RetiredStep ==
  ASSUME TypeOK, Shape, Kept, Retired, [Next]_vars
  PROVE  Retired'
<1>1. ASSUME NEW r \in Requests, IssueEnd(r), issued' # issued
      PROVE  Retired'
  <2>0. /\ issued \in Nat /\ 1..issued' = (1..issued) \cup {issued + 1} /\ now' = now
        /\ req[r].email \in [box : Mailboxes, form : {Plain}]
        /\ code'[issued + 1].email = req[r].email
    <3>1. code'[issued + 1] = [email |-> req[r].email, created |-> now,
                              attempts |-> 0, used |-> FALSE]
      BY <1>1, IssueEffect
    <3>2. code'[issued + 1].email = req[r].email
      BY <3>1
    <3>3. issued \in Nat /\ 1..issued' = (1..issued) \cup {issued + 1} /\ now' = now
      BY <1>1, IssueEffect
    <3>4. req[r].email \in [box : Mailboxes, form : {Plain}]
      BY <1>1, IssueEffect
    <3> QED BY <3>2, <3>3, <3>4
  <2>a. \A c \in 1..issued :
          /\ code'[c].email = code[c].email
          /\ code'[c].created = code[c].created
          /\ code[c].used = TRUE => code'[c].used = TRUE
          /\ Live(c) /\ code[c].email = req[r].email => code'[c].used = TRUE
    BY <1>1, IssueEffect
  <2> DEFINE e == req[r].email
  <2>1. /\ issued \in Nat /\ 1..issued' = (1..issued) \cup {issued + 1} /\ now' = now
        /\ e \in [box : Mailboxes, form : {Plain}]
        /\ code'[issued + 1].email = e
        /\ \A c \in 1..issued :
             /\ code'[c].email = code[c].email
             /\ code'[c].created = code[c].created
             /\ code[c].used = TRUE => code'[c].used = TRUE
             /\ Live(c) /\ code[c].email = e => code'[c].used = TRUE
    BY <2>0, <2>a
  <2> HIDE DEF e
  <2> SUFFICES ASSUME NEW c \in 1..issued', NEW d \in 1..issued', c < d,
                      code'[c].email.box = code'[d].email.box
               PROVE  code'[c].used = TRUE \/ code'[c].created + Expiry <= now'
    BY DEF Retired
  <2>2. c \in 1..issued
    BY <2>1
  <2>3. CASE d \in 1..issued
    BY <2>1, <2>2, <2>3 DEF Retired
  <2>4. CASE d = issued + 1
    <3>1. code[c].email = e
      <4>1. code[c].email \in [box : Mailboxes, form : {Plain}] /\ code[c].email.box = e.box
        BY <2>1, <2>2, <2>4 DEF Shape
      <4> QED BY <2>1, <4>1
    <3>2. CASE Live(c)
      BY <2>1, <2>2, <3>1, <3>2
    <3>3. CASE ~Live(c)
      <4>1. code[c].created \in Nat /\ now \in Nat
        BY <2>2, IssuedIds, RowFields DEF TypeOK
      <4>3. code[c].used \in BOOLEAN
        BY <2>2, IssuedIds, RowFields
      <4>2. code[c].used = TRUE \/ code[c].created + Expiry <= now
        BY <2>2, <3>3, <4>1, <4>3 DEF Live, Unexpired, Kept
      <4> QED BY <2>1, <2>2, <4>2
    <3> QED BY <3>2, <3>3
  <2> QED BY <2>1, <2>3, <2>4
<1>2. ASSUME NEW r \in Requests, IssueEnd(r), issued' = issued
      PROVE  Retired'
  <2>1. UNCHANGED <<code, issued, now>>
    BY <1>2 DEF IssueEnd, TypeOK
  <2> QED BY <2>1 DEF Retired
<1>3. ASSUME \A r \in Requests : ~IssueEnd(r)
      PROVE  Retired'
  <2>1. Settled /\ now' >= now /\ now' \in Nat /\ now \in Nat
    BY <1>3, OtherStepsSettled DEF TypeOK
  <2>2. \A c \in 1..issued : /\ code'[c].email = code[c].email
                             /\ code'[c].created = code[c].created
                             /\ code[c].used = TRUE => code'[c].used = TRUE
                             /\ code[c].created \in Nat
    BY <2>1, IssuedIds, RowFields DEF Settled
  <2>3. issued' = issued
    BY <2>1 DEF Settled
  <2> SUFFICES ASSUME NEW c \in 1..issued, NEW d \in 1..issued, c < d,
                      code[c].email.box = code[d].email.box
               PROVE  code'[c].used = TRUE \/ code'[c].created + Expiry <= now'
    BY <2>2, <2>3 DEF Retired
  <2> QED BY <2>1, <2>2 DEF Retired
<1> QED BY <1>1, <1>2, <1>3

LedgerInv == TypeOK /\ Shape /\ Kept /\ Retired

LEMMA LedgerInvariant == Spec => []LedgerInv
<1>1. Init => LedgerInv
  <2>1. Init => Kept /\ Retired
    BY DEF Init, Kept, Retired
  <2> QED BY <2>1, InitTyped DEF LedgerInv
<1>2. LedgerInv /\ [Next]_vars => LedgerInv'
  BY NextTyped, KeptStep, RetiredStep DEF LedgerInv
<1> QED BY <1>1, <1>2, PTL DEF Spec

LEMMA LedgerOneLive == ASSUME LedgerInv PROVE OneLiveCode
<1> SUFFICES ASSUME NEW c \in rows, NEW d \in rows, Live(c), Live(d),
                    code[c].email.box = code[d].email.box, c < d
             PROVE  FALSE
  BY DEF OneLiveCode, LedgerInv, TypeOK
<1>1. c \in 1..issued /\ d \in 1..issued /\ code[c].created \in Nat /\ now \in Nat
  BY IssuedIds, RowFields DEF LedgerInv, TypeOK
<1> QED BY <1>1 DEF LedgerInv, Retired, Live, Unexpired

(* issue_otp's "At most one live code per address", whatever the number of *)
(* requests, spellings and codes.                                          *)
THEOREM AtMostOneLiveCode == Spec => []OneLiveCode
BY LedgerInvariant, LedgerOneLive, PTL

-----------------------------------------------------------------------------
(* The draw budget. A live code holds MaxAttempts guesses in reserve: the  *)
(* guesses taken on the window's other codes leave that much of the budget *)
(* unspent. issue_otp admits a code only when they do, and no other code   *)
(* of the mailbox accepts guesses while this one is live.                  *)

Reserve ==
  \A c \in 1..issued :
    Live(c) =>
      Cardinality(Tries(IssuedWithin(code[c].email.box) \ {c})) + MaxAttempts <= MaxDraws

LEMMA TriesFinite ==
  ASSUME NEW C
  PROVE  IsFiniteSet(Tries(C)) /\ Cardinality(Tries(C)) \in Nat
<1>1. IsFiniteSet(CodeIds) /\ IsFiniteSet(1..MaxAttempts)
  BY FS_Interval DEF CodeIds
<1>2. IsFiniteSet(CodeIds \X (1..MaxAttempts))
  BY <1>1, FS_Product
<1>3. Tries(C) \in SUBSET (CodeIds \X (1..MaxAttempts))
  BY DEF Tries
<1>4. IsFiniteSet(Tries(C))
  BY <1>2, <1>3, FS_Subset
<1> QED BY <1>4, FS_CardinalityType

LEMMA TriesMonotone ==
  ASSUME NEW C, NEW D, C \subseteq D
  PROVE  Cardinality(Tries(C)) <= Cardinality(Tries(D))
<1>1. Tries(C) \in SUBSET Tries(D)
  BY DEF Tries
<1> QED BY <1>1, TriesFinite, FS_Subset

LEMMA TriesShrink ==
  ASSUME NEW D, NEW T, T \subseteq Tries(D)
  PROVE  Cardinality(T) \in Nat /\ Cardinality(T) <= Cardinality(Tries(D))
<1>1. T \in SUBSET Tries(D)
  OBVIOUS
<1>2. IsFiniteSet(Tries(D))
  BY TriesFinite
<1>3. IsFiniteSet(T) /\ Cardinality(T) <= Cardinality(Tries(D))
  BY <1>1, <1>2, FS_Subset
<1> QED BY <1>3, FS_CardinalityType

LEMMA UnionBound ==
  ASSUME NEW O, NEW S, IsFiniteSet(O), IsFiniteSet(S), NEW T, T \subseteq O \cup S
  PROVE  Cardinality(T) \in Nat /\ Cardinality(T) <= Cardinality(O) + Cardinality(S)
<1>1. IsFiniteSet(O \cap S)
  BY FS_Intersection
<1>2. Cardinality(O \cap S) \in Nat /\ Cardinality(O) \in Nat /\ Cardinality(S) \in Nat
  BY <1>1, FS_CardinalityType
<1>3. IsFiniteSet(O \cup S)
  BY FS_Union
<1>4. Cardinality(O \cup S) = Cardinality(O) + Cardinality(S) - Cardinality(O \cap S)
  BY FS_Union
<1>5. T \in SUBSET (O \cup S)
  OBVIOUS
<1>6. IsFiniteSet(T) /\ Cardinality(T) <= Cardinality(O \cup S)
  BY <1>3, <1>5, FS_Subset
<1>7. Cardinality(T) \in Nat
  BY <1>6, FS_CardinalityType
<1> QED BY <1>2, <1>4, <1>6, <1>7

LEMMA AllGuesses ==
  ASSUME NEW c
  PROVE  IsFiniteSet({c} \X (1..MaxAttempts)) /\ Cardinality({c} \X (1..MaxAttempts)) = MaxAttempts
<1>1. IsFiniteSet({c}) /\ Cardinality({c}) = 1
  BY FS_Singleton
<1>2. IsFiniteSet(1..MaxAttempts) /\ Cardinality(1..MaxAttempts) = MaxAttempts
  BY FS_Interval
<1>3. /\ IsFiniteSet({c} \X (1..MaxAttempts))
      /\ Cardinality({c} \X (1..MaxAttempts)) = Cardinality({c}) * Cardinality(1..MaxAttempts)
  BY <1>1, <1>2, FS_Product
<1> QED BY <1>1, <1>2, <1>3

LEMMA ReserveToBudget ==
  ASSUME LedgerInv, Reserve, NEW c \in 1..issued, Live(c),
         NEW T, T \subseteq Tries(IssuedWithin(code[c].email.box) \ {c}) \cup ({c} \X (1..MaxAttempts))
  PROVE  Cardinality(T) <= MaxDraws
<1> DEFINE O == Tries(IssuedWithin(code[c].email.box) \ {c})
           S == {c} \X (1..MaxAttempts)
<1>1. IsFiniteSet(O) /\ Cardinality(O) \in Nat
  BY TriesFinite
<1>2. IsFiniteSet(S) /\ Cardinality(S) = MaxAttempts
  BY AllGuesses
<1>3. Cardinality(O) + MaxAttempts <= MaxDraws
  BY DEF Reserve
<1>4. T \subseteq O \cup S
  OBVIOUS
<1> HIDE DEF O, S
<1>5. Cardinality(T) \in Nat /\ Cardinality(T) <= Cardinality(O) + Cardinality(S)
  BY <1>1, <1>2, <1>4, UnionBound
<1> QED BY <1>1, <1>2, <1>3, <1>5

(* The rows the limit reads are the codes of the window: the addresses of  *)
(* one mailbox are one address, and no row of the window was deleted.      *)
LEMMA LimitReadsTheWindow ==
  ASSUME LedgerInv, NEW e \in [box : Mailboxes, form : {Plain}]
  PROVE  IssuedWithin(e.box) \subseteq RecentCodes(e)
<1> SUFFICES ASSUME NEW c \in IssuedWithin(e.box) PROVE c \in RecentCodes(e)
  OBVIOUS
<1>1. /\ c \in 1..issued /\ code[c].email.box = e.box
      /\ code[c].created >= now - Window /\ code[c].created \in Nat /\ now \in Nat
  BY IssuedIds, RowFields DEF IssuedWithin, LedgerInv, TypeOK
<1>2. code[c].email = e
  <2>1. code[c].email \in [box : Mailboxes, form : {Plain}]
    BY <1>1 DEF LedgerInv, Shape
  <2> QED BY <1>1, <2>1
<1>3. c \in rows
  BY <1>1, RetentionAssumption DEF LedgerInv, Kept
<1> QED BY <1>1, <1>2, <1>3 DEF RecentCodes

(* What a step has to leave alone for a count over C to be at most the    *)
(* count there was over D.                                                 *)
LEMMA PairsShrink ==
  ASSUME NEW C, NEW D, \A c \in CodeIds : c \in C /\ code'[c].attempts > 0 =>
                         c \in D /\ code'[c].attempts <= code[c].attempts,
         TypeOK, TypeOK'
  PROVE  LET T == {p \in CodeIds \X (1..MaxAttempts) : p[1] \in C /\ p[2] <= code'[p[1]].attempts}
         IN  Cardinality(T) \in Nat /\ Cardinality(T) <= Cardinality(Tries(D))
<1> DEFINE T == {p \in CodeIds \X (1..MaxAttempts) : p[1] \in C /\ p[2] <= code'[p[1]].attempts}
<1>1. T \subseteq Tries(D)
  <2> SUFFICES ASSUME NEW c \in CodeIds, NEW n \in 1..MaxAttempts,
                      c \in C, n <= code'[c].attempts
               PROVE  c \in D /\ n <= code[c].attempts
    BY DEF Tries
  <2>1. code[c].attempts \in Nat /\ code'[c].attempts \in Nat
    BY DEF TypeOK, Row
  <2> QED BY <2>1
<1> QED BY <1>1, TriesShrink

(* A step that takes no guess and issues no code.                          *)
LEMMA QuietBudget ==
  ASSUME LedgerInv, TypeOK', DrawsWithinBudget, Reserve,
         Settled, now' >= now, rows' \subseteq rows,
         \A c \in CodeIds : code'[c].attempts = code[c].attempts
  PROVE  DrawsWithinBudget' /\ Reserve'
<1>1. /\ issued' = issued /\ now \in Nat /\ now' \in Nat
      /\ \A c \in 1..issued : /\ code'[c].email = code[c].email
                              /\ code'[c].created = code[c].created
                              /\ code[c].used = TRUE => code'[c].used = TRUE
                              /\ code[c].created \in Nat
                              /\ code[c].used \in BOOLEAN
  BY IssuedIds, RowFields DEF Settled, LedgerInv, TypeOK
<1>2. \A m : IssuedWithin(m)' \subseteq IssuedWithin(m)
  BY <1>1 DEF IssuedWithin
<1>3. \A c \in 1..issued : Live(c)' => Live(c)
  BY <1>1 DEF Live, Unexpired
<1>4. \A c \in CodeIds : code'[c].attempts <= code[c].attempts
  BY RowFields DEF LedgerInv
<1>5. ASSUME NEW m \in Mailboxes
      PROVE  Cardinality(Tries(IssuedWithin(m))') <= MaxDraws
  <2>1. /\ Cardinality(Tries(IssuedWithin(m))') \in Nat
        /\ Cardinality(Tries(IssuedWithin(m))') <= Cardinality(Tries(IssuedWithin(m)))
    BY <1>2, <1>4, PairsShrink DEF Tries, LedgerInv
  <2> QED BY <2>1, TriesFinite DEF DrawsWithinBudget
<1>a. ASSUME NEW m, NEW X
      PROVE  /\ Cardinality(Tries(IssuedWithin(m) \ X)') \in Nat
             /\ Cardinality(Tries(IssuedWithin(m) \ X)') <= Cardinality(Tries(IssuedWithin(m) \ X))
  <2>1. \A d \in CodeIds : d \in (IssuedWithin(m) \ X)' =>
          d \in IssuedWithin(m) \ X /\ code'[d].attempts <= code[d].attempts
    BY <1>2, <1>4
  <2>2. \A d \in CodeIds : code[d].attempts \in Nat /\ code'[d].attempts \in Nat
    BY RowFields DEF LedgerInv
  <2>3. Tries(IssuedWithin(m) \ X)' \subseteq Tries(IssuedWithin(m) \ X)
    BY <2>1, <2>2 DEF Tries
  <2> QED BY <2>3, TriesShrink
<1>6. ASSUME NEW c \in 1..issued, Live(c)', NEW m, m = code[c].email.box
      PROVE  Cardinality(Tries(IssuedWithin(m) \ {c})') + MaxAttempts <= MaxDraws
  <2>1. /\ Cardinality(Tries(IssuedWithin(m) \ {c})') \in Nat
        /\ Cardinality(Tries(IssuedWithin(m) \ {c})') <= Cardinality(Tries(IssuedWithin(m) \ {c}))
    BY <1>a
  <2>2. Cardinality(Tries(IssuedWithin(m) \ {c})) + MaxAttempts <= MaxDraws
    BY <1>3, <1>6 DEF Reserve
  <2> QED BY <2>1, <2>2, TriesFinite
<1>7. Reserve'
  <2> SUFFICES ASSUME NEW c \in 1..issued, Live(c)'
               PROVE  Cardinality(Tries(IssuedWithin(code[c].email.box) \ {c})') + MaxAttempts <= MaxDraws
    BY <1>1 DEF Reserve
  <2>1. PICK m : m = code[c].email.box /\ m = code'[c].email.box
    BY <1>1
  <2>2. Cardinality(Tries(IssuedWithin(m) \ {c})') + MaxAttempts <= MaxDraws
    BY <1>6, <2>1
  <2> QED BY <2>1, <2>2
<1> QED BY <1>5, <1>7 DEF DrawsWithinBudget

LEMMA GuessBudget ==
  ASSUME LedgerInv, TypeOK', DrawsWithinBudget, Reserve,
         NEW c \in 1..issued, ClaimAttempt(c), UNCHANGED <<now, rows, issued>>
  PROVE  DrawsWithinBudget' /\ Reserve'
<1>1. c \in CodeIds /\ Live(c) /\ code' = [code EXCEPT ![c].attempts = @ + 1]
  BY IssuedIds DEF ClaimAttempt, Guessable, LedgerInv
<1>2. \A d \in CodeIds : /\ code'[d].email = code[d].email
                         /\ code'[d].created = code[d].created
                         /\ code'[d].used = code[d].used
                         /\ d # c => code'[d].attempts = code[d].attempts
                         /\ code'[d].attempts \in 0..MaxAttempts
  BY <1>1 DEF LedgerInv, TypeOK, Row
<1>3. \A m : IssuedWithin(m)' = IssuedWithin(m)
  BY <1>2, IssuedIds DEF IssuedWithin, LedgerInv
<1>4. \A d \in 1..issued : Live(d)' => Live(d)
  BY <1>2, IssuedIds DEF Live, Unexpired, LedgerInv
<1>5. ASSUME NEW m, NEW X, c \notin IssuedWithin(m) \ X
      PROVE  /\ Cardinality(Tries(IssuedWithin(m) \ X)') \in Nat
             /\ Cardinality(Tries(IssuedWithin(m) \ X)') <= Cardinality(Tries(IssuedWithin(m) \ X))
  <2>1. \A d \in CodeIds : d \in (IssuedWithin(m) \ X)' =>
          d \in IssuedWithin(m) \ X /\ code'[d].attempts <= code[d].attempts
    BY <1>2, <1>3, <1>5, RowFields DEF LedgerInv
  <2> QED BY <2>1, PairsShrink DEF Tries, LedgerInv
<1>6. ASSUME NEW m \in Mailboxes
      PROVE  Cardinality(Tries(IssuedWithin(m))') <= MaxDraws
  <2>1. CASE c \in IssuedWithin(m)
    <3>1. m = code[c].email.box
      BY <2>1 DEF IssuedWithin
    <3>2. Tries(IssuedWithin(m))' \subseteq Tries(IssuedWithin(m) \ {c}) \cup ({c} \X (1..MaxAttempts))
      BY <1>2, <1>3 DEF Tries
    <3> QED BY <1>1, <3>1, <3>2, ReserveToBudget
  <2>2. CASE c \notin IssuedWithin(m)
    <3>1. IssuedWithin(m) \ {} = IssuedWithin(m) /\ (IssuedWithin(m) \ {})' = IssuedWithin(m)'
      OBVIOUS
    <3>2. /\ Cardinality(Tries(IssuedWithin(m))') \in Nat
          /\ Cardinality(Tries(IssuedWithin(m))') <= Cardinality(Tries(IssuedWithin(m)))
      BY <1>5, <2>2, <3>1
    <3> QED BY <3>2, TriesFinite DEF DrawsWithinBudget
  <2> QED BY <2>1, <2>2
<1>7. Reserve'
  <2> SUFFICES ASSUME NEW d \in 1..issued, Live(d)'
               PROVE  Cardinality(Tries(IssuedWithin(code[d].email.box) \ {d})') + MaxAttempts <= MaxDraws
    BY DEF Reserve
  <2>1. PICK m : m = code[d].email.box /\ m = code'[d].email.box
    BY <1>2, IssuedIds DEF LedgerInv
  <2>2. c \notin IssuedWithin(m) \ {d}
    <3>1. Live(c) /\ Live(d)
      BY <1>1, <1>4
    <3>2. code[c].email.box = m => c = d
      BY <2>1, <3>1, LedgerOneLive DEF OneLiveCode, Live
    <3> QED BY <3>2 DEF IssuedWithin
  <2>3. Cardinality(Tries(IssuedWithin(m) \ {d})) + MaxAttempts <= MaxDraws
    BY <1>4, <2>1 DEF Reserve
  <2>4. /\ Cardinality(Tries(IssuedWithin(m) \ {d})') \in Nat
        /\ Cardinality(Tries(IssuedWithin(m) \ {d})') <= Cardinality(Tries(IssuedWithin(m) \ {d}))
    BY <1>5, <2>2
  <2>5. Cardinality(Tries(IssuedWithin(m) \ {d})') + MaxAttempts <= MaxDraws
    BY <2>3, <2>4, TriesFinite
  <2> QED BY <2>1, <2>5
<1> QED BY <1>6, <1>7 DEF DrawsWithinBudget

LEMMA IssueBudget ==
  ASSUME LedgerInv, TypeOK', DrawsWithinBudget, Reserve,
         NEW r \in Requests, IssueEnd(r), issued' # issued
  PROVE  DrawsWithinBudget' /\ Reserve'
<1>1. PICK e, n : e = req[r].email /\ n = issued + 1
  OBVIOUS
<1>2. ~LimitReached(e) /\ e \in [box : Mailboxes, form : {Plain}]
  BY <1>1, IssueEffect DEF LedgerInv
<1>3. /\ issued' = n /\ n \in CodeIds /\ now' = now
      /\ issued \in Nat /\ 1..issued' = (1..issued) \cup {n} /\ n \notin 1..issued
  <2>1. /\ issued' = issued + 1 /\ issued + 1 \in CodeIds /\ now' = now
        /\ issued \in Nat /\ 1..issued' = (1..issued) \cup {issued + 1}
    BY IssueEffect DEF LedgerInv
  <2> QED BY <1>1, <2>1
<1>4. code'[n] = [email |-> e, created |-> now, attempts |-> 0, used |-> FALSE]
  BY <1>1, IssueEffect DEF LedgerInv
<1>5. code'[n].attempts = 0 /\ code'[n].email = e
  BY <1>4
<1>6. \A c \in 1..issued : /\ code'[c].email = code[c].email
                           /\ code'[c].created = code[c].created
                           /\ code'[c].attempts = code[c].attempts
                           /\ c \in CodeIds /\ code[c].attempts \in Nat
  <2>1. \A c \in 1..issued : /\ code'[c].email = code[c].email
                             /\ code'[c].created = code[c].created
                             /\ code'[c].attempts = code[c].attempts
    BY IssueEffect DEF LedgerInv
  <2>2. \A c \in 1..issued : c \in CodeIds /\ code[c].attempts \in Nat
    BY IssuedIds, RowFields DEF LedgerInv
  <2> QED BY <2>1, <2>2
<1>7. \A c \in 1..issued : /\ code[c].used = TRUE => code'[c].used = TRUE
                           /\ Live(c) /\ code[c].email = e => code'[c].used = TRUE
  BY <1>1, IssueEffect DEF LedgerInv
<1>8. rows' = rows \cup {n} /\ rows \subseteq 1..issued
  BY <1>1, IssueEffect DEF LedgerInv, TypeOK
<1>9. \A m : IssuedWithin(m)' \ {n} = IssuedWithin(m)
  BY <1>3, <1>6 DEF IssuedWithin
<1>10. ASSUME NEW m, NEW X
       PROVE  /\ Cardinality(Tries(IssuedWithin(m) \ X)') \in Nat
              /\ Cardinality(Tries(IssuedWithin(m) \ X)') <= Cardinality(Tries(IssuedWithin(m) \ X))
  <2>1. \A d \in CodeIds : d \in (IssuedWithin(m) \ X)' /\ code'[d].attempts > 0 =>
          d \in IssuedWithin(m) \ X /\ code'[d].attempts <= code[d].attempts
    <3> SUFFICES ASSUME NEW d \in CodeIds, d \in (IssuedWithin(m) \ X)', code'[d].attempts > 0
                 PROVE  d \in IssuedWithin(m) \ X /\ code'[d].attempts <= code[d].attempts
      OBVIOUS
    <3>1. d # n
      BY <1>5
    <3>2. d \in IssuedWithin(m) \ X /\ d \in 1..issued
      BY <1>9, <3>1 DEF IssuedWithin
    <3> QED BY <1>6, <3>2
  <2> QED BY <2>1, PairsShrink DEF Tries, LedgerInv
<1>11. ASSUME NEW m \in Mailboxes
       PROVE  Cardinality(Tries(IssuedWithin(m))') <= MaxDraws
  <2>1. IssuedWithin(m) \ {} = IssuedWithin(m) /\ (IssuedWithin(m) \ {})' = IssuedWithin(m)'
    OBVIOUS
  <2>2. /\ Cardinality(Tries(IssuedWithin(m))') \in Nat
        /\ Cardinality(Tries(IssuedWithin(m))') <= Cardinality(Tries(IssuedWithin(m)))
    BY <1>10, <2>1
  <2> QED BY <2>2, TriesFinite DEF DrawsWithinBudget
<1>12. Reserve'
  <2> SUFFICES ASSUME NEW d \in 1..issued', Live(d)'
               PROVE  Cardinality(Tries(IssuedWithin(code[d].email.box) \ {d})') + MaxAttempts <= MaxDraws
    BY DEF Reserve
  <2>1. PICK m : m = code'[d].email.box
    OBVIOUS
  <2>2. Cardinality(Tries(IssuedWithin(m) \ {d})) + MaxAttempts <= MaxDraws
    <3>1. CASE d = n
      <4>1. m = e.box
        BY <1>5, <2>1, <3>1
      <4>2. IssuedWithin(m) \ {d} \subseteq RecentCodes(e)
        BY <1>2, <4>1, LimitReadsTheWindow
      <4>3. Cardinality(Tries(IssuedWithin(m) \ {d})) <= Cardinality(Tries(RecentCodes(e)))
        BY <4>2, TriesMonotone
      <4>4. Cardinality(Tries(RecentCodes(e))) + MaxAttempts <= MaxDraws
        BY <1>2, TriesFinite DEF LimitReached, RecentMisses
      <4> QED BY <4>3, <4>4, TriesFinite
    <3>2. CASE d # n
      <4>1. d \in 1..issued /\ code'[d].email = code[d].email
        BY <1>3, <1>6, <3>2
      <4>2. Live(d)
        BY <1>3, <1>6, <1>7, <1>8, <3>2, <4>1 DEF Live, Unexpired
      <4> QED BY <2>1, <4>1, <4>2 DEF Reserve
    <3> QED BY <3>1, <3>2
  <2>3. /\ Cardinality(Tries(IssuedWithin(m) \ {d})') \in Nat
        /\ Cardinality(Tries(IssuedWithin(m) \ {d})') <= Cardinality(Tries(IssuedWithin(m) \ {d}))
    BY <1>10
  <2>4. Cardinality(Tries(IssuedWithin(m) \ {d})') + MaxAttempts <= MaxDraws
    BY <2>2, <2>3, TriesFinite
  <2> QED BY <2>1, <2>4
<1> QED BY <1>11, <1>12 DEF DrawsWithinBudget

LEMMA BudgetStep ==
  ASSUME LedgerInv, TypeOK', DrawsWithinBudget, Reserve, [Next]_vars
  PROVE  DrawsWithinBudget' /\ Reserve'
<1> USE DEF LedgerInv
<1>1. CASE \A r \in Requests : ~IssueEnd(r)
  <2>1. Settled /\ now' >= now
    BY <1>1, OtherStepsSettled
  <2>2. ASSUME NEW r \in Requests, NEW s \in Spellings, VerifyBegin(r, s), code' # code
        PROVE  DrawsWithinBudget' /\ Reserve'
    <3>1. PICK c \in LatestValid(Normalize(s)) : ClaimAttempt(c)
      BY <2>2 DEF VerifyBegin
    <3>2. c \in 1..issued
      BY DEF LatestValid, TypeOK
    <3> QED BY <2>2, <3>1, <3>2, GuessBudget DEF VerifyBegin
  <2>3. CASE /\ rows' \subseteq rows
             /\ \A c \in CodeIds : code'[c].attempts = code[c].attempts
    BY <2>1, <2>3, QuietBudget
  <2>4. ASSUME NEW r \in Requests, VerifySucceeds(r)
        PROVE  rows' = rows /\ \A c \in CodeIds : code'[c].attempts = code[c].attempts
    BY <2>4 DEF VerifySucceeds, TypeOK, Row
  <2>5. ASSUME NEW r \in Requests, NEW s \in Spellings, VerifyBegin(r, s), code' = code
        PROVE  rows' \subseteq rows /\ \A c \in CodeIds : code'[c].attempts = code[c].attempts
    BY <2>5 DEF VerifyBegin
  <2>6. ASSUME \/ \E r \in Requests : VerifyFails(r) \/ \E s \in Spellings : IssueBegin(r, s)
               \/ CleanupExpired \/ Tick \/ Restart \/ UNCHANGED vars
        PROVE  rows' \subseteq rows /\ \A c \in CodeIds : code'[c].attempts = code[c].attempts
    BY <2>6 DEF VerifyFails, IssueBegin, CleanupExpired, Tick, Restart, vars
  <2> QED BY <1>1, <2>2, <2>3, <2>4, <2>5, <2>6 DEF Next
<1>2. ASSUME NEW r \in Requests, IssueEnd(r), issued' # issued
      PROVE  DrawsWithinBudget' /\ Reserve'
  BY <1>2, IssueBudget
<1>3. ASSUME NEW r \in Requests, IssueEnd(r), issued' = issued
      PROVE  DrawsWithinBudget' /\ Reserve'
  <2>1. UNCHANGED <<code, issued, now, rows>>
    BY <1>3 DEF IssueEnd, TypeOK
  <2>2. Settled /\ now' >= now
    BY <2>1 DEF Settled, TypeOK
  <2> QED BY <2>1, <2>2, QuietBudget
<1> QED BY <1>1, <1>2, <1>3

(* The limit read before the hash is awaited, and read again after it,     *)
(* keeps every window of issue times within MaxDraws guesses.              *)
THEOREM WindowNeverOverspent == Spec => []DrawsWithinBudget
<1>1. Init => DrawsWithinBudget /\ Reserve
  <2> SUFFICES ASSUME Init PROVE DrawsWithinBudget /\ Reserve
    OBVIOUS
  <2>1. \A m \in Mailboxes : Tries(IssuedWithin(m)) = {}
    BY DEF Init, IssuedWithin, Tries
  <2>2. DrawsWithinBudget
    <3>1. Cardinality({}) = 0 /\ MaxDraws >= 0
      BY FS_EmptySet, NumbersAssumption
    <3> QED BY <2>1, <3>1 DEF DrawsWithinBudget
  <2>3. Reserve
    <3>1. 1..issued = {}
      BY DEF Init
    <3> QED BY <3>1 DEF Reserve
  <2> QED BY <2>2, <2>3
<1>2. LedgerInv /\ LedgerInv' /\ (DrawsWithinBudget /\ Reserve) /\ [Next]_vars
        => (DrawsWithinBudget /\ Reserve)'
  <2> SUFFICES ASSUME LedgerInv, LedgerInv', DrawsWithinBudget, Reserve, [Next]_vars
               PROVE  (DrawsWithinBudget /\ Reserve)'
    OBVIOUS
  <2>1. TypeOK'
    BY DEF LedgerInv
  <2> QED BY <2>1, BudgetStep
<1> QED BY <1>1, <1>2, LedgerInvariant, PTL DEF Spec

-----------------------------------------------------------------------------
(* Sign-ins. A code that signed somebody in is used, and a guess was taken *)
(* on it while it was live.                                                *)

Backed ==
  /\ \A c \in CodeIds : signins[c] = 0 \/ (signins[c] = 1 /\ code[c].used = TRUE)
  /\ \A c \in CodeIds : signins[c] = 1 => code[c].attempts > 0
  /\ \A c \in CodeIds : code[c].attempts > 0 =>
       \E d \in draws : d.code = c /\ d.at < code[c].created + Expiry

LEMMA IssueRows ==
  ASSUME TypeOK, Shape, NEW r \in Requests, IssueEnd(r)
  PROVE  /\ UNCHANGED <<signins, draws>>
         /\ \A c \in CodeIds :
              /\ c # issued + 1 \/ issued' = issued =>
                   /\ code'[c].email = code[c].email
                   /\ code'[c].created = code[c].created
                   /\ code'[c].attempts = code[c].attempts
                   /\ code[c].used = TRUE => code'[c].used = TRUE
              /\ c = issued + 1 /\ issued' # issued =>
                   code'[c].attempts = 0 /\ code'[c].email = req[r].email
<1>1. CASE UNCHANGED <<rows, code, issued>>
  BY <1>1 DEF IssueEnd
<1>2. CASE /\ issued < MaxCodes
           /\ code' = [Supersede(req[r].email) EXCEPT ![issued + 1] =
                [email |-> req[r].email, created |-> now, attempts |-> 0, used |-> FALSE]]
           /\ issued' = issued + 1
  <2>1. issued' # issued /\ issued + 1 \in CodeIds
    BY <1>2 DEF TypeOK, CodeIds
  <2> SUFFICES ASSUME NEW c \in CodeIds
               PROVE  /\ c # issued + 1 =>
                           /\ code'[c].email = code[c].email
                           /\ code'[c].created = code[c].created
                           /\ code'[c].attempts = code[c].attempts
                           /\ code[c].used = TRUE => code'[c].used = TRUE
                      /\ c = issued + 1 =>
                           code'[c].attempts = 0 /\ code'[c].email = req[r].email
    BY <2>1 DEF IssueEnd
  <2>2. code[c] \in Row
    BY DEF TypeOK
  <2>3. CASE c = issued + 1
    BY <1>2, <2>1, <2>3 DEF Supersede
  <2>4. CASE c # issued + 1
    <3>1. code'[c] = code[c] \/ code'[c] = [code[c] EXCEPT !.used = TRUE]
      BY <1>2, <2>4 DEF Supersede
    <3> QED BY <2>2, <2>4, <3>1 DEF Row
  <2> QED BY <2>3, <2>4
<1> QED BY <1>1, <1>2 DEF IssueEnd

LEMMA BackedStep ==
  ASSUME LedgerInv, LedgerInv', Backed, [Next]_vars
  PROVE  Backed'
<1> USE DEF LedgerInv
<1>1. ASSUME NEW r \in Requests, IssueEnd(r)
      PROVE  Backed'
  <2>1. UNCHANGED <<signins, draws>>
    BY <1>1, IssueRows
  <2> SUFFICES ASSUME NEW c \in CodeIds
               PROVE  /\ signins[c] = 0 \/ (signins[c] = 1 /\ code'[c].used = TRUE)
                      /\ signins[c] = 1 => code'[c].attempts > 0
                      /\ code'[c].attempts > 0 =>
                           \E d \in draws : d.code = c /\ d.at < code'[c].created + Expiry
    BY <2>1 DEF Backed
  <2>2. CASE c # issued + 1 \/ issued' = issued
    <3>1. /\ code'[c].created = code[c].created
          /\ code'[c].attempts = code[c].attempts
          /\ code[c].used = TRUE => code'[c].used = TRUE
      BY <1>1, <2>2, IssueRows
    <3> QED BY <3>1 DEF Backed
  <2>3. CASE c = issued + 1 /\ issued' # issued
    <3>1. code'[c].attempts = 0
      BY <1>1, <2>3, IssueRows
    <3>2. c > issued
      BY <2>3 DEF TypeOK
    <3>3. code[c].attempts = 0
      BY <3>2 DEF Shape
    <3>4. signins[c] = 0
      BY <3>3 DEF Backed
    <3> QED BY <3>1, <3>4
  <2> QED BY <2>2, <2>3
<1>2. ASSUME NEW r \in Requests, NEW s \in Spellings, VerifyBegin(r, s)
      PROVE  Backed'
  <2>1. CASE UNCHANGED <<code, draws>>
    BY <1>2, <2>1 DEF VerifyBegin, Backed
  <2>2. ASSUME NEW c \in LatestValid(Normalize(s)), ClaimAttempt(c)
        PROVE  Backed'
    <3>1. c \in CodeIds /\ now < code[c].created + Expiry
      BY <2>2, IssuedIds DEF LatestValid, ClaimAttempt, Guessable, Live, Unexpired, TypeOK
    <3>2. \A d \in CodeIds : /\ code'[d].created = code[d].created
                             /\ code'[d].used = code[d].used
                             /\ d # c => code'[d].attempts = code[d].attempts
      BY <2>2, <3>1 DEF ClaimAttempt, TypeOK, Row
    <3>3. code'[c].attempts > 0
      BY <2>2, <3>1 DEF ClaimAttempt, TypeOK, Row
    <3>4. draws \subseteq draws'
      BY <2>2 DEF ClaimAttempt
    <3>5. \E d \in draws' : d.code = c /\ d.at < code'[c].created + Expiry
      <4>1. [code |-> c, nth |-> code[c].attempts + 1, at |-> now] \in draws'
        BY <2>2 DEF ClaimAttempt
      <4> QED BY <3>1, <3>2, <4>1
    <3>6. \A d \in CodeIds : signins'[d] = signins[d]
      BY <1>2 DEF VerifyBegin
    <3>7. \A d \in CodeIds : signins'[d] = 0 \/ (signins'[d] = 1 /\ code'[d].used = TRUE)
      BY <3>2, <3>6 DEF Backed
    <3>8. \A d \in CodeIds : signins'[d] = 1 => code'[d].attempts > 0
      BY <3>2, <3>3, <3>6 DEF Backed
    <3>9. \A d \in CodeIds : code'[d].attempts > 0 =>
            \E x \in draws' : x.code = d /\ x.at < code'[d].created + Expiry
      BY <3>2, <3>4, <3>5 DEF Backed
    <3> QED BY <3>7, <3>8, <3>9 DEF Backed
  <2> QED BY <1>2, <2>1, <2>2 DEF VerifyBegin
<1>3. ASSUME NEW r \in Requests, VerifySucceeds(r)
      PROVE  Backed'
  <2>1. PICK c \in CodeIds : /\ c = req[r].code /\ code[c].attempts > 0
                             /\ code' = [code EXCEPT ![c].used = TRUE]
                             /\ signins' = [signins EXCEPT ![c] = @ + 1]
                             /\ draws' = draws /\ ~code[c].used
    BY <1>3, IssuedIds DEF VerifySucceeds, CanClaimUse, Shape
  <2>2. signins[c] = 0
    BY <2>1 DEF Backed
  <2>3. \A d \in CodeIds : /\ code'[d].created = code[d].created
                           /\ code'[d].attempts = code[d].attempts
                           /\ code[d].used = TRUE => code'[d].used = TRUE
                           /\ d # c => signins'[d] = signins[d]
    BY <2>1 DEF TypeOK, Row
  <2>4. code'[c].used = TRUE /\ signins'[c] = 1
    BY <2>1, <2>2 DEF TypeOK, Row
  <2> QED BY <2>1, <2>3, <2>4 DEF Backed
<1>4. ASSUME \/ \E r \in Requests : VerifyFails(r) \/ \E s \in Spellings : IssueBegin(r, s)
             \/ CleanupExpired \/ Tick \/ Restart \/ UNCHANGED vars
      PROVE  Backed'
  <2>1. UNCHANGED <<code, signins, draws>>
    BY <1>4 DEF VerifyFails, IssueBegin, CleanupExpired, Tick, Restart, vars
  <2> QED BY <2>1 DEF Backed
<1> QED BY <1>1, <1>2, <1>3, <1>4 DEF Next

LEMMA BackedInvariant == Spec => []Backed
<1>1. Init => Backed
  BY DEF Init, Backed, CodeIds
<1>2. LedgerInv /\ LedgerInv' /\ Backed /\ [Next]_vars => Backed'
  BY BackedStep
<1> QED BY <1>1, <1>2, LedgerInvariant, PTL DEF Spec

(* claim_use: a code signs in once, on a guess taken while it was live,    *)
(* though every right verification passes its comparison.                  *)
THEOREM SignInsAreClaimed == Spec => []SignInIsClaimed
<1>1. LedgerInv /\ Backed => SignInIsClaimed
  BY DEF Backed, SignInIsClaimed
<1> QED BY <1>1, LedgerInvariant, BackedInvariant, PTL

-----------------------------------------------------------------------------
(* Guesses by the time they are taken. Every guess is recorded once, on a  *)
(* code issued by then, and none is taken on a code after the next one of  *)
(* its mailbox is issued: so of the codes issued before a window only the  *)
(* newest is guessed at inside it.                                         *)

Recorded ==
  /\ \A d \in draws : /\ d.code \in 1..issued
                      /\ d.nth <= code[d.code].attempts
                      /\ d.at <= now
  /\ \A d, e \in draws : d.code = e.code /\ d.nth = e.nth => d = e
GuessedInTurn ==
  \A d \in draws : \A c \in 1..issued :
    c > d.code /\ code[c].email.box = code[d.code].email.box => d.at <= code[c].created

LEMMA DrawFields ==
  ASSUME TypeOK, NEW d \in draws
  PROVE  d.code \in CodeIds /\ d.nth \in 1..MaxAttempts /\ d.at \in Nat
BY DEF TypeOK

(* A step that takes no guess, issues no code and turns no clock back.     *)
LEMMA QuietDraws ==
  ASSUME LedgerInv, Recorded, GuessedInTurn,
         Settled, now' >= now, now' \in Nat, draws' = draws,
         \A c \in CodeIds : code'[c].attempts = code[c].attempts
  PROVE  Recorded' /\ GuessedInTurn'
<1>1. issued' = issued /\ 1..issued' = 1..issued /\ now \in Nat
  BY DEF Settled, LedgerInv, TypeOK
<1>2. \A c \in 1..issued : /\ code'[c].email = code[c].email
                           /\ code'[c].created = code[c].created
                           /\ code'[c].attempts = code[c].attempts
  BY IssuedIds DEF Settled, LedgerInv
<1>3. \A d \in draws : d.code \in 1..issued /\ d.at \in Nat
  BY DrawFields DEF Recorded, LedgerInv
<1>4. Recorded'
  BY <1>1, <1>2, <1>3 DEF Recorded
<1>5. GuessedInTurn'
  BY <1>1, <1>2, <1>3 DEF GuessedInTurn
<1> QED BY <1>4, <1>5

(* A code is issued now, and every guess was taken by now.                 *)
LEMMA IssueDraws ==
  ASSUME LedgerInv, Recorded, GuessedInTurn,
         NEW r \in Requests, IssueEnd(r), issued' # issued
  PROVE  Recorded' /\ GuessedInTurn'
<1>1. PICK n : n = issued + 1
  OBVIOUS
<1>2. /\ issued' = n /\ n \in Nat /\ now' = now /\ draws' = draws
      /\ issued \in Nat /\ 1..issued' = (1..issued) \cup {n} /\ n \notin 1..issued
  <2>1. UNCHANGED draws
    BY IssueRows DEF LedgerInv
  <2>2. /\ issued' = issued + 1 /\ issued \in Nat /\ now' = now
        /\ 1..issued' = (1..issued) \cup {issued + 1}
    BY IssueEffect DEF LedgerInv
  <2> QED BY <1>1, <2>1, <2>2
<1>3. code'[n].created = now
  <2>1. code'[issued + 1] = [email |-> req[r].email, created |-> now,
                             attempts |-> 0, used |-> FALSE]
    BY IssueEffect DEF LedgerInv
  <2> QED BY <1>1, <2>1
<1>4. \A c \in 1..issued : /\ code'[c].email = code[c].email
                           /\ code'[c].created = code[c].created
                           /\ code'[c].attempts = code[c].attempts
  BY IssueEffect DEF LedgerInv
<1>5. \A d \in draws : d.code \in 1..issued /\ d.at <= now
  BY DEF Recorded
<1>6. Recorded'
  BY <1>2, <1>4, <1>5 DEF Recorded
<1>7. GuessedInTurn'
  <2> SUFFICES ASSUME NEW d \in draws, NEW c \in 1..issued',
                      c > d.code, code'[c].email.box = code'[d.code].email.box
               PROVE  d.at <= code'[c].created
    BY <1>2 DEF GuessedInTurn
  <2>1. CASE c = n
    BY <1>3, <1>5, <2>1
  <2>2. CASE c \in 1..issued
    BY <1>4, <1>5, <2>2 DEF GuessedInTurn
  <2> QED BY <1>2, <2>1, <2>2
<1> QED BY <1>6, <1>7

(* A guess is taken on a live code, the newest of its mailbox.             *)
LEMMA GuessDraws ==
  ASSUME LedgerInv, Recorded, GuessedInTurn,
         NEW c \in 1..issued, ClaimAttempt(c), UNCHANGED <<now, rows, issued>>
  PROVE  Recorded' /\ GuessedInTurn'
<1>1. PICK g : g = [code |-> c, nth |-> code[c].attempts + 1, at |-> now]
  OBVIOUS
<1>2. g.code = c /\ g.nth = code[c].attempts + 1 /\ g.at = now /\ draws' = draws \cup {g}
  BY <1>1 DEF ClaimAttempt
<1>3. c \in CodeIds /\ Live(c) /\ code' = [code EXCEPT ![c].attempts = @ + 1]
  BY IssuedIds DEF ClaimAttempt, Guessable, LedgerInv
<1>4. /\ \A d \in CodeIds : /\ code'[d].email = code[d].email
                            /\ code'[d].created = code[d].created
                            /\ code[d].attempts \in Nat
                            /\ d # c => code'[d].attempts = code[d].attempts
      /\ code'[c].attempts = code[c].attempts + 1
  BY <1>3 DEF LedgerInv, TypeOK, Row
<1>5. issued' = issued /\ now' = now /\ now \in Nat /\ \A d \in 1..issued : d \in CodeIds /\ d \in Nat
  BY IssuedIds DEF LedgerInv, TypeOK
<1>6. \A d \in draws : /\ d.code \in 1..issued /\ d.at <= now /\ d.nth \in Nat /\ d.at \in Nat
                       /\ d.nth <= code[d.code].attempts
  BY DrawFields DEF Recorded, LedgerInv
<1>7. Recorded'
  <2>1. \A d \in draws' : d.code \in 1..issued' /\ d.nth <= code'[d.code].attempts /\ d.at <= now'
    BY <1>2, <1>4, <1>5, <1>6
  <2>2. ASSUME NEW d \in draws', NEW e \in draws', d.code = e.code, d.nth = e.nth
        PROVE  d = e
    <3>1. \A x \in draws : ~(x.code = c /\ x.nth = code[c].attempts + 1)
      BY <1>3, <1>4, <1>6
    <3> QED BY <1>2, <2>2, <3>1 DEF Recorded
  <2> QED BY <2>1, <2>2 DEF Recorded
<1>8. GuessedInTurn'
  <2>1. ASSUME NEW d \in 1..issued, d > c, code[d].email.box = code[c].email.box
        PROVE  FALSE
    <3>1. code[c].used = TRUE \/ code[c].created + Expiry <= now
      BY <1>5, <2>1 DEF LedgerInv, Retired
    <3> QED BY <1>3, <1>5, <3>1, RowFields DEF Live, Unexpired, LedgerInv
  <2>2. ASSUME NEW d \in draws', NEW e \in 1..issued',
               e > d.code, code'[e].email.box = code'[d.code].email.box
        PROVE  d.at <= code'[e].created
    <3>1. CASE d = g
      BY <1>2, <1>4, <1>5, <2>1, <2>2, <3>1
    <3>2. CASE d \in draws
      BY <1>4, <1>5, <1>6, <2>2, <3>2 DEF GuessedInTurn
    <3> QED BY <1>2, <3>1, <3>2
  <2> QED BY <2>2 DEF GuessedInTurn
<1> QED BY <1>7, <1>8

LEMMA DrawsStep ==
  ASSUME LedgerInv, Recorded, GuessedInTurn, [Next]_vars
  PROVE  Recorded' /\ GuessedInTurn'
<1>1. CASE \A r \in Requests : ~IssueEnd(r)
  <2>1. Settled /\ now' >= now /\ now' \in Nat
    BY <1>1, OtherStepsSettled DEF LedgerInv
  <2>2. CASE draws' = draws /\ \A c \in CodeIds : code'[c].attempts = code[c].attempts
    BY <2>1, <2>2, QuietDraws
  <2>3. ASSUME NEW r \in Requests, NEW s \in Spellings, VerifyBegin(r, s)
        PROVE  Recorded' /\ GuessedInTurn'
    <3>1. CASE UNCHANGED <<code, draws>>
      BY <2>2, <3>1
    <3>2. ASSUME NEW c \in LatestValid(Normalize(s)), ClaimAttempt(c)
          PROVE  Recorded' /\ GuessedInTurn'
      <4>1. c \in 1..issued
        BY DEF LatestValid, LedgerInv, TypeOK
      <4> QED BY <2>3, <3>2, <4>1, GuessDraws DEF VerifyBegin
    <3> QED BY <2>3, <3>1, <3>2 DEF VerifyBegin
  <2>4. ASSUME NEW r \in Requests, VerifySucceeds(r)
        PROVE  draws' = draws /\ \A c \in CodeIds : code'[c].attempts = code[c].attempts
    BY <2>4 DEF VerifySucceeds, LedgerInv, TypeOK, Row
  <2>5. ASSUME \/ \E r \in Requests : VerifyFails(r) \/ \E s \in Spellings : IssueBegin(r, s)
               \/ CleanupExpired \/ Tick \/ Restart \/ UNCHANGED vars
        PROVE  draws' = draws /\ \A c \in CodeIds : code'[c].attempts = code[c].attempts
    BY <2>5 DEF VerifyFails, IssueBegin, CleanupExpired, Tick, Restart, vars
  <2> QED BY <1>1, <2>2, <2>3, <2>4, <2>5 DEF Next
<1>2. ASSUME NEW r \in Requests, IssueEnd(r), issued' # issued
      PROVE  Recorded' /\ GuessedInTurn'
  BY <1>2, IssueDraws
<1>3. ASSUME NEW r \in Requests, IssueEnd(r), issued' = issued
      PROVE  Recorded' /\ GuessedInTurn'
  <2>1. UNCHANGED <<code, issued, now, draws>>
    BY <1>3 DEF IssueEnd, LedgerInv, TypeOK
  <2>2. Settled /\ now' >= now /\ now' \in Nat
    BY <2>1 DEF Settled, LedgerInv, TypeOK
  <2> QED BY <2>1, <2>2, QuietDraws
<1> QED BY <1>1, <1>2, <1>3

LEMMA DrawsInvariant == Spec => [](Recorded /\ GuessedInTurn)
<1>1. Init => Recorded /\ GuessedInTurn
  BY DEF Init, Recorded, GuessedInTurn
<1>2. LedgerInv /\ (Recorded /\ GuessedInTurn) /\ [Next]_vars => (Recorded /\ GuessedInTurn)'
  BY DrawsStep
<1> QED BY <1>1, <1>2, LedgerInvariant, PTL DEF Spec

(* Guesses are pairs of a code and a number: taken inside the window, they *)
(* are on the window's codes or on one older code.                         *)
LEMMA GuessesArePairs ==
  ASSUME LedgerInv, Recorded, GuessedInTurn, NEW m \in Mailboxes
  PROVE  \E c : \A d \in DrawsAt(m) :
           <<d.code, d.nth>> \in Tries(IssuedWithin(m)) \cup ({c} \X (1..MaxAttempts))
<1>1. \A d \in DrawsAt(m) :
        /\ d \in draws /\ d.code \in 1..issued /\ d.code \in CodeIds /\ d.code \in Nat
        /\ d.nth \in 1..MaxAttempts /\ d.nth <= code[d.code].attempts
        /\ code[d.code].email.box = m /\ d.at \in Nat /\ d.at >= now - Window
        /\ code[d.code].created \in Nat
  BY DrawFields, IssuedIds, RowFields DEF DrawsAt, Recorded, LedgerInv
<1>2. \A d \in DrawsAt(m) : d.code \in IssuedWithin(m)
                              => <<d.code, d.nth>> \in Tries(IssuedWithin(m))
  BY <1>1 DEF Tries
<1>3. ASSUME NEW d \in DrawsAt(m), NEW e \in DrawsAt(m),
             d.code \notin IssuedWithin(m), e.code \notin IssuedWithin(m)
      PROVE  ~(d.code < e.code)
  <2>1. now \in Nat /\ ~(code[e.code].created >= now - Window)
    BY <1>1, <1>3 DEF IssuedWithin, LedgerInv, TypeOK
  <2>2. d.code < e.code => d.at <= code[e.code].created
    BY <1>1 DEF GuessedInTurn
  <2> QED BY <1>1, <2>1, <2>2
<1>4. CASE \A d \in DrawsAt(m) : d.code \in IssuedWithin(m)
  BY <1>2, <1>4
<1>5. ASSUME NEW e \in DrawsAt(m), e.code \notin IssuedWithin(m)
      PROVE  \A d \in DrawsAt(m) :
               <<d.code, d.nth>> \in Tries(IssuedWithin(m)) \cup ({e.code} \X (1..MaxAttempts))
  <2> SUFFICES ASSUME NEW d \in DrawsAt(m), d.code \notin IssuedWithin(m)
               PROVE  <<d.code, d.nth>> \in {e.code} \X (1..MaxAttempts)
    BY <1>2
  <2>1. d.code = e.code
    BY <1>1, <1>3, <1>5
  <2> QED BY <1>1, <2>1
<1> QED BY <1>4, <1>5

LEMMA OverlapIsOneCode ==
  ASSUME LedgerInv, DrawsWithinBudget, Recorded, GuessedInTurn, NEW m \in Mailboxes
  PROVE  Cardinality(DrawsAt(m)) <= MaxDraws + MaxAttempts
<1>1. PICK c : \A d \in DrawsAt(m) :
        <<d.code, d.nth>> \in Tries(IssuedWithin(m)) \cup ({c} \X (1..MaxAttempts))
  BY GuessesArePairs
<1> DEFINE O == Tries(IssuedWithin(m))
           S == {c} \X (1..MaxAttempts)
           f == [d \in DrawsAt(m) |-> <<d.code, d.nth>>]
<1>2. IsFiniteSet(O) /\ IsFiniteSet(S)
  BY TriesFinite, AllGuesses
<1>3. Cardinality(O) \in Nat /\ Cardinality(O) <= MaxDraws /\ Cardinality(S) = MaxAttempts
  BY TriesFinite, AllGuesses DEF DrawsWithinBudget
<1>4. IsFiniteSet(O \cup S) /\ Cardinality(O \cup S) \in Nat
      /\ Cardinality(O \cup S) <= Cardinality(O) + Cardinality(S)
  BY <1>2, UnionBound, FS_Union
<1>5. f \in Injection(DrawsAt(m), O \cup S)
  <2>1. f \in [DrawsAt(m) -> O \cup S]
    BY <1>1
  <2>2. \A d, e \in DrawsAt(m) : f[d] = f[e] => d = e
    BY DEF Recorded, DrawsAt
  <2> QED BY <2>1, <2>2 DEF Injection, IsInjective
<1>6. IsFiniteSet(DrawsAt(m)) /\ Cardinality(DrawsAt(m)) <= Cardinality(O \cup S)
  BY <1>4, <1>5, FS_Injection
<1>7. Cardinality(DrawsAt(m)) \in Nat
  BY <1>6, FS_CardinalityType
<1> QED BY <1>3, <1>4, <1>6, <1>7

(* The budget measured by when the guesses are taken: to those on the      *)
(* window's own codes, verify_otp adds at most the guesses of one code     *)
(* that was issued before it.                                              *)
THEOREM OneCodeOverlaps == Spec => []DrawsOverlapBound
<1>1. LedgerInv /\ DrawsWithinBudget /\ (Recorded /\ GuessedInTurn) => DrawsOverlapBound
  BY OverlapIsOneCode DEF DrawsOverlapBound
<1> QED BY <1>1, LedgerInvariant, WindowNeverOverspent, DrawsInvariant, PTL

-----------------------------------------------------------------------------
(* The refinement: each step of the ledger is a step of OneTimeCode or     *)
(* leaves its variables alone.                                             *)

AbstractVars ==
  <<[c \in CodeIds |-> code[c].email.box], NewestCodes,
    [c \in CodeIds |-> code[c].attempts], signins>>

LEMMA IssueRefines ==
  ASSUME LedgerInv, NEW r \in Requests, IssueEnd(r), issued' # issued
  PROVE  \E m \in Mailboxes, n \in CodeIds : Abstract!Issue(m, n)
<1>1. PICK e, n : e = req[r].email /\ n = issued + 1
  OBVIOUS
<1>2. e \in [box : Mailboxes, form : {Plain}]
  BY <1>1, IssueEffect DEF LedgerInv
<1>3. issued' = n /\ n \in CodeIds /\ issued \in Nat /\ 1..issued' = (1..issued) \cup {n}
  <2>1. /\ issued' = issued + 1 /\ issued + 1 \in CodeIds
        /\ issued \in Nat /\ 1..issued' = (1..issued) \cup {issued + 1}
    BY IssueEffect DEF LedgerInv
  <2> QED BY <1>1, <2>1
<1>4. code[n].email = NoEmail /\ code[n].attempts = 0
  BY <1>1, <1>3 DEF LedgerInv, Shape
<1>5. code'[n].attempts = 0 /\ code'[n].email = e
  BY <1>1, <1>3, IssueRows DEF LedgerInv
<1>6. \A c \in CodeIds : c # n => /\ code'[c].email = code[c].email
                                 /\ code'[c].attempts = code[c].attempts
  BY <1>1, IssueRows DEF LedgerInv
<1>7. signins' = signins
  BY IssueRows DEF LedgerInv
<1>8. NewestCodes' = {d \in NewestCodes : code[d].email.box # e.box} \cup {n}
  <2>1. \A c \in 1..issued : c \in CodeIds /\ c < n /\ c # n
    BY <1>1, <1>3, IssuedIds DEF LedgerInv
  <2>2. n \in NewestCodes'
    BY <1>1, <1>3, <2>1 DEF NewestCodes
  <2>3. ASSUME NEW c \in 1..issued
        PROVE  c \in NewestCodes' <=> c \in NewestCodes /\ code[c].email.box # e.box
    BY <1>3, <1>5, <1>6, <2>1 DEF NewestCodes
  <2> QED BY <1>3, <2>2, <2>3 DEF NewestCodes
<1>9. [c \in CodeIds |-> code[c].email.box]' =
        [[c \in CodeIds |-> code[c].email.box] EXCEPT ![n] = e.box]
  BY <1>5, <1>6
<1>10. [c \in CodeIds |-> code[c].attempts]' = [c \in CodeIds |-> code[c].attempts]
  BY <1>4, <1>5, <1>6
<1>11. {d \in NewestCodes : [c \in CodeIds |-> code[c].email.box][d] # e.box}
         = {d \in NewestCodes : code[d].email.box # e.box}
  BY IssuedIds DEF NewestCodes, LedgerInv
<1>12. e.box \in Mailboxes /\ [c \in CodeIds |-> code[c].email.box][n] = NoBox
  BY <1>2, <1>3, <1>4 DEF NoEmail
<1>13. Abstract!Issue(e.box, n)
  BY <1>7, <1>8, <1>9, <1>10, <1>11, <1>12 DEF Abstract!Issue
<1> QED BY <1>3, <1>12, <1>13

LEMMA TryRefines ==
  ASSUME LedgerInv, Backed, NEW c \in 1..issued, ClaimAttempt(c),
         UNCHANGED <<rows, issued, signins>>
  PROVE  Abstract!Try(c)
<1>1. c \in CodeIds /\ Live(c) /\ code[c].attempts < MaxAttempts
  BY IssuedIds DEF ClaimAttempt, Guessable, LedgerInv
<1>2. \A d \in CodeIds : /\ code'[d].email = code[d].email
                         /\ code'[d].attempts = IF d = c THEN code[d].attempts + 1
                                                 ELSE code[d].attempts
  BY <1>1 DEF ClaimAttempt, LedgerInv, TypeOK, Row
<1>3. ~code[c].used /\ ~(code[c].created + Expiry <= now)
  BY <1>1, RowFields DEF Live, Unexpired, LedgerInv, TypeOK
<1>4. c \in NewestCodes
  BY <1>3 DEF NewestCodes, LedgerInv, Retired
<1>5. signins[c] = 0
  BY <1>1, <1>3 DEF Backed
<1>6. NewestCodes' = NewestCodes
  BY <1>2, IssuedIds DEF NewestCodes, LedgerInv
<1>7. [d \in CodeIds |-> code[d].email.box]' = [d \in CodeIds |-> code[d].email.box]
  BY <1>2
<1>8. [d \in CodeIds |-> code[d].attempts]' =
        [[d \in CodeIds |-> code[d].attempts] EXCEPT ![c] = @ + 1]
  BY <1>1, <1>2
<1> QED BY <1>1, <1>4, <1>5, <1>6, <1>7, <1>8 DEF Abstract!Try

LEMMA RedeemRefines ==
  ASSUME LedgerInv, Backed, NEW r \in Requests, VerifySucceeds(r)
  PROVE  \E c \in CodeIds : Abstract!Redeem(c)
<1>1. PICK c \in CodeIds : /\ c = req[r].code /\ code[c].attempts > 0
                           /\ code' = [code EXCEPT ![c].used = TRUE]
                           /\ signins' = [signins EXCEPT ![c] = @ + 1]
                           /\ issued' = issued /\ ~code[c].used
  BY IssuedIds DEF VerifySucceeds, CanClaimUse, Shape, LedgerInv
<1>2. signins[c] = 0
  BY <1>1 DEF Backed
<1>3. \A d \in CodeIds : code'[d].email = code[d].email /\ code'[d].attempts = code[d].attempts
  BY <1>1 DEF LedgerInv, TypeOK, Row
<1>4. NewestCodes' = NewestCodes
  BY <1>1, <1>3, IssuedIds DEF NewestCodes, LedgerInv
<1>5. signins' = [signins EXCEPT ![c] = 1]
  BY <1>1, <1>2 DEF LedgerInv, TypeOK
<1>6. /\ [d \in CodeIds |-> code[d].email.box]' = [d \in CodeIds |-> code[d].email.box]
      /\ [d \in CodeIds |-> code[d].attempts]' = [d \in CodeIds |-> code[d].attempts]
  BY <1>3
<1>7. Abstract!Redeem(c)
  BY <1>1, <1>2, <1>4, <1>5, <1>6 DEF Abstract!Redeem
<1> QED BY <1>7

LEMMA StepRefines ==
  ASSUME LedgerInv, Backed, [Next]_vars
  PROVE  [Abstract!Next]_AbstractVars
<1>1. ASSUME NEW r \in Requests, IssueEnd(r)
      PROVE  [Abstract!Next]_AbstractVars
  <2>1. CASE issued' # issued
    BY <1>1, <2>1, IssueRefines DEF Abstract!Next
  <2>2. CASE issued' = issued
    <3>1. UNCHANGED <<code, issued, signins>>
      BY <1>1, <2>2 DEF IssueEnd, LedgerInv, TypeOK
    <3> QED BY <3>1 DEF AbstractVars, NewestCodes
  <2> QED BY <2>1, <2>2
<1>2. ASSUME NEW r \in Requests, NEW s \in Spellings, VerifyBegin(r, s)
      PROVE  [Abstract!Next]_AbstractVars
  <2>1. CASE code' = code
    BY <1>2, <2>1 DEF VerifyBegin, AbstractVars, NewestCodes
  <2>2. ASSUME NEW c \in LatestValid(Normalize(s)), ClaimAttempt(c)
        PROVE  [Abstract!Next]_AbstractVars
    <3>1. c \in 1..issued /\ c \in CodeIds
      BY IssuedIds DEF LatestValid, LedgerInv, TypeOK
    <3> QED BY <1>2, <2>2, <3>1, TryRefines DEF VerifyBegin, Abstract!Next
  <2> QED BY <1>2, <2>1, <2>2 DEF VerifyBegin
<1>3. ASSUME NEW r \in Requests, VerifySucceeds(r)
      PROVE  [Abstract!Next]_AbstractVars
  BY <1>3, RedeemRefines DEF Abstract!Next
<1>4. ASSUME \/ \E r \in Requests : VerifyFails(r) \/ \E s \in Spellings : IssueBegin(r, s)
             \/ CleanupExpired \/ Tick \/ Restart \/ UNCHANGED vars
      PROVE  [Abstract!Next]_AbstractVars
  <2>1. UNCHANGED <<code, signins, issued>>
    BY <1>4 DEF VerifyFails, IssueBegin, CleanupExpired, Tick, Restart, vars
  <2> QED BY <2>1 DEF AbstractVars, NewestCodes
<1> QED BY <1>1, <1>2, <1>3, <1>4 DEF Next

(* The ledger implements the abstract promise of OneTimeCode.              *)
THEOREM Refinement == Spec => ImplementsOneTimeCode
<1>1. Init => Abstract!Init
  BY DEF Init, Abstract!Init, NewestCodes, NoEmail
<1>2. LedgerInv /\ Backed /\ [Next]_vars => [Abstract!Next]_AbstractVars
  BY StepRefines
<1>3. AbstractVars = Abstract!vars
  BY DEF AbstractVars, Abstract!vars
<1>4. LedgerInv /\ Backed /\ [Next]_vars => [Abstract!Next]_(Abstract!vars)
  BY <1>2 DEF AbstractVars, Abstract!vars
<1> QED BY <1>1, <1>4, LedgerInvariant, BackedInvariant, PTL
        DEF Spec, ImplementsOneTimeCode, Abstract!Spec

=============================================================================
