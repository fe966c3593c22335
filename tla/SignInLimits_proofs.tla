------------------------ MODULE SignInLimits_proofs ------------------------
(***************************************************************************)
(* The two limits on a password sign-in. The admission counts are exact    *)
(* for any number of clients, requests and threads, and what follows from  *)
(* it: the bound on what is admitted, and that one client alone is never   *)
(* why requests are shed. And the guess budget, for any names, cap, window *)
(* and size of the store: the store's four parts agree, what it keeps of a *)
(* name is exactly what was let through under it, and its eviction takes   *)
(* the dead first.                                                         *)
(***************************************************************************)
EXTENDS KdfAdmission, GuessBudget, FiniteSetTheorems, SequenceTheorems,
        WellFoundedInduction, TLAPS

(* The strengthening: an idle request holds no slot, a slot's key is never *)
(* an exempt client, and the count never passes the capacity.              *)
SlotsBelong ==
  \A r \in Requests : /\ at[r] = "idle" => slot[r] = NoSlot
                      /\ slot[r] \notin SharedClients
CountedWithinCapacity == admitted <= Capacity
Inv == TypeOK /\ CountsAreExact /\ SlotsBelong /\ CountedWithinCapacity

(* The requests holding a slot, or one client's key, are finitely many.    *)
LEMMA HoldersAreFinite ==
  /\ IsFiniteSet(Admitted)
  /\ \A k : IsFiniteSet(Holding(k))
<1>1. IsFiniteSet(Requests)
  BY RequestsAssumption
<1>2. Admitted \subseteq Requests
  BY DEF Admitted
<1>3. \A k : Holding(k) \subseteq Requests
  BY DEF Holding
<1> QED
  BY <1>1, <1>2, <1>3, FS_Subset

(* A step that touches no slot and no count keeps the counts exact.        *)
LEMMA UntouchedCountsStay ==
  ASSUME Inv, UNCHANGED <<slot, admitted, inFlight>>
  PROVE  CountsAreExact' /\ CountedWithinCapacity'
<1>1. Admitted' = Admitted /\ \A c : Holding(c)' = Holding(c) /\ InFlight(c)' = InFlight(c)
  BY DEF Admitted, Holding, InFlight
<1> QED
  BY <1>1 DEF Inv, CountsAreExact, CountedWithinCapacity

(* What the count of one client's requests becomes when a request takes    *)
(* its key, or gives it up.                                                *)
LEMMA TakingAKey ==
  ASSUME NEW r \in Requests, NEW k \in Clients \cup {NoKey},
         TypeOK, slot[r] = NoSlot, slot' = [slot EXCEPT ![r] = k]
  PROVE  /\ Cardinality(Admitted') = Cardinality(Admitted) + 1
         /\ Cardinality(Holding(k)') = Cardinality(Holding(k)) + 1
         /\ \A c \in Clients : c # k => Holding(c)' = Holding(c)
<1>1. k # NoSlot /\ \A c \in Clients : c # NoSlot
  BY ClientsAssumption
<1>2. \A x \in Requests : slot'[x] = IF x = r THEN k ELSE slot[x]
  BY DEF TypeOK
<1>3. Admitted' = Admitted \cup {r} /\ r \notin Admitted
  BY <1>1, <1>2 DEF Admitted
<1>4. Holding(k)' = Holding(k) \cup {r} /\ r \notin Holding(k)
  BY <1>1, <1>2 DEF Holding
<1>5. \A c \in Clients : c # k => Holding(c)' = Holding(c)
  BY <1>1, <1>2 DEF Holding
<1> QED
  BY <1>3, <1>4, <1>5, HoldersAreFinite, FS_AddElement

LEMMA GivingAKeyUp ==
  ASSUME NEW r \in Requests, NEW k \in Clients \cup {NoKey},
         TypeOK, slot[r] = k, slot' = [slot EXCEPT ![r] = NoSlot]
  PROVE  /\ Cardinality(Admitted') = Cardinality(Admitted) - 1
         /\ Cardinality(Admitted) \in Nat \ {0}
         /\ Cardinality(Holding(k)') = Cardinality(Holding(k)) - 1
         /\ Cardinality(Holding(k)) \in Nat \ {0}
         /\ \A c \in Clients : c # k => Holding(c)' = Holding(c)
<1>1. k # NoSlot /\ \A c \in Clients : c # NoSlot
  BY ClientsAssumption
<1>2. \A x \in Requests : slot'[x] = IF x = r THEN NoSlot ELSE slot[x]
  BY DEF TypeOK
<1>3. Admitted' = Admitted \ {r} /\ r \in Admitted
  BY <1>1, <1>2 DEF Admitted
<1>4. Holding(k)' = Holding(k) \ {r} /\ r \in Holding(k)
  BY <1>1, <1>2 DEF Holding
<1>5. \A c \in Clients : c # k => Holding(c)' = Holding(c)
  BY <1>1, <1>2 DEF Holding
<1>6. Cardinality(Admitted') = Cardinality(Admitted) - 1
  BY <1>3, HoldersAreFinite, FS_RemoveElement
<1>7. Cardinality(Holding(k)') = Cardinality(Holding(k)) - 1
  BY <1>4, HoldersAreFinite, FS_RemoveElement
<1>8. Cardinality(Admitted) \in Nat \ {0} /\ Cardinality(Holding(k)) \in Nat \ {0}
  BY <1>3, <1>4, HoldersAreFinite, FS_CardinalityType, FS_EmptySet
<1> QED
  BY <1>5, <1>6, <1>7, <1>8

-----------------------------------------------------------------------------
LEMMA InitInv == Init => Inv
<1> SUFFICES ASSUME Init PROVE Inv
  OBVIOUS
<1>1. DOMAIN inFlight = {}
  BY DEF Init
<1>2. TypeOK
  BY <1>1, ClientsAssumption DEF Init, TypeOK
<1>3. Admitted = {} /\ \A c \in Clients : Holding(c) = {}
  BY ClientsAssumption DEF Init, Admitted, Holding
<1>4. CountsAreExact
  BY <1>1, <1>3, FS_EmptySet DEF Init, CountsAreExact, InFlight
<1>5. SlotsBelong
  BY ClientsAssumption DEF Init, SlotsBelong
<1>6. CountedWithinCapacity
  BY NumbersAssumption DEF Init, CountedWithinCapacity, Capacity
<1> QED
  BY <1>2, <1>4, <1>5, <1>6 DEF Inv

LEMMA AdmitKeepsInv ==
  ASSUME Inv, NEW r \in Requests, NEW c \in Clients, Admit(r, c)
  PROVE  Inv'
<1> DEFINE k == KeyOf(c)
<1> USE NumbersAssumption
<1>1. k \in Clients \cup {NoKey} /\ k \notin SharedClients /\ k # NoSlot
  BY ClientsAssumption DEF KeyOf
<1>2. slot[r] = NoSlot /\ slot' = [slot EXCEPT ![r] = k]
  BY DEF Inv, SlotsBelong, Admit
<1>3. admitted' = admitted + 1 /\ admitted < Capacity /\ admitted \in Nat
  BY DEF Inv, TypeOK, Admit, HasRoom
<1>4. Capacity \in Nat
  BY DEF Capacity
<1>5. /\ Cardinality(Admitted') = Cardinality(Admitted) + 1
      /\ Cardinality(Holding(k)') = Cardinality(Holding(k)) + 1
      /\ \A d \in Clients : d # k => Holding(d)' = Holding(d)
  BY <1>1, <1>2, TakingAKey DEF Inv
<1>6. \A d \in Clients : InFlight(d) \in Nat
  BY DEF Inv, TypeOK, InFlight
<1>7. /\ \A d \in Clients : InFlight(d)' = IF d = k THEN InFlight(d) + 1 ELSE InFlight(d)
      /\ DOMAIN inFlight' \subseteq Clients
      /\ inFlight' \in [DOMAIN inFlight' -> 1..PerClient]
  <2>1. CASE c \in SharedClients /\ UNCHANGED inFlight
    <3>1. k = NoKey /\ k \notin Clients
      BY <2>1, ClientsAssumption DEF KeyOf
    <3> QED
      BY <2>1, <3>1 DEF InFlight, Inv, TypeOK
  <2>2. CASE c \notin SharedClients /\ UnderCap(c) /\ inFlight' = CountIn(c)
    <3>1. k = c
      BY <2>2 DEF KeyOf
    <3>2. DOMAIN inFlight' = DOMAIN inFlight \cup {c}
      BY <2>2 DEF CountIn
    <3>3. \A d \in DOMAIN inFlight' : inFlight'[d] = IF d = c THEN InFlight(c) + 1 ELSE inFlight[d]
      BY <2>2 DEF CountIn
    <3>4. InFlight(c) < PerClient
      BY <2>2 DEF UnderCap
    <3>5. \A d \in DOMAIN inFlight : inFlight[d] \in 1..PerClient
      BY DEF Inv, TypeOK
    <3>6. \A d \in DOMAIN inFlight' : inFlight'[d] \in 1..PerClient
      BY <1>6, <3>2, <3>3, <3>4, <3>5
    <3>7. inFlight' \in [DOMAIN inFlight' -> 1..PerClient]
      BY <2>2, <3>6 DEF CountIn
    <3>8. DOMAIN inFlight' \subseteq Clients
      BY <3>2 DEF Inv, TypeOK
    <3>9. \A d \in Clients : InFlight(d)' = IF d = c THEN InFlight(d) + 1 ELSE InFlight(d)
      BY <3>2, <3>3 DEF InFlight
    <3> QED
      BY <3>1, <3>7, <3>8, <3>9
  <2> QED
    BY <2>1, <2>2 DEF Admit
<1>8. TypeOK'
  BY <1>1, <1>2, <1>3, <1>7 DEF Inv, TypeOK, Admit
<1>9. CountsAreExact'
  BY <1>3, <1>5, <1>7 DEF Inv, CountsAreExact
<1>10. SlotsBelong'
  BY <1>1, <1>2 DEF Inv, TypeOK, SlotsBelong, Admit
<1>11. CountedWithinCapacity'
  BY <1>3, <1>4 DEF CountedWithinCapacity, Capacity
<1> QED
  BY <1>8, <1>9, <1>10, <1>11 DEF Inv

LEMMA FinishKeepsInv ==
  ASSUME Inv, NEW r \in Requests, Finish(r)
  PROVE  Inv'
<1> USE NumbersAssumption
<1>k. PICK k \in Clients \cup {NoKey, NoSlot} : k = slot[r]
  BY DEF Inv, TypeOK
<1>1. slot' = [slot EXCEPT ![r] = NoSlot] /\ at' = [at EXCEPT ![r] = "idle"]
  BY DEF Finish
<1>2. SlotsBelong'
  BY <1>1, ClientsAssumption DEF Inv, TypeOK, SlotsBelong
<1>3. CASE k = NoSlot
  <2>1. UNCHANGED <<slot, admitted, inFlight>>
    BY <1>k, <1>1, <1>3 DEF Finish, Inv, TypeOK
  <2>2. TypeOK'
    BY <2>1 DEF Finish, Inv, TypeOK
  <2> QED
    BY <1>2, <2>1, <2>2, UntouchedCountsStay DEF Inv
<1>4. CASE k # NoSlot
  <2>1. k \in Clients \cup {NoKey}
    BY <1>k, <1>4
  <2>2. /\ Cardinality(Admitted') = Cardinality(Admitted) - 1
        /\ Cardinality(Admitted) \in Nat \ {0}
        /\ Cardinality(Holding(k)') = Cardinality(Holding(k)) - 1
        /\ Cardinality(Holding(k)) \in Nat \ {0}
        /\ \A c \in Clients : c # k => Holding(c)' = Holding(c)
    BY <1>k, <1>1, <2>1, GivingAKeyUp DEF Inv
  <2>3. admitted = Cardinality(Admitted)
    BY DEF Inv, CountsAreExact
  <2>4. admitted' = admitted - 1 /\ admitted' \in Nat
    BY <1>k, <1>4, <2>2, <2>3 DEF Finish, AdmittedAfter, Less1
  <2>5. /\ \A c \in Clients : InFlight(c)' = IF c = k THEN InFlight(c) - 1 ELSE InFlight(c)
        /\ DOMAIN inFlight' \subseteq Clients
        /\ inFlight' \in [DOMAIN inFlight' -> 1..PerClient]
    <3>1. CASE k = NoKey
      <4>1. k \notin Clients /\ inFlight' = inFlight
        BY <1>k, <1>4, <3>1, ClientsAssumption DEF Finish
      <4> QED
        BY <4>1 DEF InFlight, Inv, TypeOK
    <3>2. CASE k \in Clients
      <4>1. InFlight(k) = Cardinality(Holding(k))
        BY <3>2 DEF Inv, CountsAreExact
      <4>2. k \in DOMAIN inFlight /\ inFlight[k] = InFlight(k)
        BY <2>2, <4>1 DEF InFlight
      <4>3. inFlight' = CountOut(k)
        BY <1>k, <1>4, <3>2, ClientsAssumption DEF Finish
      <4>4. InFlight(k) \in 1..PerClient
        BY <4>2 DEF Inv, TypeOK
      <4>5. CASE InFlight(k) - 1 <= 0
        <5>1. inFlight' = [d \in DOMAIN inFlight \ {k} |-> inFlight[d]]
          BY <4>3, <4>5 DEF CountOut
        <5>2. InFlight(k) = 1
          BY <4>4, <4>5
        <5> QED
          BY <5>1, <5>2 DEF InFlight, Inv, TypeOK
      <4>6. CASE ~(InFlight(k) - 1 <= 0)
        <5>1. inFlight' = [inFlight EXCEPT ![k] = @ - 1]
          BY <4>3, <4>6 DEF CountOut
        <5>2. inFlight[k] - 1 \in 1..PerClient
          BY <4>2, <4>4, <4>6
        <5> QED
          BY <4>2, <5>1, <5>2 DEF InFlight, Inv, TypeOK
      <4> QED
        BY <4>5, <4>6
    <3> QED
      BY <2>1, <3>1, <3>2
  <2>6. TypeOK'
    BY <1>1, <2>4, <2>5 DEF Inv, TypeOK, Finish
  <2>7. CountsAreExact'
    BY <2>2, <2>3, <2>4, <2>5 DEF Inv, CountsAreExact
  <2>8. CountedWithinCapacity'
    <3>1. Capacity \in Nat /\ admitted \in Nat /\ admitted <= Capacity
      BY DEF Capacity, Inv, TypeOK, CountedWithinCapacity
    <3> QED
      BY <2>4, <3>1 DEF CountedWithinCapacity, Capacity
  <2> QED
    BY <1>2, <2>6, <2>7, <2>8 DEF Inv
<1> QED
  BY <1>3, <1>4

LEMMA NextKeepsInv == Inv /\ [Next]_vars => Inv'
<1> SUFFICES ASSUME Inv, [Next]_vars PROVE Inv'
  OBVIOUS
<1>1. ASSUME NEW r \in Requests, NEW c \in Clients, Admit(r, c) PROVE Inv'
  BY <1>1, AdmitKeepsInv
<1>2. ASSUME NEW r \in Requests, AdmitSetup(r) PROVE Inv'
  <2>1. TypeOK'
    BY <1>2 DEF AdmitSetup, Inv, TypeOK
  <2>2. SlotsBelong'
    BY <1>2 DEF AdmitSetup, Inv, TypeOK, SlotsBelong
  <2> QED
    BY <1>2, <2>1, <2>2, UntouchedCountsStay DEF AdmitSetup, Inv
<1>3. ASSUME NEW r \in Requests, AskToDerive(r) PROVE Inv'
  <2>1. TypeOK'
    BY <1>3 DEF AskToDerive, Enqueue, Inv, TypeOK
  <2>2. SlotsBelong'
    BY <1>3 DEF AskToDerive, Inv, TypeOK, SlotsBelong
  <2> QED
    BY <1>3, <2>1, <2>2, UntouchedCountsStay DEF AskToDerive, Inv
<1>4. ASSUME NEW r \in Requests, Finish(r) PROVE Inv'
  BY <1>4, FinishKeepsInv
<1>5. ASSUME NEW r \in Requests, EndDerivation(r) PROVE Inv'
  <2>1. TypeOK'
    BY <1>5 DEF EndDerivation, Inv, TypeOK
  <2>2. SlotsBelong'
    BY <1>5 DEF EndDerivation, Inv, TypeOK, SlotsBelong
  <2> QED
    BY <1>5, <2>1, <2>2, UntouchedCountsStay DEF EndDerivation, Inv
<1>6. CASE StartDerivation
  <2>1. Head(queue) \in Requests /\ Tail(queue) \in Seq(Requests)
    BY <1>6 DEF StartDerivation, Inv, TypeOK
  <2>2. TypeOK'
    BY <1>6, <2>1 DEF StartDerivation, Inv, TypeOK
  <2>3. SlotsBelong'
    BY <1>6, <2>1 DEF StartDerivation, Inv, TypeOK, SlotsBelong
  <2> QED
    BY <1>6, <2>2, <2>3, UntouchedCountsStay DEF StartDerivation, Inv
<1>7. CASE UNCHANGED vars
  <2>1. TypeOK' /\ SlotsBelong'
    BY <1>7 DEF vars, Inv, TypeOK, SlotsBelong
  <2> QED
    BY <1>7, <2>1, UntouchedCountsStay DEF vars, Inv
<1> QED
  BY <1>1, <1>2, <1>3, <1>4, <1>5, <1>6, <1>7 DEF Next, Step

(* The strengthened invariant holds throughout.                            *)
LEMMA SpecKeepsInv == Spec => []Inv
<1> QED
  BY InitInv, NextKeepsInv, PTL DEF Spec

-----------------------------------------------------------------------------
(* kdf_admit and kdf_release keep values of their kinds, and no entry of   *)
(* the in-flight table is zero or past the cap.                            *)
THEOREM Typed == Spec => []TypeOK
<1>1. Inv => TypeOK
  BY DEF Inv
<1> QED
  BY <1>1, SpecKeepsInv, PTL

(* kdf_admit's "exactly once": whatever overlaps and however it ends, the  *)
(* counts are those of the requests that are open.                         *)
THEOREM CountsStayExact == Spec => []CountsAreExact
<1>1. Inv => CountsAreExact
  BY DEF Inv
<1> QED
  BY <1>1, SpecKeepsInv, PTL

(* The admission never lets in more than the threads and their queues hold. *)
THEOREM AdmissionIsBounded == Spec => []AdmittedWithinCapacity
<1>1. Inv => AdmittedWithinCapacity
  BY DEF Inv, CountsAreExact, CountedWithinCapacity, AdmittedWithinCapacity
<1> QED
  BY <1>1, SpecKeepsInv, PTL

(* The shed is never one client's doing.                                   *)
THEOREM OneClientNeverSheds == Spec => []ShedIsNeverOneClient
<1>1. ASSUME Inv PROVE ShedIsNeverOneClient
  <2>1. SUFFICES ASSUME ~HasRoom, NEW c \in Clients, \A r \in Admitted : slot[r] = c
                 PROVE  FALSE
    BY DEF ShedIsNeverOneClient
  <2>2. Admitted = Holding(c)
    BY <2>1, ClientsAssumption DEF Admitted, Holding
  <2>3. admitted = InFlight(c)
    BY <1>1, <2>2 DEF Inv, CountsAreExact
  <2>4. InFlight(c) <= PerClient
    BY <1>1, NumbersAssumption DEF Inv, TypeOK, InFlight
  <2>5. PerClient < Capacity /\ Capacity \in Nat /\ PerClient \in Nat
    BY NumbersAssumption DEF Capacity
  <2>6. admitted \in Nat /\ admitted >= Capacity
    BY <1>1, <2>1, <2>5 DEF HasRoom, Inv, TypeOK
  <2> QED
    BY <2>3, <2>4, <2>5, <2>6
<1> QED
  BY <1>1, SpecKeepsInv, PTL
-----------------------------------------------------------------------------
(* The guess budget. A key's times are natural numbers in ascending order, *)
(* none later than t.                                                      *)
Ascending(seq) == \A i, j \in DOMAIN seq : i <= j => seq[i] <= seq[j]
TimesSound(seq, t) ==
  /\ seq \in Seq(Nat) /\ Ascending(seq)
  /\ \A i \in DOMAIN seq : seq[i] <= t

(* A set of naturals that is not empty has a least element.                *)
LEMMA LeastNatural ==
  ASSUME NEW T \in SUBSET Nat, T # {}
  PROVE  \E x \in T : \A y \in T : x <= y
<1> DEFINE R == OpToRel(<, Nat)
<1>1. IsWellFoundedOn(R, Nat)
  BY NatLessThanWellFounded
<1>2. \A x, y \in Nat : <<y, x>> \in R <=> y < x
  BY DEF OpToRel
<1> HIDE DEF R
<1>3. PICK x \in T : \A y \in T : ~(<<y, x>> \in R)
  BY <1>1, WFMin
<1>4. x \in Nat /\ \A y \in T : y \in Nat
  OBVIOUS
<1>5. \A y \in T : ~(y < x)
  BY <1>2, <1>3, <1>4
<1>6. \A y \in T : x <= y
  BY <1>4, <1>5
<1> QED
  BY <1>6

(* A part of 1..n that holds whatever lies below what it holds is 1..c for *)
(* c its cardinality.                                                      *)
LEMMA InitialSegment ==
  ASSUME NEW n \in Nat, NEW A \in SUBSET (1..n),
         \A i \in A : \A j \in 1..n : j <= i => j \in A
  PROVE  Cardinality(A) \in 0..n /\ A = 1..Cardinality(A)
<1>1. CASE A = 1..n
  <2>1. Cardinality(1..n) = n
    BY FS_Interval
  <2> QED
    BY <1>1, <2>1
<1>2. CASE A # 1..n
  <2> DEFINE T == (1..n) \ A
  <2>1. T \in SUBSET Nat
    OBVIOUS
  <2>8. T # {}
    BY <1>2
  <2>2. PICK x \in T : \A y \in T : x <= y
    BY <2>1, <2>8, LeastNatural
  <2>3. x \in 1..n /\ x - 1 \in 0..n
    OBVIOUS
  <2>4. \A i \in 1..(x - 1) : i \in A
    BY <2>2, <2>3
  <2>5. \A i \in A : i \in 1..(x - 1)
    BY <2>3
  <2>6. A = 1..(x - 1)
    BY <2>4, <2>5
  <2>7. Cardinality(1..(x - 1)) = x - 1
    BY <2>3, FS_Interval
  <2> QED
    BY <2>3, <2>6, <2>7
<1> QED
  BY <1>1, <1>2

(* What _live keeps of a key's times: those after the first c, which are   *)
(* the ones that have aged.                                                *)
LEMMA LiveIsWhatFollows ==
  ASSUME NEW seq \in Seq(Nat), Ascending(seq), NEW t \in Nat
  PROVE  \E c \in 0..Len(seq) :
           /\ LiveOf(seq, t) = SubSeq(seq, c + 1, Len(seq))
           /\ \A i \in 1..Len(seq) : InWindow(seq[i], t) <=> i > c
<1> DEFINE aged == {i \in DOMAIN seq : ~InWindow(seq[i], t)}
<1>1. DOMAIN seq = 1..Len(seq) /\ Len(seq) \in Nat /\ \A i \in 1..Len(seq) : seq[i] \in Nat
  OBVIOUS
<1>2. aged \in SUBSET (1..Len(seq))
  BY <1>1
<1>3. ASSUME NEW i \in aged, NEW j \in 1..Len(seq), j <= i
      PROVE  j \in aged
  <2>1. i \in 1..Len(seq) /\ ~(seq[i] > t - Window) /\ seq[j] <= seq[i]
    BY <1>1, <1>3 DEF InWindow, Ascending
  <2>2. seq[i] \in Nat /\ seq[j] \in Nat /\ Window \in Nat
    BY <1>1, <2>1, LedgerAssumption
  <2> QED
    BY <1>1, <2>1, <2>2 DEF InWindow
<1> DEFINE c == Cardinality(aged)
<1> HIDE DEF aged
<1>4. c \in 0..Len(seq) /\ aged = 1..c
  BY <1>1, <1>2, <1>3, InitialSegment
<1>5. LiveOf(seq, t) = SubSeq(seq, c + 1, Len(seq))
  BY DEF LiveOf, aged
<1>6. \A i \in 1..Len(seq) : i \in aged <=> ~InWindow(seq[i], t)
  BY <1>1 DEF aged
<1>7. \A i \in 1..Len(seq) : InWindow(seq[i], t) <=> i > c
  BY <1>1, <1>4, <1>6
<1> QED
  BY <1>4, <1>5, <1>7

LEMMA LiveElements ==
  ASSUME NEW seq \in Seq(Nat), Ascending(seq), NEW u \in Nat
  PROVE  \E c \in 0..Len(seq) :
           /\ LiveOf(seq, u) \in Seq(Nat) /\ Len(LiveOf(seq, u)) = Len(seq) - c
           /\ \A i \in 1..(Len(seq) - c) : LiveOf(seq, u)[i] = seq[c + i]
           /\ \A i \in 1..Len(seq) : InWindow(seq[i], u) <=> i > c
<1>1. PICK c \in 0..Len(seq) :
        /\ LiveOf(seq, u) = SubSeq(seq, c + 1, Len(seq))
        /\ \A i \in 1..Len(seq) : InWindow(seq[i], u) <=> i > c
  BY LiveIsWhatFollows
<1>2. PICK s : s = LiveOf(seq, u)
  OBVIOUS
<1>3. Len(seq) \in Nat /\ c \in Nat /\ c <= Len(seq)
  OBVIOUS
<1>4. c + 1 \in Int /\ Len(seq) \in Int /\ \A i \in (c + 1)..Len(seq) : seq[i] \in Nat
  BY <1>3
<1>5. /\ SubSeq(seq, c + 1, Len(seq)) \in Seq(Nat)
      /\ Len(SubSeq(seq, c + 1, Len(seq))) =
           IF c + 1 <= Len(seq) THEN Len(seq) - (c + 1) + 1 ELSE 0
      /\ \A i \in 1..(Len(seq) - (c + 1) + 1) :
           SubSeq(seq, c + 1, Len(seq))[i] = seq[(c + 1) + i - 1]
  BY <1>4, SubSeqProperties
<1>6. Len(s) = Len(seq) - c
  <2>1. Len(s) = IF c + 1 <= Len(seq) THEN Len(seq) - (c + 1) + 1 ELSE 0
    BY <1>1, <1>2, <1>5
  <2> QED
    BY <2>1, <1>3
<1>7. \A i \in 1..(Len(seq) - c) : i \in 1..(Len(seq) - (c + 1) + 1) /\ (c + 1) + i - 1 = c + i
  BY <1>3
<1>8. \A i \in 1..(Len(seq) - c) : s[i] = seq[c + i]
  BY <1>1, <1>2, <1>5, <1>7
<1> QED
  BY <1>1, <1>2, <1>5, <1>6, <1>8

(* What is kept is sound, and inside the window.                           *)
LEMMA LiveTimes ==
  ASSUME NEW seq, NEW t \in Nat, NEW u \in Nat, TimesSound(seq, t)
  PROVE  /\ TimesSound(LiveOf(seq, u), t)
         /\ Len(LiveOf(seq, u)) \in Nat /\ Len(LiveOf(seq, u)) <= Len(seq)
         /\ \A i \in DOMAIN LiveOf(seq, u) : InWindow(LiveOf(seq, u)[i], u)
<1>1. seq \in Seq(Nat) /\ Ascending(seq) /\ Len(seq) \in Nat /\ DOMAIN seq = 1..Len(seq)
  BY DEF TimesSound
<1>2. PICK s : s = LiveOf(seq, u)
  OBVIOUS
<1>3. PICK c \in 0..Len(seq) :
        /\ s \in Seq(Nat) /\ Len(s) = Len(seq) - c
        /\ \A i \in 1..(Len(seq) - c) : s[i] = seq[c + i]
        /\ \A i \in 1..Len(seq) : InWindow(seq[i], u) <=> i > c
  BY <1>1, <1>2, LiveElements
<1>4. DOMAIN s = 1..(Len(seq) - c) /\ Len(s) \in Nat /\ Len(s) <= Len(seq)
  BY <1>1, <1>3
<1>5. \A i \in DOMAIN s : c + i \in 1..Len(seq) /\ c + i > c /\ s[i] = seq[c + i]
  <2>1. Len(seq) \in Nat /\ c \in Nat
    BY <1>1
  <2>2. \A i \in 1..(Len(seq) - c) : c + i \in 1..Len(seq) /\ c + i > c
    BY <2>1
  <2> QED
    BY <1>3, <1>4, <2>2
<1>6. Ascending(s)
  <2> SUFFICES ASSUME NEW i \in DOMAIN s, NEW j \in DOMAIN s, i <= j PROVE s[i] <= s[j]
    BY DEF Ascending
  <2>1. c + i \in DOMAIN seq /\ c + j \in DOMAIN seq /\ c + i <= c + j
    BY <1>1, <1>4, <1>5
  <2>2. seq[c + i] <= seq[c + j]
    BY <1>1, <2>1 DEF Ascending
  <2>3. s[i] = seq[c + i] /\ s[j] = seq[c + j]
    BY <1>5
  <2> QED
    BY <2>2, <2>3
<1>7. \A i \in DOMAIN s : s[i] <= t /\ InWindow(s[i], u)
  BY <1>1, <1>3, <1>5 DEF TimesSound
<1> QED
  BY <1>2, <1>3, <1>4, <1>6, <1>7 DEF TimesSound

(* Times all inside the window are kept as they are.                       *)
LEMMA LiveOfTheLive ==
  ASSUME NEW seq \in Seq(Nat), Ascending(seq), NEW u \in Nat,
         \A i \in DOMAIN seq : InWindow(seq[i], u)
  PROVE  LiveOf(seq, u) = seq
<1>1. PICK c \in 0..Len(seq) :
        /\ LiveOf(seq, u) = SubSeq(seq, c + 1, Len(seq))
        /\ \A i \in 1..Len(seq) : InWindow(seq[i], u) <=> i > c
  BY LiveIsWhatFollows
<1>2. c = 0
  <2> SUFFICES ASSUME c # 0 PROVE FALSE
    OBVIOUS
  <2>1. 1 \in 1..Len(seq) /\ ~(1 > c) /\ 1 \in DOMAIN seq
    OBVIOUS
  <2> QED
    BY <1>1, <2>1
<1>3. SubSeq(seq, 1, Len(seq)) = seq
  BY SubSeqFull
<1> QED
  BY <1>1, <1>2, <1>3

(* Pruned early or late, the same times are left.                          *)
LEMMA LiveOfLive ==
  ASSUME NEW seq \in Seq(Nat), Ascending(seq), NEW t \in Nat, NEW u \in Nat, t <= u
  PROVE  LiveOf(LiveOf(seq, t), u) = LiveOf(seq, u)
<1>1. PICK n, s, a, b : n = Len(seq) /\ s = LiveOf(seq, t) /\ a = LiveOf(s, u) /\ b = LiveOf(seq, u)
  OBVIOUS
<1>2. n \in Nat /\ \A i \in 1..n : seq[i] \in Nat
  BY <1>1
<1>3. PICK c \in 0..n :
        /\ s \in Seq(Nat) /\ Len(s) = n - c /\ \A i \in 1..(n - c) : s[i] = seq[c + i]
        /\ \A i \in 1..n : InWindow(seq[i], t) <=> i > c
  BY <1>1, LiveElements
<1>4. PICK e \in 0..n :
        /\ b \in Seq(Nat) /\ Len(b) = n - e /\ \A i \in 1..(n - e) : b[i] = seq[e + i]
        /\ \A i \in 1..n : InWindow(seq[i], u) <=> i > e
  BY <1>1, LiveElements
<1>5. Ascending(s)
  <2>1. TimesSound(seq, seq[n]) \/ n = 0
    BY <1>1, <1>2 DEF TimesSound, Ascending
  <2>2. CASE n = 0
    BY <1>3, <2>2 DEF Ascending
  <2>3. CASE n # 0 /\ TimesSound(seq, seq[n])
    <3>1. seq[n] \in Nat
      BY <1>2, <2>3
    <3> QED
      BY <1>1, <2>3, <3>1, LiveTimes DEF TimesSound
  <2> QED
    BY <2>1, <2>2, <2>3
<1>6. PICK d \in 0..(n - c) :
        /\ a \in Seq(Nat) /\ Len(a) = (n - c) - d /\ \A i \in 1..((n - c) - d) : a[i] = s[d + i]
        /\ \A i \in 1..(n - c) : InWindow(s[i], u) <=> i > d
  <2>1. PICK d \in 0..Len(s) :
          /\ a \in Seq(Nat) /\ Len(a) = Len(s) - d /\ \A i \in 1..(Len(s) - d) : a[i] = s[d + i]
          /\ \A i \in 1..Len(s) : InWindow(s[i], u) <=> i > d
    <3>1. s \in Seq(Nat) /\ u \in Nat
      BY <1>3
    <3>2. \E d \in 0..Len(s) :
            /\ LiveOf(s, u) \in Seq(Nat) /\ Len(LiveOf(s, u)) = Len(s) - d
            /\ \A i \in 1..(Len(s) - d) : LiveOf(s, u)[i] = s[d + i]
            /\ \A i \in 1..Len(s) : InWindow(s[i], u) <=> i > d
      BY <3>1, <1>5, LiveElements
    <3> QED
      BY <1>1, <3>2
  <2> QED
    BY <1>3, <2>1
<1>7. c <= e
  <2> SUFFICES ASSUME e < c PROVE FALSE
    BY <1>2, <1>3, <1>4
  <2>1. c \in 1..n /\ ~(c > c) /\ c > e
    BY <1>2, <1>3, <1>4
  <2>2. InWindow(seq[c], u) /\ ~InWindow(seq[c], t)
    BY <1>3, <1>4, <2>1
  <2>3. seq[c] \in Nat /\ Window \in Nat
    BY <1>2, <2>1, LedgerAssumption
  <2> QED
    BY <2>2, <2>3 DEF InWindow
<1>8. \A i \in 1..(n - c) : i > d <=> c + i > e
  <2> SUFFICES ASSUME NEW i \in 1..(n - c) PROVE i > d <=> c + i > e
    OBVIOUS
  <2>1. c + i \in 1..n /\ s[i] = seq[c + i]
    BY <1>2, <1>3
  <2> QED
    BY <1>4, <1>6, <2>1
<1>9. c + d = e
  <2>1. n \in Nat /\ c \in Nat /\ d \in Nat /\ e \in Nat /\ c <= e /\ e <= n /\ d <= n - c
    BY <1>2, <1>3, <1>4, <1>6, <1>7
  <2>2. CASE c + d < e
    <3>1. d + 1 \in 1..(n - c) /\ d + 1 > d /\ ~(c + (d + 1) > e)
      BY <2>1, <2>2
    <3> QED
      BY <1>8, <3>1
  <2>3. CASE c + d > e
    <3>1. d \in 1..(n - c) /\ ~(d > d) /\ c + d > e
      BY <2>1, <2>3
    <3> QED
      BY <1>8, <3>1
  <2> QED
    BY <2>1, <2>2, <2>3
<1>10. Len(a) = Len(b)
  BY <1>2, <1>3, <1>4, <1>6, <1>9
<1>11. \A i \in 1..Len(a) : a[i] = b[i]
  <2> SUFFICES ASSUME NEW i \in 1..Len(a) PROVE a[i] = b[i]
    OBVIOUS
  <2>1. /\ i \in 1..((n - c) - d) /\ i \in 1..(n - e) /\ d + i \in 1..(n - c)
        /\ c + (d + i) = e + i
    BY <1>2, <1>3, <1>4, <1>6, <1>9
  <2>2. a[i] = s[d + i] /\ s[d + i] = seq[c + (d + i)] /\ b[i] = seq[e + i]
    BY <1>3, <1>4, <1>6, <2>1
  <2> QED
    BY <2>1, <2>2
<1>12. a = b
  BY <1>4, <1>6, <1>10, <1>11, SeqEqual
<1> QED
  BY <1>1, <1>12

(* A key is dead once its last time has aged, and pruning keeps that time. *)
LEMMA LastDecides ==
  ASSUME NEW seq, NEW t \in Nat, NEW u \in Nat, TimesSound(seq, t), Len(seq) >= 1
  PROVE  /\ LastOf(seq) \in Nat /\ LastOf(seq) <= t
         /\ LiveOf(seq, u) = <<>> <=> ~InWindow(LastOf(seq), u)
         /\ LiveOf(seq, u) # <<>> =>
              LastOf(LiveOf(seq, u)) = LastOf(seq) /\ Len(LiveOf(seq, u)) >= 1
<1>1. PICK n, s : n = Len(seq) /\ s = LiveOf(seq, u)
  OBVIOUS
<1>2. n \in Nat /\ n >= 1 /\ n \in 1..n /\ seq[n] \in Nat /\ seq[n] <= t /\ n \in DOMAIN seq
  BY <1>1 DEF TimesSound
<1>3. PICK c \in 0..n :
        /\ s \in Seq(Nat) /\ Len(s) = n - c /\ \A i \in 1..(n - c) : s[i] = seq[c + i]
        /\ \A i \in 1..n : InWindow(seq[i], u) <=> i > c
  BY <1>1, LiveElements DEF TimesSound
<1>4. s = <<>> <=> Len(s) = 0
  BY <1>3, EmptySeq
<1>5. InWindow(seq[n], u) <=> n > c
  BY <1>2, <1>3
<1>6. s = <<>> <=> ~InWindow(seq[n], u)
  BY <1>2, <1>3, <1>4, <1>5
<1>7. ASSUME s # <<>> PROVE s[Len(s)] = seq[n] /\ Len(s) >= 1
  <2>1. n - c \in 1..(n - c) /\ c + (n - c) = n /\ n - c >= 1
    BY <1>2, <1>3, <1>4, <1>7
  <2>2. s[n - c] = seq[c + (n - c)]
    BY <1>3, <2>1
  <2> QED
    BY <1>3, <2>1, <2>2
<1> QED
  BY <1>1, <1>2, <1>6, <1>7 DEF LastOf

-----------------------------------------------------------------------------
(* A sequence that lists a set, each member once; and one in the order of  *)
(* another.                                                                *)
Lists(seq, S) ==
  /\ seq \in Seq(S)
  /\ \A k \in S : \E i \in DOMAIN seq : seq[i] = k
  /\ \A i, j \in DOMAIN seq : seq[i] = seq[j] => i = j
InOrderOf(w, seq) ==
  \A i, j \in DOMAIN w : i <= j =>
    \E a, b \in DOMAIN seq : a <= b /\ w[i] = seq[a] /\ w[j] = seq[b]

LEMMA ListCounts ==
  ASSUME NEW seq, NEW S, Lists(seq, S)
  PROVE  IsFiniteSet(S) /\ Cardinality(S) = Len(seq) /\ Range(seq) = S
<1>1. seq \in Seq(S) /\ Len(seq) \in Nat /\ DOMAIN seq = 1..Len(seq)
  BY DEF Lists
<1>2. seq \in Bijection(1..Len(seq), S)
  <2>1. seq \in [1..Len(seq) -> S]
    BY <1>1
  <2>2. seq \in Injection(1..Len(seq), S)
    BY <1>1, <2>1 DEF Lists, Injection, IsInjective
  <2>3. seq \in Surjection(1..Len(seq), S)
    BY <1>1, <2>1 DEF Lists, Surjection
  <2> QED
    BY <2>2, <2>3 DEF Bijection
<1>3. ExistsBijection(1..Len(seq), S)
  BY <1>2 DEF ExistsBijection
<1>4. IsFiniteSet(1..Len(seq)) /\ Cardinality(S) = Len(seq)
  BY <1>1, <1>3, FS_Interval, FS_CountingElements
<1>5. IsFiniteSet(S)
  BY <1>3, <1>4, FS_Bijection
<1>6. Range(seq) = S
  BY <1>1 DEF Lists, Range
<1> QED
  BY <1>4, <1>5, <1>6

(* Without takes one key out and leaves the others in their order.         *)
LEMMA ListWithout ==
  ASSUME NEW seq, NEW S, NEW key \in S, Lists(seq, S)
  PROVE  /\ Lists(Without(seq, key), S \ {key})
         /\ Len(Without(seq, key)) = Len(seq) - 1
         /\ InOrderOf(Without(seq, key), seq)
<1>1. PICK n, w : n = Len(seq) /\ w = Without(seq, key)
  OBVIOUS
<1>2. n \in Nat /\ DOMAIN seq = 1..n /\ \A i \in 1..n : seq[i] \in S
  BY <1>1 DEF Lists
<1>3. PICK i \in 1..n : seq[i] = key /\ w = [j \in 1..(n - 1) |-> seq[IF j < i THEN j ELSE j + 1]]
  <2> DEFINE x == CHOOSE j \in DOMAIN seq : seq[j] = key
  <2>1. \E j \in DOMAIN seq : seq[j] = key
    BY DEF Lists
  <2>2. x \in DOMAIN seq /\ seq[x] = key
    BY <2>1
  <2>3. key \in Range(seq)
    BY <2>1 DEF Range
  <2>4. w = [j \in 1..(n - 1) |-> seq[IF j < x THEN j ELSE j + 1]]
    BY <1>1, <2>3 DEF Without
  <2> QED
    BY <1>2, <2>2, <2>4
<1> DEFINE from(j) == IF j < i THEN j ELSE j + 1
<1>4. n >= 1 /\ n - 1 \in Nat /\ i \in Nat
  BY <1>2
<1>5. \A j \in 1..(n - 1) : from(j) \in 1..n /\ from(j) # i
  BY <1>2
<1>6. \A j, l \in 1..(n - 1) : (j <= l => from(j) <= from(l)) /\ (from(j) = from(l) => j = l)
  BY <1>2
<1>7. \A a \in 1..n : a # i => \E j \in 1..(n - 1) : from(j) = a
  <2> SUFFICES ASSUME NEW a \in 1..n, a # i PROVE \E j \in 1..(n - 1) : from(j) = a
    OBVIOUS
  <2>1. CASE a < i
    <3>1. a \in 1..(n - 1) /\ from(a) = a
      BY <1>2, <2>1
    <3> QED
      BY <3>1
  <2>2. CASE a > i
    <3>1. a - 1 \in 1..(n - 1) /\ from(a - 1) = a
      BY <1>2, <2>2
    <3> QED
      BY <3>1
  <2> QED
    BY <1>2, <2>1, <2>2
<1>8. DOMAIN w = 1..(n - 1) /\ \A j \in 1..(n - 1) : w[j] = seq[from(j)]
  BY <1>3
<1> HIDE DEF from
<1>9. \A j \in 1..(n - 1) : w[j] \in S \ {key}
  <2> SUFFICES ASSUME NEW j \in 1..(n - 1) PROVE w[j] \in S \ {key}
    OBVIOUS
  <2>1. from(j) \in 1..n /\ from(j) # i /\ w[j] = seq[from(j)]
    BY <1>5, <1>8
  <2>2. seq[from(j)] # seq[i]
    BY <1>2, <2>1 DEF Lists
  <2> QED
    BY <1>2, <1>3, <2>1, <2>2
<1>10. w \in Seq(S \ {key}) /\ Len(w) = n - 1
  <2>1. w = [j \in 1..(n - 1) |-> w[j]]
    BY <1>3, <1>8
  <2>2. [j \in 1..(n - 1) |-> w[j]] \in Seq(S \ {key})
        /\ Len([j \in 1..(n - 1) |-> w[j]]) = n - 1
    BY <1>4, <1>9
  <2> QED
    BY <2>1, <2>2
<1>11. \A k \in S \ {key} : \E j \in DOMAIN w : w[j] = k
  <2> SUFFICES ASSUME NEW k \in S \ {key} PROVE \E j \in DOMAIN w : w[j] = k
    OBVIOUS
  <2>1. PICK a \in 1..n : seq[a] = k
    BY <1>2 DEF Lists
  <2>2. a # i
    BY <1>3, <2>1
  <2> QED
    BY <1>7, <1>8, <2>1, <2>2
<1>12. \A j, l \in DOMAIN w : w[j] = w[l] => j = l
  <2> SUFFICES ASSUME NEW j \in 1..(n - 1), NEW l \in 1..(n - 1), w[j] = w[l] PROVE j = l
    BY <1>8
  <2>1. from(j) = from(l)
    BY <1>2, <1>5, <1>8 DEF Lists
  <2> QED
    BY <1>6, <2>1
<1>13. InOrderOf(w, seq)
  BY <1>2, <1>5, <1>6, <1>8 DEF InOrderOf
<1> QED
  BY <1>1, <1>10, <1>11, <1>12, <1>13 DEF Lists

LEMMA ListAppend ==
  ASSUME NEW seq, NEW S, NEW key, key \notin S, Lists(seq, S)
  PROVE  /\ Lists(Append(seq, key), S \cup {key})
         /\ Len(Append(seq, key)) = Len(seq) + 1
         /\ \A i \in DOMAIN seq : Append(seq, key)[i] = seq[i]
         /\ Append(seq, key)[Len(seq) + 1] = key
<1>1. PICK n, w : n = Len(seq) /\ w = Append(seq, key)
  OBVIOUS
<1>2. n \in Nat /\ DOMAIN seq = 1..n /\ \A i \in 1..n : seq[i] \in S
  BY <1>1 DEF Lists
<1>3. seq \in Seq(S \cup {key})
  BY DEF Lists
<1>4. /\ w \in Seq(S \cup {key}) /\ Len(w) = n + 1
      /\ \A i \in 1..n : w[i] = seq[i]
      /\ w[n + 1] = key
  BY <1>1, <1>3, AppendProperties
<1>5. DOMAIN w = 1..(n + 1)
  BY <1>2, <1>4
<1>6. \A i \in 1..(n + 1) : i \in 1..n \/ i = n + 1
  BY <1>2
<1>7. \A k \in S \cup {key} : \E i \in DOMAIN w : w[i] = k
  <2>1. \A k \in S : \E i \in 1..n : seq[i] = k
    BY <1>2 DEF Lists
  <2>2. n + 1 \in DOMAIN w /\ \A i \in 1..n : i \in DOMAIN w
    BY <1>2, <1>5
  <2> QED
    BY <1>4, <2>1, <2>2
<1>8. \A i, j \in DOMAIN w : w[i] = w[j] => i = j
  <2> SUFFICES ASSUME NEW i \in 1..(n + 1), NEW j \in 1..(n + 1), w[i] = w[j] PROVE i = j
    BY <1>5
  <2>1. CASE i \in 1..n /\ j \in 1..n
    BY <1>2, <1>4, <2>1 DEF Lists
  <2>2. CASE i = n + 1 /\ j \in 1..n
    BY <1>2, <1>4, <2>2
  <2>3. CASE i \in 1..n /\ j = n + 1
    BY <1>2, <1>4, <2>3
  <2> QED
    BY <1>6, <2>1, <2>2, <2>3
<1> QED
  BY <1>1, <1>2, <1>4, <1>7, <1>8 DEF Lists

-----------------------------------------------------------------------------
(* The store. Both lists name the keys tracked, each once; slotOf is the   *)
(* place in slots; the order is by last write, which is a key's last time. *)
IsLedger(L) ==
  L \in [order : {L.order}, stamps : {L.stamps}, slots : {L.slots}, slotOf : {L.slotOf}]
OrderSound(L) == Lists(L.order, Tracked(L)) /\ Len(L.order) <= MaxTracked
SlotsSound(L) ==
  /\ L.slots \in Seq(Tracked(L)) /\ L.slotOf \in [Tracked(L) -> Nat]
  /\ \A k \in Tracked(L) : L.slotOf[k] \in DOMAIN L.slots /\ L.slots[L.slotOf[k]] = k
  /\ \A i \in DOMAIN L.slots : L.slotOf[L.slots[i]] = i
StampsSound(L, t) ==
  \A k \in Tracked(L) : TimesSound(L.stamps[k], t) /\ Len(L.stamps[k]) \in 1..Cap
LastWrite(L, k) == LastOf(L.stamps[k])
OldestFirst(L) ==
  \A i, j \in DOMAIN L.order : i <= j => LastWrite(L, L.order[i]) <= LastWrite(L, L.order[j])
StoreSound(L, t) ==
  IsLedger(L) /\ OrderSound(L) /\ SlotsSound(L) /\ StampsSound(L, t) /\ OldestFirst(L)

(* What the store promises follows.                                        *)
LEMMA SoundIsIndexed ==
  ASSUME NEW L, NEW t \in Nat, StoreSound(L, t)
  PROVE  Indexed(L) /\ FrontDiesFirst(L, t) /\ Cardinality(Tracked(L)) = Len(L.order)
<1>1. PICK T, o : T = Tracked(L) /\ o = L.order
  OBVIOUS
<1>2. Lists(o, T) /\ Lists(L.slots, T)
  BY <1>1 DEF StoreSound, OrderSound, SlotsSound, Lists
<1>3. Range(o) = T /\ Len(o) = Cardinality(T) /\ Len(L.slots) = Cardinality(T)
  <2>1. Range(o) = T /\ Len(o) = Cardinality(T)
    BY <1>2, ListCounts
  <2>2. Len(L.slots) = Cardinality(T)
    BY <1>2, ListCounts
  <2> QED
    BY <2>1, <2>2
<1>4. Indexed(L)
  BY <1>1, <1>3 DEF Indexed, StoreSound, OrderSound, SlotsSound
<1>5. ASSUME NEW k \in T, Dead(L, k, t)
      PROVE  Dead(L, Head(o), t)
  <2>1. PICK i \in DOMAIN o : o[i] = k
    BY <1>2 DEF Lists
  <2>2. 1 \in DOMAIN o /\ 1 <= i /\ Head(o) = o[1] /\ o[1] \in T
    BY <1>2, <2>1 DEF Lists
  <2>3. LastWrite(L, o[1]) <= LastWrite(L, k)
    BY <1>1, <2>1, <2>2 DEF StoreSound, OldestFirst
  <2>4. \A j \in T : /\ LastWrite(L, j) \in Nat
                     /\ Dead(L, j, t) <=> ~InWindow(LastWrite(L, j), t)
    <3> SUFFICES ASSUME NEW j \in T
                 PROVE  /\ LastWrite(L, j) \in Nat
                        /\ Dead(L, j, t) <=> ~InWindow(LastWrite(L, j), t)
      OBVIOUS
    <3>1. PICK s : s = L.stamps[j]
      OBVIOUS
    <3>2. TimesSound(s, t) /\ Len(s) >= 1
      BY <1>1, <3>1, LedgerAssumption DEF StoreSound, StampsSound
    <3>3. LastOf(s) \in Nat /\ (LiveOf(s, t) = <<>> <=> ~InWindow(LastOf(s), t))
      BY <3>2, LastDecides
    <3>4. Dead(L, j, t) <=> LiveOf(s, t) = <<>>
      BY <1>1, <3>1 DEF Dead, LiveStamps, StampsOf
    <3> QED
      BY <3>1, <3>3, <3>4 DEF LastWrite
  <2>5. ~InWindow(LastWrite(L, k), t) /\ Window \in Nat
    BY <1>5, <2>4, LedgerAssumption
  <2>6. ~InWindow(LastWrite(L, o[1]), t)
    BY <2>2, <2>3, <2>4, <2>5 DEF InWindow
  <2> QED
    BY <2>2, <2>4, <2>6
<1>6. FrontDiesFirst(L, t)
  BY <1>1, <1>5 DEF FrontDiesFirst
<1> QED
  BY <1>1, <1>3, <1>4, <1>6

LEMMA EmptyIsSound ==
  ASSUME NEW t \in Nat
  PROVE  StoreSound(Empty, t) /\ Tracked(Empty) = {}
<1>1. /\ Empty.order = <<>> /\ Empty.slots = <<>> /\ Empty.stamps = Nothing
      /\ Empty.slotOf = Nothing /\ IsLedger(Empty)
  BY DEF Empty, IsLedger
<1>2. Tracked(Empty) = {} /\ DOMAIN Empty.slotOf = {}
  BY <1>1 DEF Tracked, Nothing
<1>3. <<>> \in Seq({}) /\ DOMAIN <<>> = {} /\ Len(<<>>) = 0
  OBVIOUS
<1>4. Empty.slotOf \in [{} -> Nat]
  BY <1>1 DEF Nothing
<1>5. OrderSound(Empty)
  BY <1>1, <1>2, <1>3, LedgerAssumption DEF OrderSound, Lists
<1>6. SlotsSound(Empty)
  BY <1>1, <1>2, <1>3, <1>4 DEF SlotsSound
<1>7. StampsSound(Empty, t) /\ OldestFirst(Empty)
  BY <1>1, <1>2, <1>3 DEF StampsSound, OldestFirst
<1> QED
  BY <1>1, <1>2, <1>5, <1>6, <1>7 DEF StoreSound

(* Time passes.                                                            *)
LEMMA SoundLater ==
  ASSUME NEW L, NEW t \in Nat, StoreSound(L, t)
  PROVE  StoreSound(L, t + 1)
<1>1. ASSUME NEW seq, TimesSound(seq, t)
      PROVE  TimesSound(seq, t + 1)
  <2>1. \A i \in DOMAIN seq : seq[i] \in Nat /\ seq[i] <= t
    BY <1>1 DEF TimesSound
  <2>2. \A i \in DOMAIN seq : seq[i] <= t + 1
    BY <2>1
  <2> QED
    BY <1>1, <2>2 DEF TimesSound
<1> QED
  BY <1>1 DEF StoreSound, StampsSound

(* _drop: the other keys stay, and the two indices agree after the last    *)
(* slot has moved into the hole.                                           *)
LEMMA DropSound ==
  ASSUME NEW L, NEW t \in Nat, NEW key \in Tracked(L), StoreSound(L, t)
  PROVE  /\ StoreSound(Drop(L, key), t)
         /\ Tracked(Drop(L, key)) = Tracked(L) \ {key}
         /\ \A k \in Tracked(Drop(L, key)) : Drop(L, key).stamps[k] = L.stamps[k]
         /\ Len(Drop(L, key).order) = Len(L.order) - 1
<1> DEFINE i == L.slotOf[key]
<1>1. PICK T, S, n, M, U : /\ T = Tracked(L) /\ S = L.slots /\ n = Len(L.slots)
                           /\ M = Drop(L, key) /\ U = T \ {key}
  OBVIOUS
<1>2. /\ M.order = Without(L.order, key)
      /\ M.stamps = Restrict(L.stamps, U)
      /\ M.slots = SubSeq([S EXCEPT ![i] = S[n]], 1, n - 1)
      /\ M.slotOf = Restrict([L.slotOf EXCEPT ![S[n]] = i], U)
      /\ IsLedger(M)
  BY <1>1 DEF Drop, IsLedger, Reindexed, LastOf
<1>3. Tracked(M) = U /\ \A k \in U : M.stamps[k] = L.stamps[k]
  BY <1>1, <1>2 DEF Tracked, Restrict
<1>4. /\ Lists(M.order, U) /\ Len(M.order) = Len(L.order) - 1
      /\ InOrderOf(M.order, L.order)
  BY <1>1, <1>2, ListWithout DEF StoreSound, OrderSound
<1>5. OrderSound(M)
  <2>1. Len(L.order) \in Nat /\ Len(L.order) <= MaxTracked /\ MaxTracked \in Nat
    BY LedgerAssumption DEF StoreSound, OrderSound, Lists
  <2> QED
    BY <1>3, <1>4, <2>1 DEF OrderSound
<1>6. StampsSound(M, t)
  BY <1>1, <1>3 DEF StoreSound, StampsSound
<1>7. OldestFirst(M)
  <2> SUFFICES ASSUME NEW a \in DOMAIN M.order, NEW b \in DOMAIN M.order, a <= b
               PROVE  LastWrite(M, M.order[a]) <= LastWrite(M, M.order[b])
    BY DEF OldestFirst
  <2>1. PICK c \in DOMAIN L.order, d \in DOMAIN L.order :
          c <= d /\ M.order[a] = L.order[c] /\ M.order[b] = L.order[d]
    BY <1>4 DEF InOrderOf
  <2>2. M.order[a] \in U /\ M.order[b] \in U
    BY <1>4 DEF Lists
  <2>3. LastWrite(M, M.order[a]) = LastWrite(L, L.order[c])
        /\ LastWrite(M, M.order[b]) = LastWrite(L, L.order[d])
    BY <1>3, <2>1, <2>2 DEF LastWrite
  <2>4. LastWrite(L, L.order[c]) <= LastWrite(L, L.order[d])
    BY <2>1 DEF StoreSound, OldestFirst
  <2> QED
    BY <2>3, <2>4
<1>8. SlotsSound(M)
  <2>1. /\ S \in Seq(T) /\ n \in Nat /\ DOMAIN S = 1..n /\ i \in 1..n /\ S[i] = key
        /\ n \in 1..n /\ S[n] \in T /\ L.slotOf \in [T -> Nat]
    BY <1>1 DEF StoreSound, SlotsSound
  <2>2. /\ \A k \in T : L.slotOf[k] \in 1..n /\ S[L.slotOf[k]] = k
        /\ \A j \in 1..n : S[j] \in T /\ L.slotOf[S[j]] = j
    BY <1>1, <2>1 DEF StoreSound, SlotsSound
  <2>3. PICK R, f : R = M.slots /\ f = M.slotOf
    OBVIOUS
  <2>4. /\ R \in Seq(T) /\ Len(R) = n - 1
        /\ \A j \in 1..(n - 1) : R[j] = IF j = i THEN S[n] ELSE S[j]
    <3>1. PICK X : X = [S EXCEPT ![i] = S[n]]
      OBVIOUS
    <3>2. \A j \in 1..n : X[j] = IF j = i THEN S[n] ELSE S[j]
      BY <2>1, <3>1
    <3>3. \A j \in 1..(n - 1) : j \in 1..n
      BY <2>1
    <3>4. \A j \in 1..(n - 1) : X[j] \in T
      BY <2>1, <2>2, <3>2, <3>3
    <3>5. 1 \in Int /\ n - 1 \in Int
      BY <2>1
    <3>6. /\ SubSeq(X, 1, n - 1) \in Seq(T)
          /\ Len(SubSeq(X, 1, n - 1)) = IF 1 <= n - 1 THEN (n - 1) - 1 + 1 ELSE 0
          /\ \A j \in 1..((n - 1) - 1 + 1) : SubSeq(X, 1, n - 1)[j] = X[1 + j - 1]
      BY <3>4, <3>5, SubSeqProperties
    <3>7. R = SubSeq(X, 1, n - 1)
      BY <1>2, <2>3, <3>1
    <3>8. Len(R) = n - 1
      BY <2>1, <3>6, <3>7
    <3>9. \A j \in 1..(n - 1) : j \in 1..((n - 1) - 1 + 1) /\ 1 + j - 1 = j
      BY <2>1
    <3>10. \A j \in 1..(n - 1) : R[j] = X[j]
      BY <3>6, <3>7, <3>9
    <3> QED
      BY <3>2, <3>3, <3>6, <3>7, <3>8, <3>10
  <2>5. /\ DOMAIN f = U
        /\ \A k \in U : f[k] = IF k = S[n] THEN i ELSE L.slotOf[k]
    BY <1>1, <1>2, <2>1, <2>3 DEF Restrict
  <2>6. DOMAIN R = 1..(n - 1) /\ \A j \in 1..n : j # n => j \in 1..(n - 1)
    BY <2>1, <2>4
  <2>7. ASSUME NEW k \in U
        PROVE  f[k] \in 1..(n - 1) /\ R[f[k]] = k
    <3>1. k \in T /\ k # key /\ L.slotOf[k] \in 1..n /\ S[L.slotOf[k]] = k /\ L.slotOf[k] # i
      BY <1>1, <2>1, <2>2, <2>7
    <3>2. CASE k = S[n]
      <4>1. L.slotOf[k] = n /\ f[k] = i /\ i # n
        BY <2>1, <2>2, <2>5, <3>1, <3>2
      <4> QED
        BY <2>1, <2>4, <2>6, <3>2, <4>1
    <3>3. CASE k # S[n]
      <4>1. L.slotOf[k] # n /\ f[k] = L.slotOf[k]
        BY <2>5, <3>1, <3>3
      <4> QED
        BY <2>4, <2>6, <3>1, <4>1
    <3> QED
      BY <3>2, <3>3
  <2>8. ASSUME NEW j \in 1..(n - 1)
        PROVE  R[j] \in U /\ f[R[j]] = j
    <3>1. j \in 1..n /\ j # n
      BY <2>1
    <3>2. CASE j = i
      <4>1. R[j] = S[n] /\ S[n] # key
        BY <2>1, <2>2, <2>4, <3>1, <3>2
      <4> QED
        BY <1>1, <2>1, <2>5, <3>2, <4>1
    <3>3. CASE j # i
      <4>1. R[j] = S[j] /\ S[j] \in T /\ S[j] # key /\ S[j] # S[n] /\ L.slotOf[S[j]] = j
        BY <2>1, <2>2, <2>4, <3>1, <3>3
      <4> QED
        BY <1>1, <2>5, <4>1
    <3> QED
      BY <3>2, <3>3
  <2>9. R \in Seq(U)
    <3>1. R = [j \in 1..(n - 1) |-> R[j]] /\ n - 1 \in Nat
      BY <2>1, <2>4, <2>6
    <3>2. \A j \in 1..(n - 1) : R[j] \in U
      BY <2>8
    <3>3. [j \in 1..(n - 1) |-> R[j]] \in Seq(U)
      BY <3>1, <3>2
    <3> QED
      BY <3>1, <3>3
  <2>10. f \in [U -> Nat]
    <3>1. f = [k \in U |-> f[k]]
      BY <1>2, <2>3, <2>5 DEF Restrict
    <3>2. \A k \in U : f[k] \in Nat
      BY <2>1, <2>7
    <3> QED
      BY <3>1, <3>2
  <2> QED
    BY <1>3, <2>3, <2>6, <2>7, <2>8, <2>9, <2>10 DEF SlotsSound
<1> QED
  BY <1>1, <1>2, <1>3, <1>4, <1>5, <1>6, <1>7, <1>8 DEF StoreSound

(* The times of a tracked key, and what is live of any key's.              *)
LEMMA KeyTimes ==
  ASSUME NEW L, NEW t \in Nat, NEW key, StoreSound(L, t)
  PROVE  /\ TimesSound(LiveStamps(L, key, t), t)
         /\ \A i \in DOMAIN LiveStamps(L, key, t) : InWindow(LiveStamps(L, key, t)[i], t)
         /\ Len(LiveStamps(L, key, t)) \in 0..Cap
         /\ key \notin Tracked(L) => LiveStamps(L, key, t) = <<>>
         /\ key \in Tracked(L) => LiveStamps(L, key, t) = LiveOf(L.stamps[key], t)
<1>1. CASE key \in Tracked(L)
  <2>1. PICK s : s = L.stamps[key]
    OBVIOUS
  <2>2. TimesSound(s, t) /\ Len(s) \in 1..Cap
    BY <1>1, <2>1 DEF StoreSound, StampsSound
  <2>3. LiveStamps(L, key, t) = LiveOf(s, t)
    BY <1>1, <2>1 DEF LiveStamps, StampsOf
  <2>4. /\ TimesSound(LiveOf(s, t), t)
        /\ Len(LiveOf(s, t)) \in Nat /\ Len(LiveOf(s, t)) <= Len(s)
        /\ \A i \in DOMAIN LiveOf(s, t) : InWindow(LiveOf(s, t)[i], t)
    BY <2>2, LiveTimes
  <2>5. Len(LiveOf(s, t)) \in 0..Cap
    BY <2>2, <2>4, LedgerAssumption
  <2> QED
    BY <1>1, <2>1, <2>3, <2>4, <2>5
<1>2. CASE key \notin Tracked(L)
  <2>1. <<>> \in Seq(Nat) /\ DOMAIN <<>> = {} /\ Len(<<>>) = 0
    OBVIOUS
  <2>2. Ascending(<<>>) /\ TimesSound(<<>>, t)
    BY <2>1 DEF Ascending, TimesSound
  <2>3. LiveOf(<<>>, t) = <<>>
    BY <2>1, <2>2, LiveOfTheLive
  <2>4. LiveStamps(L, key, t) = <<>>
    BY <1>2, <2>3 DEF LiveStamps, StampsOf
  <2> QED
    BY <1>2, <2>1, <2>2, <2>4, LedgerAssumption
<1> QED
  BY <1>1, <1>2

(* One more time, now, for a key that held fewer than Cap live ones: no    *)
(* time is cut off.                                                        *)
LEMMA OneMoreTime ==
  ASSUME NEW s, NEW t \in Nat, TimesSound(s, t), Len(s) < Cap,
         \A i \in DOMAIN s : InWindow(s[i], t)
  PROVE  /\ Newest(Append(s, t)) = Append(s, t)
         /\ TimesSound(Append(s, t), t)
         /\ Len(Append(s, t)) \in 1..Cap /\ LastOf(Append(s, t)) = t
         /\ LiveOf(Append(s, t), t) = Append(s, t)
<1>1. PICK n, w : n = Len(s) /\ w = Append(s, t)
  OBVIOUS
<1>2. /\ s \in Seq(Nat) /\ n \in Nat /\ DOMAIN s = 1..n /\ Ascending(s)
      /\ \A i \in 1..n : s[i] \in Nat /\ s[i] <= t
      /\ Cap \in Nat /\ Window \in Nat \ {0}
  BY <1>1, LedgerAssumption DEF TimesSound
<1>3. /\ w \in Seq(Nat) /\ Len(w) = n + 1
      /\ \A i \in 1..n : w[i] = s[i]
      /\ w[n + 1] = t
  BY <1>1, <1>2, AppendProperties
<1>4. DOMAIN w = 1..(n + 1) /\ \A i \in 1..(n + 1) : i \in 1..n \/ i = n + 1
  BY <1>2, <1>3
<1>5. \A i \in DOMAIN w : w[i] <= t /\ InWindow(w[i], t)
  <2>1. InWindow(t, t)
    BY <1>2 DEF InWindow
  <2>2. \A i \in 1..n : w[i] <= t /\ InWindow(w[i], t)
    BY <1>2, <1>3
  <2> QED
    BY <1>3, <1>4, <2>1, <2>2
<1>6. Ascending(w)
  <2> SUFFICES ASSUME NEW i \in 1..(n + 1), NEW j \in 1..(n + 1), i <= j PROVE w[i] <= w[j]
    BY <1>4 DEF Ascending
  <2>1. CASE j = n + 1
    BY <1>3, <1>4, <1>5, <2>1
  <2>2. CASE j \in 1..n
    <3>1. i \in 1..n
      BY <1>2, <2>2
    <3>2. s[i] <= s[j]
      BY <1>2, <2>2, <3>1 DEF Ascending
    <3> QED
      BY <1>3, <2>2, <3>1, <3>2
  <2> QED
    BY <1>4, <2>1, <2>2
<1>7. Newest(w) = w
  <2>1. ~(Len(w) > Cap)
    BY <1>1, <1>2, <1>3
  <2>2. SubSeq(w, 1, Len(w)) = w
    BY <1>3, SubSeqFull
  <2> QED
    BY <2>1, <2>2 DEF Newest
<1>8. LiveOf(w, t) = w
  BY <1>3, <1>5, <1>6, LiveOfTheLive
<1>9. Len(w) \in 1..Cap /\ LastOf(w) = t
  BY <1>1, <1>2, <1>3 DEF LastOf
<1> QED
  BY <1>1, <1>3, <1>5, <1>6, <1>7, <1>8, <1>9 DEF TimesSound

(* Removing a key that is not there changes nothing.                       *)
LEMMA WithoutNothing ==
  ASSUME NEW seq, NEW S, Lists(seq, S), NEW key, key \notin S
  PROVE  Without(seq, key) = seq
<1>1. Range(seq) = S
  BY ListCounts
<1> QED
  BY <1>1 DEF Without

(* move_to_end: the key written now is the last of the order, and the      *)
(* others are before it as they were.                                      *)
KeyMovedLast(m, o, key) ==
  \A i, j \in DOMAIN m : i <= j =>
    \/ m[j] = key
    \/ \E a, b \in DOMAIN o : /\ a <= b /\ o[a] # key /\ o[b] # key
                              /\ m[i] = o[a] /\ m[j] = o[b]

LEMMA MovedToEndSound ==
  ASSUME NEW L, NEW t \in Nat, NEW key, StoreSound(L, t)
  PROVE  /\ Lists(MovedToEnd(L, key), Tracked(L) \cup {key})
         /\ Len(MovedToEnd(L, key)) = IF key \in Tracked(L) THEN Len(L.order)
                                      ELSE Len(L.order) + 1
         /\ KeyMovedLast(MovedToEnd(L, key), L.order, key)
<1>1. PICK T, o, w, m : /\ T = Tracked(L) /\ o = L.order /\ w = Without(o, key)
                        /\ m = MovedToEnd(L, key)
  OBVIOUS
<1>2. Lists(o, T) /\ m = Append(w, key) /\ Len(o) \in Nat
  BY <1>1 DEF StoreSound, OrderSound, MovedToEnd, Lists
<1>3. /\ Lists(w, T \ {key}) /\ InOrderOf(w, o)
      /\ Len(w) = IF key \in T THEN Len(o) - 1 ELSE Len(o)
  <2>1. CASE key \in T
    BY <1>1, <1>2, <2>1, ListWithout
  <2>2. CASE key \notin T
    <3>1. w = o
      BY <1>1, <1>2, <2>2, WithoutNothing
    <3>2. T \ {key} = T
      BY <2>2
    <3> QED
      BY <1>2, <2>2, <3>1, <3>2 DEF InOrderOf
  <2> QED
    BY <2>1, <2>2
<1>4. PICK U : U = T \ {key}
  OBVIOUS
<1>5. /\ Lists(m, U \cup {key}) /\ Len(m) = Len(w) + 1
      /\ \A i \in DOMAIN w : m[i] = w[i]
      /\ m[Len(w) + 1] = key
  <2>1. Lists(w, U) /\ key \notin U
    BY <1>3, <1>4
  <2> QED
    BY <1>2, <2>1, ListAppend
<1>6. U \cup {key} = T \cup {key}
  BY <1>4
<1>7. Len(w) \in Nat /\ DOMAIN w = 1..Len(w) /\ \A j \in DOMAIN w : w[j] \in U
  BY <1>3, <1>4 DEF Lists
<1>8. DOMAIN m = 1..(Len(w) + 1)
  BY <1>5, <1>7 DEF Lists
<1>9. ASSUME NEW i \in DOMAIN m, NEW j \in DOMAIN m, i <= j, m[j] # key
      PROVE  \E a, b \in DOMAIN o : /\ a <= b /\ o[a] # key /\ o[b] # key
                                    /\ m[i] = o[a] /\ m[j] = o[b]
  <2>1. j # Len(w) + 1
    BY <1>5, <1>9
  <2>2. i \in DOMAIN w /\ j \in DOMAIN w
    BY <1>7, <1>8, <1>9, <2>1
  <2>3. PICK a \in DOMAIN o, b \in DOMAIN o : a <= b /\ w[i] = o[a] /\ w[j] = o[b]
    BY <1>3, <1>9, <2>2 DEF InOrderOf
  <2>4. m[i] = w[i] /\ m[j] = w[j] /\ w[i] # key /\ w[j] # key
    BY <1>4, <1>5, <1>7, <2>2
  <2> QED
    BY <2>3, <2>4
<1>10. KeyMovedLast(m, o, key)
  BY <1>9 DEF KeyMovedLast
<1>11. Len(m) = IF key \in T THEN Len(o) ELSE Len(o) + 1
  BY <1>2, <1>3, <1>5, <1>7
<1>12. Lists(m, T \cup {key})
  BY <1>5, <1>6
<1> QED
  BY <1>1, <1>10, <1>11, <1>12

(* _charge's write, of a key tracked or of a new one there is room for.    *)
Charged(L, key, seq) ==
  IF key \in Tracked(L) THEN Write(L, key, seq) ELSE Write(Entered(L, key), key, seq)

LEMMA WriteSound ==
  ASSUME NEW L, NEW t \in Nat, NEW key, NEW seq, StoreSound(L, t),
         key \in Tracked(L) \/ Len(L.order) < MaxTracked,
         TimesSound(seq, t), Len(seq) \in 1..Cap, LastOf(seq) = t
  PROVE  /\ StoreSound(Charged(L, key, seq), t)
         /\ Tracked(Charged(L, key, seq)) = Tracked(L) \cup {key}
         /\ Charged(L, key, seq).stamps[key] = seq
         /\ \A k \in Tracked(L) : k # key => Charged(L, key, seq).stamps[k] = L.stamps[k]
<1>1. PICK T, M, U : T = Tracked(L) /\ M = Charged(L, key, seq) /\ U = T \cup {key}
  OBVIOUS
<1>2. /\ M.order = MovedToEnd(L, key) /\ M.stamps = Put(L.stamps, key, seq)
      /\ M.slots = IF key \in T THEN L.slots ELSE Append(L.slots, key)
      /\ M.slotOf = IF key \in T THEN L.slotOf ELSE Put(L.slotOf, key, Len(L.slots) + 1)
      /\ IsLedger(M)
  <2>1. CASE key \in T
    BY <1>1, <2>1 DEF Charged, Write, StoreSound, IsLedger
  <2>2. CASE key \notin T
    <3>1. PICK E : E = Entered(L, key)
      OBVIOUS
    <3>2. /\ E.order = L.order /\ E.stamps = L.stamps /\ IsLedger(E)
          /\ E.slots = Append(L.slots, key) /\ E.slotOf = Put(L.slotOf, key, Len(L.slots) + 1)
      BY <3>1 DEF Entered, StoreSound, IsLedger
    <3>3. M = Write(E, key, seq)
      BY <1>1, <2>2, <3>1 DEF Charged
    <3>4. /\ M.order = MovedToEnd(E, key) /\ M.stamps = Put(E.stamps, key, seq)
          /\ M.slots = E.slots /\ M.slotOf = E.slotOf /\ IsLedger(M)
      BY <3>2, <3>3 DEF Write, IsLedger
    <3> QED
      BY <2>2, <3>2, <3>4 DEF MovedToEnd
  <2> QED
    BY <2>1, <2>2
<1>3. /\ Tracked(M) = U /\ M.stamps[key] = seq
      /\ \A k \in T : k # key => M.stamps[k] = L.stamps[k]
  BY <1>1, <1>2 DEF Tracked, Put
<1>4. /\ Lists(M.order, U)
      /\ Len(M.order) = IF key \in T THEN Len(L.order) ELSE Len(L.order) + 1
      /\ KeyMovedLast(M.order, L.order, key)
  BY <1>1, <1>2, MovedToEndSound
<1>5. OrderSound(M)
  <2>1. Len(L.order) \in Nat /\ Len(L.order) <= MaxTracked /\ MaxTracked \in Nat
    BY LedgerAssumption DEF StoreSound, OrderSound, Lists
  <2>2. Len(M.order) <= MaxTracked
    BY <1>1, <1>4, <2>1
  <2> QED
    BY <1>3, <1>4, <2>2 DEF OrderSound
<1>6. StampsSound(M, t)
  BY <1>1, <1>3 DEF StoreSound, StampsSound
<1>7. OldestFirst(M)
  <2> SUFFICES ASSUME NEW i \in DOMAIN M.order, NEW j \in DOMAIN M.order, i <= j
               PROVE  LastWrite(M, M.order[i]) <= LastWrite(M, M.order[j])
    BY DEF OldestFirst
  <2>1. \A k \in U : LastWrite(M, k) \in Nat /\ LastWrite(M, k) <= t
    <3> SUFFICES ASSUME NEW k \in U PROVE LastWrite(M, k) \in Nat /\ LastWrite(M, k) <= t
      OBVIOUS
    <3>1. PICK s : s = M.stamps[k]
      OBVIOUS
    <3>2. TimesSound(s, t) /\ Len(s) >= 1
      BY <1>3, <1>6, <3>1, LedgerAssumption DEF StampsSound
    <3> QED
      BY <3>1, <3>2, LastDecides DEF LastWrite
  <2>2. M.order[i] \in U /\ M.order[j] \in U
    BY <1>4 DEF Lists
  <2>3. CASE M.order[j] = key
    <3>1. LastWrite(M, M.order[j]) = t
      BY <1>3, <2>3 DEF LastWrite
    <3> QED
      BY <2>1, <2>2, <3>1
  <2>4. CASE M.order[j] # key
    <3>1. PICK a \in DOMAIN L.order, b \in DOMAIN L.order :
            /\ a <= b /\ L.order[a] # key /\ L.order[b] # key
            /\ M.order[i] = L.order[a] /\ M.order[j] = L.order[b]
      BY <1>4, <2>4 DEF KeyMovedLast
    <3>2. LastWrite(L, L.order[a]) <= LastWrite(L, L.order[b])
      BY <3>1 DEF StoreSound, OldestFirst
    <3>3. L.order[a] \in T /\ L.order[b] \in T
      BY <1>1 DEF StoreSound, OrderSound, Lists
    <3>4. LastWrite(M, M.order[i]) = LastWrite(L, L.order[a])
          /\ LastWrite(M, M.order[j]) = LastWrite(L, L.order[b])
      BY <1>3, <3>1, <3>3 DEF LastWrite
    <3> QED
      BY <3>2, <3>4
  <2> QED
    BY <2>3, <2>4
<1>8. SlotsSound(M)
  <2>1. /\ L.slots \in Seq(T) /\ L.slotOf \in [T -> Nat]
        /\ \A k \in T : L.slotOf[k] \in DOMAIN L.slots /\ L.slots[L.slotOf[k]] = k
        /\ \A i \in DOMAIN L.slots : L.slotOf[L.slots[i]] = i
    BY <1>1 DEF StoreSound, SlotsSound
  <2>2. CASE key \in T
    <3>1. U = T /\ M.slots = L.slots /\ M.slotOf = L.slotOf
      BY <1>1, <1>2, <2>2
    <3> QED
      BY <1>3, <2>1, <3>1 DEF SlotsSound
  <2>3. CASE key \notin T
    <3>1. PICK n, S, R, f : /\ n = Len(L.slots) /\ S = L.slots /\ R = M.slots /\ f = M.slotOf
      OBVIOUS
    <3>2. n \in Nat /\ DOMAIN S = 1..n /\ S \in Seq(U)
      BY <1>1, <2>1, <3>1
    <3>3. /\ R \in Seq(U) /\ Len(R) = n + 1
          /\ \A i \in 1..n : R[i] = S[i]
          /\ R[n + 1] = key
      <4>1. R = Append(S, key) /\ key \in U
        BY <1>1, <1>2, <2>3, <3>1
      <4> QED
        BY <3>1, <3>2, <4>1, AppendProperties
    <3>4. DOMAIN R = 1..(n + 1) /\ \A i \in 1..(n + 1) : i \in 1..n \/ i = n + 1
      BY <3>2, <3>3
    <3>5. DOMAIN f = U /\ f[key] = n + 1 /\ (\A k \in T : f[k] = L.slotOf[k])
          /\ f = [k \in U |-> f[k]]
      BY <1>1, <1>2, <2>1, <2>3, <3>1 DEF Put
    <3>6. f \in [U -> Nat]
      <4>1. \A k \in U : f[k] \in Nat
        BY <1>1, <2>1, <3>2, <3>5
      <4> QED
        BY <3>5, <4>1
    <3>7. \A k \in U : f[k] \in DOMAIN R /\ R[f[k]] = k
      <4> SUFFICES ASSUME NEW k \in U PROVE f[k] \in DOMAIN R /\ R[f[k]] = k
        OBVIOUS
      <4>1. CASE k = key
        BY <3>2, <3>3, <3>4, <3>5, <4>1
      <4>2. CASE k \in T
        <5>1. f[k] \in 1..n /\ S[f[k]] = k
          BY <2>1, <3>1, <3>2, <3>5, <4>2
        <5> QED
          BY <3>2, <3>3, <3>4, <5>1
      <4> QED
        BY <1>1, <4>1, <4>2
    <3>8. \A i \in DOMAIN R : f[R[i]] = i
      <4> SUFFICES ASSUME NEW i \in 1..(n + 1) PROVE f[R[i]] = i
        BY <3>4
      <4>1. CASE i = n + 1
        BY <3>3, <3>5, <4>1
      <4>2. CASE i \in 1..n
        <5>1. S[i] \in T /\ L.slotOf[S[i]] = i
          BY <2>1, <3>1, <3>2, <4>2
        <5> QED
          BY <3>3, <3>5, <4>2, <5>1
      <4> QED
        BY <3>4, <4>1, <4>2
    <3> QED
      BY <1>3, <3>1, <3>3, <3>6, <3>7, <3>8 DEF SlotsSound
  <2> QED
    BY <2>2, <2>3
<1> QED
  BY <1>1, <1>2, <1>3, <1>5, <1>6, <1>7, <1>8 DEF StoreSound

(* _make_room: a key goes only if the store is full, and a live one only   *)
(* if every key is live.                                                   *)
LostForRoom(L, k, t) ==
  /\ Len(L.order) = MaxTracked
  /\ Dead(L, k, t) \/ \A j \in Tracked(L) : ~Dead(L, j, t)

LEMMA RoomIsMade ==
  ASSUME NEW L, NEW t \in Nat, StoreSound(L, t), NEW M \in MakeRoom(L, t)
  PROVE  /\ StoreSound(M, t) /\ Len(M.order) < MaxTracked
         /\ Tracked(M) \subseteq Tracked(L)
         /\ \A k \in Tracked(M) : M.stamps[k] = L.stamps[k]
         /\ \A k \in Tracked(L) \ Tracked(M) : LostForRoom(L, k, t)
<1>1. /\ Len(L.order) \in Nat /\ Len(L.order) <= MaxTracked /\ MaxTracked \in Nat \ {0}
      /\ L.order \in Seq(Tracked(L)) /\ L.slots \in Seq(Tracked(L))
  BY LedgerAssumption DEF StoreSound, OrderSound, SlotsSound, Lists
<1>2. CASE Len(L.order) < MaxTracked
  BY <1>2 DEF MakeRoom
<1>3. CASE ~(Len(L.order) < MaxTracked)
  <2>1. Len(L.order) = MaxTracked /\ Len(L.order) - 1 < MaxTracked
    BY <1>1, <1>3
  <2>2. Head(L.order) \in Tracked(L)
    BY <1>1, <2>1
  <2>3. PICK k \in Tracked(L) :
          /\ M = Drop(L, k)
          /\ Dead(L, k, t) \/ ~Dead(L, Head(L.order), t)
    <3>1. CASE Dead(L, Head(L.order), t)
      BY <1>3, <2>2, <3>1 DEF MakeRoom
    <3>2. CASE ~Dead(L, Head(L.order), t)
      <4>1. PICK i \in DOMAIN L.slots : M = Drop(L, L.slots[i])
        BY <1>3, <3>2 DEF MakeRoom
      <4>2. L.slots[i] \in Tracked(L)
        BY <1>1
      <4> QED
        BY <3>2, <4>1, <4>2
    <3> QED
      BY <3>1, <3>2
  <2>4. /\ StoreSound(M, t) /\ Tracked(M) = Tracked(L) \ {k}
        /\ \A j \in Tracked(M) : M.stamps[j] = L.stamps[j]
        /\ Len(M.order) = Len(L.order) - 1
    BY <2>3, DropSound
  <2>5. FrontDiesFirst(L, t)
    BY SoundIsIndexed
  <2>6. Dead(L, k, t) \/ \A j \in Tracked(L) : ~Dead(L, j, t)
    BY <2>3, <2>5 DEF FrontDiesFirst
  <2>7. LostForRoom(L, k, t)
    BY <2>1, <2>6 DEF LostForRoom
  <2>8. \A j \in Tracked(L) \ Tracked(M) : j = k
    BY <2>4
  <2> QED
    BY <2>1, <2>4, <2>7, <2>8
<1> QED
  BY <1>2, <1>3

(* _spent's pruning: only what has aged goes.                              *)
LEMMA PruningSound ==
  ASSUME NEW L, NEW t \in Nat, NEW key, StoreSound(L, t)
  PROVE  /\ StoreSound(Pruned(L, key, t), t)
         /\ Tracked(Pruned(L, key, t)) \subseteq Tracked(L)
         /\ \A k \in Tracked(L) : k # key =>
              k \in Tracked(Pruned(L, key, t)) /\ Pruned(L, key, t).stamps[k] = L.stamps[k]
         /\ LiveStamps(Pruned(L, key, t), key, t) = LiveStamps(L, key, t)
         /\ key \notin Tracked(Pruned(L, key, t)) =>
              \/ Pruned(L, key, t) = L
              \/ Len(Pruned(L, key, t).order) = Len(L.order) - 1
<1>1. PICK P, T : P = Pruned(L, key, t) /\ T = Tracked(L)
  OBVIOUS
<1>2. CASE key \notin T
  <2>1. P = L
    BY <1>1, <1>2 DEF Pruned
  <2> QED
    BY <1>1, <1>2, <2>1
<1>3. CASE key \in T /\ Dead(L, key, t)
  <2>1. P = Drop(L, key)
    BY <1>1, <1>3 DEF Pruned
  <2>2. /\ StoreSound(P, t) /\ Tracked(P) = T \ {key}
        /\ \A k \in Tracked(P) : P.stamps[k] = L.stamps[k]
        /\ Len(P.order) = Len(L.order) - 1
    BY <1>1, <1>3, <2>1, DropSound
  <2>3. LiveStamps(P, key, t) = <<>>
    BY <2>2, KeyTimes
  <2>4. LiveStamps(L, key, t) = <<>>
    BY <1>3 DEF Dead
  <2> QED
    BY <1>1, <2>2, <2>3, <2>4
<1>4. CASE key \in T /\ ~Dead(L, key, t)
  <2>1. PICK s, l : s = L.stamps[key] /\ l = LiveStamps(L, key, t)
    OBVIOUS
  <2>2. l = LiveOf(s, t) /\ l # <<>> /\ TimesSound(s, t) /\ Len(s) \in 1..Cap
    BY <1>1, <1>4, <2>1, KeyTimes DEF Dead, StoreSound, StampsSound
  <2>3. TimesSound(l, t) /\ Len(l) \in 0..Cap /\ Len(l) >= 1 /\ LastOf(l) = LastOf(s)
    <3>1. TimesSound(l, t) /\ Len(l) \in 0..Cap
      BY <2>1, KeyTimes
    <3>2. Len(s) >= 1
      BY <2>2, LedgerAssumption
    <3> QED
      BY <2>2, <3>1, <3>2, LastDecides
  <2>4. /\ P.order = L.order /\ P.slots = L.slots /\ P.slotOf = L.slotOf
        /\ P.stamps = [L.stamps EXCEPT ![key] = l] /\ IsLedger(P)
    BY <1>1, <1>4, <2>1 DEF Pruned, StoreSound, IsLedger
  <2>5. /\ Tracked(P) = T /\ P.stamps[key] = l
        /\ \A k \in T : k # key => P.stamps[k] = L.stamps[k]
    BY <1>1, <1>4, <2>4 DEF Tracked
  <2>6. \A k \in T : LastWrite(P, k) = LastWrite(L, k)
    BY <2>1, <2>3, <2>5 DEF LastWrite
  <2>7. OldestFirst(P)
    <3>1. \A i \in DOMAIN L.order : L.order[i] \in T
      BY <1>1 DEF StoreSound, OrderSound, Lists
    <3> QED
      BY <2>4, <2>6, <3>1 DEF StoreSound, OldestFirst
  <2>8. Len(l) \in 1..Cap
    BY <2>3, LedgerAssumption
  <2>9. StampsSound(P, t)
    BY <1>1, <2>3, <2>5, <2>8 DEF StoreSound, StampsSound
  <2>10. OrderSound(P) /\ SlotsSound(P)
    BY <1>1, <2>4, <2>5 DEF StoreSound, OrderSound, SlotsSound
  <2>11. StoreSound(P, t)
    BY <2>4, <2>7, <2>9, <2>10 DEF StoreSound
  <2>12. LiveStamps(P, key, t) = LiveOf(l, t)
    BY <1>4, <2>5 DEF LiveStamps, StampsOf
  <2>13. LiveOf(l, t) = l
    <3>1. l \in Seq(Nat) /\ Ascending(l) /\ \A i \in DOMAIN l : InWindow(l[i], t)
      BY <2>1, <2>3, KeyTimes DEF TimesSound
    <3> QED
      BY <3>1, LiveOfTheLive
  <2> QED
    BY <1>1, <1>4, <2>1, <2>5, <2>11, <2>12, <2>13
<1> QED
  BY <1>1, <1>2, <1>3, <1>4

(* spend_password_attempt: the key gets one more time, and what else the   *)
(* store keeps it keeps as it was.                                         *)
LEMMA ChargeSound ==
  ASSUME NEW L, NEW t \in Nat, NEW key, StoreSound(L, t), ~Spent(L, key, t),
         NEW M \in Charge(Pruned(L, key, t), key, t)
  PROVE  /\ StoreSound(M, t) /\ key \in Tracked(M)
         /\ LiveStamps(M, key, t) = Append(LiveStamps(L, key, t), t)
         /\ \A k \in Tracked(M) : k # key => k \in Tracked(L) /\ M.stamps[k] = L.stamps[k]
         /\ \A k \in Tracked(L) \ Tracked(M) : k # key /\ LostForRoom(L, k, t)
<1>1. PICK P, l, seq : /\ P = Pruned(L, key, t) /\ l = LiveStamps(L, key, t)
                       /\ seq = Append(l, t)
  OBVIOUS
<1>2. /\ StoreSound(P, t) /\ Tracked(P) \subseteq Tracked(L)
      /\ \A k \in Tracked(L) : k # key => k \in Tracked(P) /\ P.stamps[k] = L.stamps[k]
      /\ LiveStamps(P, key, t) = l
      /\ key \notin Tracked(P) => P = L \/ Len(P.order) = Len(L.order) - 1
  BY <1>1, PruningSound
<1>3. TimesSound(l, t) /\ Len(l) < Cap /\ \A i \in DOMAIN l : InWindow(l[i], t)
  <2>1. /\ TimesSound(l, t) /\ Len(l) \in 0..Cap
        /\ \A i \in DOMAIN l : InWindow(l[i], t)
    BY <1>1, KeyTimes
  <2>2. ~(Len(l) >= Cap) /\ Cap \in Nat
    BY <1>1, LedgerAssumption DEF Spent
  <2>3. Len(l) < Cap
    BY <2>1, <2>2
  <2> QED
    BY <2>1, <2>3
<1>4. /\ Newest(Append(l, t)) = seq /\ TimesSound(seq, t) /\ Len(seq) \in 1..Cap
      /\ LastOf(seq) = t /\ LiveOf(seq, t) = seq
  BY <1>1, <1>3, OneMoreTime
<1>5. PICK R : /\ M = Charged(R, key, seq) /\ StoreSound(R, t)
               /\ key \in Tracked(R) \/ Len(R.order) < MaxTracked
               /\ Tracked(R) \subseteq Tracked(P)
               /\ \A k \in Tracked(R) : R.stamps[k] = P.stamps[k]
               /\ \A k \in Tracked(P) \ Tracked(R) : key \notin Tracked(P) /\ LostForRoom(P, k, t)
  <2>1. CASE key \in Tracked(P)
    <3>1. M = Charged(P, key, seq)
      BY <1>1, <1>2, <1>4, <2>1 DEF Charge, Charged
    <3> QED
      BY <1>2, <2>1, <3>1
  <2>2. CASE key \notin Tracked(P)
    <3>1. PICK R \in MakeRoom(P, t) : M = Write(Entered(R, key), key, seq)
      BY <1>1, <1>2, <1>4, <2>2 DEF Charge
    <3>2. /\ StoreSound(R, t) /\ Len(R.order) < MaxTracked
          /\ Tracked(R) \subseteq Tracked(P)
          /\ \A k \in Tracked(R) : R.stamps[k] = P.stamps[k]
          /\ \A k \in Tracked(P) \ Tracked(R) : LostForRoom(P, k, t)
      BY <1>2, <3>1, RoomIsMade
    <3>3. M = Charged(R, key, seq)
      BY <2>2, <3>1, <3>2 DEF Charged
    <3> QED
      BY <2>2, <3>2, <3>3
  <2> QED
    BY <2>1, <2>2
<1>6. /\ StoreSound(M, t) /\ Tracked(M) = Tracked(R) \cup {key} /\ M.stamps[key] = seq
      /\ \A k \in Tracked(R) : k # key => M.stamps[k] = R.stamps[k]
  BY <1>4, <1>5, WriteSound
<1>7. LiveStamps(M, key, t) = seq
  BY <1>4, <1>6 DEF LiveStamps, StampsOf
<1>8. \A k \in Tracked(M) : k # key => k \in Tracked(L) /\ M.stamps[k] = L.stamps[k]
  BY <1>2, <1>5, <1>6
<1>9. ASSUME NEW k \in Tracked(L) \ Tracked(M)
      PROVE  k # key /\ LostForRoom(L, k, t)
  <2>1. k # key /\ k \in Tracked(P) \ Tracked(R)
    BY <1>2, <1>6, <1>9
  <2>2. key \notin Tracked(P) /\ LostForRoom(P, k, t)
    BY <1>5, <2>1
  <2>3. /\ Len(P.order) = MaxTracked /\ MaxTracked \in Nat
        /\ Len(L.order) \in Nat /\ Len(L.order) <= MaxTracked
    BY <2>2, LedgerAssumption DEF LostForRoom, StoreSound, OrderSound, Lists
  <2>4. Len(P.order) # Len(L.order) - 1
    BY <2>3
  <2>5. P = L
    BY <1>2, <2>2, <2>4
  <2> QED
    BY <2>1, <2>2, <2>5
<1> QED
  BY <1>1, <1>6, <1>7, <1>8, <1>9

-----------------------------------------------------------------------------
(* The budget. What the ledger holds live of a name is exactly what was    *)
(* let through under it since the name was last forgotten.                 *)
NameKey(n) == [name |-> n, form |-> Plain]
DrawnIsLive == drawn = [n \in Names |-> LiveStamps(failures, NameKey(n), now)]
BudgetInv ==
  /\ now \in 0..MaxTime
  /\ StoreSound(failures, now) /\ Tracked(failures) \subseteq Keys
  /\ trying \in [SignIns -> Spellings \cup {NoAttempt}]
  /\ DrawnIsLive

LEMMA KeysAreNames ==
  /\ \A s \in Spellings : Key(s) = NameKey(s.name) /\ s.name \in Names
  /\ \A k \in Keys : k = NameKey(k.name) /\ k.name \in Names
  /\ \A n \in Names : NameKey(n) \in Keys
  /\ \A n, m \in Names : NameKey(n) = NameKey(m) => n = m
<1>1. \A s \in Spellings : Key(s) = NameKey(s.name) /\ s.name \in Names
  BY DEF Spellings, Key, NameKey
<1>2. \A k \in Keys : k = NameKey(k.name) /\ k.name \in Names
  BY DEF Keys, NameKey
<1>3. \A n \in Names : NameKey(n) \in Keys
  BY DEF Keys, NameKey
<1>4. \A n : NameKey(n).name = n
  BY DEF NameKey
<1> QED
  BY <1>1, <1>2, <1>3, <1>4

LEMMA SameStamps ==
  ASSUME NEW L, NEW M, NEW k, NEW t,
         k \in Tracked(L) <=> k \in Tracked(M),
         k \in Tracked(L) => M.stamps[k] = L.stamps[k]
  PROVE  LiveStamps(M, k, t) = LiveStamps(L, k, t)
BY DEF LiveStamps, StampsOf

LEMMA AttemptStep ==
  ASSUME BudgetInv, NEW r \in SignIns, NEW s \in Spellings, Attempt(r, s)
  PROVE  BudgetInv'
<1>1. PICK F, M, k, t : F = failures /\ M = failures' /\ k = Key(s) /\ t = now
  OBVIOUS
<1>2. /\ t \in Nat /\ StoreSound(F, t) /\ ~Spent(F, k, t)
      /\ M \in Charge(Pruned(F, k, t), k, t)
      /\ k = NameKey(s.name) /\ s.name \in Names /\ k \in Keys
  <2>1. t \in Nat
    BY <1>1, TimeAssumption DEF BudgetInv
  <2>2. k = NameKey(s.name) /\ s.name \in Names /\ k \in Keys
    BY <1>1, KeysAreNames
  <2> QED
    BY <1>1, <2>1, <2>2 DEF BudgetInv, Attempt, ChargedTo
<1>3. /\ StoreSound(M, t) /\ k \in Tracked(M)
      /\ LiveStamps(M, k, t) = Append(LiveStamps(F, k, t), t)
      /\ \A j \in Tracked(M) : j # k => j \in Tracked(F) /\ M.stamps[j] = F.stamps[j]
  BY <1>2, ChargeSound
<1>4. Tracked(M) \subseteq Keys
  BY <1>1, <1>2, <1>3 DEF BudgetInv
<1>5. ASSUME NEW n \in Names
      PROVE  drawn'[n] = LiveStamps(M, NameKey(n), t)
  <2>1. drawn'[n] = IF n = s.name THEN Append(drawn[n], t)
                    ELSE IF n \in Evicted(F, M) THEN <<>> ELSE drawn[n]
    BY <1>1, <1>5 DEF Attempt
  <2>2. drawn[n] = LiveStamps(F, NameKey(n), t)
    BY <1>1, <1>5 DEF BudgetInv, DrawnIsLive
  <2>3. CASE n = s.name
    BY <1>2, <1>3, <2>1, <2>2, <2>3
  <2>4. CASE n # s.name
    <3>1. NameKey(n) # k /\ NameKey(n) \in Keys
      BY <1>2, <2>4, KeysAreNames
    <3>2. n \in Evicted(F, M) <=> NameKey(n) \in Tracked(F) \ Tracked(M)
      <4>1. \A j \in Tracked(F) \ Tracked(M) : j = NameKey(j.name) /\ j.name \in Names
        BY <1>1, KeysAreNames DEF BudgetInv
      <4>2. NameKey(n).name = n
        BY DEF NameKey
      <4> QED
        BY <4>1, <4>2 DEF Evicted
    <3>3. CASE n \in Evicted(F, M)
      <4>1. NameKey(n) \notin Tracked(M)
        BY <3>2, <3>3
      <4>2. LiveStamps(M, NameKey(n), t) = <<>>
        BY <1>2, <1>3, <4>1, KeyTimes
      <4> QED
        BY <2>1, <2>4, <3>3, <4>2
    <3>4. CASE n \notin Evicted(F, M)
      <4>1. PICK j : j = NameKey(n)
        OBVIOUS
      <4>2. /\ j \in Tracked(F) <=> j \in Tracked(M)
            /\ j \in Tracked(F) => M.stamps[j] = F.stamps[j]
        BY <1>3, <3>1, <3>2, <3>4, <4>1
      <4>3. LiveStamps(M, j, t) = LiveStamps(F, j, t)
        BY <4>2, SameStamps
      <4> QED
        BY <2>1, <2>2, <2>4, <3>4, <4>1, <4>3
    <3> QED
      BY <3>3, <3>4
  <2> QED
    BY <2>3, <2>4
<1>6. now' = t /\ trying' \in [SignIns -> Spellings \cup {NoAttempt}]
  BY <1>1 DEF BudgetInv, Attempt
<1>7. DrawnIsLive'
  <2>1. drawn' = [n \in Names |-> drawn'[n]]
    BY DEF Attempt
  <2>2. drawn' = [n \in Names |-> LiveStamps(M, NameKey(n), t)]
    BY <1>5, <2>1
  <2> QED
    BY <1>1, <1>6, <2>2 DEF DrawnIsLive
<1> QED
  BY <1>1, <1>3, <1>4, <1>6, <1>7 DEF BudgetInv

LEMMA SucceedsStep ==
  ASSUME BudgetInv, NEW r \in SignIns, Succeeds(r)
  PROVE  BudgetInv'
<1>1. PICK F, M, s, k, t : /\ F = failures /\ M = failures' /\ s = trying[r]
                           /\ k = Key(trying[r]) /\ t = now
  OBVIOUS
<1>2. s \in Spellings /\ t \in Nat /\ StoreSound(F, t) /\ M = Drop(F, k)
  BY <1>1, TimeAssumption DEF BudgetInv, Succeeds, Cleared
<1>3. k = NameKey(s.name) /\ s.name \in Names
  BY <1>1, <1>2, KeysAreNames
<1>4. /\ StoreSound(M, t) /\ Tracked(M) = Tracked(F) \ {k}
      /\ \A j \in Tracked(M) : M.stamps[j] = F.stamps[j]
  <2>1. CASE k \in Tracked(F)
    BY <1>2, <2>1, DropSound
  <2>2. CASE k \notin Tracked(F)
    <3>1. M = F
      BY <1>2, <2>2 DEF Drop
    <3> QED
      BY <1>2, <2>2, <3>1
  <2> QED
    BY <2>1, <2>2
<1>5. ASSUME NEW n \in Names
      PROVE  drawn'[n] = LiveStamps(M, NameKey(n), t)
  <2>1. drawn'[n] = IF n = s.name THEN <<>> ELSE LiveStamps(F, NameKey(n), t)
    BY <1>1, <1>3, <1>5 DEF Succeeds, BudgetInv, DrawnIsLive
  <2>2. CASE n = s.name
    BY <1>2, <1>3, <1>4, <2>1, <2>2, KeyTimes
  <2>3. CASE n # s.name
    <3>1. PICK j : j = NameKey(n)
      OBVIOUS
    <3>2. j # k
      BY <1>3, <2>3, <3>1, KeysAreNames
    <3>3. /\ j \in Tracked(F) <=> j \in Tracked(M)
          /\ j \in Tracked(F) => M.stamps[j] = F.stamps[j]
      BY <1>4, <3>2
    <3>4. LiveStamps(M, j, t) = LiveStamps(F, j, t)
      BY <3>3, SameStamps
    <3> QED
      BY <2>1, <2>3, <3>1, <3>4
  <2> QED
    BY <2>2, <2>3
<1>6. now' = t /\ trying' \in [SignIns -> Spellings \cup {NoAttempt}]
  BY <1>1 DEF BudgetInv, Succeeds
<1>7. DrawnIsLive'
  <2>1. drawn' = [n \in Names |-> drawn'[n]]
    BY DEF Succeeds, BudgetInv, DrawnIsLive
  <2>2. drawn' = [n \in Names |-> LiveStamps(M, NameKey(n), t)]
    BY <1>5, <2>1
  <2> QED
    BY <1>1, <1>6, <2>2 DEF DrawnIsLive
<1> QED
  BY <1>1, <1>4, <1>6, <1>7 DEF BudgetInv

LEMMA TickStep ==
  ASSUME BudgetInv, Tick
  PROVE  BudgetInv'
<1>1. PICK F, t : F = failures /\ t = now
  OBVIOUS
<1>2. /\ t \in Nat /\ StoreSound(F, t) /\ now' = t + 1 /\ t + 1 \in 0..MaxTime
      /\ failures' = F /\ trying' = trying
      /\ drawn' = [n \in Names |-> LiveOf(LiveStamps(F, NameKey(n), t), t + 1)]
  BY <1>1, TimeAssumption DEF BudgetInv, Tick, DrawnIsLive
<1>3. StoreSound(F, t + 1)
  BY <1>2, SoundLater
<1>4. ASSUME NEW k
      PROVE  LiveOf(LiveStamps(F, k, t), t + 1) = LiveStamps(F, k, t + 1)
  <2>1. t + 1 \in Nat /\ t <= t + 1
    BY <1>2
  <2>2. CASE k \in Tracked(F)
    <3>1. PICK s : s = F.stamps[k]
      OBVIOUS
    <3>2. s \in Seq(Nat) /\ Ascending(s)
      BY <1>2, <2>2, <3>1 DEF StoreSound, StampsSound, TimesSound
    <3>3. LiveOf(LiveOf(s, t), t + 1) = LiveOf(s, t + 1)
      BY <1>2, <2>1, <3>2, LiveOfLive
    <3> QED
      BY <2>2, <3>1, <3>3 DEF LiveStamps, StampsOf
  <2>3. CASE k \notin Tracked(F)
    <3>1. LiveStamps(F, k, t) = <<>>
      BY <1>2, <2>3, KeyTimes
    <3>2. LiveStamps(F, k, t + 1) = LiveOf(<<>>, t + 1)
      BY <2>3 DEF LiveStamps, StampsOf
    <3> QED
      BY <3>1, <3>2
  <2> QED
    BY <2>2, <2>3
<1>5. drawn' = [n \in Names |-> LiveStamps(F, NameKey(n), t + 1)]
  BY <1>2, <1>4
<1> QED
  BY <1>1, <1>2, <1>3, <1>5 DEF BudgetInv, DrawnIsLive

LEMMA NothingIsDrawn ==
  ASSUME NEW t \in Nat
  PROVE  /\ StoreSound(Empty, t) /\ Tracked(Empty) \subseteq Keys
         /\ [n \in Names |-> <<>>] = [n \in Names |-> LiveStamps(Empty, NameKey(n), t)]
<1>1. StoreSound(Empty, t) /\ Tracked(Empty) = {}
  BY EmptyIsSound
<1>2. \A n \in Names : LiveStamps(Empty, NameKey(n), t) = <<>>
  BY <1>1, KeyTimes
<1> QED
  BY <1>1, <1>2

LEMMA BudgetSteps == BudgetInv /\ [BudgetNext]_budgetVars => BudgetInv'
<1> SUFFICES ASSUME BudgetInv, [BudgetNext]_budgetVars PROVE BudgetInv'
  OBVIOUS
<1>1. CASE \E r \in SignIns : \E s \in Spellings : Attempt(r, s)
  BY <1>1, AttemptStep
<1>2. ASSUME NEW r \in SignIns, Fails(r)
      PROVE  BudgetInv'
  <2>1. UNCHANGED <<now, failures, drawn>> /\ trying' \in [SignIns -> Spellings \cup {NoAttempt}]
    BY <1>2 DEF Fails, BudgetInv
  <2> QED
    BY <2>1 DEF BudgetInv, DrawnIsLive
<1>3. CASE \E r \in SignIns : Succeeds(r)
  BY <1>3, SucceedsStep
<1>4. CASE Tick
  BY <1>4, TickStep
<1>5. CASE Restart
  <2>1. /\ now' \in 0..MaxTime /\ failures' = Empty /\ trying' = [r \in SignIns |-> NoAttempt]
        /\ drawn' = [n \in Names |-> <<>>]
    BY <1>5 DEF Restart, BudgetInv
  <2>2. PICK t : t = now'
    OBVIOUS
  <2>3. t \in Nat
    BY <2>1, <2>2, TimeAssumption
  <2>4. /\ StoreSound(Empty, t) /\ Tracked(Empty) \subseteq Keys
        /\ drawn' = [n \in Names |-> LiveStamps(Empty, NameKey(n), t)]
    BY <2>1, <2>3, NothingIsDrawn
  <2> QED
    BY <2>1, <2>2, <2>4 DEF BudgetInv, DrawnIsLive
<1>6. CASE UNCHANGED budgetVars
  BY <1>6 DEF budgetVars, BudgetInv, DrawnIsLive
<1> QED
  BY <1>1, <1>2, <1>3, <1>4, <1>5, <1>6 DEF BudgetNext

LEMMA BudgetInitially == BudgetInit => BudgetInv
<1> SUFFICES ASSUME BudgetInit PROVE BudgetInv
  OBVIOUS
<1>1. /\ now = 0 /\ failures = Empty /\ trying = [r \in SignIns |-> NoAttempt]
      /\ drawn = [n \in Names |-> <<>>]
  BY DEF BudgetInit
<1>2. /\ StoreSound(Empty, 0) /\ Tracked(Empty) \subseteq Keys
      /\ [n \in Names |-> <<>>] = [n \in Names |-> LiveStamps(Empty, NameKey(n), 0)]
  BY NothingIsDrawn
<1> QED
  BY <1>1, <1>2, TimeAssumption DEF BudgetInv, DrawnIsLive

(* The invariant the budget's properties are part of.                      *)
THEOREM BudgetInvariant == BudgetSpec => []BudgetInv
BY BudgetInitially, BudgetSteps, PTL DEF BudgetSpec

(* Times none of which is later than t are times up to t.                  *)
LEMMA TimesUpTo ==
  ASSUME NEW seq, NEW t \in Nat, TimesSound(seq, t)
  PROVE  seq \in Seq(0..t)
<1>1. seq \in Seq(Nat) /\ Len(seq) \in Nat /\ DOMAIN seq = 1..Len(seq)
  BY DEF TimesSound
<1>2. \A i \in 1..Len(seq) : seq[i] \in 0..t
  BY <1>1 DEF TimesSound
<1>3. seq \in [1..Len(seq) -> 0..t]
  BY <1>1, <1>2
<1> QED
  BY <1>1, <1>3

(* Every key tracked, and every name's history, holds times of the past,   *)
(* and no key more than the cap (`_live` and the trimming of _charge).     *)
THEOREM BudgetIsTyped == BudgetSpec => []BudgetTypeOK
<1>1. BudgetInv => BudgetTypeOK
  <2> SUFFICES ASSUME BudgetInv PROVE BudgetTypeOK
    OBVIOUS
  <2>1. now \in Nat /\ StoreSound(failures, now)
    BY TimeAssumption DEF BudgetInv
  <2>2. \A k \in Tracked(failures) : /\ failures.stamps[k] \in Seq(0..now)
                                     /\ Len(failures.stamps[k]) \in 1..Cap
    <3>1. \A k \in Tracked(failures) : /\ TimesSound(failures.stamps[k], now)
                                       /\ Len(failures.stamps[k]) \in 1..Cap
      BY <2>1 DEF StoreSound, StampsSound
    <3> QED
      BY <2>1, <3>1, TimesUpTo
  <2>3. \A n \in Names : LiveStamps(failures, NameKey(n), now) \in Seq(0..now)
    BY <2>1, KeyTimes, TimesUpTo
  <2>4. drawn \in [Names -> Seq(0..now)]
    BY <2>3 DEF BudgetInv, DrawnIsLive
  <2> QED
    BY <2>2, <2>4 DEF BudgetInv, BudgetTypeOK
<1> QED
  BY <1>1, BudgetInvariant, PTL

(* _Ledger: however keys are charged, pruned, evicted and cleared, the     *)
(* dictionary, its order, the slots and slot_of name the same keys, never  *)
(* more than _MAX_TRACKED_IDENTIFIERS, and the front is dead if any is.    *)
THEOREM StoreStaysIndexed == BudgetSpec => []StoreIsIndexed
<1>1. BudgetInv => StoreIsIndexed
  <2> SUFFICES ASSUME BudgetInv PROVE StoreIsIndexed
    OBVIOUS
  <2>1. now \in Nat /\ StoreSound(failures, now)
    BY TimeAssumption DEF BudgetInv
  <2> QED
    BY <2>1, SoundIsIndexed DEF StoreIsIndexed
<1> QED
  BY <1>1, BudgetInvariant, PTL

(* spend_password_attempt: no number of attempts at one moment, in any     *)
(* spelling, gets more than the cap through for one name in a window.      *)
THEOREM GuessesStayWithinCap == BudgetSpec => []GuessesWithinCap
<1>1. BudgetInv => GuessesWithinCap
  <2> SUFFICES ASSUME BudgetInv, NEW n \in Names PROVE Len(drawn[n]) <= Cap
    BY DEF GuessesWithinCap
  <2>1. PICK l : l = LiveStamps(failures, NameKey(n), now)
    OBVIOUS
  <2>2. now \in Nat /\ StoreSound(failures, now)
    BY TimeAssumption DEF BudgetInv
  <2>3. Len(l) \in 0..Cap
    BY <2>1, <2>2, KeyTimes
  <2>4. drawn[n] = l
    BY <2>1 DEF BudgetInv, DrawnIsLive
  <2> QED
    BY <2>3, <2>4, LedgerAssumption
<1> QED
  BY <1>1, BudgetInvariant, PTL

(* spend_password_attempt: a name is refused for its own attempts only,    *)
(* whatever others did to the store.                                       *)
THEOREM RefusalsAreEarned == BudgetSpec => []RefusalIsEarned
<1>1. BudgetInv => RefusalIsEarned
  <2> SUFFICES ASSUME BudgetInv, NEW s \in Spellings, Spent(failures, Key(s), now)
               PROVE  Len(drawn[s.name]) >= Cap
    BY DEF RefusalIsEarned
  <2>1. Key(s) = NameKey(s.name) /\ s.name \in Names
    BY KeysAreNames
  <2>2. drawn[s.name] = LiveStamps(failures, Key(s), now)
    BY <2>1 DEF BudgetInv, DrawnIsLive
  <2> QED
    BY <2>2 DEF Spent
<1> QED
  BY <1>1, BudgetInvariant, PTL

(* _make_room, _drop and clear_password_failures: a key that still holds   *)
(* live times is forgotten for the reasons the code gives only.            *)
THEOREM LiveKeysAreKept == BudgetSpec => LiveKeyLostForAReason
<1> DEFINE
      Lost(k) == k \in Tracked(failures) \ Tracked(failures') /\ ~Dead(failures, k, now)
      Excused(k) ==
        \/ \E r \in SignIns : Key(trying[r]) = k /\ trying'[r] = NoAttempt
        \/ failures' = Empty
        \/ /\ Cardinality(Tracked(failures)) = MaxTracked
           /\ \A j \in Tracked(failures) : ~Dead(failures, j, now)
<1>1. ASSUME BudgetInv, [BudgetNext]_budgetVars, NEW k, Lost(k)
      PROVE  Excused(k)
  <2>1. now \in Nat /\ StoreSound(failures, now)
    BY <1>1, TimeAssumption DEF BudgetInv
  <2>2. ASSUME NEW r \in SignIns, NEW s \in Spellings, Attempt(r, s)
        PROVE  Excused(k)
    <3>1. PICK F, M, e, t : F = failures /\ M = failures' /\ e = Key(s) /\ t = now
      OBVIOUS
    <3>2. M \in Charge(Pruned(F, e, t), e, t) /\ ~Spent(F, e, t)
      BY <2>2, <3>1 DEF Attempt, ChargedTo
    <3>3. \A j \in Tracked(F) \ Tracked(M) : LostForRoom(F, j, t)
      BY <2>1, <3>1, <3>2, ChargeSound
    <3>4. LostForRoom(F, k, t)
      BY <1>1, <3>1, <3>3
    <3>5. Cardinality(Tracked(F)) = Len(F.order)
      BY <2>1, <3>1, SoundIsIndexed
    <3> QED
      BY <1>1, <3>1, <3>4, <3>5 DEF LostForRoom
  <2>3. ASSUME NEW r \in SignIns, Succeeds(r)
        PROVE  Excused(k)
    <3>1. PICK F, M, e, t : F = failures /\ M = failures' /\ e = Key(trying[r]) /\ t = now
      OBVIOUS
    <3>2. M = Drop(F, e)
      BY <2>3, <3>1 DEF Succeeds, Cleared
    <3>3. \A j \in Tracked(F) \ Tracked(M) : j = e
      <4>1. CASE e \in Tracked(F)
        BY <2>1, <3>1, <3>2, <4>1, DropSound
      <4>2. CASE e \notin Tracked(F)
        BY <3>2, <4>2 DEF Drop
      <4> QED
        BY <4>1, <4>2
    <3>4. Key(trying[r]) = k
      BY <1>1, <3>1, <3>3
    <3>5. trying'[r] = NoAttempt
      BY <1>1, <2>3 DEF Succeeds, BudgetInv
    <3> QED
      BY <3>4, <3>5
  <2>4. failures' = failures \/ failures' = Empty
          \/ (\E r \in SignIns : Succeeds(r) \/ \E s \in Spellings : Attempt(r, s))
    BY <1>1 DEF BudgetNext, budgetVars, Fails, Tick, Restart
  <2> QED
    BY <1>1, <2>2, <2>3, <2>4
<1>2. BudgetInv /\ [BudgetNext]_budgetVars =>
        [\A k \in Tracked(failures) \ Tracked(failures') :
           ~Dead(failures, k, now) => Excused(k)]_budgetVars
  BY <1>1
<1> QED
  BY <1>2, BudgetInvariant, PTL DEF BudgetSpec, LiveKeyLostForAReason
=============================================================================
