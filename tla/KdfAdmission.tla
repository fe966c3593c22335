---------------------------- MODULE KdfAdmission ----------------------------
(***************************************************************************)
(* Admission to the routes that spend a key derivation (auth_service:      *)
(* kdf_admit, kdf_release, run_kdf; dependencies.kdf_admission; the        *)
(* client_credentials branch of /token), and the limiter the derivations   *)
(* queue on.                                                               *)
(*                                                                         *)
(* Every variable but the derivations themselves belongs to the event      *)
(* loop, so what a handler does between two awaits is one step. A slot is  *)
(* taken before the endpoint runs and given back in a finally, whether it  *)
(* returned or raised. /setup/complete derives a key and takes no slot.    *)
(* A refused request (503, 429) changes nothing and is no step here.       *)
(***************************************************************************)
EXTENDS Integers, FiniteSets, Sequences

CONSTANTS
  Clients,          \* client networks (guess_budget._client_network)
  SharedClients,    \* those in SHARED_CLIENT_NETWORKS
  Requests,         \* concurrent requests; each serves one call after another
  Threads,          \* kdf_threads(), the limiter's total_tokens
  QueuePerThread,   \* KDF_QUEUE_PER_THREAD
  PerClient,        \* KDF_IN_FLIGHT_PER_CLIENT
  MaxDerivations,   \* derivations one request asks for, one after another
  NoSlot,           \* a request that holds no slot
  NoKey             \* the key of an exempt client's slot (None)

ASSUME ClientsAssumption ==
  /\ SharedClients \subseteq Clients
  /\ NoSlot \notin Clients \cup {NoKey} /\ NoKey \notin Clients
ASSUME RequestsAssumption == IsFiniteSet(Requests)
ASSUME NumbersAssumption ==
  /\ Threads \in Nat \ {0} /\ QueuePerThread \in Nat /\ PerClient \in Nat \ {0}
  /\ MaxDerivations \in Nat
  /\ PerClient < (QueuePerThread + 1) * Threads

VARIABLES
  at,        \* what each request is doing
  left,      \* derivations each request may still ask for
  slot,      \* the slot each request holds: its client's key, NoKey, or NoSlot
  admitted,  \* _kdf_admitted
  inFlight,  \* _kdf_in_flight: client -> requests in flight, no entry for none
  queue      \* requests waiting on the limiter, oldest first

vars == <<at, left, slot, admitted, inFlight, queue>>

Capacity == (QueuePerThread + 1) * Threads
Deriving == {r \in Requests : at[r] = "deriving"}

InFlight(c) == IF c \in DOMAIN inFlight THEN inFlight[c] ELSE 0

-----------------------------------------------------------------------------
(* kdf_admit: the shed is asked first, then the client's own cap.          *)
HasRoomForOneMore == admitted <= Capacity               \* fault: off by one
HasRoom == admitted < Capacity
UnderCapLate(c) == InFlight(c) <= PerClient             \* fault: off by one
UnderCap(c) == InFlight(c) < PerClient

KeyOf(c) == IF c \in SharedClients THEN NoKey ELSE c

CountIn(c) ==
  [d \in DOMAIN inFlight \cup {c} |-> IF d = c THEN InFlight(c) + 1 ELSE inFlight[d]]

Admit(r, c) ==
  /\ at[r] = "idle"
  /\ HasRoom
  /\ \/ /\ c \in SharedClients
        /\ UNCHANGED inFlight
     \/ /\ c \notin SharedClients
        /\ UnderCap(c)
        /\ inFlight' = CountIn(c)
  /\ admitted' = admitted + 1
  /\ slot' = [slot EXCEPT ![r] = KeyOf(c)]
  /\ at' = [at EXCEPT ![r] = "running"]
  /\ left' = [left EXCEPT ![r] = MaxDerivations]
  /\ UNCHANGED queue

(* setup_router.complete_setup: no admission dependency.                   *)
AdmitSetup(r) ==
  /\ at[r] = "idle"
  /\ at' = [at EXCEPT ![r] = "running"]
  /\ left' = [left EXCEPT ![r] = 1]
  /\ UNCHANGED <<slot, admitted, inFlight, queue>>

-----------------------------------------------------------------------------
(* run_kdf: queue on the limiter, derive on a worker thread, resume.       *)
EnqueueFirst(r) == <<r>> \o queue       \* fault: the newest request goes first
Enqueue(r) == Append(queue, r)

AskToDerive(r) ==
  /\ at[r] = "running"
  /\ left[r] > 0
  /\ queue' = Enqueue(r)
  /\ at' = [at EXCEPT ![r] = "queued"]
  /\ left' = [left EXCEPT ![r] = @ - 1]
  /\ UNCHANGED <<slot, admitted, inFlight>>

StartDerivation ==
  /\ queue # <<>>
  /\ Cardinality(Deriving) < Threads
  /\ at' = [at EXCEPT ![Head(queue)] = "deriving"]
  /\ queue' = Tail(queue)
  /\ UNCHANGED <<left, slot, admitted, inFlight>>

EndDerivation(r) ==
  /\ at[r] = "deriving"
  /\ at' = [at EXCEPT ![r] = "running"]
  /\ UNCHANGED <<left, slot, admitted, inFlight, queue>>

-----------------------------------------------------------------------------
(* kdf_release: the shared count, then the client's own, whose entry is    *)
(* removed when it reaches zero.                                           *)
Less1(n) == IF n > 0 THEN n - 1 ELSE 0
AdmittedAfter(k) == Less1(admitted)

CountOutWhole(k) ==                     \* fault: the entry removed whatever it holds
  [d \in DOMAIN inFlight \ {k} |-> inFlight[d]]
CountOut(k) ==
  IF InFlight(k) - 1 <= 0
  THEN [d \in DOMAIN inFlight \ {k} |-> inFlight[d]]
  ELSE [inFlight EXCEPT ![k] = @ - 1]

(* The endpoint returns or raises; either way the finally runs.            *)
Finish(r) ==
  /\ at[r] = "running"
  /\ at' = [at EXCEPT ![r] = "idle"]
  /\ left' = [left EXCEPT ![r] = 0]
  /\ slot' = [slot EXCEPT ![r] = NoSlot]
  /\ \/ /\ slot[r] = NoSlot
        /\ UNCHANGED <<admitted, inFlight>>
     \/ /\ slot[r] # NoSlot
        /\ admitted' = AdmittedAfter(slot[r])
        /\ inFlight' = IF slot[r] = NoKey THEN inFlight ELSE CountOut(slot[r])
  /\ UNCHANGED queue

-----------------------------------------------------------------------------
Init ==
  /\ at = [r \in Requests |-> "idle"]
  /\ left = [r \in Requests |-> 0]
  /\ slot = [r \in Requests |-> NoSlot]
  /\ admitted = 0
  /\ inFlight = [c \in {} |-> 0]
  /\ queue = <<>>

Step(r) == AskToDerive(r) \/ Finish(r)

Next ==
  \/ \E r \in Requests :
       \/ \E c \in Clients : Admit(r, c)
       \/ AdmitSetup(r)
       \/ Step(r)
       \/ EndDerivation(r)
  \/ StartDerivation

(* The event loop runs every coroutine that is ready, the limiter wakes    *)
(* its oldest waiter, and a derivation ends.                               *)
Fairness ==
  /\ \A r \in Requests : WF_vars(Step(r)) /\ WF_vars(EndDerivation(r))
  /\ WF_vars(StartDerivation)

Spec == Init /\ [][Next]_vars
FairSpec == Spec /\ Fairness

-----------------------------------------------------------------------------
(* Every variable holds a value of its kind; an entry of the in-flight     *)
(* table counts at least one request and at most the cap.                  *)
TypeOK ==
  /\ at \in [Requests -> {"idle", "running", "queued", "deriving"}]
  /\ left \in [Requests -> Nat]
  /\ slot \in [Requests -> Clients \cup {NoKey, NoSlot}]
  /\ admitted \in Nat
  /\ DOMAIN inFlight \subseteq Clients
  /\ inFlight \in [DOMAIN inFlight -> 1..PerClient]
  /\ queue \in Seq(Requests)

(* kdf_admit's contract, "handed to kdf_release exactly once": after any   *)
(* number of calls that return, raise and overlap, both counts say exactly *)
(* what is open, so no slot leaks and none is given back twice.            *)
Holding(k) == {r \in Requests : slot[r] = k}
Admitted == {r \in Requests : slot[r] # NoSlot}
CountsAreExact ==
  /\ admitted = Cardinality(Admitted)
  /\ \A c \in Clients : InFlight(c) = Cardinality(Holding(c))

(* KDF_QUEUE_PER_THREAD: however many requests arrive together, those the  *)
(* admission lets in are never more than the threads and their queues hold. *)
AdmittedWithinCapacity == Cardinality(Admitted) <= Capacity

(* KDF_IN_FLIGHT_PER_CLIENT: "one client occupying the whole queue" cannot *)
(* happen. When requests are shed, no single unexempted client holds every *)
(* slot.                                                                   *)
ShedIsNeverOneClient ==
  ~HasRoom => \A c \in Clients : \E r \in Admitted : slot[r] # c

(* Every admitted request ends, though others keep arriving: the limiter   *)
(* serves its waiters in order and a request derives a few times only.     *)
AdmittedEnds == \A r \in Requests : slot[r] # NoSlot ~> slot[r] = NoSlot

=============================================================================
