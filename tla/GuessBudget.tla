---------------------------- MODULE GuessBudget ----------------------------
(***************************************************************************)
(* The password guess budget: guess_budget's `_failures` ledger as the two *)
(* password sign-ins use it (auth_router._spend_password_attempt, then a   *)
(* key derivation, then clear_password_failures if it proves correct).     *)
(* The account's confirmation ledger, `_confirmations`, is the same code   *)
(* on a store of its own, keyed by the account.                            *)
(*                                                                         *)
(* An attempt is charged in the step that admits it, before the handler's  *)
(* first await; the derivation of any number of them is then in flight. A  *)
(* refused attempt (429) changes nothing: a spent key holds Cap live times *)
(* and no others, so there is nothing to prune.                            *)
(***************************************************************************)
EXTENDS Ledger

CONSTANTS
  Names,      \* identifiers once stripped and lower-cased
  Forms,      \* spellings of one identifier: case, white space
  Plain,      \* the spelling _key leaves
  SignIns,    \* concurrent sign-in requests
  MaxTime     \* bound on the clock

ASSUME NamesAssumption == Plain \in Forms
ASSUME TimeAssumption == MaxTime \in Nat

VARIABLES
  now,        \* the clock
  failures,   \* _failures
  trying,     \* request -> what it submitted, while its derivation runs
  drawn       \* history: name -> the live times an attempt under it was let
              \* through, since the name was last forgotten: by a correct
              \* password, by an eviction, by a restart

budgetVars == <<now, failures, trying, drawn>>

Spellings == [name : Names, form : Forms]
NoAttempt == [name |-> "none", form |-> Plain]

(* _key: stripped and lower-cased.                                         *)
Key(s) == [s EXCEPT !.form = Plain]

Evicted(L, M) == {k.name : k \in Tracked(L) \ Tracked(M)}

-----------------------------------------------------------------------------
(* spend_password_attempt: the check and the charge, one step.             *)
ChargedNothing(s) == {failures}         \* fault: charged when the derivation ends
ChargedTo(s) == Charge(Pruned(failures, Key(s), now), Key(s), now)

Attempt(r, s) ==
  /\ trying[r] = NoAttempt
  /\ ~Spent(failures, Key(s), now)
  /\ failures' \in ChargedTo(s)
  /\ trying' = [trying EXCEPT ![r] = s]
  /\ drawn' = [n \in Names |-> IF n = s.name THEN Append(drawn[n], now)
                               ELSE IF n \in Evicted(failures, failures') THEN <<>>
                               ELSE drawn[n]]
  /\ UNCHANGED now

(* The password is wrong, or the derivation raises: the charge stays.      *)
Fails(r) ==
  /\ trying[r] # NoAttempt
  /\ trying' = [trying EXCEPT ![r] = NoAttempt]
  /\ UNCHANGED <<now, failures, drawn>>

(* It proves correct: clear_password_failures.                             *)
ClearedAsTyped(s) == Drop(failures, s)  \* fault: the key is not normalized here
Cleared(s) == Drop(failures, Key(s))

Succeeds(r) ==
  /\ trying[r] # NoAttempt
  /\ failures' = Cleared(trying[r])
  /\ drawn' = [drawn EXCEPT ![trying[r].name] = <<>>]
  /\ trying' = [trying EXCEPT ![r] = NoAttempt]
  /\ UNCHANGED now

(* Time passes; the history keeps what the window still holds.             *)
Tick ==
  /\ now < MaxTime
  /\ now' = now + 1
  /\ drawn' = [n \in Names |-> LiveOf(drawn[n], now')]
  /\ UNCHANGED <<failures, trying>>

(* The ledger lives in the process and goes with it.                       *)
Restart ==
  /\ failures' = Empty
  /\ trying' = [r \in SignIns |-> NoAttempt]
  /\ drawn' = [n \in Names |-> <<>>]
  /\ UNCHANGED now

BudgetInit ==
  /\ now = 0
  /\ failures = Empty
  /\ trying = [r \in SignIns |-> NoAttempt]
  /\ drawn = [n \in Names |-> <<>>]

BudgetNext ==
  \/ \E r \in SignIns :
       \/ \E s \in Spellings : Attempt(r, s)
       \/ Fails(r)
       \/ Succeeds(r)
  \/ Tick
  \/ Restart

BudgetSpec == BudgetInit /\ [][BudgetNext]_budgetVars

-----------------------------------------------------------------------------
(* Every variable holds a value of its kind; a key keeps at most Cap times *)
(* and never none.                                                         *)
Keys == [name : Names, form : {Plain}]
BudgetTypeOK ==
  /\ now \in 0..MaxTime
  /\ Tracked(failures) \subseteq Keys
  /\ \A k \in Tracked(failures) :
       /\ failures.stamps[k] \in Seq(0..now)
       /\ Len(failures.stamps[k]) \in 1..Cap
  /\ trying \in [SignIns -> Spellings \cup {NoAttempt}]
  /\ drawn \in [Names -> Seq(0..now)]

(* _Ledger: after any sequence of charges, prunings, evictions and clears  *)
(* the dictionary, its order and the two indices agree, and the front,     *)
(* which is all _MAX_TRACKED_IDENTIFIERS looks at, is dead if any key is.  *)
StoreIsIndexed == Indexed(failures) /\ FrontDiesFirst(failures, now)

(* spend_password_attempt: however many guesses are sent at one moment, in *)
(* whatever spelling, those let through for one name inside a window are   *)
(* at most the cap, counted from the last time the name was forgotten.     *)
GuessesWithinCap == \A n \in Names : Len(drawn[n]) <= Cap

(* "The store never fails closed": a name is refused only when it has Cap  *)
(* attempts of its own in the window and no correct password since.        *)
RefusalIsEarned ==
  \A s \in Spellings : Spent(failures, Key(s), now) => Len(drawn[s.name]) >= Cap

(* "a key whose window has passed is dropped first": a key that still      *)
(* holds live times is forgotten only by a correct password for it, by a   *)
(* restart, or by the draw in a store full of keys that all hold some.     *)
LiveKeyLostForAReason ==
  [][\A k \in Tracked(failures) \ Tracked(failures') :
       ~Dead(failures, k, now) =>
         \/ \E r \in SignIns : Key(trying[r]) = k /\ trying'[r] = NoAttempt
         \/ failures' = Empty
         \/ /\ Cardinality(Tracked(failures)) = MaxTracked
            /\ \A j \in Tracked(failures) : ~Dead(failures, j, now)]_budgetVars
=============================================================================
