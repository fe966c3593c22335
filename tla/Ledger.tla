------------------------------- MODULE Ledger -------------------------------
(***************************************************************************)
(* guess_budget._Ledger and the steps on it: a bounded store of recent     *)
(* times per key. A ledger is a record                                     *)
(*   order   the keys, least recently written first (the OrderedDict)      *)
(*   stamps  key -> its times inside the window, oldest first              *)
(*   slots   the keys again, as a list one is drawn from                   *)
(*   slotOf  key -> its index in slots                                     *)
(* Every step runs under _lock. A step that draws a key at random answers  *)
(* the set of ledgers it may leave.                                        *)
(***************************************************************************)
EXTENDS Integers, Sequences, FiniteSets, Functions

CONSTANTS
  MaxTracked,   \* _MAX_TRACKED_IDENTIFIERS
  Window,       \* the window's length
  Cap           \* stamps a key may hold inside it

ASSUME LedgerAssumption ==
  MaxTracked \in Nat \ {0} /\ Window \in Nat \ {0} /\ Cap \in Nat \ {0}

Nothing == [k \in {} |-> 0]
Empty == [order |-> <<>>, stamps |-> Nothing, slots |-> <<>>, slotOf |-> Nothing]

Tracked(L) == DOMAIN L.stamps
LastOf(seq) == seq[Len(seq)]
Put(f, k, v) == [x \in DOMAIN f \cup {k} |-> IF x = k THEN v ELSE f[x]]

(* A key has one place in the order; those behind it move up.              *)
Without(seq, key) ==
  IF key \notin Range(seq) THEN seq
  ELSE LET i == CHOOSE j \in DOMAIN seq : seq[j] = key
       IN  [j \in 1..Len(seq) - 1 |-> seq[IF j < i THEN j ELSE j + 1]]

(* _live: the times after now - Window. They are held oldest first, so     *)
(* they are what follows those that have aged.                             *)
InWindow(s, now) == s > now - Window
LiveOf(seq, now) ==
  LET aged == {i \in DOMAIN seq : ~InWindow(seq[i], now)}
  IN  SubSeq(seq, Cardinality(aged) + 1, Len(seq))
StampsOf(L, key) == IF key \in Tracked(L) THEN L.stamps[key] ELSE <<>>
LiveStamps(L, key, now) == LiveOf(StampsOf(L, key), now)
Dead(L, key, now) == LiveStamps(L, key, now) = <<>>

(* _drop: forget key; the last slot moves into the hole it leaves.         *)
NotReindexed(L, i) == L.slotOf          \* fault: the moved key keeps its old index
Reindexed(L, i) == [L.slotOf EXCEPT ![LastOf(L.slots)] = i]

Drop(L, key) ==
  IF key \notin Tracked(L) THEN L
  ELSE LET i == L.slotOf[key] IN
       [order  |-> Without(L.order, key),
        stamps |-> Restrict(L.stamps, Tracked(L) \ {key}),
        slots  |-> SubSeq([L.slots EXCEPT ![i] = LastOf(L.slots)], 1, Len(L.slots) - 1),
        slotOf |-> Restrict(Reindexed(L, i), Tracked(L) \ {key})]

(* _make_room: the store never holds more than MaxTracked keys, so its     *)
(* loop drops one key at most: the front if it is dead, else any.          *)
MakeRoomAnyhow(L, now) ==               \* fault: the front is not looked at
  IF Len(L.order) < MaxTracked THEN {L} ELSE {Drop(L, L.slots[i]) : i \in DOMAIN L.slots}
MakeRoom(L, now) ==
  IF Len(L.order) < MaxTracked THEN {L}
  ELSE IF Dead(L, Head(L.order), now) THEN {Drop(L, Head(L.order))}
  ELSE {Drop(L, L.slots[i]) : i \in DOMAIN L.slots}

(* _spent: what it answers, and the store its pruning leaves.              *)
Spent(L, key, now) == Len(LiveStamps(L, key, now)) >= Cap

Pruned(L, key, now) ==
  IF key \notin Tracked(L) THEN L
  ELSE IF Dead(L, key, now) THEN Drop(L, key)
  ELSE [L EXCEPT !.stamps[key] = LiveStamps(L, key, now)]

(* _charge: one more time for key, the newest Cap kept, the key moved to   *)
(* the back.                                                               *)
Newest(seq) == SubSeq(seq, IF Len(seq) > Cap THEN Len(seq) - Cap + 1 ELSE 1, Len(seq))

Entered(L, key) ==
  [L EXCEPT !.slots = Append(@, key), !.slotOf = Put(@, key, Len(L.slots) + 1)]
MovedToEnd(L, key) == Append(Without(L.order, key), key)

Write(L, key, seq) == [L EXCEPT !.stamps = Put(@, key, seq), !.order = MovedToEnd(L, key)]

Charge(L, key, now) ==
  LET seq == Newest(Append(LiveStamps(L, key, now), now)) IN
  IF key \in Tracked(L) THEN {Write(L, key, seq)}
  ELSE {Write(Entered(M, key), key, seq) : M \in MakeRoom(L, now)}

-----------------------------------------------------------------------------
(* The keys are held in four places that one step each rewrites: they      *)
(* always name the same keys, each once, and slotOf finds each in slots.   *)
(* The store stays within its bound.                                       *)
Indexed(L) ==
  /\ Range(L.order) = Tracked(L) /\ Len(L.order) = Cardinality(Tracked(L))
  /\ DOMAIN L.slotOf = Tracked(L) /\ Len(L.slots) = Cardinality(Tracked(L))
  /\ \A k \in Tracked(L) : L.slotOf[k] \in DOMAIN L.slots /\ L.slots[L.slotOf[k]] = k
  /\ Cardinality(Tracked(L)) <= MaxTracked

(* "the front ... is dead whenever any key is".                            *)
FrontDiesFirst(L, now) ==
  (\E k \in Tracked(L) : Dead(L, k, now)) => Dead(L, Head(L.order), now)
=============================================================================
