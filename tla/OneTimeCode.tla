---------------------------- MODULE OneTimeCode ----------------------------
(***************************************************************************)
(* What the one-time sign-in codes of Origin promise, with no clock, no    *)
(* database and no requests: a code is issued to one mailbox; guesses are  *)
(* taken only on the newest code of a mailbox, never more than MaxAttempts *)
(* on one code and none on a code that has signed somebody in; a code      *)
(* signs in at most once, and only after a guess was taken on it.          *)
(***************************************************************************)
EXTENDS Naturals

CONSTANTS Codes, Mailboxes, MaxAttempts, NoBox

VARIABLES
  owner,    \* the mailbox each code was issued to, NoBox before that
  newest,   \* the codes that are the newest of their mailboxes
  tries,    \* guesses taken on each code
  signins   \* sign-ins each code has produced

vars == <<owner, newest, tries, signins>>

Init ==
  /\ owner = [c \in Codes |-> NoBox]
  /\ newest = {}
  /\ tries = [c \in Codes |-> 0]
  /\ signins = [c \in Codes |-> 0]

Issue(m, c) ==
  /\ owner[c] = NoBox
  /\ owner' = [owner EXCEPT ![c] = m]
  /\ newest' = {d \in newest : owner[d] # m} \cup {c}
  /\ UNCHANGED <<tries, signins>>

Try(c) ==
  /\ c \in newest
  /\ signins[c] = 0
  /\ tries[c] < MaxAttempts
  /\ tries' = [tries EXCEPT ![c] = @ + 1]
  /\ UNCHANGED <<owner, newest, signins>>

Redeem(c) ==
  /\ tries[c] > 0
  /\ signins[c] = 0
  /\ signins' = [signins EXCEPT ![c] = 1]
  /\ UNCHANGED <<owner, newest, tries>>

Next ==
  \E c \in Codes :
    \/ \E m \in Mailboxes : Issue(m, c)
    \/ Try(c)
    \/ Redeem(c)

Spec == Init /\ [][Next]_vars

=============================================================================
