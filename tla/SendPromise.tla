---------------------------- MODULE SendPromise -----------------------------
(***************************************************************************)
(* What the outbox promises about one mail, without rows, claims or runs:  *)
(* a mail that was handed over is delivered at most once, except for the   *)
(* copies whose confirmation was lost; a mail the user took back is not    *)
(* delivered any more; only once the user was told that the send failed    *)
(* (and may send it again by hand) all bets are off.                       *)
(***************************************************************************)
EXTENDS Naturals

CONSTANT Mails

VARIABLES
  state,        \* Mails -> what holds of the mail from the user's side
  copies,       \* Mails -> how often a server took it
  unconfirmed   \* Mails -> how many of these the client does not know of

vars == <<state, copies, unconfirmed>>

Init ==
  /\ state = [m \in Mails |-> "none"]
  /\ copies = [m \in Mails |-> 0]
  /\ unconfirmed = [m \in Mails |-> 0]

Become(m, s) == state' = [state EXCEPT ![m] = s]

HandOver(m) ==
  /\ state[m] = "none" /\ Become(m, "pending")
  /\ UNCHANGED <<copies, unconfirmed>>

Deliver(m) ==
  /\ state[m] = "pending" /\ Become(m, "delivered")
  /\ copies' = [copies EXCEPT ![m] = @ + 1]
  /\ UNCHANGED unconfirmed

\* A server took it, but its reply never arrived: it will be tried again.
DeliverUnconfirmed(m) ==
  /\ state[m] = "pending"
  /\ copies' = [copies EXCEPT ![m] = @ + 1]
  /\ unconfirmed' = [unconfirmed EXCEPT ![m] = @ + 1]
  /\ UNCHANGED state

\* A crash before the delivery was written down.
Forget(m) ==
  /\ state[m] = "delivered" /\ Become(m, "pending")
  /\ unconfirmed' = [unconfirmed EXCEPT ![m] = @ + 1]
  /\ UNCHANGED copies

Withdraw(m) ==
  /\ state[m] = "pending" /\ Become(m, "withdrawn")
  /\ UNCHANGED <<copies, unconfirmed>>

Tell(m) ==
  /\ state[m] # "none" /\ Become(m, "told")
  /\ UNCHANGED <<copies, unconfirmed>>

\* After "send failed" nothing is promised about further copies.
Late(m) ==
  /\ state[m] = "told"
  /\ copies' = copies \/ copies' = [copies EXCEPT ![m] = @ + 1]
  /\ unconfirmed' = unconfirmed
     \/ unconfirmed' = [unconfirmed EXCEPT ![m] = @ + 1]
  /\ UNCHANGED state

Next ==
  \E m \in Mails :
    \/ HandOver(m) \/ Deliver(m) \/ DeliverUnconfirmed(m) \/ Forget(m)
    \/ Withdraw(m) \/ Tell(m) \/ Late(m)

Spec == Init /\ [][Next]_vars
=============================================================================
