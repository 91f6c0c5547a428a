------------------------------ MODULE MCOutbox ------------------------------
(* Small instances of Outbox for TLC: one mail under two processes, and two  *)
(* mails, the second possibly the first's receipt, under one process that may*)
(* not read its keyring.  `part` says which one a behaviour is of.           *)
EXTENDS Outbox, TLC

CONSTANTS Second, \* a mail only the part with receipts has
          Cli     \* a process only the other part has

VARIABLE part

OneBackoff == <<2>>

OutboxInit == Init /\ part \in {"processes", "receipts"}
OutboxNext ==
  /\ Next /\ UNCHANGED part
  /\ part = "processes" => UNCHANGED <<rows[Second], job[Second]>> /\ pc'[Gui] # "unreachable"
  /\ part = "receipts" => UNCHANGED pc[Cli]
OutboxSpec == OutboxInit /\ [][OutboxNext]_<<vars, part>>
=============================================================================
