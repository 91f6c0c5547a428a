----------------------------- MODULE MCMailbox -----------------------------
(* Small instances, side by side, of what carries out the user's deletes and *)
(* moves on a server with MOVE: PendingMoves on two mailboxes, and the timer *)
(* of GraceTimer.  `part` says which of them a behaviour is of; their states *)
(* do not mix.  (MCSync has the server without MOVE.)                        *)
EXTENDS PendingMoves, GraceTimer, TLC

VARIABLE part

\* One message; two in one folder.
OneInbox == 1 :> "INBOX"
TwoInbox == (1 :> "INBOX") @@ (2 :> "INBOX")

\* Two runs that may crash, and message 1 alone.
TwoRuns ==
  /\ UNCHANGED <<other, rebuilds>>
  /\ \A u \in Uids \ {1} : row'[u] = row[u] /\ pend'[u] = pend[u]
  /\ \A r \in Runs : UidsOf(run'[r].todo \cup run'[r].grp) \subseteq {1}

\* A single run and a single batch, with a second mail client and a rebuild.
OneRun ==
  /\ batch' <= 1 /\ UNCHANGED crashes
  /\ \A r \in Runs \ {"gui"} : run'[r] = run[r]

\* The timer at rest, while the moves are looked at, and the other way round.
\* One run may have to create the Archive; two runs find it.
MailboxInit ==
  /\ Init /\ TimerInit
  /\ part \in {"two runs", "one run", "timer"}
  /\ part # "one run" => known = Dests

MailboxNext ==
  \/ part = "two runs" /\ Next /\ TwoRuns /\ UNCHANGED <<timerVars, part>>
  \/ part = "one run" /\ Next /\ OneRun /\ UNCHANGED <<timerVars, part>>
  \/ part = "timer" /\ TimerNext /\ UNCHANGED <<vars, part>>

MailboxSpec == MailboxInit /\ [][MailboxNext]_<<vars, timerVars, part>>
=============================================================================
