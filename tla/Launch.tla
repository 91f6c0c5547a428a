------------------------------- MODULE Launch -------------------------------
(***************************************************************************)
(* `mailapp --open` (mailapp main.rs and relay.rs): a click in the bar     *)
(* starts a process that queues the account and folder in the database and *)
(* nudges the window whose port is recorded; if nobody answers it becomes  *)
(* the window itself.  A window takes the request when it starts and when  *)
(* it is nudged (store/settings.rs, take_pending_open; Main.qml,           *)
(* consumePendingOpen).                                                    *)
(*                                                                         *)
(* A window is the process that opened it.                                 *)
(***************************************************************************)
EXTENDS Naturals, FiniteSets

CONSTANTS Procs,                    \* numbers: processes start in their order
          Accounts, Folders, Inbox,
          NoOne,                    \* nobody, nothing
          MaxEnds                   \* windows closed, crashed or used by hand

\* What a click may name: an account and a folder; any other name is the inbox.
Targets == Accounts \X (Folders \cup {"Inbox", "gone"})

VARIABLES
  at,      \* [Procs -> where the process is]
  port,    \* gui.port: the window it names
  queued,  \* pending_open: [acc, folder]
  nudged,  \* the windows that have a nudge to handle
  hand,    \* [Procs -> what a take has read so far, or where a landing goes]
  shown,   \* [Procs -> the account and folder a window shows]
  ends,
  asked,   \* history: the requests that were made
  missed,  \* history: a nudge was answered by a window that then went away
  torn     \* history: a request, or another take, came in the middle of a take

vars == <<at, port, queued, nudged, hand, shown, ends, asked, missed, torn>>

Windows   == {p \in Procs : at[p] \in {"listening", "folder", "clear", "end", "open", "landing"}}
Taking    == {p \in Procs : at[p] \in {"folder", "clear", "end"}}
Answering == Windows \cup {p \in Procs : at[p] = "closing"}
Nothing   == <<NoOne, NoOne>>
\* Only a number: the next process to start.
First(p)  == at[p] = "none" /\ \A q \in Procs : q < p => at[q] # "none"

\* An exact path wins; "inbox" in any spelling, and a name the account has
\* not, is its inbox.
Resolved(f) == IF f \in Folders THEN f ELSE Inbox

Init ==
  /\ at = [p \in Procs |-> "none"] /\ port = NoOne /\ queued = Nothing /\ nudged = {}
  /\ hand = [p \in Procs |-> Nothing] /\ shown = [p \in Procs |-> Nothing]
  /\ ends = 0 /\ asked = {} /\ missed = FALSE /\ torn = FALSE

-----------------------------------------------------------------------------
(* The click.                                                              *)

\* Faulty: the account is written, the folder not yet.
set_pending_open_Half(acc, folder) == <<acc, queued[2]>>

set_pending_open(acc, folder) == <<acc, folder>>

Click(p, t) ==
  /\ First(p) /\ at' = [at EXCEPT ![p] = "nudge"]
  /\ queued' = set_pending_open(t[1], Resolved(t[2]))
  /\ asked' = asked \cup {<<t[1], Resolved(t[2])>>}
  /\ torn' = (torn \/ Taking # {})
  /\ UNCHANGED <<port, nudged, hand, shown, ends, missed>>

\* Faulty: a recorded port is taken for a window.
Answered_Recorded == port # NoOne

\* The handshake: somebody has to be there.
Answered == port \in Answering

Nudge(p) ==
  /\ at[p] = "nudge"
  /\ at' = [at EXCEPT ![p] = IF Answered THEN "gone" ELSE "boot"]
  /\ nudged' = IF Answered THEN nudged \cup ({port} \cap Windows) ELSE nudged
  /\ missed' = (missed \/ (port # NoOne /\ at[port] = "closing"))
  /\ UNCHANGED <<port, queued, hand, shown, ends, asked, torn>>

\* Started without --open.
Start(p) ==
  /\ First(p) /\ at' = [at EXCEPT ![p] = "boot"]
  /\ UNCHANGED <<port, queued, nudged, hand, shown, ends, asked, missed, torn>>

-----------------------------------------------------------------------------
(* The window.                                                             *)

\* Component.onCompleted: listen first, then read.
Listen(p) ==
  /\ at[p] = "boot" /\ at' = [at EXCEPT ![p] = "listening"] /\ port' = p
  /\ \E a \in Accounts : shown' = [shown EXCEPT ![p] = <<a, Inbox>>]
  /\ UNCHANGED <<queued, nudged, hand, ends, asked, missed, torn>>

\* consume_pending_open begins: the account is read, and nothing done without one.
\* The read at startup leaves the nudges that came before it.
ReadId(p) ==
  /\ at[p] = "listening" \/ (at[p] = "open" /\ p \in nudged)
  /\ nudged' = IF at[p] = "open" THEN nudged \ {p} ELSE nudged
  /\ IF queued[1] = NoOne
     THEN at' = [at EXCEPT ![p] = "open"] /\ UNCHANGED hand
     ELSE at' = [at EXCEPT ![p] = "folder"] /\ hand' = [hand EXCEPT ![p] = <<queued[1], NoOne>>]
  /\ torn' = (torn \/ Taking # {})
  /\ UNCHANGED <<port, queued, shown, ends, asked, missed>>

\* take_pending_open goes on: the folder is read, the account cleared, the folder cleared.
ReadFolder(p) ==
  /\ at[p] = "folder" /\ at' = [at EXCEPT ![p] = "clear"]
  /\ hand' = [hand EXCEPT ![p][2] = queued[2]]
  /\ UNCHANGED <<port, queued, nudged, shown, ends, asked, missed, torn>>
ClearId(p) ==
  /\ at[p] = "clear" /\ at' = [at EXCEPT ![p] = "end"] /\ queued' = [queued EXCEPT ![1] = NoOne]
  /\ UNCHANGED <<port, nudged, hand, shown, ends, asked, missed, torn>>

\* The account is shown at once, with its inbox; the folder when that settled.
select_account(p, a) == IF shown[p][1] = a THEN shown[p] ELSE <<a, Inbox>>
ClearFolder(p) ==
  /\ at[p] = "end" /\ at' = [at EXCEPT ![p] = "landing"]
  /\ queued' = [queued EXCEPT ![2] = NoOne]
  /\ shown' = [shown EXCEPT ![p] = select_account(p, hand[p][1])]
  /\ UNCHANGED <<port, nudged, hand, ends, asked, missed, torn>>

\* Faulty: the folder is opened in whatever account is shown by then.
Settled_Any(p) == TRUE

Settled(p) == shown[p][1] = hand[p][1]

Land(p) ==
  /\ at[p] = "landing" /\ at' = [at EXCEPT ![p] = "open"]
  /\ shown' = [shown EXCEPT ![p] = IF Settled(p) /\ hand[p][2] # NoOne THEN <<@[1], hand[p][2]>> ELSE @]
  /\ hand' = [hand EXCEPT ![p] = Nothing]
  /\ UNCHANGED <<port, queued, nudged, ends, asked, missed, torn>>

\* The user picks another account before a landing has settled.
Switch(p, a) ==
  /\ at[p] = "landing" /\ ends < MaxEnds /\ ends' = ends + 1
  /\ a # shown[p][1] /\ shown' = [shown EXCEPT ![p] = <<a, Inbox>>]
  /\ UNCHANGED <<at, port, queued, nudged, hand, asked, missed, torn>>

\* The window closes, or dies with its port recorded.  What it was nudged for
\* waits for the next one.
Close(p) ==
  /\ at[p] = "open" /\ ends < MaxEnds /\ ends' = ends + 1
  /\ \E how \in {"closing", "gone"} : at' = [at EXCEPT ![p] = how]
  /\ nudged' = nudged \ {p} /\ missed' = (missed \/ p \in nudged)
  /\ UNCHANGED <<port, queued, hand, shown, asked, torn>>

\* forget: the port file goes, whoever's it is.
Forget(p) ==
  /\ at[p] = "closing" /\ at' = [at EXCEPT ![p] = "gone"] /\ port' = NoOne
  /\ UNCHANGED <<queued, nudged, hand, shown, ends, asked, missed, torn>>

Next ==
  \E p \in Procs :
    \/ Start(p) \/ Nudge(p) \/ Listen(p) \/ ReadId(p) \/ ReadFolder(p) \/ ClearId(p) \/ ClearFolder(p)
    \/ Land(p) \/ Close(p) \/ Forget(p)
    \/ \E t \in Targets : Click(p, t)
    \/ \E a \in Accounts : Switch(p, a)

Spec == Init /\ [][Next]_vars

-----------------------------------------------------------------------------
AtRest == nudged = {} /\ \A p \in Procs : at[p] \in {"none", "open", "gone"}

\* A click is not forgotten: once everything has come to rest its request was
\* taken, unless the window that answered it went away (relay.rs, nudge "the
\* liveness check"; Main.qml, "so a click in between is not missed").
ClickTaken == AtRest /\ ~missed => queued[1] = NoOne

\* "a half-written request would jump to the new account's id with the previous
\* request's folder" (settings.rs, set_pending_open): a window lands only where
\* somebody asked, unless a request or a second window's take came in the
\* middle of its own.
LandsWhereAsked ==
  /\ ~torn => \A p \in Procs : at[p] = "landing" => hand[p] \in asked
  /\ \A p \in Procs : at[p] \in {"open", "landing"} /\ shown[p] # Nothing /\ shown[p][2] # Inbox /\ ~torn
       => shown[p] \in asked
=============================================================================
