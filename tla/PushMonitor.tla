---------------------------- MODULE PushMonitor ----------------------------
(***************************************************************************)
(* Push mail: one task per account on the `mailclient-push` thread, its    *)
(* IMAP session parked in IDLE on the inbox (mailcore: sync/push.rs and    *)
(* sync/imap/session/idle.rs), with the host that signals it               *)
(* (MailPushService, MailPush) and the server that announces mail.         *)
(*                                                                         *)
(* Time is left out: a timer may fire whenever it is set.                  *)
(***************************************************************************)
EXTENDS FiniteSets

CONSTANTS
  Accounts,
  Mailed     \* bound: the accounts mail arrives for

VARIABLES
  online, stop,  \* Signal; its counters appear as what each task has not seen
  wanted,        \* push_account_ids: settings and quiet hours
  sup,           \* the supervisor: "wait", "grace", "over" ...
  news,          \* ... and whether a signal waits for it
  task,          \* Accounts -> its task
  told,          \* what the listener heard last about being busy
  mail           \* Accounts -> mail its checks have not read: "none", "before"
                 \* (the session), "new", "said" (announced, nobody listening)

pushVars == <<online, stop, wanted, sup, news, task, told, mail>>
world == <<online, stop, wanted, sup, news>>

NoTask == [at |-> "none", held |-> FALSE, leave |-> FALSE, unseen |-> FALSE, diff |-> {},
           missed |-> FALSE, end |-> "none"]
Over == {"none", "over"}
\* Where a task waits for the world, for as long as that takes.
Waiting == {"offline", "idling", "parked", "backoff"}
\* Where it does not keep the phone awake: busy is off around the whole of IDLE,
\* from the command to the answer to DONE.
Released == Waiting \cup Over \cup {"entry", "exit"}
\* Where a change is compared with the base of the round.
Compares == {"entry", "idling", "parked", "exit", "woken"}
\* Where its session is open.
Connected == {"check", "read", "top", "entry", "idling", "parked", "exit", "woken"}

-----------------------------------------------------------------------------
(* What a step of a task may do.                                           *)

\* Busy::set and its Drop: the listener hears the first and the last.
Held(t) == {a \in Accounts : t[a].held}
\* Faulty variant: every change is passed on.
AnyBusy_All(t) == IF t = task THEN told ELSE \E a \in Accounts : t[a].held /\ ~task[a].held
AnyBusy(t) == Held(t) # {}

\* Task a goes on at `at`; busy unless that is a place without.
Step(a, at, fields) ==
  /\ task' = [task EXCEPT ![a] = [fields EXCEPT !.at = at, !.held = at \notin Released]]
  /\ told' = AnyBusy(task')
  /\ UNCHANGED world
Goto(a, at) == Step(a, at, task[a])

\* borrow_and_update, and a new base to compare with.
Rebased(t) == [t EXCEPT !.unseen = FALSE, !.diff = {}]
\* rx.changed() has resolved.
Heard(t) == [t EXCEPT !.unseen = FALSE]

\* What the server has not said yet is there when the next session opens.
Unread(a) == mail' = [mail EXCEPT ![a] = IF @ = "none" THEN "none" ELSE "before"]

\* What a task keeps of a session that is over.
Closed(a) == [task[a] EXCEPT !.end = "none", !.missed = FALSE, !.diff = {}]

\* The session breaks, in a check so that it does not answer the NOOP either:
\* busy again, if it was not ...
BreakOff(a) ==
  /\ task[a].at \in {"connect", "check", "read", "entry", "idling", "exit"}
  /\ Step(a, "failed", Closed(a)) /\ Unread(a)
\* ... the error goes into the history, and then the pause before the next try.
record_failed_run(a) == task[a].at = "failed" /\ Goto(a, "backoff") /\ UNCHANGED mail

-----------------------------------------------------------------------------
(* run_account                                                             *)

Top(a) ==
  /\ task[a].at = "start"
  /\ LET t == Rebased(task[a]) IN
     IF stop \/ t.leave THEN Step(a, "over", t)
     ELSE IF ~online THEN Step(a, "offline", t)
     ELSE Step(a, "connect", t) \/ Step(a, "over", t)   \* the account may be gone
  /\ UNCHANGED mail

\* Offline or backing off: any signal, the end of the pause, or leaving.
WakeUp(a) ==
  /\ task[a].at \in {"offline", "backoff"}
  /\ \/ task[a].unseen /\ Step(a, "start", Heard(task[a]))
     \/ task[a].at = "backoff" /\ Goto(a, "start")
     \/ task[a].leave /\ Goto(a, "over")
  /\ UNCHANGED mail

\* Faulty variant: a session starts to listen without catching up.
serve_Listens(a) == task[a].at = "connect" /\ Goto(a, "top") /\ UNCHANGED mail
\* serve: the password, the connection and SELECT; then the catch-up check.
serve(a) == task[a].at = "connect" /\ Goto(a, "check") /\ UNCHANGED mail

\* --- serve_session

ReadInbox(a) == mail' = [mail EXCEPT ![a] = "none"]

\* push_check: the inbox is read, and commands follow it in which the server may
\* announce mail nobody looks for.  The check is missed when it is skipped, the
\* lock staying taken, or when it errs and the session still answers a NOOP:
\* then the task goes on all the same.
Missed(a) ==
  Step(a, "top", [task[a] EXCEPT !.missed = mail[a] = "before"]) /\ UNCHANGED mail
Check(a) ==
  /\ task[a].at = "check"
  /\ \/ ReadInbox(a) /\ Step(a, "read", [task[a] EXCEPT !.missed = FALSE])
     \/ Missed(a)
EndCheck(a) == task[a].at = "read" /\ Goto(a, "top") /\ UNCHANGED mail

\* exit_for, against the base of this round.
Exits(t) == stop \/ ~online \/ "net" \in t.diff

\* The top of the loop takes a new base, so a change of the network that came
\* during the check is part of it; then the wait, with IDLE or without.
Listen(a) ==
  /\ task[a].at = "top"
  /\ LET t == Rebased(task[a]) IN
     IF Exits(t) THEN Step(a, "logout", [t EXCEPT !.end = IF stop THEN "over" ELSE "start"])
     ELSE IF t.leave THEN Step(a, "logout", [t EXCEPT !.end = "over"])
     ELSE Step(a, "entry", t) \/ Step(a, "parked", t)
  /\ UNCHANGED mail

\* idle: until the continuation.
Accepted(a) == task[a].at = "entry" /\ Goto(a, "idling") /\ UNCHANGED mail

\* wait_for_signal and until_leave: what ends the wait is a signal, the request
\* to leave, a timer or a heartbeat.  Without IDLE every wait ends in a check.
Woken(a, to, t) ==
  (t.unseen /\ Step(a, to, Heard(t))) \/ Step(a, to, t)
Wake(a) ==
  /\ \/ task[a].at = "idling" /\ Woken(a, "exit", task[a])
     \/ task[a].at = "parked" /\ Woken(a, "woken", [task[a] EXCEPT !.end = "changed"])
  /\ UNCHANGED mail
\* A keep-alive that heartbeats make redundant is let pass.
SkipKeepalive(a) ==
  /\ task[a].at = "idling" /\ task[a].unseen /\ task[a].diff = {"keep"} /\ ~stop
  /\ Step(a, "idling", Rebased(task[a])) /\ UNCHANGED mail

\* The server announces a change: DONE, and a check.
Announce(a) ==
  /\ task[a].at = "idling" /\ mail[a] = "new"
  /\ mail' = [mail EXCEPT ![a] = "said"]
  /\ Step(a, "exit", [task[a] EXCEPT !.end = "changed"])

\* The tagged OK of the IDLE.
Done(a) == task[a].at = "exit" /\ Goto(a, "woken") /\ UNCHANGED mail

\* After the wait: leave, exit, check, or wait again.
After(a) ==
  /\ task[a].at = "woken"
  /\ LET t == [task[a] EXCEPT !.end = "none"] IN
     IF t.leave THEN Step(a, "logout", [t EXCEPT !.end = "over"])
     ELSE IF Exits(t) THEN Step(a, "logout", [t EXCEPT !.end = IF stop THEN "over" ELSE "start"])
     ELSE Step(a, IF task[a].end = "changed" THEN "check" ELSE "top", [t EXCEPT !.diff = {}])
  /\ UNCHANGED mail

Logout(a) ==
  /\ task[a].at = "logout"
  /\ Step(a, task[a].end, Closed(a)) /\ Unread(a)

-----------------------------------------------------------------------------
(* The supervisor.                                                         *)

\* Faulty variant: a task that has ended keeps its entry.
Finished_Kept(t) == t
\* tasks.retain: what has ended makes room.
Finished(t) == IF t.at = "over" THEN NoTask ELSE t

\* A signal: the account list anew.  A task that is asked to leave and wanted
\* again before it did simply stays.
Supervise ==
  /\ sup = "wait" /\ news /\ news' = FALSE
  /\ IF stop
       THEN sup' = "grace" /\ UNCHANGED <<task, told>>
       ELSE /\ task' = [a \in Accounts |->
                 LET t == Finished(task[a]) IN
                 IF t.at = "none"
                   THEN IF a \in wanted THEN [NoTask EXCEPT !.at = "start", !.held = TRUE] ELSE t
                   ELSE [t EXCEPT !.leave = a \notin wanted]]
            /\ told' = AnyBusy(task') /\ UNCHANGED sup
  /\ UNCHANGED <<online, stop, wanted, mail>>

\* The end: every task stops by itself, or is aborted after SHUTDOWN_GRACE.
GraceOver ==
  /\ sup = "grace" /\ sup' = "over"
  /\ task' = [a \in Accounts |-> NoTask] /\ told' = FALSE
  /\ mail' = [a \in Accounts |-> IF mail[a] = "none" THEN "none" ELSE "before"]
  /\ UNCHANGED <<online, stop, wanted, news>>

-----------------------------------------------------------------------------
(* The host and the server.                                                *)

Signalled(kind) ==
  /\ news' = TRUE
  /\ task' = [a \in Accounts |-> IF task[a].at \in Over THEN task[a]
       ELSE [task[a] EXCEPT !.unseen = TRUE,
               !.diff = IF task[a].at \in Compares THEN @ \cup {kind} ELSE {}]]
  /\ UNCHANGED <<wanted, sup, told, mail>>
keepalive == ~stop /\ Signalled("keep") /\ UNCHANGED <<online, stop>>
network_changed(up) == ~stop /\ Signalled("net") /\ online' = up /\ UNCHANGED stop
\* Faulty variant: the watch channel's value is changed without a notice.
stop_monitor_Quiet ==
  ~stop /\ stop' = TRUE /\ UNCHANGED <<online, wanted, sup, news, task, told, mail>>
stop_monitor == ~stop /\ Signalled("keep") /\ stop' = TRUE /\ UNCHANGED online

\* Settings are changed, quiet hours start or end.
Replan(as) ==
  /\ wanted' = as
  /\ UNCHANGED <<online, stop, sup, news, task, told, mail>>

MailArrives(a) ==
  /\ mail' = [mail EXCEPT ![a] = IF task[a].at \in Connected THEN "new" ELSE "before"]
  /\ UNCHANGED <<task, told>> /\ UNCHANGED world
\* A server may announce mail with any reply; only `idling` listens.
SaidElsewhere(a) ==
  /\ task[a].at \in {"read", "entry", "exit"} /\ mail[a] = "new"
  /\ mail' = [mail EXCEPT ![a] = "said"]
  /\ UNCHANGED <<task, told>> /\ UNCHANGED world

-----------------------------------------------------------------------------
PushInit ==
  /\ online \in BOOLEAN /\ stop = FALSE
  /\ wanted = Accounts /\ sup = "wait" /\ news = TRUE
  /\ task = [a \in Accounts |-> NoTask] /\ told = FALSE
  /\ mail = [a \in Accounts |-> "before"]

\* The steps a task does not have to wait for.
Busily(a) ==
  \/ Top(a) \/ serve(a) \/ Check(a) \/ EndCheck(a) \/ Listen(a) \/ Accepted(a)
  \/ Announce(a) \/ Done(a) \/ After(a) \/ Logout(a) \/ record_failed_run(a)
Work(a) == Busily(a) \/ WakeUp(a) \/ Wake(a)
Host ==
  \/ keepalive \/ stop_monitor
  \/ \E up \in BOOLEAN : network_changed(up)
  \/ \E as \in SUBSET Accounts : Replan(as)

PushNext ==
  \/ \E a \in Accounts :
       Work(a) \/ BreakOff(a) \/ SkipKeepalive(a) \/ SaidElsewhere(a)
  \/ \E a \in Mailed : MailArrives(a)
  \/ Supervise \/ GraceOver \/ Host

PushSpec ==
  /\ PushInit /\ [][PushNext]_pushVars
  /\ WF_pushVars(Supervise) /\ WF_pushVars(GraceOver) /\ WF_pushVars(keepalive)
  /\ \A a \in Accounts : WF_pushVars(Work(a))

-----------------------------------------------------------------------------
(* Properties.                                                             *)

\* The listener holds the wake lock while, and only while, some task is at work
\* outside IDLE (PushListener::busy, Busy::set).
LockForWork == told = (\E a \in Accounts : task[a].at \notin Released)

\* The doc of the module has it held exactly while the monitor does not wait: the
\* handshakes at both ends of IDLE are commands with a timeout (push.rs, idle.rs).
\* The code does not keep it: TLC refutes it (README, section 7).
AwakeWhileWorking == told = (\E a \in Accounts : task[a].at \notin (Waiting \cup Over))

\* Unless its last check was missed, a session that listens has read what arrived
\* before it was opened (serve_session).
CaughtUp ==
  \A a \in Accounts : task[a].at = "idling" => mail[a] # "before" \/ task[a].missed

\* What the comment there says: the first check catches up on whatever arrived
\* while the account was not connected (serve_session).  TLC refutes it too.
ListensCaughtUp == \A a \in Accounts : task[a].at = "idling" => mail[a] # "before"

\* A stopped monitor ends all its tasks (supervise, PushMonitor::stop).
StopsInTheEnd == stop ~> \A a \in Accounts : task[a].at \in Over

\* An account that stays wanted does not stay without a task, given that the
\* keep-alive alarm goes on (supervise).
WantedServed ==
  \A a \in Accounts :
    <>[](a \in wanted /\ ~stop) => []<>(task[a].at \notin Over)

\* The wake lock goes with the work outside IDLE, and a session that listens has
\* read what came before it if its check was made (push.rs, Busy and
\* serve_session).
PushHonest == LockForWork /\ CaughtUp
=============================================================================
