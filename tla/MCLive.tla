------------------------------- MODULE MCLive -------------------------------
(* Liveness of the components, side by side: small instances of which `part` *)
(* says which one a behaviour is of; their states do not mix.                *)
(*                                                                           *)
(* `part` never changes, so weak fairness of a disjunction of steps, each of *)
(* another part, is weak fairness of each in its own part: the fairness is   *)
(* the one the modules state.                                                *)
EXTENDS PendingMoves, TLC

CONSTANT NoRefresh

VARIABLE part
VARIABLES trash, condstore, flagged, srv, hi, modseq, session, toggles, others, want   \* FlagPush's
VARIABLES inflight, gen, queue, thread, caller, started, loaded, heard, shown, waiting, jobs
VARIABLES folders, local, epoch, feed, stale, gui, latch, busy, work, worker, closures, clicks,
          queued, choice
VARIABLES online, stop, wanted, sup, news, task, told, mail
VARIABLES rows, job, pc, mode, cur, todo, sched, role, lock, fate, accepted, lostAck, fallen, userOps  \* Outbox's

OneInbox == 1 :> "INBOX"

Flag == INSTANCE FlagPush WITH
  Msgs <- {"m1"}, Window <- {"m1"}, Sessions <- {"gui"}, MaxToggles <- 2, MaxChanges <- 1

Jobs == INSTANCE NetJobs WITH
  Keys <- {"sync1"}, KindOf <- "sync1" :> "Sync",
  Callers <- {"c1"}, None <- "none", MaxJobs <- 2,
  chan <- queue, net <- thread, posts <- heard, asked <- jobs

Desk == INSTANCE DesktopUi WITH
  Folders <- {"in1", "arch1"}, Inbox <- 1 :> "in1",
  AccountOf <- "in1" :> 1 @@ "arch1" :> 1,
  Asked <- {"Sync", "Delete"}, MaxClicks <- 2, MaxQueued <- 2

Push == INSTANCE PushMonitor WITH Accounts <- {"a"}, Mailed <- {"a"}

\* One mail: a single process that may crash twice and lose its keyring; the app
\* and a command-line run, no crash.
Alone == INSTANCE Outbox WITH
  Ids <- {"r1"}, Procs <- {"gui"}, Gui <- "gui", None <- "none", Chargers <- {"gui"},
  Android <- TRUE, SendTimes <- {2}, MAX_SEND_RETRIES <- 2, SCHEDULED_BACKOFF <- <<1>>,
  SCHEDULED_DEADLINE <- 1, SCHEDULE_LEAD <- 0, STALE_SENDING <- 1, SENT_RETENTION <- 2,
  MaxHold <- 1, MaxQueued <- 1, MaxCrashes <- 2, MaxUserOps <- 1, crashes <- fallen
Shared == INSTANCE Outbox WITH
  Ids <- {"r1"}, Procs <- {"gui", "cli"}, Gui <- "gui", None <- "none", Chargers <- {"gui"},
  Android <- TRUE, SendTimes <- {1}, MAX_SEND_RETRIES <- 2, SCHEDULED_BACKOFF <- <<2>>,
  SCHEDULED_DEADLINE <- 1, SCHEDULE_LEAD <- 0, STALE_SENDING <- 1, SENT_RETENTION <- 2,
  MaxHold <- 1, MaxQueued <- 1, MaxCrashes <- 0, MaxUserOps <- 0, crashes <- fallen

movesVars == <<box, marked, filed, row, pend, known, due, run, batch, crashes, other, rebuilds,
  asked, confirmed, handles, takenBack, carried, destroyed>>
flagVars == <<trash, condstore, flagged, srv, hi, modseq, session, toggles, others, want>>
jobsVars ==
  <<inflight, gen, queue, thread, caller, started, loaded, heard, shown, waiting, jobs>>
deskVars ==
  <<folders, local, epoch, feed, stale, gui, latch, busy, work, worker, closures, clicks, queued,
    choice>>
pushVars == <<online, stop, wanted, sup, news, task, told, mail>>
outboxVars ==
  <<rows, job, pc, mode, cur, todo, sched, role, lock, fate, accepted, lostAck, fallen, userOps>>
allVars == <<movesVars, flagVars, jobsVars, deskVars, pushVars, outboxVars, part>>

LiveInit ==
  /\ Init /\ Flag!FlagInit /\ Jobs!JobsInit /\ Desk!DeskInit /\ Push!PushInit
  /\ part \in {"moves", "flags", "jobs", "desk", "push", "alone", "shared"}
  /\ IF part = "shared" THEN Shared!Init ELSE Alone!Init
  /\ ~trash /\ condstore
  /\ part # "moves" => known = Dests
  /\ part # "desk" => feed.folder = "in1"
  /\ part # "push" => online

Moves(A) == part = "moves" /\ A /\ UNCHANGED <<flagVars, jobsVars, deskVars, pushVars, outboxVars, part>>
Flags(A) == part = "flags" /\ A /\ UNCHANGED <<movesVars, jobsVars, deskVars, pushVars, outboxVars, part>>
OfJobs(A) == part = "jobs" /\ A /\ UNCHANGED <<movesVars, flagVars, deskVars, pushVars, outboxVars, part>>
OfDesk(A) == part = "desk" /\ A /\ UNCHANGED <<movesVars, flagVars, jobsVars, pushVars, outboxVars, part>>
OfPush(A) == part = "push" /\ A /\ UNCHANGED <<movesVars, flagVars, jobsVars, deskVars, outboxVars, part>>
One(A) == part = "alone" /\ A /\ UNCHANGED <<movesVars, flagVars, jobsVars, deskVars, pushVars, part>>
Two(A) == part = "shared" /\ A /\ UNCHANGED <<movesVars, flagVars, jobsVars, deskVars, pushVars, part>>

LiveNext ==
  \/ Moves(Next) \/ Flags(Flag!FlagNext) \/ OfJobs(Jobs!JobsNext) \/ OfDesk(Desk!DeskNext)
  \/ OfPush(Push!PushNext) \/ One(Alone!Next) \/ Two(Shared!Next)

LiveSpec ==
  /\ LiveInit /\ [][LiveNext]_allVars
  /\ \A b \in Batches : WF_allVars(Moves(Lapse(b)))
  /\ WF_allVars(\/ Moves(\E r \in Runs : Step(r)) \/ Flags(Flag!StartRun("gui"))
                \/ OfJobs(Jobs!NetThread) \/ OfDesk(Desk!DeskThread) \/ OfPush(Push!Supervise)
                \/ One(Alone!Step("gui")) \/ Two(Shared!Step("gui")))
  /\ WF_allVars(\/ Moves(\E r \in Runs : StartPush(r)) \/ Flags(Flag!Work("gui"))
                \/ OfJobs(Jobs!Queueing("c1")) \/ OfDesk(Desk!FinishJob)
                \/ OfPush(Push!GraceOver) \/ One(Alone!Tick) \/ Two(Shared!Tick))
  /\ WF_allVars(\/ OfDesk(Desk!Show) \/ OfPush(Push!keepalive)
                \/ One(Alone!SpawnDeliver("r1")) \/ Two(Shared!SpawnDeliver("r1")))
  /\ WF_allVars(OfPush(Push!Work("a")) \/ Two(Shared!Step("cli")))
  /\ SF_allVars(\/ Flags(Flag!PushNext("gui"))
                \/ One(Alone!BeginSync("gui")) \/ Two(Shared!BeginSync("gui")))
  /\ SF_allVars(\/ Flags(Flag!PushSeen("gui") /\ session'["gui"].pc = "star")
                \/ One(Alone!StartDeliver("r1")) \/ Two(Shared!StartDeliver("r1")))
  /\ SF_allVars(\/ Flags(Flag!PushStar("gui") /\ session'["gui"].pc = "clear")
                \/ One(Alone!DueNow /\ Alone!BeginDue("gui"))
                \/ Two(Shared!DueNow /\ \E p \in {"gui", "cli"} : Shared!BeginDue(p)))
  /\ SF_allVars(Flags(Flag!Clear("gui")) \/ Two(Shared!BeginSync("cli")))

\* A single process: the outbox dialog shows what will happen to each row, and
\* no row is claimed before it is due, its snapshot being its own (outbox.rs,
\* RowKind::of; queue.rs, list_submittable and claim).
AloneHonest ==
  /\ [](part = "alone" => Alone!ViewHonest)
  /\ [][part = "alone" => Alone!ClaimsWhatIsDue]_allVars

\* Two healthy processes: a scheduled send that gave up is reported
\* (queue.rs, take_failure_notices).
Reportable == part = "shared" /\ Shared!Noticeable(rows["r1"])
SharedReported == Reportable ~> ~Reportable

\* Every mail is settled in the end and every give-up reported (client.rs,
\* flush_outbox; queue.rs, requeue_interrupted and take_failure_notices).
QueueSettles == Alone!EventuallySettled /\ SharedReported

\* The user's flags reach the server in the end (engine/sync.rs,
\* push_dirty_flags).
FlagPushedInTheEnd == Flag!PushedInTheEnd

\* A job key, and a latched kind of job, is free again in the end (net.rs, spawn;
\* worker.rs, spawn_job).
KeysFreed == Jobs!KeyFreed /\ Desk!LatchFreed

\* A monitor that is stopped stops, and until then a wanted account does not stay
\* without its task (push.rs, supervise).
PushServed == Push!StopsInTheEnd /\ (part = "push" => Push!WantedServed)
=============================================================================
