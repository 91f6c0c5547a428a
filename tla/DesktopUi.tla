----------------------------- MODULE DesktopUi -----------------------------
(***************************************************************************)
(* The desktop bridge: the Qt GUI thread, the one network thread and the   *)
(* queue of closures back to the GUI (mailapp: bridge.rs, bridge/worker.rs *)
(* and the operations in bridge/sync.rs, accounts.rs, messages.rs,         *)
(* composer.rs, capabilities.rs, messages/bulk.rs and maintenance.rs).     *)
(*                                                                         *)
(* A job's feeds are built on the network thread while the user goes on    *)
(* clicking, so what it shows may be older than what is on screen, and of  *)
(* another folder.                                                         *)
(***************************************************************************)
EXTENDS Naturals, Sequences, FiniteSets

CONSTANTS
  Folders,   \* the folders; those of one account may vanish on the server
  Inbox,     \* account -> its inbox, which stays
  AccountOf, \* folder -> account
  NoRefresh,
  Asked,     \* bound: the kinds of jobs that are asked for
  MaxClicks, \* bound: operations on the GUI thread
  MaxQueued  \* bound: jobs ever queued

\* An account and a folder: what the feeds are of.
Selection == [account : DOMAIN Inbox, folder : Folders]

ASSUME FoldersOK ==
  /\ \A f \in Folders : AccountOf[f] \in DOMAIN Inbox
  /\ \A a \in DOMAIN Inbox : Inbox[a] \in Folders /\ AccountOf[Inbox[a]] = a
  /\ NoRefresh \notin Selection /\ MaxClicks \in Nat /\ MaxQueued \in Nat

VARIABLES
  folders,   \* the folders in the database
  local,     \* how many local changes the database has seen
  epoch,     \* FEED_EPOCH
  feed,      \* the properties QML shows: selection, and the changes they contain
  stale,     \* messages_stale
  gui,       \* what the GUI thread is in the middle of
  latch,     \* busy_kinds
  busy,      \* the `busy` property
  work,      \* jobs queued to the network thread
  worker,    \* the network thread
  closures,  \* closures queued to the GUI thread
  clicks, queued, \* bounds
  choice     \* ghost: the user's last choice, and what jobs redirected since

deskVars ==
  <<folders, local, epoch, feed, stale, gui, latch, busy, work, worker, closures, clicks, queued,
    choice>>
jobThread == <<work, worker, closures>>

\* ("Delete draft" stands for the cleanup of one draft.)
DeskKinds == {"Sync", "Search", "Delete", "Scheduled send", "Maintenance",
              "Send", "Save draft", "Delete draft",
              "Open", "Save", "Download images", "Export",
              "Resend", "Forward", "Open draft", "Capabilities"}
GuiAtRest == [at |-> "idle", then |-> "none"]

Sel(a, f) == [account |-> a, folder |-> f]
\* shown
Shown == Sel(feed.account, feed.folder)

-----------------------------------------------------------------------------
(* Feeds.                                                                  *)

\* Feeds::build of selection s, from the database as it is.
Build(s) == [account |-> s.account, folder |-> s.folder, messages |-> local, counts |-> local]

\* apply
Apply(feeds) == feed' = feeds /\ stale' = FALSE /\ epoch' = epoch + 1

push_feeds(s) == Apply(Build(s))

\* Faulty variant: the list is not marked, although only its rows are patched.
push_flag_change_Fresh ==
  feed' = [feed EXCEPT !.counts = local] /\ UNCHANGED stale /\ epoch' = epoch + 1
\* push_flag_change: the counts, and a mark that the list is not of now.
push_flag_change ==
  feed' = [feed EXCEPT !.counts = local] /\ stale' = TRUE /\ epoch' = epoch + 1

-----------------------------------------------------------------------------
(* Jobs.                                                                   *)

\* Faulty variant: a second job of a kind is let in.
Gate_Open(kind) == TRUE
\* entry_gate: the network thread is up.
Gate(kind) == kind \notin latch

\* spawn_job: latched, and queued with the selection it starts from.  `wants`
\* is the selection its refresh will ask for; a job that lists the folders
\* settles that when it ends, and one that only reads asks for none.
SpawnJob(kind, wants, lists) ==
  /\ Gate(kind) /\ kind \in Asked /\ queued < MaxQueued /\ queued' = queued + 1
  /\ latch' = latch \cup {kind} /\ busy' = TRUE
  /\ work' = Append(work, [kind |-> kind, started |-> Shown, wants |-> wants, lists |-> lists])
  /\ UNCHANGED <<worker, closures>>

Idle == gui = GuiAtRest
Click == clicks < MaxClicks /\ clicks' = clicks + 1
SpawnClick(kind, wants, lists) ==
  /\ Idle /\ Click /\ SpawnJob(kind, wants, lists)
  /\ UNCHANGED <<folders, local, epoch, feed, stale, gui, choice>>
Queue(kind, s) == SpawnClick(kind, s, FALSE)
List(kind) == SpawnClick(kind, NoRefresh, TRUE)
Read(kind) == SpawnClick(kind, NoRefresh, FALSE)

SyncNow == List("Sync")
SyncFolderNow(f) ==
  f \in folders /\ AccountOf[f] = feed.account /\ Queue("Sync", Sel(feed.account, f))
LoadOlder == Queue("Sync", Sel(AccountOf[feed.folder], feed.folder))
RefreshFolders == List("Sync")
CreateFolder == Queue("Sync", Shown)
SearchServer == Queue("Search", Shown)
PurgeUids == Queue("Delete", Shown)
DeleteDraft == Queue("Delete", Shown)
TrimCache == Queue("Maintenance", Shown)

\* The due timer; nothing that was due is like a failure, without a refresh.
FlushDueSends == Queue("Scheduled send", Shown)

\* The composer's account a is the one its draft names, which need not be the
\* one shown when it is used; schedule_mail's job removes the draft.
Compose(kind, a) == Queue(kind, Sel(a, feed.folder))
SendMail(a) == Compose("Send", a)
SaveDraft(a) == Compose("Save draft", a)
ScheduleMail(a) == Compose("Delete draft", a)

\* Jobs that change nothing the feeds show.
OpenAttachment == Read("Open")
SaveAttachment == Read("Save")
SaveAllAttachments == Read("Save")
DownloadInlineImages == Read("Download images")
ExportMessage == Read("Export")
ResendFetch == Read("Resend")
ForwardFetch == Read("Forward")
DraftForm == Read("Open draft")
RefreshServerCapabilities == Read("Capabilities")
EvictAttachments == Read("Maintenance")
ReadSomething ==
  \/ OpenAttachment \/ SaveAttachment \/ SaveAllAttachments \/ DownloadInlineImages
  \/ ExportMessage \/ ResendFetch \/ ForwardFetch \/ DraftForm
  \/ RefreshServerCapabilities \/ EvictAttachments

\* --- the network thread.

TakeQueued ==
  /\ worker.at = "idle" /\ work # <<>>
  /\ worker' = [worker EXCEPT !.at = "run", !.job = Head(work)] /\ work' = Tail(work)
  /\ UNCHANGED <<folders, local, epoch, feed, stale, gui, latch, busy, closures, clicks, queued, choice>>

\* What a job that lists the folders refreshes: the folder shown when it was
\* queued if it is one of the account, or the inbox in its place.
SyncedFolder(started, there) ==
  IF started.folder \in there /\ AccountOf[started.folder] = started.account THEN started
  ELSE Sel(started.account, Inbox[started.account])

\* The job itself: fails or panics (no refresh), or ends with the folder to
\* show; a sync may find that folders of the account are gone.
RunQueued ==
  LET job == worker.job
      Gone == IF job.kind = "Sync" THEN {f \in folders : AccountOf[f] = job.started.account}
              ELSE {}
  IN
  /\ worker.at = "run"
  /\ \/ /\ worker' = [worker EXCEPT !.at = "ran", !.refresh = NoRefresh]
        /\ UNCHANGED folders
     \/ \E dead \in SUBSET (Gone \ {Inbox[a] : a \in DOMAIN Inbox}) :
          /\ folders' = folders \ dead
          /\ worker' = [worker EXCEPT !.at = "ran",
                       !.refresh = IF job.lists THEN SyncedFolder(job.started, folders') ELSE job.wants]
  /\ UNCHANGED <<local, epoch, feed, stale, gui, latch, busy, work, closures, clicks, queued, choice>>

\* The prebuilt feeds, two steps of the network thread ...
Prebuild(first, second) ==
  /\ worker.at \in {"ran", "half"}
  /\ worker' = CASE worker.at = "ran" /\ worker.refresh = NoRefresh -> [worker EXCEPT !.at = "done"]
              [] worker.at = "ran" /\ worker.refresh # NoRefresh -> [first EXCEPT !.at = "half"]
              [] worker.at = "half" -> [second EXCEPT !.at = "done"]
  /\ UNCHANGED <<folders, local, epoch, feed, stale, gui, latch, busy, work, closures, clicks, queued,
                 choice>>

ReadEpoch == [worker EXCEPT !.epoch = epoch]
BuildFeeds == [worker EXCEPT !.feeds = Build(worker.refresh)]
\* Faulty variant: the epoch is read when the feeds are ready.
PrepareFeeds_Late == Prebuild(BuildFeeds, ReadEpoch)
\* ... the epoch is read before the feeds are built.
PrepareFeeds == Prebuild(ReadEpoch, BuildFeeds)

\* Faulty variant: a job that failed has nothing to say to the GUI thread.
Report_Done(closure) == IF closure.refresh = NoRefresh THEN closures ELSE Append(closures, closure)
Report(closure) == Append(closures, closure)

\* The closure for the GUI thread.
Deliver ==
  /\ worker.at = "done"
  /\ closures' = Report([kind |-> worker.job.kind, started |-> worker.job.started,
       refresh |-> worker.refresh, epoch |-> worker.epoch, feeds |-> worker.feeds])
  /\ worker' = [worker EXCEPT !.at = "idle"]
  /\ UNCHANGED <<folders, local, epoch, feed, stale, gui, latch, busy, work, clicks, queued, choice>>

\* --- back on the GUI thread.

\* Faulty variant: a job's own view always wins.
Resolve_Job(p) == p.refresh
\* resolve: the user's newer choice of a folder, unless the job redirects on
\* purpose; nothing of it, if the account changed underneath.
Resolve(p) ==
  IF feed.account # p.started.account THEN Shown
  ELSE Sel(p.refresh.account,
           IF p.refresh.folder = p.started.folder THEN feed.folder ELSE p.refresh.folder)

\* Faulty variant: prebuilt feeds are used if they are of the right folder.
Usable_Shows(p, target) == p.feeds.folder = target.folder
\* The prebuilt feeds are of the right selection and no change came in between.
Usable(p, target) ==
  p.epoch = epoch /\ Sel(p.feeds.account, p.feeds.folder) = target

\* What a job may redirect, by asking for other than it started on.
Redirected(p) ==
  LET ours == feed.account = p.started.account IN
  [choice EXCEPT !.otherFolder = @ \/ (ours /\ p.refresh.folder # p.started.folder),
                 !.otherAccount = @ \/ (ours /\ p.refresh.account # p.started.account)]

\* Faulty variant: the spinner stops with the first job that ends.
StillBusy_No(left) == FALSE
StillBusy(left) == left # {}

FinishJob ==
  LET p == Head(closures)  target == Resolve(p)  left == latch \ {p.kind} IN
  /\ Idle /\ closures # <<>> /\ closures' = Tail(closures)
  /\ IF p.refresh = NoRefresh
       THEN UNCHANGED <<epoch, feed, stale, choice>>
       ELSE /\ IF Usable(p, target) THEN Apply(p.feeds) ELSE push_feeds(target)
            /\ choice' = Redirected(p)
  /\ latch' = left /\ busy' = StillBusy(left)
  /\ UNCHANGED <<folders, local, gui, work, worker, clicks, queued>>

-----------------------------------------------------------------------------
(* Clicks that change the database, then what is shown.                    *)

\* The database is written first; `then` is what follows it.
Write(then) ==
  /\ Idle /\ Click
  /\ local' = local + 1 /\ gui' = [at |-> "wrote", then |-> then]
  /\ UNCHANGED <<folders, epoch, feed, stale, latch, busy, jobThread, queued, choice>>

FlagClick == Write("patch")      \* open_message, mark_read, toggle_star
FlagMany == Write("patch")       \* mark_read_many, set_star_many
FlagHits == Write("rebuild")     \* flag_hits
QueueUndoable == Write("rebuild")  \* delete, archive, move
QueueHits == \E then \in {"rebuild", "purge"} : Write(then)  \* ... over search hits
UndoMove == Write("rebuild")
SetSort == Write("rebuild")
SetSubscribed == Write("rebuild")

\* The rest of the click; a share of search hits that can only be destroyed
\* goes on to a job, which may be refused.
Show ==
  /\ gui.at = "wrote" /\ gui' = GuiAtRest
  /\ IF gui.then = "patch" THEN push_flag_change ELSE push_feeds(Shown)
  /\ \/ gui.then = "purge" /\ SpawnJob("Delete", Shown, FALSE)
     \/ /\ gui.then = "purge" => ~Gate("Delete") \/ "Delete" \notin Asked \/ queued = MaxQueued
        /\ UNCHANGED <<latch, busy, jobThread, queued>>
  /\ UNCHANGED <<folders, local, clicks, choice>>

Chosen(s) == [shown |-> s, otherFolder |-> FALSE, otherAccount |-> FALSE]
Select(s) ==
  /\ Idle /\ Click /\ push_feeds(s) /\ choice' = Chosen(s)
  /\ UNCHANGED <<folders, local, gui, latch, busy, jobThread, queued>>
SelectFolder(f) == f \in folders /\ AccountOf[f] = feed.account /\ Select(Sel(feed.account, f))
SelectAccount(a) == Select(Sel(a, Inbox[a]))

RefreshIfStale ==
  /\ Idle /\ stale /\ push_feeds(Shown)
  /\ UNCHANGED <<folders, local, gui, latch, busy, jobThread, clicks, queued, choice>>

-----------------------------------------------------------------------------
DeskInit ==
  /\ folders = Folders /\ local = 0 /\ epoch = 0
  /\ \E a \in DOMAIN Inbox :
       feed = Build(Sel(a, Inbox[a])) /\ choice = Chosen(Sel(a, Inbox[a]))
  /\ stale = FALSE /\ gui = GuiAtRest /\ latch = {} /\ busy = FALSE
  /\ work = <<>> /\ closures = <<>> /\ clicks = 0 /\ queued = 0
  /\ worker = [at |-> "idle", job |-> NoRefresh, refresh |-> NoRefresh, epoch |-> 0, feeds |-> feed]

DeskThread == TakeQueued \/ RunQueued \/ PrepareFeeds \/ Deliver
DeskNext ==
  \/ SyncNow \/ LoadOlder \/ RefreshFolders \/ CreateFolder \/ SearchServer \/ PurgeUids
  \/ DeleteDraft \/ TrimCache \/ FlushDueSends \/ ReadSomething
  \/ FlagClick \/ FlagMany \/ FlagHits \/ QueueUndoable \/ QueueHits \/ UndoMove
  \/ SetSort \/ SetSubscribed \/ Show \/ RefreshIfStale \/ DeskThread \/ FinishJob
  \/ \E f \in Folders : SyncFolderNow(f) \/ SelectFolder(f)
  \/ \E a \in DOMAIN Inbox : SelectAccount(a) \/ SendMail(a) \/ SaveDraft(a) \/ ScheduleMail(a)

DeskSpec ==
  /\ DeskInit /\ [][DeskNext]_deskVars
  /\ WF_deskVars(DeskThread) /\ WF_deskVars(FinishJob) /\ WF_deskVars(Show)

-----------------------------------------------------------------------------
(* Properties.                                                             *)

\* What the user changed is never painted over by feeds that were built before
\* (FEED_EPOCH): the counts are of now, and a list that is not says so.
ShownNotOlder ==
  Idle => feed.counts = local /\ (feed.messages < local => stale)

\* A job puts the screen on another folder, or another account, only if it asked
\* for another than it started on, and never once the user has left the account;
\* until a job did, the list is of the account shown (JobRefresh::resolve).
ChoiceKept ==
  /\ feed.folder # choice.shown.folder => choice.otherFolder
  /\ feed.account # choice.shown.account => choice.otherAccount
  /\ feed.account # AccountOf[feed.folder] => choice.otherAccount

\* The folder shown is one of the account shown: a send that is over rebuilds
\* the feeds for the shown folder (send_mail, JobRefresh::resolve).
OneAccount == AccountOf[feed.folder] = feed.account

\* How many jobs of kind k there are from the click to the end of their closure.
Counted(s, k) == Cardinality({i \in DOMAIN s : s[i].kind = k})
OnTheWay(k) ==
  Counted(work, k) + Counted(closures, k)
    + (IF worker.at # "idle" /\ worker.job.kind = k THEN 1 ELSE 0)

\* A kind is latched while, and only while, its one job is queued, running or
\* on its way back; the spinner turns while any is (spawn_job).
LatchExact ==
  /\ \A k \in DeskKinds : OnTheWay(k) = IF k \in latch THEN 1 ELSE 0
  /\ busy = (latch # {})

\* Local changes stay on screen, and so does the user's choice of folder; one job
\* of a kind, and a spinner while any runs (bridge.rs, FEED_EPOCH; worker.rs,
\* JobRefresh::resolve and spawn_job).
DeskHonest == ShownNotOlder /\ ChoiceKept /\ LatchExact

\* Whatever becomes of a job, its kind can be asked for again (spawn_job).
LatchFreed == \A k \in Asked : k \in latch ~> k \notin latch
=============================================================================
