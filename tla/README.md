# TLA+ verification of mailclient

`mailclient` is a mail program: a Rust core (`crates/mailcore`) with an SQLite
database, a Qt desktop frontend (`crates/mailapp`), an Android frontend
(`crates/mailffi`, `android/`) and a headless `--sync-once` mode. This project
models what of the core several actors share, and the sequential parts in which
a long series of legal calls or an odd input can go wrong; it checks them with
TLC and proves the main safety results of eleven components with TLAPS.

Paths below are relative to `crates/mailcore/src` unless they start with
`crates` or `android`; a bare QML or Kotlin file name is one of the frontends'.

1. Inventory. 2. Modules. 3. Properties. 4. Runs. 5. Mutants. 6. Proofs.
7. What the models found. 8. Not modelled. 9. Plan.

## 1. Inventory

| Part | State | Operations | Hard because | What makes it correct |
|---|---|---|---|---|
| Outbox (`store/queue.rs`, `outbox.rs`, `compose/send.rs`, `sync/sender/client.rs`) and scheduled-send runner (`sync/background.rs`) | table `send_queue` | enqueue, claim, submit, mark, recover, promote, back off, give up, report, dismiss, reschedule | two processes and a UI thread on one table, crashes, lost SMTP replies, leases in wall-clock time | no double delivery, no loss, no delivery after a withdrawal, everything settles, the dialog tells the truth |
| Undo queue (`store/pending_moves.rs`, `undo.rs`, `undo/grace.rs`, `bulk.rs`, `sync/imap/engine/mutate.rs`) | table `pending_moves`, a timer thread | queue, undo, push due moves, give up, purge | undo races the push; UIDs may be stale; copy-and-delete may fail half-way | an undone move does not happen; nothing is destroyed or doubled; hidden mail comes back |
| Dirty flags (`store/messages/flags.rs`, `push_dirty_flags`) | `flags_dirty`, `is_read`, `is_starred` | set, push, clear by value, overwrite from server | clicks during a push, server flags older than the click | the last click wins |
| Folder sync (`sync/imap/engine/sync.rs`, `store/folders.rs`) | uid_next, UIDVALIDITY, modseq, cached rows | window sync, older window, fast path, server search | the server changes between commands, aborts anywhere | a folder recorded as in sync is; nothing is skipped for good |
| Session pool (`sync/pool.rs`) | idle sessions, a generation per account | check out, check in, evict | eviction during a lease | no session outlives a change of its account |
| IMAP connection (`sync/imap/session.rs`, `session/mailbox.rs`) | tag counter, `broken`, extension flags | a command with its replies, deadlines, fallbacks | late replies, endless untagged noise | a reply goes to its own command; waits end |
| Command-line sync (`sync/headless.rs`, `sync/imap/folders.rs`) | folder rows, time of the last discovery | discover, sync each folder, report | one folder or pass fails while others go on | nothing is left out without an error |
| Job threads (`crates/mailffi/src/net.rs`, `crates/mailapp/src/bridge/worker.rs`) | channel, in-flight keys, latches, feed epoch | spawn, run, finish, refuse, show | panics, messages out of order, feeds older than the screen | keys are released; the spinner is true; no feed paints over newer changes |
| Push monitor (`sync/push.rs`, `session/idle.rs`) | per-account tasks, signals, busy count | supervise, IDLE, check, leave | signals between check and IDLE | no change is missed; the wake lock covers work |
| New-mail checks (`sync/background.rs`, `background/notify.rs`) and their schedule (`background/schedule.rs`, `quiet_hours.rs`) | seen marks, check times, alarms | check, plan, post, commit; arm, serve | a crash between posting and committing; late alarms; quiet windows past midnight | each mail rings, once; each polled account is served |
| Drafts and composer (`compose/`) | Drafts folder, composer, outbox rows | save, resume, schedule, drop; answer, prefill | replace by append-and-delete; aliases, hidden recipients | what was typed is somewhere, once; everyone named gets it, nobody twice |
| Accounts and settings (`store/account_form.rs`, `store/settings.rs`, `store/account_settings.rs`) | rows, keyring, settings table | create, edit, test, delete; load, edit, save | two stores without a transaction; dialogs that hold copies | row and password fit; shown is used, saved is saved |
| Database (`db/migrations.rs`) | schema, stamp | open, step, repair | two builds, crashes between statement and stamp | a stamp is true; repairs run once |
| Attachments (`store/messages/attachments.rs`, `sync/attachments.rs`, `mime.rs`, `paths.rs`) | rows, bytes, files | list, download, evict, trim, open, save | rows are replaced under a click; header, bytes and name disagree | the file clicked is the file opened, by the right program |
| Reader (`html/`, `feed.rs`, `report.rs`, `calendar.rs`, `vcard.rs`) | cached body and parts, "Show once" copy | sanitize, plain text, list parts, cards, resend, colours, widths | unbalanced input from any program; parts that come late | all text, no image not allowed, each part met once, cards that say what the file says |
| Contacts, search, sidebar (`store/contacts.rs`, `search.rs`, `search/list_filter.rs`, `engine/search.rs`, `feed.rs`) | contact rows, phone snapshot, index | collect, suggest; parse, query, server search; fold | merged lists under one limit, a query language read twice | given aliases stay; hits mean what was typed; no folder is out of reach |
| Window start (`crates/mailapp/src/main.rs`, `relay.rs`) | `pending_open`, a port file | click, nudge, take | two processes and four statements | a click is taken, where it asked |

How they interact: the UI thread writes rows and hands jobs to the single net
thread of its process; jobs, the push monitor, alarms and the CLI all call the
same core functions (`headless::sync_account`, `flush_outbox`,
`send_due_scheduled`) on the same database file. SQLite makes one statement
atomic; nothing makes two statements atomic, except transactions where the
modules show one step, and the sync lock between background runs, which the
app's own syncs do not take.

## 2. Modules

Every component is one module, parameterised by its constants, with one action
per statement, command or callback that another actor can observe. Variables and
operators carry the names of the code (`claim`, `requeue_interrupted`,
`push_due_moves`, `safe_img_src`, ...); `PROJECT.json` maps each to its lines.

| Module | What it models |
|---|---|
| `Outbox`, `SendPromise` | the queue table with the runs on it, the user and the environment; what the outbox promises about one mail (abstract) |
| `PendingMoves`, `GraceTimer` | delete, archive and move against a server with or without MOVE; the timer that fires the push |
| `FlagPush`, `FolderSync` | flags and messages of one folder under sync |
| `SessionPool`, `Wire`, `SyncRun` | the pool, one connection's commands, one sync of an account |
| `NetJobs`, `DesktopUi` | the Android job thread with its messages; the Qt bridge with its prebuilt feeds |
| `PushMonitor`, `NewMail`, `CheckSchedule` | push tasks; checks, marks and notifications; intervals, alarms and quiet hours |
| `Migrations`, `AccountForm`, `Settings`, `Launch` | opening the database, the account form, the preferences, the click that opens a window |
| `Drafts`, `Letter` | a draft between composer, server and outbox; whom an answer or an opened mail reaches |
| `Attachments`, `FileTypes` | rows and bytes of files; their types, names and copies |
| `Contacts`, `Search`, `Sidebar` | suggestions; the search field with index, list filters and server search; the folder list |
| `Sanitizer`, `MailView`, `Look` | HTML to what is kept and to text; the page of a mail; its colours and widths |
| `ContentLine`, `Calendar`, `VCard`, `Reports` | the grammar of calendar and contact files and the cards made of them; delivery reports and resending |
| `Staging` | the files of a mail on their way through the composers' temporary folders |
| `OutboxProofs`, `PendingMovesProofs`, `FlagPushProofs`, `FolderSyncProofs`, `ServiceProofs`, `ThreadProofs` | the theorems (section 6); `Migrations` and `Wire` carry their own |
| `MCOutbox`, `MCMailbox`, `MCSync`, `MCNet`, `MCServices`, `MCReading`, `MCLive` | instances for TLC |

### Composites

An MC module usually holds several small instances of one or more components
side by side. Its variable `part` is chosen in the initial state and never
changes; it says which instance a behaviour is of, while the variables of the
others rest in one initial state. Nothing is shared between the parts, so the
state space is the sum of theirs. A property of such a module is a conjunction
of one formula per part; for a part's own formula read the component's module,
where it is stated with its comment. Components about which there are theorems
are EXTENDed, so that TLC checks the very formula the theorem states; their
names are chosen not to collide (`JobsSpec`, `PushInit`, `formVars`, ...). Where
two parts are of one such component, they are restrictions of its `Next`. Parts of one component differ in what may
happen to it (servers with and without MOVE, one or two runs, faults or none),
because one instance with everything would be too large.

### Data

Text is abstracted to what the properties tell apart. A mail is an id, its
content a version; an address an entry with its bare form; an HTML document a
sequence of tokens of the kinds the sanitizer tells apart; a calendar line a
sequence of words and separators, since how a line is folded, quoted and cut is
what goes wrong there; a colour three channels; a time a number of the unit the
code's limits are in. Match scores, message ids and dates are small numbers.
What a fold over a document computes is written with `FoldLeft`.

### Notes on single modules

* `Outbox`. `rows[r]` is a row of `send_queue`; times are relative (ticks until
  `send_at` and `next_attempt_at`, since `updated_at`) and saturate one past the
  largest value a query compares them with. `job` is the delivery job of
  `compose::deliver`; `pc, mode, cur, todo, sched, role` are one program per run;
  `fate, accepted, lostAck` are history. Merged: the two statements of
  `fail_scheduled_attempt`, those of `requeue_interrupted`, and `promote_due`
  with `prune_sent` (disjoint rows); a flush's snapshot is a set; `take_for_edit`
  ends in the same conditional delete as `dismiss`. One account. `Tick` is
  disabled while a live submit or a waiting job would exceed `MaxHold` or
  `MaxQueued`: the SMTP socket timeouts justify the first; nothing in the code
  bounds the second (section 7).
* `SessionPool`. Connection details and passwords are version numbers; a session
  records the versions it was opened with. An edit is three steps, a removal
  too, because the net thread may move between them.
* `PendingMoves`. A message is named by the UID it had before any UIDVALIDITY
  change; a run is a program with one action per IMAP command or SQL statement;
  a crash may come between any two.
* `FlagPush`, `FolderSync`. The server keeps a modseq per message; whether the
  folder is the Trash and the server has CONDSTORE is chosen at the start and
  kept; QRESYNC, window sizes and SEARCH paging are constants. A run may be cut
  off at every command. The two share a folder in the code; each leaves the other's
  columns alone, which is why they are checked apart.
* `NetJobs`. The thread that queued a job and the net thread that ended it both
  post messages to the main thread, in either order. `DesktopUi`. A closure
  carries the feed it was built with and the epoch it was built at. What is shown
  is a pair of account and folder, and a job's refresh is such a pair too, taken
  when it is queued and resolved against the live selection when its feeds are
  built (`Redirected`); an operation of the bridge is one action, named after
  it, that asks for a job of its kind or writes and repaints. `Asked` restricts a
  run to some kinds; `choice` follows what the user selected last.
* `PushMonitor`. Timers may fire whenever they are set. A check may be skipped,
  as the sync lock stays taken, or err on a session that still answers, at any
  time: `missed` keeps that mail from before the session was not read by it.
* `Attachments`. Each insert of a file's row is a step, and each sync (the app's
  and a command-line run's, or a server search) a process; a download replaces
  the rows of a mail in one transaction.
* `NewMail`. Marks are UIDs; the plan reads settings that may differ each time,
  so they are inputs. `CheckSchedule` counts time in the alarm's resolution.
* `Migrations`. The steps' effects are abstracted to two that must not run twice.
* `Wire`. IDLE is `PushMonitor`'s; parsing is left to imap-next.
* `MailView`. `Show once` and the badges are modelled from `MessageView.qml`.
* `Sanitizer`. Nesting limits are small constants for `MAX_DROP_NESTING` and
  the like; `MAX_OUT` is not modelled.
* `Calendar`. Values are tokens that the constants give times, offsets and spans
  for, so calendars, leap years and overflow are chrono's. `VCard`. Words stand
  in one spelling (the code compares without case) and quoted-printable bytes
  are decoded already; a soft break is the token `=` at the end of a line.

## 3. Properties

Outbox:

* `IInv` - the inductive ownership invariant (section 6).
* `OneOwner` - a row is in the hands of at most one live run or job.
* `AtMostOnce` - beyond acceptances whose confirmation was lost, a mail is
  accepted at most once. Each lost confirmation (a crash before `mark_sent`, a
  lost reply) is inherent in SMTP and costs one extra copy, never more.
* `NothingLost`, `WithdrawnStays`, `SentIsFinal` - an undelivered mail nobody
  withdrew is in the table with its bytes; a withdrawn one is never delivered; a
  row recorded as sent stays so.
* `PromiseSpec` - the outbox implements `SendPromise`, with a mail's state
  computed from its history.
* `AloneHonest` - with a single process the dialog agrees with what the next
  flush does (`ViewHonest`; all but rows a failure overtook, section 7), and a row
  is claimed only when it is due.
* `QueueSettles` - every mail is settled in the end, every give-up reported.

Mailbox and sync: `MovesKept` (undo in time is final; with MOVE no message is in
two places), `BulkHonest` (without MOVE nothing unpurged disappears, nothing is
misfiled, what a purge reported is gone), `TimerExact` (the
timer's push finds each action's row due, but those made more than one second
and at most two after the action that took their deadline, section 7; a burst is
pushed once), `FlagsKept` (no toggle is lost
while no other client interferes; a clean row the modseq covers is the server's), `FolderHonest` (in sync means in
sync, nothing live is dropped, no row shows another mail after a rebuild but
those `overlooked`, section 7).

Threads: `PoolInv`, `PasswordCurrent`, `RemovedStays` (section 6), `JobsExact`
(the table of jobs, the spinner and the waiters are exact), `DeskHonest` (local
changes stay on screen, the screen moves only where the user or a job that
asked for it puts it, a kind is latched for its one job), `PushHonest`
(the wake lock is held exactly while a task works outside IDLE and its
handshakes; a listening session has read what came before it, unless its last
check was skipped or erred).

Services: `AlertsHonest`, `ScheduleKept`, `SecretsKept`, `DraftsKept`,
`MigratedOnce`. Reading: `WireKept`, `RunKept`, `FilesKept`, `OpensRight`,
`ContactsKept`, `LettersKept`, `ListsKept`, `SettingsKept`, `PageKept`,
`CardsKept`. Each is stated in words above its definition in `MCServices` and
`MCReading` and is the conjunction of what the component's module states.

Liveness: `QueueSettles`; `HiddenNotForever` (a due move does not stay hidden,
even on a server that refuses it forever), `FlagPushedInTheEnd`, `KeysFreed`
(job keys and latches), `PushServed` (a stopped monitor stops; a wanted account
does not stay without its task).

Several properties exempt behaviours by a history variable (`told`, `torn`,
`tangled`, `stray`, `missed`, `crowded`, ...): what they exempt really happens in the code
and is described in section 7. The exemptions are as narrow as the model allows;
each says which fault or race it stands for where it is declared.

## 4. Runs

| Run | Instance | Shows |
|---|---|---|
| `outbox` | one mail with the app and a background run, one crash or lost reply, one user action; two mails with one run, so that self receipts are created in the middle of a flush | all safety properties of the outbox and the refinement |
| `mailbox` | moves on a server with MOVE: two runs and a crash; another client and a rebuild; the timer | `MovesKept`, `TimerExact` |
| `sync` | flags: two clicks or changes by other clients with CONDSTORE, two clicks in a Trash without it; a growing folder; a rebuilt one; moves and purges without MOVE and UIDPLUS | `FlagsKept`, `FolderHonest`, `BulkHonest` |
| `net` | pool, Android jobs, desktop bridge, push with two accounts | threads of the app against each other |
| `services` | checks, schedule, migrations, account form, drafts, staged files | crashes and races of the services |
| `reading` | one connection, the command-line run, files, contacts, letters, sidebar, search, settings, window start, file types, the page, reports, looks, calendar and contact cards | 17 parts, 10 properties |
| `live` | small instances of moves, flags, jobs, desktop, push; one mail with a process that may crash twice and lose its keyring, and with two healthy ones | liveness under fairness; the dialog and due times |

Violated, each a disagreement between the code and its own comments
(`PROJECT.json`, findings):

| Run | Property | What happens |
|---|---|---|
| `outbox_charge` | `SentIsFinal` | `fail_due_scheduled` marks a row failed that the app has sent since it was selected |
| `moves_undo` | `UndoHonest` | a batch undone while a push holds it comes back in the list, is reported as restored, and is moved on the server all the same |
| `draft_bcc` | `DraftKeepsRecipients` | a draft loses its hidden recipients: it is stored as a built message, which has no Bcc |
| `sync_rebuilt` | `NoStaleUid` | after a rebuild, an old row between the window and the end of what was searched is neither fetched again nor dropped, and shows a mail under another mail's UID |
| `desk_account` | `OneAccount` | a mail sent from a composer of another account switches the window to the sender's account, with a folder and messages of the other one in it |

### Bounds

Every bound is a constant named `Max...` or the size of a constant set, in a
guard; no state constraint cuts behaviours off.

* Outbox: `MAX_SEND_RETRIES = 2` with one backoff of two ticks has a first
  failure, a paused retry and a give-up. Lease (1), retention (2) and deadline
  (1) are as small as the order of the code's constants allows, and `Tick` may
  pass each. In `live` the user's delay (two ticks) is longer than the backoff
  (one), so that a row is paused and due at different times. Two runs suffice for every race, as each is between an owner and one
  other actor; the theorems cover any number. Two crashes in `live` let a
  recovery be interrupted.
* Moves: two runs and a crash on one message with two batches; two messages with
  one batch, another client and a rebuild; two messages and two batches without
  MOVE, so that a share of a batch, a group of two and a stranger's mark all
  happen. Two attempts before the give-up (one without MOVE). The theorems have
  no such bounds. The timer's delays keep the order of the code's (a
  grace of 3 and a coalescing of 2 for 8 s and 2 s), so that a row is left behind.
* Sync: two windows of different size, up to four UIDs and modseqs, pages of two
  UIDs: the window is left, re-entered and paged. First sync and rebuild are
  parts of their own; the rebuilt folder is synced with windows of all and of a
  part of it, as a quick sync of a folder with more mails is.
* `net`: three edits and two evictions of one account; two keys and callers;
  two accounts with three folders on the desktop, three clicks and two queued
  jobs (a job under way, the next one, and a click on each side of a feed); push with two
  accounts, mail for one of them, and any check skipped or failing.
* `services`: the worlds of `NewMail` list which checkers, crashes and resets
  meet (two checkers, two mails; a crash over two accounts; a renumbered inbox);
  a day of 14 units with a quiet window inside it and one past midnight; two
  builds with two breaks; three saves with two faults; one mail in two
  versions, stored three times with one fault or twice with two;
  a folder of staged files grown old under a composer of another process.
* `reading`: files of two mails with one sync and a renumbering, and of one mail
  with two syncs, a download and a crash, which is what it takes to list them
  twice or in part; documents
  of up to four tokens in three families (heads, nested drops, images);
  calendars with up to two statements of who and what, with every pair of zone
  and times, or of up to four pieces in any order within an open event; contact
  files of up to four pieces after an opening; limits such as the eight entries
  of a card are two or three.
* `live`: one account, one message, two jobs: liveness is per item, and the
  fairness is per actor.

### Fairness

Weak fairness of time passing, of each step of a run, job or task under way
(every network operation has a timeout), of the supervisor, and of the callback
queues. Strong fairness of what the code comes back to again and again: the net
thread takes a job (`StartDeliver`), periodic checks come round (`BeginSync`), a
due run is started *while something is due* (an alarm or timer that is retried
while the lock is taken), a flag push gets through when it is tried again and
again. Nothing makes a due run happen when nothing is due. A push task that
sends IDLE or DONE does so without the wake lock: that it goes on rests on the
keep-alive alarm, which wakes the phone and is fair for that reason. Crashes, user
actions, other clients, lost replies and refusals are never fair. In `MCLive` a
fairness condition may span several parts; as `part` never changes it is the
condition of each part by itself.

## 5. Mutants

Each property of a passing run is violated by mutations a plausible bug would
make, at least one for each part it speaks of: a recovery that ignores the lease,
a delete that ignores the status, an eviction that forgets the generation, a
fast path that trusts a stale count, a mark committed before the post, a secret
deleted before the row, an unclosed tag that hides the rest, a redirect to a
host of the local network, a zone's first offset for all the year, a soft break
that ends at its line. The variants stand before the definitions they replace,
each with a comment that begins "Faulty:"; there are 129.

## 6. Proofs

Every theorem is for any sets (rows, runs, accounts, keys, messages) and any
values of the limits, under the assumptions named; no bound of section 4 enters.

| Theorem | States | Assumes |
|---|---|---|
| `OutboxProofs`: `TypeCorrect` | `Spec => []TypeOK` | |
| `Ownership`; `SingleOwner`, `NoDoubleDelivery`, `NoMailLost`, `WithdrawnIsFinal`, `SentStays` | `IInv`; from it `OneOwner`, `AtMostOnce`, `NothingLost`, `WithdrawnStays`, and `SentIsFinal` for a queue in which nothing is charged to a row a run does not own | `LiveSubmitsAreQuick`, `KeyringReadable` |
| `KeepsPromise` | `Spec => PromiseSpec` | the same |
| `DialogIsRight`, `ClaimsAreDue` | `ViewHonest`, `ClaimsWhatIsDue` | `OneProcess` |
| `NoneOvertaken` | no row is `Overtaken` before its failure is told, with any processes | `LiveSubmitsAreQuick`, `KeyringReadable` |
| `PendingMovesProofs`: `UndoIsFinal` | `UndoInTime`, on any server | |
| `KeepsMoves` | `MovesKept` | `HasMove`, `~Refuses` |
| `BulkIsSafe` | `BulkHonest`, on any server | `OnlyClient` |
| `TimerIsExact` | `TimerExact`, of `GraceTimer`: what the push finds due, and which rows it leaves | `DelaysOK` |
| `FlagPushProofs`: `FlagsStay` | `FlagsKept` | `OneSession` |
| `FolderSyncProofs`: `FolderTypes` | `Spec => []TypeOK` | `FolderOK` |
| `RebuildIsHonest` | `NoOtherStaleUid`, with any number of runs | `FolderOK`, `FirstSynced` |
| `RebuildKeepsMail` | `DropsAfterFetch` | the same, `OneRun` |
| `SettledIsRight`, `DropsAreDue` | `SettledIsAccurate`, `DropsOnlyGone` | `FolderOK`, `OneRun`, `PagesReach`, `MaxRebuilds = 0` |
| `ThreadProofs`: `JobsAreExact` | `JobsExact` | `MaxJobs \in Nat` |
| `PushIsHonest` | `PushHonest` | |
| `DeskIsHonest` | `DeskHonest` | `FoldersOK` |
| `LeasesCurrent`, `NoOldPassword`, `NoSessionOfRemoved` | `PoolInv`, `PasswordCurrent`, `RemovedStays` | |
| `ServiceProofs`: `KeepsSecrets` | `SecretsKept` | `NamesOK` |
| `AlertsAreHonest` | `AlertsHonest` | `NewMailOK` |
| `Migrations`: `MigratesOnce` | `MigratedOnce` | `BuildsOK` |
| `Wire`: `WireIsKept` | `WireKept` | `WireOK` |

### The assumptions

`LiveSubmitsAreQuick` (neither a submit nor a waiting job outlasts the lease) and
`KeyringReadable` (no run charges rows it does not own) are about the
environment; each is needed: without the first a job that waits too long and the
run that recovers its row both submit it; `outbox_charge` shows the second. In
particular `SentStays` says nothing of charges, which `KeyringReadable` rules
out: with one, a row recorded as sent can become a failed one. What it does say
is that recovery, late runs and the user leave such a row alone.
`OneProcess` is what the two clauses of `AloneHonest` are about; with a background
run a row may be listed by one process and paused by the other before it is
claimed. Crashes, lost replies, an unreadable keyring, slow submits and jobs that
outwait the lease are all allowed there.
`KeepsMoves` speaks of servers with MOVE that do not refuse it, because the
fallback to COPY really can leave a second copy. `OnlyClient` says that no other
client marks messages and no folder is rebuilt: moves name messages by UID
without looking at UIDVALIDITY, and nothing in the code guards against it.
`OneSession` says that one run at a time works on the folder. The code excludes
two background runs, but not the app's push from a background one, and then the
statement is false: the slower run stores an older value, or writes flags it
fetched before what the faster one recorded (section 7).
`OneRun` says the same of a folder's syncs, and it is needed as well. A run takes
its SELECT, a mail arrives, a second run selects and fetches it; the first lists
the cached rows, the new one among them, but searches only below the `uidnext` of
its own SELECT, does not find the new UID and drops its row (14 steps refute
`DropsOnlyGone`; step 5 of `sync_folder_window` has a lower bound, `search_lo`,
but no upper one); the second then records what its own SELECT said, and the
folder is in sync without the mail (17 steps refute `SettledIsAccurate`).
`DropsAfterFetch` fails the same way.
`MaxRebuilds = 0` keeps the folder's UIDVALIDITY: the rows a rebuild overlooked
(section 7) may come into the window later, so there is nothing to prove of
`SettledIsAccurate` after one. `FirstSynced` is the folder a rebuild is about.
`PagesReach` says that the pages of a search reach the first UID; where they stop
short of the window the code itself leaves the gap to Load older.
`DelaysOK` says that `COALESCE` (2 s) is at most `GRACE` (8 s); `FoldersOK` that
each folder has an account and each account an inbox of its own; `NewMailOK`
that the two checkers and the notification buttons are different threads.
These, `BuildsOK`, `NamesOK`, `WireOK`, `FolderOK` and `MaxJobs \in Nat` say besides
only that constants are of their types and that what stands for nothing is not
one of the things.

### The arguments

* Outbox. `AtMostOnce` counts acceptances, so its induction needs to know who may
  still cause one: `OwnerInv` (one owner), `HoldInv` (an owned row is `sending`,
  has its bytes, and its lease is not over, so recovery cannot take it),
  `CountInv` (the acceptances of a row anyone may still submit are exactly the
  lost ones; an owner at `accepted` accounts for one more), `JobInv` and
  `FreshInv` (a row reaches its hands only once). `WithdrawnInv` and `KeptInv`
  carry two more results. The steps are grouped by what they do to the
  invariant: lemmas on the fields each statement changes, frame lemmas for steps
  that leave a row or its hands alone, and one lemma per action.
* Single process. `DueInv`: what a flush has listed and not claimed yet is either
  no longer unclaimed or still due (`StillDue`), since a step of the run itself
  changes only the row in its hands, which is off the list, and the user and the
  clock make no row early; so a claim finds its row due, and a row that is queued
  or being sent is past its time with attempts left (`InTime`). That is
  what the dialog's `retryable` assumes of a queued row; of a failed one it is
  false, and the attempt to prove it showed the overtaken rows of section 7, which
  a run with longer backoffs than delays had hidden. `PastInv` gives when there are
  none: an owned row is `sending`, which the user cannot reschedule.
* Refinement. `PromiseState` computes a mail's abstract state from its fate and
  its counts. Each statement that decides one (a hand-over, an acceptance, a
  withdrawal, a told failure) is shown to be the step of `SendPromise` it stands
  for, every other one a stutter; `IInv` supplies who owned the row.
* Moves. `UndoInv` follows a batch through the copies runs made of its rows: an
  item a run holds was due when it was read, so a batch undone in time is in no
  run's hands. `PlaceInv` says that with MOVE a message is in its box or filed
  once. `BulkInv` adds what a run may do next: a message is `Safe` (filed
  elsewhere, or given up by the user) *before* any run may mark it, and stays so
  while it is marked, which is what lets EXPUNGE remove everything marked; an
  item, and what it was read from, was asked for; a purge at `local` has
  expunged.
* Flags. `StoredInv` follows the row being pushed: the server has what was
  stored of it, or has a change newer than the recorded modseq, so clearing the
  mark is sound when the row still holds what was pushed. `SelectInv` puts what
  SELECT reported between the recorded modseq and the server's; `RefreshInv` says
  that a clean row it covers is the server's or in the answer still to be applied,
  which is what lets `set_sync_state` record it. Every change of the server is
  above both modseqs (`Moved`), so what other clients do meanwhile breaks neither.
* Folder. `RebuildInv` follows the old rows of a rebuilt folder: between the
  SELECT that saw the new UIDVALIDITY and the record, every row that may be wrong
  is one the run knows as `old` (`Renewed`), and one the window names is still to
  be fetched, or fetched; so the drop leaves wrong only what it overlooks. A run
  whose folder row is of the present UIDVALIDITY finds the rows right, as that is
  recorded only by a run that made them so; thus runs do not disturb one another.
  `WindowInv` says that a mail of the window is cached unless it is still to be
  fetched or gone. `SyncedInv` is about what is recorded: a state is the server's
  exactly when its modseq is (`Synced`), since every change raises it; a run
  whose SELECT is still the server's state has found all there is from `lo` on,
  and either `lo` is the first UID or it has found a window full (`Found`), so the
  smallest window is among what was found. A run whose SELECT is overtaken
  records a state that is the server's no more, about which nothing is claimed.
* Timer. `TimerInv`: for a waiting row its own deadline or a later one of its
  account is in the heap, or the push is queued and the row due, or it is left
  behind: the deadline that last fired took its own along before it was due
  (`LeftBehind`). A row left behind stops being so when a later deadline of the
  account fires, as that is more than `COALESCE` past the last and finds it due.
  Deadlines left in the heap are more than `COALESCE` past the last one that
  fired, so `fired` grows by more than that.
* Pool. `PasswordCurrent` alone is not inductive, as a lease may come back;
  `PoolInv` adds that what a job of the *current* generation holds is current. An
  eviction makes every lease one of a past generation; a check-out reads the
  generation before the keyring is read. The account row is read before the
  generation, so the same argument fails for the host (section 7).
* Jobs. `TableInv`: a key in the table has one job, and it is in a caller's
  hands, in the channel, or on the net thread. `SnapshotsInv` and `LatestInv`
  order the messages: each carries the generation of the table it shows, and the
  newest one is shown or still to be heard. `WaitInv`: who waits for a key will
  hear of its end, as only a thread the screen already hears of waits, for the
  job it queued.
* Push. `LockInv`: a task holds the lock exactly in the places outside
  `Released`, and what the listener was told is whether any does; `SessionInv`: a
  task past its first check has read what came before it connected, or its last
  check left that unread (`missed`).
* Desktop. `ShownNotOlder` is about what is on screen; `DeskInv` says the same of
  every feed still to come. A feed built at the present epoch contains all local
  changes (`Prebuilt`), or else the GUI thread is about to raise the epoch, as a
  write does both in one turn of its loop; a feed of an older epoch is rebuilt
  when it is delivered. `WorkerOk` follows a job from its start to its closure:
  the epoch is read before the feeds are. `ChoiceKept` needs that a refresh asks
  for where the screen was or for what its job redirected to (`Asks`). `LatchExact`
  counts: the queue, the network thread and the closures hold as many jobs of a
  latched kind as the latch says, which is one.
* Connection. `OwnReplies` is about data already collected; `NothingLate` is what
  keeps it true: on a session that is not `broken` nothing is under way but the
  answers to the command awaited, which end once, so the next command starts on
  a quiet wire. Every way out of a wait before its end (a deadline, a lost line)
  leaves the session broken or closed. `age + left <= Longest`: each extension of a deadline
  is cut at what is left of `COMMAND_MAX`. A form that was refused is not used
  again, so it is not refused twice (`NotAgain`).
* New mail. `NothingSwallowed` is about the marks in the database, which a commit
  takes from a report made long before. `KeptInv` states it for every mark a
  thread holds: it was drawn in a numbering that is not to come, over mails that
  were fetched (`Drawn`), and the unread mails below it were told of, or are in the
  report or the answers under way (`Covers`). Time runs one way (`Onward`): a
  numbering only grows, a fetched mail stays fetched, a mail told of stays so,
  and a mail that is new in a renumbered inbox is none of the old ones, so what a
  thread holds stays covered while others move. `RangInv` is for a single checker:
  what is in the cache is below the tops it read, unless the app brought it in
  (`Topped`), so what rang once is below the mark, or below the tops about to be
  committed, and is not new to the next check. The greatest UID of an inbox
  (`GreatestOf`) exists because the strict subsets of an interval are
  well-founded: a proof by least elements, as induction theorems cannot be used.
* Account form. `FormInv` describes the two stores at each point between the
  writes: keys are unshared, entries fit the rows of all accounts but the one
  under way, and `SaveInv`/`DeleteInv` say what is left if the call dies there.
* Migrations. `Promised` extends the stamp's claim to the steps an opener under
  way has done; `OneAtATime`, for histories in which no two openers worked at
  once, says that the stamp follows the opener under way and that what steps 18
  and 21 did is behind it.

### Only model-checked

Liveness and ENABLED are out of the prover's reach; so is what a fold over a
document or a list computes, which needs induction over data: all of `reading`
but `WireKept`, and the computed lists inside `ScheduleKept` and `DraftsKept`.
`FolderHonest` names instances, so no theorem states it; each of its parts is a
theorem of `FolderSyncProofs`; likewise `AloneHonest` and the theorems
`DialogIsRight` and `ClaimsAreDue`.

## 7. What the models found

The five violated runs of section 4 are the disagreements a run of this project
reproduces. Four more are stated as invariants in the modules; TLC refutes each
when it is listed in the cfg named here:

* `NoneLeftBehind` (`MCMailbox.cfg`). An action made two seconds after another of
  its account loses its deadline (nine seconds after it) to that of the first, as
  that is within `COALESCE` (`grace.rs` 72-76); the push of the first reads the
  table one second before the row is due (a grace of eight seconds), and nothing
  of the timer pushes it later: it waits, hidden, for the next sync. vs `grace.rs`
  5-7 "the push sends everything due for the account anyway", 69 "Later actions of
  the same account that are about due ride along", 88-89 "Run `due(account_id)`
  once `UNDO_GRACE_SECS` (plus a second) have passed". `TimerExact` exempts
  exactly such rows.
* `AwakeWhileWorking` (`MCNet.cfg`). `serve_session` lets the wake lock go before
  the whole of `idle()` (`push.rs` 388) and takes it after it (407): the IDLE
  command until its continuation (`session/idle.rs` 70-81) and DONE until its
  answer (118-141) run without it. vs `push.rs` 29-31 "a wake lock exactly while
  the monitor needs the CPU and not while it waits".
* `ListensCaughtUp` (`MCNet.cfg`). A first check that is skipped, or errs while
  the session still answers a NOOP, is followed by IDLE (`push.rs` 445-448), and
  mail from before the session stays unread until something else arrives. vs
  `push.rs` 376 "Catch up on whatever arrived while this account was not
  connected" and `background.rs` 352-353 "the caller reconnects then".
* `NoDuplicates` (`MCReading.cfg`). `store_attachment_meta` lists a message's rows
  (`parse.rs` 263) and then inserts one row per file, each on its own (292), and
  no index is unique (`schema.sql` 142-154): two syncs of one new mail, or a sync
  and a download, double the rows. `attachments.rs` 58-60 describes the race for
  downloads ("two writers for the same message could both see the old rows and
  insert duplicates") and takes care of it there only.

The following were met while reading and modelling. No run checks
them: most are states a history variable exempts, others concern code that is
abstracted. "vs" names the comment or behaviour they disagree with.

Outbox, moves and folders:

* A job that waits longer than the lease, or a submit that does, is recovered
  and sent a second time (`store/queue.rs` 22; `compose/send.rs` 205).
* A row the user reschedules between the two statements of `fail_due_scheduled`
  (`queue.rs` 343-357), or while a delivery that waited longer than the lease still
  has it, is put back among the failed ones with its new time to come. From the end
  of its pause to that time `list_json` calls it retryable, as it looks at the pause
  alone (`outbox.rs` 258 vs 214-215, "never a row that waits for its time or its
  pause"), while `status` and the flush do not.
* The dialog's counts and the user's notification may be told twice, or about a
  row that was just handled by hand, as the selection and the mark are two
  statements.
* A push that read a batch before it was undone sends it (`mutate.rs` 180); on a
  server without MOVE a failure after the copy leaves a second copy; a crash
  between the two statements that count a failed push (`mutate.rs` 239-241) leaves
  the attempt uncounted, so that a move is tried once more; moves named
  by UID are dropped after a UIDVALIDITY change; several purges that share a
  deadline push one another on.
* Two runs push the same dirty row (the app's push and a background sync have no
  common lock); the slower one stores the older value after the newer one was
  pushed and marked clean (`sync.rs` 512 vs "never loses a toggle", 504-506).
* Two connections' window syncs may store rows in either order: the slower one
  drops a row the faster one just fetched, as it lists the cache after its SELECT
  and searches only what that SELECT knew (`sync.rs` 104), and the faster one
  then records the folder as in sync. The fast path's count of cached rows notices
  when the window is short of one.
* A gap between sparse UIDs is filled by the next older window only.
* A folder with rows of a server search that was never window-synced has no
  recorded UIDVALIDITY, so a rebuild before its first sync is not seen as one and
  the old rows stay as cached ones.

Threads and services:

* A job reads the account row before the pool's generation: it may connect to
  the old host under the new generation. A job queued before an account edit ends
  after it and reports on an account that changed.
* Push: a network change while a check runs is swallowed; an announcement
  without data drops a mail's signal until the next one; so does a check that is
  skipped or errs on a session that still answers (`push.rs` 429-431, 445-448;
  `ListensCaughtUp` is about the first check of a session); an account that comes back while its task logs out waits
  for the next signal.
* New mail: two reporters at once ring twice (vs `push.rs` 77-79); a late commit
  lowers `seen` below the line that was already reported; a fetch of the app
  between reading the tops and the list rings again; mails beyond the summary's
  size are not listed.
* Schedule: `Replan` without a plan does not arm the next alarm; a clock set back
  makes nothing due; read-modify-write of the history may lose a run (vs
  `background.rs` 241); folders never deleted locally cause a full discovery at
  each automatic sync.
* Discovery stamps a run as full even when its auxiliary passes failed.
* Migrations: two connections may both credit contacts in step 21, and a stamp
  may go down; a half-created file finished by another build lacks later columns.
* Account form: the connection test with one password typed tries others than a
  save leaves (`account_form.rs` 266-268, "exactly like save"); the form reports
  an error when only the last-active mark failed after the account was made.
* Settings: the sort pair is saved with its error ignored, so "Settings saved"
  may be wrong (`bridge/settings.rs` 171-173); a read error at load shows
  defaults that the next save writes; two windows overwrite each other's changes;
  the table of choices lacks two preferences (vs "Every user preference").
* Drafts: a failed resync leaves a dead `draft_uid`; a first save that fails in
  its resync makes two copies; the scheduling call reports an error after the row
  is held; names of the sender and receipt requests are not in a draft.
* Window start: `take_pending_open` is four statements, so a click during a take
  is lost or mixed; two windows taking at once both jump; a window that closes
  still acknowledges a nudge; a request stays when the window starts with an
  error.

Connections and files:

* Extensions that fail to be enabled leave a connection with a latched
  `broken`; any NO turns CONDSTORE off; `idle()` neither checks nor sets
  `broken`, and its entry and exit have no overall limit.
* A run whose inbox failed reports no unread mail, so the badge and the popup
  disagree (`headless.rs` 445-447).
* A crash between the inserts of a mail's attachment rows leaves a part of the
  list, and one before the first of them none of it: a message that lists a file
  is left alone afterwards and a cached one is not fetched again, so only a
  download completes the list, and without a row there is nothing to tap. Doubled
  rows go with the next download, and a click that holds the one
  that goes finds nothing (`crowded`, exempt from `ClickedFile`). After a UIDVALIDITY change a row rewritten in place keeps the old
  mail's rows (`parse.rs` 256-264).
* An audio file in an MP4 container is sniffed as video and renamed;
  `looks_like_eml` tests a window of two bytes against four, so that test never
  holds; the save dialog suggests the name from before the download.

Reader:

* Past the remembered nesting the sanitizer leaves tags unbalanced (vs "stay
  well-formed"). An end tag of an *enclosing* dropped tag ends an unclosed style
  inside it and shows its text (`sanitize.rs` 55-58 describes the stray case).
* `had_remote` stays set for images of private hosts after the user allowed
  images; a part named only in dropped content is in neither list nor body; an
  SVG or oversized image stays counted as missing after its download.
* The copy of "Show once" is not invalidated by a new feed (`MessageView.qml`
  103-105). Gradients are not darkened while their text is inverted. "Applied
  twice it gives the colour back" (`reader.rs`) fails for saturated colours.
* A failure past the fiftieth recipient of a report is not seen; an unparsable
  report that is cached still says that it is not downloaded; a resent mail
  loses its Cc; a report with the original's own Message-ID hides other copies.
* A soft line break followed by a line that starts with a blank is unfolded
  first and leaves its `=` in the value; a soft break before `END:VCARD` swallows
  the end; an escaped semicolon written `=3B` is a separator again.

Addressing, search and lists:

* A reply to one's own sent mail from an alias answers oneself (`answer.rs` 225);
  quoted names with a comma are split by one of the two parsers (vs
  `segments.rs` 5-7).
* The phone's weight outranks the quality of a match (`contacts.rs` 68-72 "match
  quality decides first"); the limit cuts the mail's rows before the merge; two
  spellings of an address are two rows.
* A query typed while the first server search runs is not asked of the server;
  dates are compared in the header's zone by the server and in UTC locally; a
  negated date is not negated; `from: x` takes any next word as its value.
* A collapsed parent may count a hidden child twice (`feed.rs` 160). The cached
  count leaves out rows hidden by a pending move that the server's total has.
* Android's `reloadMessages` is guarded by the folder only; row actions read the
  current folder on the IO thread; a search is matched by its query, not its
  account.

## 8. Not modelled

* Generated glue (`frb_generated.rs`, cxx-qt output) and the bindings that only
  forward: they keep no state of their own.
* The Kotlin and QML views, beyond the callbacks the models name as external
  ("Show once", the alarm receiver, the search field): their state is a toolkit's.
* Parsing of IMAP responses, MIME trees, RFC 5322 dates and tokens of HTML, CSS
  and calendars: what they return is an input of the models. TLC would only
  enumerate strings, and the parsers are third-party or fuzzed by the crate.
* Building a message (`sender/message.rs`) and the plain texts made for mails
  and logs: layout without control flow worth a state.
* Similarity of mails (`similar.rs`): a score over floating-point weights.
* TLS, keyring back ends, file pickers, notifications: the models take their
  answers as nondeterministic.
* Memory and time limits of the decoders (`MAX_HTML_BYTES`, `MAX_OUT` and the
  like), and `MAX_DROP_NESTING`.

## 9. Plan

1. `ScheduleKept` and `DraftsKept` up to the lists they compute, which would
   become assumptions on the operators.
2. Liveness of single-call search: each query typed last is answered.
