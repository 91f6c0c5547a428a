----------------------------- MODULE MCServices -----------------------------
(* The services around the mailbox, side by side: new-mail checks and their  *)
(* notifications, the schedule of the checks, the database's migrations, the *)
(* account form, the drafts and the staged files of the composers.  `part`   *)
(* says which one a behaviour is of; their states do not mix.                *)
EXTENDS NewMail, AccountForm, Migrations, TLC

CONSTANT NoText

VARIABLE part
VARIABLES now, push, since, shot, armed, replan, idle, work, notice, edits, missed
VARIABLES server, cached, text, top, composer, task, cleanup, outbox, sent, typed, kept, tangled, mishaps
VARIABLES dirs, next, held, unsent, opening, composing, ended, openings, trouble    \* Staging's

\* One of a: a minute interval of 2 with quiet hours inside a day; b: of 4,
\* with quiet hours past midnight.
Schedule == INSTANCE CheckSchedule WITH
  Accounts <- {"a", "b"}, Day <- 14, Minutes <- "a" :> 2 @@ "b" :> 4,
  Start <- "a" :> 2 @@ "b" :> 12, End <- "a" :> 5 @@ "b" :> 1, Late <- 1, Edits <- 1

\* Migrations: a current build and one two versions behind it.
TwoBuilds == "x" :> 26 @@ "y" :> 24

\* One mail in two versions: stored three times with a fault, twice with two.
Draft == INSTANCE Drafts WITH
  Mails <- {"m1"}, MaxVersion <- 2, MaxUid <- 3, MaxFaults <- 1, job <- task, faults <- mishaps
DraftTwice == INSTANCE Drafts WITH
  Mails <- {"m1"}, MaxVersion <- 2, MaxUid <- 2, MaxFaults <- 2, job <- task, faults <- mishaps

\* A desktop's composer and a phone's: one file and another one picked, opened
\* twice; and two files, with a fault.
StagedOne == INSTANCE Staging WITH
  Procs <- {1, 2}, Phones <- {2}, Files <- {"f"}, MaxAge <- 2, MaxCount <- 20,
  MaxOpenings <- 2, MaxFaults <- 0, MaxPicks <- 1,
  cached <- held, row <- unsent, job <- opening, composer <- composing, faults <- trouble
StagedTwo == INSTANCE Staging WITH
  Procs <- {1, 2}, Phones <- {2}, Files <- {"f", "g"}, MaxAge <- 2, MaxCount <- 20,
  MaxOpenings <- 1, MaxFaults <- 1, MaxPicks <- 1,
  cached <- held, row <- unsent, job <- opening, composer <- composing, faults <- trouble

\* Both checkers and the buttons over two mails of an account; one checker and
\* the app; a crash over two accounts; a renumbered inbox.
MCWorlds ==
  { [kinds |-> {Worker, Push}, mails |-> {<<"a1", 1>>, <<"a1", 2>>}, resets |-> 0, crashes |-> 0, app |-> FALSE],
    [kinds |-> {Worker, Push}, mails |-> {<<"a1", 1>>}, resets |-> 0, crashes |-> 0, app |-> TRUE],
    [kinds |-> {Worker}, mails |-> {<<"a1", 1>>, <<"a2", 1>>}, resets |-> 0, crashes |-> 1, app |-> FALSE],
    [kinds |-> {Worker}, mails |-> {<<"a1", 1>>}, resets |-> 1, crashes |-> 0, app |-> TRUE],
    [kinds |-> {Push}, mails |-> {<<"a1", 1>>, <<"a1", 2>>}, resets |-> 0, crashes |-> 0, app |-> TRUE] }

scheduleVars == <<now, push, since, shot, armed, replan, idle, work, notice, edits, missed>>
draftVars    == <<server, cached, text, top, composer, task, cleanup, outbox, sent, typed, kept, tangled, mishaps>>
stagedVars   == <<dirs, next, held, unsent, opening, composing, ended, openings, trouble>>
allVars      == <<part, vars, scheduleVars, schemaVars, formVars, draftVars, stagedVars>>

ServicesInit ==
  /\ part \in {"mail", "schedule", "schema", "form", "draft", "two faults", "one file", "two files"}
  /\ Init /\ Schedule!Init /\ SchemaInit /\ FormInit
  /\ IF part = "two faults" THEN DraftTwice!Init ELSE Draft!Init
  /\ IF part = "two files" THEN StagedTwo!Init ELSE StagedOne!Init
  /\ part # "mail" => world = CHOOSE w \in MCWorlds : w.crashes = 1
  /\ part # "schedule" => now = 0 /\ push = [a \in {"a", "b"} |-> FALSE]
  /\ part # "schema" => stamp = 0 /\ ~together
  /\ part \notin {"one file", "two files"} => held = {}

ServicesNext ==
  \/ part = "mail" /\ Next /\ UNCHANGED <<part, scheduleVars, schemaVars, formVars, draftVars, stagedVars>>
  \/ part = "schedule" /\ Schedule!Next /\ UNCHANGED <<part, vars, schemaVars, formVars, draftVars, stagedVars>>
  \/ part = "schema" /\ SchemaNext /\ UNCHANGED <<part, vars, scheduleVars, formVars, draftVars, stagedVars>>
  \/ part = "form" /\ FormNext /\ UNCHANGED <<part, vars, scheduleVars, schemaVars, draftVars, stagedVars>>
  \/ part = "draft" /\ Draft!Next /\ UNCHANGED <<part, vars, scheduleVars, schemaVars, formVars, stagedVars>>
  \/ part = "two faults" /\ DraftTwice!Next /\ UNCHANGED <<part, vars, scheduleVars, schemaVars, formVars, stagedVars>>
  \/ part = "one file" /\ StagedOne!Next /\ UNCHANGED <<part, vars, scheduleVars, schemaVars, formVars, draftVars>>
  \/ part = "two files" /\ StagedTwo!Next /\ UNCHANGED <<part, vars, scheduleVars, schemaVars, formVars, draftVars>>

ServicesSpec == ServicesInit /\ [][ServicesNext]_allVars

-----------------------------------------------------------------------------
\* The armed mechanisms are the planned ones and every polled account is served
\* in its interval (schedule.rs, plan_at and due_accounts; MailSchedule.kt, refresh).
ScheduleKept == part = "schedule" => Schedule!PlanCurrent /\ Schedule!NotStarved

\* What was typed is somewhere, once (drafts.rs, save_draft; send.rs, deliver),
\* and the files of a mail stay with it, on disk and in sight, while its composer
\* is open (paths.rs, prune_stale_draft_dirs; outbox.rs, take_for_edit).
DraftsKept ==
  /\ part = "draft" => Draft!TypedKept /\ Draft!OneDraft
  /\ part = "two faults" => DraftTwice!TypedKept /\ DraftTwice!OneDraft
  /\ part = "one file" => StagedOne!StaysAttached /\ StagedOne!NoneDropped /\ StagedOne!EditIsSomewhere
  /\ part = "two files" => StagedTwo!StaysAttached /\ StagedTwo!NoneDropped /\ StagedTwo!EditIsSomewhere
=============================================================================
