------------------------------- MODULE SyncRun -------------------------------
(***************************************************************************)
(* One sync of an account outside the app's job threads: the check of the  *)
(* folder list, the folders one after the other, and the report a badge    *)
(* and a popup are made of (mailcore sync/headless.rs, imap/folders.rs,    *)
(* store/folders.rs; `mailapp --sync-once`).                               *)
(*                                                                         *)
(* A bare LIST costs one round trip and misses the folders of a branch;    *)
(* the full discovery asks for those too, and stamps the time.             *)
(***************************************************************************)
EXTENDS Naturals, FiniteSets

CONSTANTS Folders, Inbox, Interval, MaxTime, MaxEdits

VARIABLES
  tree,     \* server: [Folders -> "listed", "branch" (full discovery only), "none"]
  unread,   \* [Folders -> the cache holds unread mail of it]
  cache,    \* [Folders -> "none", "shown", "hidden"]
  stamp,    \* time of the last full discovery, 0: never
  now,
  run,      \* the run: [at, scope, alive, left, tried, synced, errors]
  named,    \* the folders LIST named in this run
  report,   \* the last run's result: [unread, recent, errors]
  gap,      \* history: a branch folder was missed since the last full look
  since,    \* history: [Folders -> since when the server has a branch folder the cache has not]
  edits

vars == <<tree, unread, cache, stamp, now, run, named, report, gap, since, edits>>

Idle == [at |-> "idle", scope |-> "All", alive |-> FALSE, left |-> {}, tried |-> {}, synced |-> {}, errors |-> 0]
Listed == {f \in Folders : tree[f] = "listed"}
Branch == {f \in Folders : tree[f] = "branch"}
Cached == {f \in Folders : cache[f] # "none"}
Subscribed(fs) == {f \in fs : cache[f] = "shown"}

Failed(r) == [r EXCEPT !.errors = 1]

cached_tree_suffices(scope) == scope = "InboxOnly" /\ cache[Inbox] = "shown"

covers(scope) == IF scope = "All" THEN Folders ELSE {Inbox}

\* Faulty: once looked at in full, only a changed tree asks for it again.
full_discovery_due_Once(cached, quick) == cached # quick \/ stamp = 0

full_discovery_due(cached, quick) == cached # quick \/ stamp = 0 \/ now - stamp >= Interval

-----------------------------------------------------------------------------
(* The run.                                                                *)

\* Without secrets or a connection the run reports what the cache has.
Begin(scope) ==
    /\ run.at = "idle"
    /\ \/ run' = [Idle EXCEPT !.at = "outbox", !.scope = scope, !.alive = TRUE]
       \/ run' = [Idle EXCEPT !.at = "cached", !.scope = scope, !.errors = 1]
    /\ named' = {}
    /\ UNCHANGED <<tree, unread, cache, stamp, now, report, gap, since, edits>>

\* The outbox, the flags and the moves go first; only the outbox can report.
flush_outbox ==
    /\ run.at = "outbox"
    /\ \E r \in {run, Failed(run)} :
          run' = IF cached_tree_suffices(run.scope)
                 THEN [r EXCEPT !.at = "folders", !.left = Cached]
                 ELSE [r EXCEPT !.at = "list"]
    /\ UNCHANGED <<tree, unread, cache, stamp, now, named, report, gap, since, edits>>

\* Faulty: a folder that is listed again is shown again.
upsert_Shown(f, fs) == IF f \in fs THEN "shown" ELSE cache[f]

\* Visibility is the user's: a refresh leaves it alone.
upsert(f, fs) == IF f \in fs /\ cache[f] = "none" THEN "shown" ELSE cache[f]

Upserted(fs) == /\ cache' = [f \in Folders |-> upsert(f, fs)]
                /\ since' = [f \in Folders |-> IF f \in fs THEN 0 ELSE since[f]]

SyncWhat(fs) == [run EXCEPT !.at = "folders", !.left = fs]

discover_folders_quick ==
    /\ run.at = "list"
    /\ \/ /\ named' = Listed /\ Upserted(Listed)
          /\ run' = IF full_discovery_due(Cached, Listed) THEN [run EXCEPT !.at = "full"]
                    ELSE SyncWhat(Listed)
       \/ /\ run' = [Failed(run) EXCEPT !.at = "cached"] /\ UNCHANGED <<named, cache, since>>
    /\ UNCHANGED <<tree, unread, stamp, now, report, gap, edits>>

\* Faulty: the auxiliary passes replace the first one's folders.
Merged_Last(first, more) == more

Merged(first, more) == first \cup more

\* The first pass decides whether it failed; the others find what they find,
\* on a connection that may be dead by then, and the time is stamped.
discover_folders ==
    /\ run.at = "full"
    /\ \/ \E more \in SUBSET Branch, alive \in BOOLEAN :
            LET all == Merged(Listed, more)
            IN  /\ alive => more = Branch
                /\ Upserted(all)
                /\ gap' = (more # Branch)
                /\ stamp' = now
                /\ run' = [SyncWhat(all) EXCEPT !.alive = alive]
       \/ run' = Failed(SyncWhat(named)) /\ UNCHANGED <<cache, stamp, gap, since>>
    /\ UNCHANGED <<tree, unread, now, named, report, edits>>

\* Faulty: the loop ends at the first error, and says nothing of the rest.
GoesOn_Never(r) == FALSE

GoesOn(r) == r.alive

Noted(r) == Failed(r)

\* sync_folder_window; a dead connection ends the loop, an error does not.
SyncFolder(f) ==
    /\ run.at = "folders" /\ f \in run.left
    /\ LET r == [run EXCEPT !.left = @ \ {f}]
       IN  IF f \notin Subscribed(covers(run.scope)) THEN run' = r /\ UNCHANGED unread
           ELSE \/ /\ run.alive /\ tree[f] # "none"
                   /\ run' = [r EXCEPT !.synced = @ \cup {f}, !.tried = @ \cup {f}]
                   /\ \E new \in BOOLEAN : unread' = [unread EXCEPT ![f] = new]
                \/ \E alive \in {run.alive, FALSE} :
                      LET e == [Noted(r) EXCEPT !.alive = alive, !.tried = @ \cup {f}]
                      IN  run' = [e EXCEPT !.left = IF GoesOn(e) THEN @ ELSE {}] /\ UNCHANGED unread
    /\ UNCHANGED <<tree, cache, stamp, now, named, report, gap, since, edits>>

InboxUnread == cache[Inbox] # "none" /\ unread[Inbox]

\* The unread count of the synced inbox; the cache's if no folder was synced.
Counted == IF run.synced = {} THEN InboxUnread ELSE Inbox \in run.synced /\ unread[Inbox]

Finish ==
    /\ run.at = "cached" \/ (run.at = "folders" /\ run.left = {})
    /\ report' = [unread |-> IF run.at = "cached" THEN InboxUnread ELSE Counted,
                  recent |-> InboxUnread, errors |-> run.errors]
    /\ run' = [run EXCEPT !.at = "done"]
    /\ UNCHANGED <<tree, unread, cache, stamp, now, named, gap, since, edits>>

Quit == /\ run.at = "done" /\ run' = Idle
        /\ UNCHANGED <<tree, unread, cache, stamp, now, named, report, gap, since, edits>>

-----------------------------------------------------------------------------
(* The user, the server and time, between two runs.                        *)

set_subscribed(f) ==
    /\ run.at = "idle" /\ cache[f] # "none" /\ edits < MaxEdits /\ edits' = edits + 1
    /\ cache' = [cache EXCEPT ![f] = IF @ = "shown" THEN "hidden" ELSE "shown"]
    /\ UNCHANGED <<tree, unread, stamp, now, run, named, report, gap, since>>

ServerEdit(f) ==
    /\ run.at = "idle" /\ edits < MaxEdits /\ edits' = edits + 1
    /\ \E t \in {"listed", "branch", "none"} :
          /\ f = Inbox => t = "listed"
          /\ tree' = [tree EXCEPT ![f] = t]
          /\ since' = [since EXCEPT ![f] = IF t = "branch" /\ cache[f] = "none" THEN now ELSE 0]
    /\ UNCHANGED <<unread, cache, stamp, now, run, named, report, gap>>

Tick == /\ run.at = "idle" /\ now < MaxTime /\ now' = now + 1
        /\ UNCHANGED <<tree, unread, cache, stamp, run, named, report, gap, since, edits>>

Init ==
    /\ tree = [f \in Folders |-> IF f = Inbox THEN "listed" ELSE "none"]
    /\ unread = [f \in Folders |-> FALSE] /\ cache = [f \in Folders |-> "none"]
    /\ stamp = 0 /\ now = 1 /\ run = Idle /\ named = {}
    /\ report = [unread |-> FALSE, recent |-> FALSE, errors |-> 0]
    /\ gap = FALSE /\ since = [f \in Folders |-> 0] /\ edits = 0

Next == \/ \E scope \in {"All", "InboxOnly"} : Begin(scope)
        \/ flush_outbox \/ discover_folders_quick \/ discover_folders
        \/ \E f \in Folders : SyncFolder(f) \/ set_subscribed(f) \/ ServerEdit(f)
        \/ Finish \/ Quit \/ Tick

-----------------------------------------------------------------------------
(* Properties.                                                             *)

\* A run that reports no error has synced every visible folder of its scope
\* that the server named, and knows every named folder; without a LIST, the
\* visible inbox (headless.rs, AccountSyncResult: errors are collected).
NothingLeftOut ==
    run.at = "done" /\ run.errors = 0 =>
       /\ Subscribed(named \cap covers(run.scope)) \subseteq run.synced
       /\ named \subseteq Cached
       /\ run.scope = "InboxOnly" => (Subscribed({Inbox}) \subseteq run.synced /\ Inbox \in Cached)
       /\ run.scope = "All" => named # {}

\* While the connection lives, the failure of one folder does not keep the run
\* from the others (headless.rs, sync_account: "one broken folder must not hide
\* the rest").
AllTried == run.at = "done" /\ run.alive => Subscribed(named \cap covers(run.scope)) \subseteq run.tried

\* The backstop: after a full check without errors a branch folder the server
\* has for longer than the interval is known, unless a pass of the last full
\* look missed it (folders.rs, full_discovery_due).
BackstopHolds ==
    run.at = "done" /\ run.errors = 0 /\ run.scope = "All" /\ ~gap =>
       \A f \in Branch : since[f] > 0 => now - since[f] < Interval

=============================================================================
