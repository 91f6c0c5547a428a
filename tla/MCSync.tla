------------------------------- MODULE MCSync -------------------------------
(* Small instances, side by side, of what a sync of one folder does:         *)
(* FlagPush for the flags, FolderSync for the messages, and PendingMoves for *)
(* the user's deletes and moves on a server without MOVE and UIDPLUS.        *)
(* `part` says which of them a behaviour is of; their states do not mix.     *)
EXTENDS FlagPush, PendingMoves, TLC

VARIABLE part
VARIABLES there, uidnext, validity, hiseq, gone, cached, rec, syncs, overlooked, mail  \* FolderSync's

\* PendingMoves: two messages of one folder.
TwoInbox == (1 :> "INBOX") @@ (2 :> "INBOX")

\* FolderSync: a growing folder that is synced for the first time.
Folder == INSTANCE FolderSync WITH
  Windows <- {1, 2}, SpanFactor <- 2, SEARCH_PAGES <- 2, PER_FOLDER_CAP <- 1,
  OLDER_BATCH <- 1, Qresync <- TRUE, Kinds <- {"window", "older", "search"},
  FirstSynced <- FALSE, MaxUid <- 4, MaxMail <- 4, MaxSeq <- 4, MaxRebuilds <- 0,
  box <- there, hi <- hiseq, row <- cached, run <- syncs

\* FolderSync: a synced folder the server rebuilds, and windows of all and of
\* a part of it.
Rebuilt == INSTANCE FolderSync WITH
  Windows <- {1, 3}, SpanFactor <- 2, SEARCH_PAGES <- 2, PER_FOLDER_CAP <- 1,
  OLDER_BATCH <- 1, Qresync <- FALSE, Kinds <- {"window", "older"},
  FirstSynced <- TRUE, MaxUid <- 3, MaxMail <- 3, MaxSeq <- 4, MaxRebuilds <- 1,
  box <- there, hi <- hiseq, row <- cached, run <- syncs

folderVars == <<there, uidnext, validity, hiseq, gone, cached, rec, syncs, overlooked, mail>>

\* FlagPush: a folder with CONDSTORE, two clicks or changes by other clients; a
\* Trash without CONDSTORE and two clicks.
FlagPart ==
  /\ trash = (part = "trash") /\ condstore = (part # "trash")
  /\ toggles + others <= 2 /\ (trash => others = 0)

\* The parts that are not looked at rest in one of their initial states.
SyncInit ==
  /\ part \in {"flags", "trash", "folder", "rebuilt", "bulk"}
  /\ FlagInit /\ FlagPart
  /\ IF part = "rebuilt" THEN Rebuilt!Init
     ELSE Folder!Init /\ (part = "folder" \/ mail = 0)
  /\ Init /\ (part = "bulk" \/ known = Dests)

SyncNext ==
  /\ UNCHANGED part
  /\ \/ /\ part \in {"flags", "trash"} /\ FlagNext /\ FlagPart'
        /\ UNCHANGED <<folderVars, vars>>
     \/ part = "folder" /\ Folder!Next /\ UNCHANGED <<flagVars, vars>>
     \/ part = "rebuilt" /\ Rebuilt!Next /\ UNCHANGED <<flagVars, vars>>
     \/ part = "bulk" /\ Next /\ UNCHANGED <<flagVars, folderVars>>

syncVars == <<flagVars, folderVars, vars, part>>
SyncSpec == SyncInit /\ [][SyncNext]_syncVars

\* A folder recorded as in sync has its newest mails cached and nothing that is
\* gone; after a UIDVALIDITY change only an overlooked row may show another mail
\* (see NoStaleUid); a single run never
\* drops a cached mail the server still has, and after a rebuild old rows go only
\* when the new window is in place (engine/sync.rs, folder_unchanged,
\* set_sync_state and the stale rows).
FolderHonest ==
  /\ [](/\ part = "folder" => Folder!TypeOK /\ Folder!SettledIsAccurate
        /\ part = "rebuilt" => Rebuilt!TypeOK /\ Rebuilt!NoOtherStaleUid)
  /\ [][/\ part = "folder" => Folder!DropsOnlyGone
        /\ part = "rebuilt" => Rebuilt!DropsAfterFetch]_syncVars

\* What the code says of a rebuilt folder: "Old rows whose UID survives on the
\* server are kept (they were re-fetched/updated); the rest are purged"
\* (engine/sync.rs, sync_folder_window).
NoStaleUid == part = "rebuilt" => Rebuilt!NoStaleUid
=============================================================================
