---------------------------- MODULE PendingMoves ----------------------------
(***************************************************************************)
(* Undoable delete, archive and move (undo.rs, bulk.rs), the               *)
(* `pending_moves` table they wait in (store/pending_moves.rs), and the    *)
(* runs that carry them out on the IMAP server once the grace period is    *)
(* over (sync/imap/engine/mutate.rs, sync/imap/session/mutate.rs).         *)
(*                                                                         *)
(* The app's net thread and a background check push at the same time over  *)
(* sessions of their own; neither takes a lock for it.  A run is a small   *)
(* program with one action per IMAP command or SQL statement.  A message   *)
(* is named by the UID it has before any UIDVALIDITY change, and a row of  *)
(* the `messages` table by its (folder, uid), which is what keeps its id.  *)
(***************************************************************************)
EXTENDS Naturals, FiniteSets

CONSTANTS
  Uids,                  \* messages, and the UIDs they are cached under
  HomeOf,                \* Uids -> the folder each one is in
  Runs,                  \* sessions that may work at the same time
  HasMove, HasUidPlus,   \* what the server advertises
  Refuses,               \* the server may answer NO to MOVE and UID EXPUNGE
  MAX_PENDING_ATTEMPTS,
  MaxBatches,            \* bound: user actions
  MaxCrashes,            \* bound
  MaxOther,              \* bound: \Deleted marks another client sets
  MaxRebuilds            \* bound: UIDVALIDITY changes

Dests   == {"Trash", "Archive", "Work"}
NoMsg   == 0
Batches == 1..MaxBatches

ASSUME ConstantsOK ==
  /\ Uids \subseteq Nat \ {0} /\ IsFiniteSet(Uids)
  /\ HomeOf \in [Uids -> {"INBOX", "Junk"} \cup Dests]
  /\ HasMove \in BOOLEAN /\ HasUidPlus \in BOOLEAN /\ Refuses \in BOOLEAN
  /\ MAX_PENDING_ATTEMPTS \in Nat \ {0}
  /\ MaxBatches \in Nat /\ MaxCrashes \in Nat
  /\ MaxOther \in Nat /\ MaxRebuilds \in Nat

VARIABLES
  box,      \* server: Uids -> the message with that UID in its home folder
  marked,   \* server: the UIDs flagged \Deleted
  filed,    \* server: copies of each message in the other folders (2: several)
  row,      \* cache: Uids -> the message cached under it
  pend,     \* the pending_moves table: Uids -> its row, if any
  known,    \* the destination folders the account has, by role
  due,      \* batches whose due_at has passed
  run,      \* Runs -> where each one is and what it read (see Run)
  batch, crashes, other, rebuilds,   \* what the bounds count
  asked, confirmed,          \* history: moves and purges the user asked for
  handles,                   \* history: batches the UI can undo
  takenBack, carried,        \* history: undone in time; pushed to the server
  destroyed                  \* history: messages a purge reported as deleted

serverVars == <<box, marked, filed>>
bounds     == <<batch, crashes, other, rebuilds>>
ghosts     == <<asked, confirmed, handles, takenBack, carried, destroyed>>
vars == <<serverVars, row, pend, known, due, run, bounds, ghosts>>

-----------------------------------------------------------------------------
(* The table.                                                              *)

\* A row of pending_moves; act "none" when there is none for the message.
Pending == [act : {"none", "trash", "archive", "move"}, to : Dests \cup {"none"},
            batch : Nat, tries : Nat]
NoRow == [act |-> "none", to |-> "none", batch |-> 0, tries |-> 0]

\* One due row as a run reads it.  The batch is not read by the code; it is
\* kept to tell afterwards on whose behalf the server was changed.
Item == [uid : Uids, msg : Uids, act : {"trash", "archive", "move", "purge"},
         to : Dests \cup {"none"}, tries : Nat, batch : Nat]

UidsOf(items) == {i.uid : i \in items}
SameFolder(u) == {v \in Uids : HomeOf[v] = HomeOf[u]}

\* HIDDEN: what the lists, counts and searches do not show.
Listed(u) == row[u] # NoMsg /\ pend[u].act = "none"

\* Faulty variant: rows are listed as soon as they are queued.
DueItems_Early ==
  {[uid |-> u, msg |-> row[u], act |-> pend[u].act, to |-> pend[u].to,
    tries |-> pend[u].tries, batch |-> pend[u].batch] :
      u \in {v \in Uids : row[v] # NoMsg /\ pend[v].act # "none"}}

\* list_due
DueItems ==
  {[uid |-> u, msg |-> row[u], act |-> pend[u].act, to |-> pend[u].to,
    tries |-> pend[u].tries, batch |-> pend[u].batch] :
      u \in {v \in Uids : row[v] # NoMsg /\ pend[v].act # "none"
                            /\ pend[v].batch \in due}}

\* pending_moves::remove, and what the cascade does when a row is deleted.
Without(us) == [u \in Uids |-> IF u \in us THEN NoRow ELSE pend[u]]

\* pending_failed: the attempts are those the run read.
GivenUp(items) == UidsOf({i \in items : i.tries + 1 >= MAX_PENDING_ATTEMPTS})

\* Faulty variant: a failed push is not counted.
record_failure_Uncounted(us) == pend
\* Faulty variant: attempts are counted down.
record_failure_Down(us) ==
  [u \in Uids |-> IF u \in us THEN [pend[u] EXCEPT !.tries = @ - 1] ELSE pend[u]]

\* pending_moves::record_failure
record_failure(us) ==
  [u \in Uids |-> IF u \in us /\ pend[u].act # "none"
                    THEN [pend[u] EXCEPT !.tries = @ + 1] ELSE pend[u]]

-----------------------------------------------------------------------------
(* The user.                                                               *)

delete_is_permanent(src) == src = "Junk" \/ "Trash" \notin known \ {src}

\* What queue_into decides for one folder's share of the selection.
Share(src, us, target) ==
  LET gone == \A u \in us : row[u] = NoMsg IN
  IF target = "Trash" /\ delete_is_permanent(src) THEN "permanent"
  ELSE IF target = "Work" /\ "Work" \notin known THEN "error"
  ELSE IF target = src THEN "there"
  ELSE IF gone THEN "error" ELSE "pending"

Action(target) == CASE target = "Trash" -> "trash" [] target = "Archive" -> "archive"
                    [] OTHER -> "move"
DestId(target) == IF target = "Trash" \/ target \notin known THEN "none" ELSE target

\* bulk::queue_move over the folders of the selection.  The first folder that
\* errs ends the loop: the shares before it stay queued, the UI gets no batch.
\* store::pending_moves::queue: a message queued again replaces its row.
queue_rows(us, target, b) ==
  [u \in Uids |-> IF u \in us THEN [act |-> Action(target), to |-> DestId(target), batch |-> b, tries |-> 0]
                 ELSE pend[u]]

QueueMove(sel, target, now) ==
  LET shares == {sel \cap SameFolder(u) : u \in sel}
      verdict(us) == Share(HomeOf[CHOOSE u \in us : TRUE], us, target)
      failing == {us \in shares : verdict(us) = "error"}
      pendings == {us \in shares : verdict(us) = "pending"}
  IN
  /\ sel # {} /\ batch < MaxBatches
  /\ batch' = batch + 1
  /\ \E queued \in SUBSET pendings :
       /\ failing = {} => queued = pendings
       /\ LET us == {u \in UNION queued : row[u] # NoMsg} IN
          /\ pend' = queue_rows(us, target, batch')
          /\ asked' = asked \cup {<<row[u], target>> : u \in us}
          /\ handles' = IF failing = {} /\ us # {} /\ ~now
                          THEN handles \cup {batch'} ELSE handles
  /\ due' = IF now THEN due \cup {batch'} ELSE due     \* queue_move_now
  /\ UNCHANGED <<serverVars, row, known, run, crashes, other, rebuilds,
                 confirmed, takenBack, carried, destroyed>>

\* The grace period of a batch ends.
Lapse(b) ==
  /\ b \in 1..batch \ due
  /\ due' = due \cup {b}
  /\ UNCHANGED <<serverVars, row, pend, known, run, bounds, ghosts>>

\* undo: cancel_batch.
Undo(b) ==
  /\ b \in handles
  /\ \E u \in Uids : pend[u].act # "none" /\ pend[u].batch = b
  /\ pend' = Without({u \in Uids : pend[u].batch = b})
  /\ takenBack' = takenBack \cup {[batch |-> b, intime |-> b \notin due]}
  /\ UNCHANGED <<serverVars, row, known, due, run, bounds,
                 asked, confirmed, handles, carried, destroyed>>

-----------------------------------------------------------------------------
(* The runs.                                                               *)

\* A run: its next command, the items still to do, the group it works on and
\* where that goes, and whether its session still answers.
Labels == {"idle", "group", "move", "copy", "mark", "expunge", "search", "wide", "local", "count"}
Run == [pc : Labels, todo : SUBSET Item, grp : SUBSET Item,
        dest : Dests \cup {"none"}, up : BOOLEAN]
NoRun == [pc |-> "idle", todo |-> {}, grp |-> {}, dest |-> "none", up |-> TRUE]

\* Run r goes on at a label, with its session still up or not.
Goto(r, label, link) ==
  run' = [run EXCEPT ![r] =
            CASE label = "idle" -> NoRun
              [] label = "group" -> [@ EXCEPT !.pc = label, !.grp = {}, !.dest = "none",
                                              !.up = link]
              [] OTHER -> [@ EXCEPT !.pc = label, !.up = link]]
At(r, label) == run[r].pc = label
Up(r) == run[r].up
Group(r) == run[r].grp
GroupUids(r) == UidsOf(run[r].grp)
Purging(r) == \E i \in Group(r) : i.act = "purge"
Stay == UNCHANGED <<known, due, bounds, asked, confirmed, handles, takenBack>>

\* push_local_changes and the syncs: read what is due.
StartPush(r) ==
  /\ At(r, "idle") /\ DueItems # {}
  /\ run' = [run EXCEPT ![r] = [NoRun EXCEPT !.pc = "group", !.todo = DueItems]]
  /\ UNCHANGED <<serverVars, row, pend, carried, destroyed>> /\ Stay

\* bulk::purge, purge_uids and delete_message: confirmed by the user.
StartPurge(r, us) ==
  /\ At(r, "idle") /\ us # {} /\ \A u, v \in us : HomeOf[u] = HomeOf[v]
  /\ \A u \in us : Listed(u)
  /\ batch < MaxBatches /\ batch' = batch + 1
  /\ run' = [run EXCEPT ![r] = [NoRun EXCEPT !.pc = "mark", !.grp =
               {[uid |-> u, msg |-> row[u], act |-> "purge", to |-> "none",
                 tries |-> 0, batch |-> 0] : u \in us}]]
  /\ confirmed' = confirmed \cup {row[u] : u \in us}
  /\ UNCHANGED <<serverVars, row, pend, known, due, crashes, other, rebuilds,
                 asked, handles, takenBack, carried, destroyed>>

Finish(r) ==
  /\ At(r, "group") /\ run[r].todo = {}
  /\ Goto(r, "idle", TRUE)
  /\ UNCHANGED <<serverVars, row, pend, carried, destroyed>> /\ Stay

\* Faulty variant: the server's capabilities are not looked at.
FirstCommand_Copy == "copy"
\* Faulty variant: the source copies are removed before anything is copied.
FirstCommand_Remove == "mark"
\* uid_move
FirstCommand == IF HasMove THEN "move" ELSE "copy"

\* The groups of push_due_moves: one source folder, action and target each.
Groups(items) ==
  {{j \in items : HomeOf[j.uid] = HomeOf[i.uid] /\ j.act = i.act /\ j.to = i.to} :
     i \in items}

\* Faulty variant: an Archive that is gone is answered by Trash.
pending_target_Any(i) ==
  {d \in known : d # HomeOf[i.uid]}

\* pending_target: the folders a group may go to; none: no target any more.
pending_target(i) ==
  IF i.act = "trash" THEN {"Trash"} \cap (known \ {HomeOf[i.uid]})
  ELSE IF i.to # "none" THEN {i.to} \cap known
  ELSE {"Archive"} \ {HomeOf[i.uid]}

TakeGroup(r) ==
  /\ At(r, "group") /\ run[r].todo # {}
  /\ \E g \in Groups(run[r].todo) :
       LET targets == pending_target(CHOOSE i \in g : TRUE)
           rest == run[r].todo \ g IN
       \/ /\ targets = {}                              \* no target: dropped
          /\ run' = [run EXCEPT ![r].todo = rest]
          /\ pend' = Without(UidsOf(g)) /\ UNCHANGED known
       \/ /\ targets # {} /\ targets \cap known = {}   \* cannot create Archive
          /\ run' = [run EXCEPT ![r] =
               [@ EXCEPT !.todo = rest, !.grp = g, !.pc = "count"]]
          /\ pend' = Without(GivenUp(g)) /\ UNCHANGED known
       \/ \E d \in targets :
            /\ d \in known \/ Up(r)
            /\ known' = known \cup {d}                 \* create_folder_path
            /\ run' = [run EXCEPT ![r] =
                 [@ EXCEPT !.todo = rest, !.grp = g, !.dest = d,
                           !.pc = FirstCommand]]
            /\ UNCHANGED pend
  /\ UNCHANGED <<serverVars, row, due, bounds, ghosts>>

\* The server's part of MOVE, COPY and EXPUNGE on the UIDs of a group.
There(us) == {box[u] : u \in us} \ {NoMsg}
FiledIn(us, d) ==
  [m \in Uids |-> IF m \in There(us)
     THEN [filed[m] EXCEPT ![d] = IF @ = 0 THEN 1 ELSE 2] ELSE filed[m]]
BoxWithout(us) == [u \in Uids |-> IF u \in us THEN NoMsg ELSE box[u]]
CarriedFor(r) ==
  carried' = carried \cup {i.batch : i \in {j \in Group(r) : box[j.uid] # NoMsg}}

\* push_due_moves when move_uids_to returned an error: pending_failed, which
\* first drops what has no attempt left ...
GroupFailed(r, link) == pend' = Without(GivenUp(Group(r))) /\ Goto(r, "count", link)

\* ... and then counts the attempt of the others.
Count(r) ==
  /\ At(r, "count")
  /\ pend' = record_failure(GroupUids(r) \ GivenUp(Group(r)))
  /\ Goto(r, "group", Up(r))
  /\ UNCHANGED <<serverVars, row, carried, destroyed>> /\ Stay

\* move_uids_to and uid_move, server with MOVE: SELECT, then the command.
Move(r) ==
  LET us == GroupUids(r)
      Moved == /\ box' = BoxWithout(us) /\ marked' = marked \ us
               /\ filed' = FiledIn(us, run[r].dest) /\ CarriedFor(r)
  IN
  /\ At(r, "move")
  /\ \/ Up(r) /\ Moved /\ Goto(r, "local", TRUE) /\ UNCHANGED pend
     \/ Up(r) /\ Moved /\ GroupFailed(r, FALSE)        \* the answer is lost
     \/ /\ \E link \in {FALSE, Up(r)} : GroupFailed(r, link)   \* or SELECT is refused
        /\ UNCHANGED <<serverVars, carried>>
     \/ /\ Up(r) /\ Refuses /\ Goto(r, "copy", TRUE)   \* NO: fall back
        /\ UNCHANGED <<serverVars, carried, pend>>
  /\ UNCHANGED <<row, destroyed>> /\ Stay

\* copy_then_remove, the COPY.
Copy(r) ==
  LET Copied == filed' = FiledIn(GroupUids(r), run[r].dest) /\ CarriedFor(r) IN
  /\ At(r, "copy")
  /\ \/ Up(r) /\ Copied /\ Goto(r, "mark", TRUE) /\ UNCHANGED pend
     \/ Up(r) /\ Copied /\ GroupFailed(r, FALSE)       \* the answer is lost
     \/ /\ \E link \in {FALSE, Up(r)} : GroupFailed(r, link)
        /\ UNCHANGED <<filed, carried>>
  /\ UNCHANGED <<box, marked, row, destroyed>> /\ Stay

\* Once the COPY landed a failed removal is only logged; a purge reports it.
RemoveFailed(r, link) ==
  Goto(r, IF Purging(r) THEN "idle" ELSE "local", link) /\ UNCHANGED pend

\* uid_store_flags(+\Deleted)
Mark(r) ==
  LET Marked == marked' = marked \cup {u \in GroupUids(r) : box[u] # NoMsg} IN
  /\ At(r, "mark")
  /\ \/ /\ Up(r) /\ Marked /\ UNCHANGED pend
        /\ Goto(r, IF HasUidPlus THEN "expunge" ELSE "search", TRUE)
     \/ Up(r) /\ Marked /\ RemoveFailed(r, FALSE)
     \/ UNCHANGED marked /\ \E link \in {FALSE, Up(r)} : RemoveFailed(r, link)
  /\ UNCHANGED <<box, filed, row, carried, destroyed>> /\ Stay

\* Faulty variant: a failed expunge does not stop a purge.
ExpungeFailed_Silent(r, link) == Goto(r, "local", link) /\ UNCHANGED pend
ExpungeFailed(r, link) == RemoveFailed(r, link)

Expunged(us) == box' = BoxWithout(us) /\ marked' = marked \ us

\* uid_expunge, server with UIDPLUS.
Expunge(r) ==
  LET us == GroupUids(r) \cap marked IN
  /\ At(r, "expunge")
  /\ \/ Up(r) /\ Expunged(us) /\ Goto(r, "local", TRUE) /\ UNCHANGED pend
     \/ Up(r) /\ Expunged(us) /\ ExpungeFailed(r, FALSE)
     \/ UNCHANGED <<box, marked>> /\ ExpungeFailed(r, FALSE)
     \/ /\ Up(r) /\ Refuses /\ Goto(r, "search", TRUE)
        /\ UNCHANGED <<pend, box, marked>>
  /\ UNCHANGED <<filed, row, carried, destroyed>> /\ Stay

FolderMarks(r) == marked \cap SameFolder(CHOOSE u \in GroupUids(r) : TRUE)

\* expunge_only: what else in the folder is flagged.
Strangers(r) == FolderMarks(r) \ GroupUids(r)

Search(r) ==
  /\ At(r, "search")
  /\ \/ Up(r) /\ Strangers(r) = {} /\ Goto(r, "wide", TRUE) /\ UNCHANGED pend
     \/ Up(r) /\ Strangers(r) # {} /\ ExpungeFailed(r, TRUE)
     \/ ExpungeFailed(r, FALSE)
  /\ UNCHANGED <<serverVars, row, carried, destroyed>> /\ Stay

\* The mailbox-wide EXPUNGE.
Wide(r) ==
  /\ At(r, "wide")
  /\ \/ Up(r) /\ Expunged(FolderMarks(r)) /\ Goto(r, "local", TRUE) /\ UNCHANGED pend
     \/ Up(r) /\ Expunged(FolderMarks(r)) /\ ExpungeFailed(r, FALSE)
     \/ /\ UNCHANGED <<box, marked>>
        /\ \E link \in {FALSE, Up(r)} : ExpungeFailed(r, link)
  /\ UNCHANGED <<filed, row, carried, destroyed>> /\ Stay

\* delete_many_by_uids: the rows go, their pending rows with them.
Local(r) ==
  /\ At(r, "local")
  /\ row' = [u \in Uids |-> IF u \in GroupUids(r) THEN NoMsg ELSE row[u]]
  /\ pend' = Without(GroupUids(r))
  /\ destroyed' = IF Purging(r) THEN destroyed \cup {i.msg : i \in Group(r)}
                               ELSE destroyed
  /\ Goto(r, IF Purging(r) THEN "idle" ELSE "group", Up(r))
  /\ UNCHANGED <<serverVars, carried>> /\ Stay

-----------------------------------------------------------------------------
(* Everything else.                                                        *)

\* The process of run r dies; nothing of the run is stored.
Crash(r) ==
  /\ ~At(r, "idle") /\ crashes < MaxCrashes
  /\ crashes' = crashes + 1
  /\ Goto(r, "idle", TRUE)
  /\ UNCHANGED <<serverVars, row, pend, known, due, batch, other, rebuilds, ghosts>>

\* sync_folder_window of the folder of u, as far as these tables see it (see
\* FolderSync): the cache becomes the server's content.  A row whose UID the
\* server still has keeps its id, so it keeps its pending row.
SyncFolder(u) ==
  LET us == SameFolder(u) IN
  /\ row' = [v \in Uids |-> IF v \in us THEN box[v] ELSE row[v]]
  /\ row' # row
  /\ pend' = Without({v \in us : box[v] = NoMsg})
  /\ UNCHANGED <<serverVars, known, due, run, bounds, ghosts>>

\* Folder discovery: the account's Trash is no longer one.
LoseTrash ==
  /\ "Trash" \in known
  /\ known' = known \ {"Trash"}
  /\ UNCHANGED <<serverVars, row, pend, due, run, bounds, ghosts>>

\* Another client flags a message \Deleted: its own delete, still undoable.
OtherMark(u) ==
  /\ other < MaxOther /\ box[u] # NoMsg /\ u \notin marked
  /\ other' = other + 1 /\ marked' = marked \cup {u}
  /\ UNCHANGED <<box, filed, row, pend, known, due, run, batch, crashes,
                 rebuilds, ghosts>>

\* The server rebuilds a folder: a new UIDVALIDITY, the UIDs given out anew.
Rebuild(u, v) ==
  /\ rebuilds < MaxRebuilds /\ u # v /\ HomeOf[u] = HomeOf[v]
  /\ rebuilds' = rebuilds + 1
  /\ box' = [box EXCEPT ![u] = box[v], ![v] = box[u]]
  /\ marked' = marked \ {u, v}
  /\ UNCHANGED <<filed, row, pend, known, due, run, batch, crashes, other, ghosts>>

-----------------------------------------------------------------------------
Init ==
  /\ box = [u \in Uids |-> u] /\ marked = {} /\ row = box
  /\ filed = [m \in Uids |-> [d \in Dests |-> 0]]
  /\ pend = [u \in Uids |-> NoRow]
  /\ known \in {{"Trash", "Work"}, Dests} /\ due = {}
  /\ run = [r \in Runs |-> NoRun]
  /\ batch = 0 /\ crashes = 0 /\ other = 0 /\ rebuilds = 0
  /\ asked = {} /\ confirmed = {} /\ handles = {} /\ takenBack = {}
  /\ carried = {} /\ destroyed = {}

Step(r) ==
  \/ Finish(r) \/ TakeGroup(r) \/ Count(r) \/ Move(r) \/ Copy(r) \/ Mark(r)
  \/ Expunge(r) \/ Search(r) \/ Wide(r) \/ Local(r)

Next ==
  \/ \E sel \in SUBSET Uids, target \in Dests, now \in BOOLEAN :
       QueueMove(sel, target, now)
  \/ \E b \in Batches : Lapse(b) \/ Undo(b)
  \/ \E r \in Runs : StartPush(r) \/ Step(r) \/ Crash(r)
  \/ \E r \in Runs, us \in SUBSET Uids : StartPurge(r, us)
  \/ \E u \in Uids : SyncFolder(u) \/ OtherMark(u)
  \/ \E u, v \in Uids : Rebuild(u, v)
  \/ LoseTrash

Spec == Init /\ [][Next]_vars

\* The grace period ends, a run that has begun goes on, and the next sync
\* comes: every sync pushes what is due first.
Fairness ==
  /\ \A b \in Batches : WF_vars(Lapse(b))
  /\ \A r \in Runs : WF_vars(Step(r))
  /\ WF_vars(\E r \in Runs : StartPush(r))

FairSpec == Spec /\ Fairness

-----------------------------------------------------------------------------
(* Properties.                                                             *)

\* The variables keep their types; every item a run holds names a cached UID.
TypeOK ==
  /\ box \in [Uids -> Uids \cup {NoMsg}] /\ row \in [Uids -> Uids \cup {NoMsg}]
  /\ marked \subseteq Uids
  /\ filed \in [Uids -> [Dests -> 0..2]]
  /\ pend \in [Uids -> Pending]
  /\ known \subseteq Dests /\ due \subseteq Nat
  /\ run \in [Runs -> Run]
  /\ batch \in Nat /\ crashes \in Nat /\ other \in Nat /\ rebuilds \in Nat
  /\ asked \subseteq Uids \X Dests /\ confirmed \subseteq Uids
  /\ handles \subseteq Nat
  /\ takenBack \subseteq [batch : Nat, intime : BOOLEAN]
  /\ carried \subseteq Nat /\ destroyed \subseteq Uids

OnServer(m) == (\E u \in Uids : box[u] = m) \/ (\E d \in Dests : filed[m][d] > 0)
InDests(m) == {d \in Dests : filed[m][d] > 0}

\* Undo within the grace period is final: whatever runs are under way, the
\* server is never changed on behalf of a batch taken back before it was due
\* (undo.rs: "the messages are simply back; nothing ever left the server").
UndoInTime ==
  \A b \in carried : [batch |-> b, intime |-> TRUE] \notin takenBack

\* No push, crash, lost answer or second run makes a message disappear from
\* the server; only a purge the user confirmed does (push_due_moves: "nothing
\* is ever destroyed here that the user did not confirm").
NothingDestroyed == \A m \in Uids : OnServer(m) \/ m \in confirmed

\* A message is only ever filed where the user sent it, however often its
\* move was queued, undone, retried or taken over by another run.
FiledAsAsked == \A m \in Uids : \A d \in InDests(m) : <<m, d>> \in asked

\* On a server with MOVE a message is in one place at any time: lost answers,
\* retries and two runs pushing the same row never make a second copy.
OnePlace ==
  \A m \in Uids :
    /\ \A d \in Dests : filed[m][d] <= 1
    /\ Cardinality(InDests(m)) <= 1
    /\ InDests(m) # {} => \A u \in Uids : box[u] # m

\* "Deleted n permanently" is true: what a purge reported is off the server.
PurgeHonest == \A m \in destroyed : \A u \in Uids : box[u] # m

\* The queue is well formed, an undo within the grace period is final, and a
\* message is in one place (store/pending_moves.rs; undo.rs, cancel_batch;
\* session/mutate.rs, uid_move).
MovesKept == TypeOK /\ UndoInTime /\ OnePlace

\* Nothing disappears that the user did not purge, nothing is filed where the
\* user did not send it, and what a purge reported is gone (session/mutate.rs,
\* copy_then_remove; engine/mutate.rs, pending_target and purge_uids).
BulkHonest == NothingDestroyed /\ FiledAsAsked /\ PurgeHonest

\* A due move does not stay hidden forever: it is carried out, dropped, or
\* given up after MAX_PENDING_ATTEMPTS (push_due_moves: "rather than staying
\* hidden forever").
HiddenNotForever ==
  \A u \in Uids : (pend[u].act # "none") ~> (pend[u].act = "none")

\* pending_moves::cancel_batch: "Returns how many came back; 0 means the batch
\* was already pushed": a batch that came back is not pushed afterwards.
UndoHonest == [][\A b \in carried' \ carried :
                   \A t \in takenBack : t.batch # b]_vars

=============================================================================
