----------------------------- MODULE Attachments -----------------------------
(***************************************************************************)
(* The files of cached mails: listed by sync, downloaded on demand,        *)
(* evicted and trimmed, and the click that opens or saves one (mailcore    *)
(* store/messages/attachments.rs, sync/attachments.rs, imap/parse.rs,      *)
(* imap/engine/sync.rs fetch_attachments, maintenance.rs).                 *)
(*                                                                         *)
(* A mail is named by its UID towards the server and by a row id locally.  *)
(* Each connection to the database is a process of its own: downloads,     *)
(* syncs (a folder's, its backfill, a server search; the app's and a       *)
(* command-line run's) and clean-ups interleave between statements and     *)
(* transactions.                                                           *)
(***************************************************************************)
EXTENDS Naturals, FiniteSets

CONSTANTS Mails, Parts, Inline, Uids, Jobs, Syncs, MaxIds, MaxResets, MaxCrashes, NoMail

VARIABLES
  server,   \* [Uids -> the mail of that UID, or NoMail]
  message,  \* [Uids -> the cached row: its id and whose mail it holds]
  files,    \* attachment rows: [id, msg, part, data, mime]
  ids,      \* AUTOINCREMENT of both tables
  sync,     \* [Syncs -> the mail it stores: at, uid, mail, msg, todo (files)]
  dl,       \* [Jobs -> the download: at, msg, uid]
  click,    \* the file asked for: [at, id, msg, part, job]
  opened,   \* history: what clicks wrote out: [asked, got]
  crowded,  \* history: the messages whose files two wrote at once
  stray,    \* history: a click whose row went though its mail is still cached
  resets, crashes

vars == <<server, message, files, ids, sync, dl, click, opened, crowded, stray, resets, crashes>>

NoRow   == [id |-> 0, mail |-> NoMail]
NoClick == [at |-> "none", id |-> 0, msg |-> 0, part |-> NoMail]
Idle    == [at |-> "idle", msg |-> 0, uid |-> 0]
NoSync  == [at |-> "idle", uid |-> 0, mail |-> NoMail, msg |-> 0, todo |-> {}]

Cached(msg)  == msg # 0 /\ \E u \in Uids : message[u].id = msg
UidOf(msg)   == CHOOSE u \in Uids : message[u].id = msg
RowsOf(msg)  == {a \in files : a.msg = msg}
Missing(msg) == {a \in RowsOf(msg) : ~a.data /\ a.part[2] \notin Inline}
PartsOf(m)   == {<<m, p>> : p \in Parts[m]}

-----------------------------------------------------------------------------
(* Sync: the row, then the names and sizes of its files, one by one.       *)

\* The mail of a UID that was not cached when the run compared the two lists.
Fetch(s, u) ==
    /\ sync[s] = NoSync /\ server[u] # NoMail /\ message[u].mail # server[u]
    /\ sync' = [sync EXCEPT ![s] = [@ EXCEPT !.at = "upsert", !.uid = u, !.mail = server[u]]]
    /\ UNCHANGED <<server, message, files, ids, dl, click, opened, crowded, stray, resets, crashes>>

\* An upsert under a UID that is cached by now keeps the row and its id.
Upsert(s) ==
    /\ sync[s].at = "upsert"
    /\ LET u   == sync[s].uid
           new == message[u] = NoRow
           id  == IF new THEN ids + 1 ELSE message[u].id
       IN  /\ new => ids < MaxIds
           /\ message' = [message EXCEPT ![u] = [id |-> id, mail |-> sync[s].mail]]
           /\ ids' = IF new THEN id ELSE ids
           /\ sync' = [sync EXCEPT ![s].at = "list", ![s].msg = id]
    /\ UNCHANGED <<server, files, dl, click, opened, crowded, stray, resets, crashes>>

\* Faulty: the files are listed whether or not there are rows of them.
ListsAlready_Never(msg) == FALSE
ListsAlready(msg) == RowsOf(msg) # {}

Adding(msg) == \E s \in Syncs : sync[s].at = "add" /\ sync[s].msg = msg
Crowd(msg)  == crowded' = IF Adding(msg) THEN crowded \cup {msg} ELSE crowded

\* A message that lists files is left alone; nothing keeps another connection
\* from listing it before the first insert.
store_attachment_meta(s) ==
    /\ sync[s].at = "list"
    /\ IF ListsAlready(sync[s].msg)
         THEN sync' = [sync EXCEPT ![s] = NoSync] /\ UNCHANGED crowded
         ELSE /\ sync' = [sync EXCEPT ![s].at = "add", ![s].todo = PartsOf(sync[s].mail)]
              /\ Crowd(sync[s].msg)
    /\ UNCHANGED <<server, message, files, ids, dl, click, opened, stray, resets, crashes>>

\* n new rows get the ids above the last.
Numbered(parts) == CHOOSE f \in [parts -> (ids + 1)..(ids + Cardinality(parts))] :
                      \A p, q \in parts : f[p] = f[q] => p = q

NewRows(msg, parts, data) ==
    {[id |-> Numbered(parts)[p], msg |-> msg, part |-> p,
      data |-> p \in data, mime |-> IF p \in data THEN "checked" ELSE "header"] : p \in parts}

\* One insert, refused and passed over when the message is gone; inline images
\* keep their bytes.
add_attachment(s) ==
    /\ sync[s].at = "add"
    /\ LET p   == CHOOSE p \in sync[s].todo : TRUE
           new == IF Cached(sync[s].msg) THEN {p} ELSE {}
       IN  /\ ids + Cardinality(new) <= MaxIds
           /\ files' = files \cup NewRows(sync[s].msg, new, {q \in new : q[2] \in Inline})
           /\ ids' = ids + Cardinality(new)
           /\ sync' = [sync EXCEPT ![s] = IF @.todo = {p} THEN NoSync
                                          ELSE [@ EXCEPT !.todo = @ \ {p}]]
    /\ UNCHANGED <<server, message, dl, click, opened, crowded, stray, resets, crashes>>

\* Deleting a message deletes its files' rows.
Deleted(u) == /\ message' = [message EXCEPT ![u] = NoRow]
              /\ files' = {a \in files : a.msg # message[u].id}

RemoveExpunged(u) ==
    /\ (\E s \in Syncs : sync[s] = NoSync) /\ message[u] # NoRow /\ server[u] = NoMail
    /\ Deleted(u)
    /\ UNCHANGED <<server, ids, sync, dl, click, opened, crowded, stray, resets, crashes>>

-----------------------------------------------------------------------------
(* Downloads.                                                              *)

\* All of a message's files, cached or not: a tap on a listed one queues it, and
\* the bytes may have come by the time it runs.
Listed(msg) == \E a \in RowsOf(msg) : a.part[2] \notin Inline
download(j, msg) ==
    /\ dl[j] = Idle /\ Cached(msg) /\ Listed(msg)
    /\ dl' = [dl EXCEPT ![j] = [at |-> "fetch", msg |-> msg, uid |-> UidOf(msg)]]
    /\ UNCHANGED <<server, message, files, ids, sync, click, opened, crowded, stray, resets, crashes>>

\* Faulty: the corrected MIME type is part of the match.
SameFile_WithMime(a, part) == a.part[2] = part[2] /\ a.mime = "checked"

\* Name, content id, size and placement; not the MIME type.
SameFile(a, part) == a.part[2] = part[2]

Fresh(msg, all) == {p \in all : \A a \in RowsOf(msg) : ~SameFile(a, p)}

\* The first match of each file keeps its id and gets the bytes; the rest is new
\* or goes.
Replaced(msg, all) ==
    LET old  == RowsOf(msg)
        kept == {a \in old : \E p \in all : /\ SameFile(a, p)
                                           /\ \A b \in old : SameFile(b, p) => a.id <= b.id}
        new  == Fresh(msg, all)
    IN  (files \ old)
          \cup {[a EXCEPT !.data = TRUE, !.mime = "checked",
                          !.part = CHOOSE p \in all : SameFile(a, p)] : a \in kept}
          \cup NewRows(msg, new, new)

\* The mail is asked for by its UID; the rows go under the message asked about.
fetch_attachments(j) ==
    /\ dl[j].at = "fetch"
    /\ \/ /\ server[dl[j].uid] # NoMail /\ Cached(dl[j].msg)
          /\ LET all == PartsOf(server[dl[j].uid])
             IN  /\ files' = Replaced(dl[j].msg, all)
                 /\ ids' = ids + Cardinality(Fresh(dl[j].msg, all))
                 /\ ids' <= MaxIds
          /\ Crowd(dl[j].msg)
       \/ UNCHANGED <<files, ids, crowded>>
    /\ dl' = [dl EXCEPT ![j] = Idle]
    /\ UNCHANGED <<server, message, sync, click, opened, stray, resets, crashes>>

-----------------------------------------------------------------------------
(* A click on a listed file.                                               *)

Click(a) ==
    /\ click = NoClick /\ a.part[2] \notin Inline
    /\ click' = [at |-> "ensure", id |-> a.id, msg |-> a.msg, part |-> a.part]
    /\ UNCHANGED <<server, message, files, ids, sync, dl, opened, crowded, stray, resets, crashes>>

\* attachment_has_data, or a download of the whole mail first.
ensure_cached ==
    /\ click.at = "ensure"
    /\ IF Missing(click.msg) = {} \/ ~Cached(click.msg)
       THEN click' = [click EXCEPT !.at = "save"] /\ UNCHANGED dl
       ELSE \E j \in Jobs :
              /\ dl[j] = Idle
              /\ dl' = [dl EXCEPT ![j] = [at |-> "fetch", msg |-> click.msg, uid |-> UidOf(click.msg)]]
              /\ click' = [click EXCEPT !.at = "wait"]
    /\ UNCHANGED <<server, message, files, ids, sync, opened, crowded, stray, resets, crashes>>

Downloaded ==
    /\ click.at = "wait" /\ \A j \in Jobs : dl[j].msg # click.msg
    /\ click' = [click EXCEPT !.at = "save"]
    /\ UNCHANGED <<server, message, files, ids, sync, dl, opened, crowded, stray, resets, crashes>>

save_attachment_to_path ==
    /\ click.at = "save"
    /\ opened' = opened \cup {[asked |-> click.part, got |-> a.part] : a \in {x \in files : x.id = click.id /\ x.data}}
    /\ stray' = (stray \/ /\ Cached(click.msg) /\ click.msg \notin crowded
                          /\ \A a \in files : a.id # click.id)
    /\ click' = NoClick
    /\ UNCHANGED <<server, message, files, ids, sync, dl, crowded, resets, crashes>>

-----------------------------------------------------------------------------
(* Clean-ups, the server and crashes.                                      *)

\* Faulty: inline images are dropped with the rest.
Evictable_All(a) == a.data

Evictable(a) == a.data /\ a.part[2] \notin Inline

evict_cached_attachments ==
    /\ \E a \in files : Evictable(a)
    /\ files' = {IF Evictable(a) THEN [a EXCEPT !.data = FALSE] ELSE a : a \in files}
    /\ UNCHANGED <<server, message, ids, sync, dl, click, opened, crowded, stray, resets, crashes>>

trim_local_cache(u) ==
    /\ message[u] # NoRow /\ Deleted(u)
    /\ UNCHANGED <<server, ids, sync, dl, click, opened, crowded, stray, resets, crashes>>

Expunge(u) ==
    /\ server[u] # NoMail /\ server' = [server EXCEPT ![u] = NoMail]
    /\ UNCHANGED <<message, files, ids, sync, dl, click, opened, crowded, stray, resets, crashes>>

\* UIDs only grow within a numbering.
Arrive(u, m) ==
    /\ \A v \in Uids : v >= u => server[v] = NoMail /\ message[v] = NoRow
    /\ m \notin {server[v] : v \in Uids} \cup {message[v].mail : v \in Uids}
    /\ \A s \in Syncs : sync[s].uid < u /\ sync[s].mail # m
    /\ server' = [server EXCEPT ![u] = m]
    /\ UNCHANGED <<message, files, ids, sync, dl, click, opened, crowded, stray, resets, crashes>>

\* A new UIDVALIDITY gives the mails other numbers.
Renumber ==
    /\ resets < MaxResets /\ resets' = resets + 1
    /\ \E s \in [Uids -> {server[u] : u \in Uids}] :
          /\ s # server /\ {s[u] : u \in Uids} = {server[u] : u \in Uids}
          /\ \A u, v \in Uids : s[u] = s[v] /\ s[u] # NoMail => u = v
          /\ server' = s
    /\ UNCHANGED <<message, files, ids, sync, dl, click, opened, crowded, stray, crashes>>

\* The app ends, its downloads and click with it, or only a run on its own; which
\* of the syncs were the app's is open.
Crash ==
    /\ crashes < MaxCrashes /\ crashes' = crashes + 1
    /\ \E ended \in SUBSET Syncs : sync' = [s \in Syncs |-> IF s \in ended THEN NoSync ELSE sync[s]]
    /\ \/ dl' = [j \in Jobs |-> Idle] /\ click' = NoClick
       \/ UNCHANGED <<dl, click>>
    /\ UNCHANGED <<server, message, files, ids, opened, crowded, stray, resets>>

Init ==
    /\ server = [u \in Uids |-> NoMail] /\ message = [u \in Uids |-> NoRow]
    /\ files = {} /\ ids = 0 /\ sync = [s \in Syncs |-> NoSync] /\ dl = [j \in Jobs |-> Idle] /\ click = NoClick
    /\ opened = {} /\ crowded = {} /\ stray = FALSE /\ resets = 0 /\ crashes = 0

Next == \/ \E s \in Syncs : \/ Upsert(s) \/ store_attachment_meta(s) \/ add_attachment(s)
                            \/ \E u \in Uids : Fetch(s, u)
        \/ \E u \in Uids : \/ RemoveExpunged(u) \/ trim_local_cache(u) \/ Expunge(u)
                           \/ \E m \in Mails : Arrive(u, m)
        \/ \E j \in Jobs : fetch_attachments(j) \/ \E u \in Uids : download(j, message[u].id)
        \/ \E a \in files : Click(a)
        \/ ensure_cached \/ Downloaded \/ save_attachment_to_path
        \/ evict_cached_attachments \/ Renumber \/ Crash

-----------------------------------------------------------------------------
(* Properties.                                                             *)

\* What a click writes out is the file that was clicked, however many
\* downloads, syncs and clean-ups ran since; and the clicked row is there as
\* long as its mail is (attachments.rs, replace_attachments: "an open/save click
\* holding a pre-download ID still resolves afterwards"). Once the server has
\* renumbered its mails, rows of other mails' files may be listed; and of a
\* message whose files two wrote at once, a row clicked may go.
ClickedFile == resets = 0 => ~stray /\ \A o \in opened : o.got = o.asked

\* Each part of a cached mail has at most one row, unless two wrote the message's
\* files at once, and each inline image its bytes (store_attachment_meta,
\* replace_attachments; maintenance.rs, evict_cached_attachments).
Doubled(msg) == \E a, b \in RowsOf(msg) : a.part = b.part /\ a.id # b.id
OneRowEach ==
    /\ \A a \in files : Doubled(a.msg) => a.msg \in crowded
    /\ \A a \in files : a.part[2] \in Inline => a.data

\* What the comment in replace_attachments takes care of: no two writers of one
\* message "both see the old rows and insert duplicates" (attachments.rs).  The
\* writer of the names does not: TLC refutes it (README, section 7).
NoDuplicates == \A a \in files : ~Doubled(a.msg)
=============================================================================
