----------------------------- MODULE FolderSync -----------------------------
(***************************************************************************)
(* Bringing one folder's cache in line with the IMAP server                *)
(* (sync/imap/engine/sync.rs, engine/search.rs, sync/imap/search.rs and    *)
(* the statements of store/folders.rs and store/messages.rs they use):     *)
(* the newest-N window, the CONDSTORE fast path, QRESYNC's VANISHED, a     *)
(* UIDVALIDITY change, "Load older" and the server search that tops up the *)
(* cache.  Flags are in FlagPush, the user's deletes in PendingMoves.      *)
(*                                                                         *)
(* A message is the number it arrived with; a UID is what the server calls *)
(* it until the next UIDVALIDITY change.  The app and a headless run may   *)
(* sync the same folder at once.                                           *)
(***************************************************************************)
EXTENDS Naturals, FiniteSets, FiniteSetsExt

CONSTANTS
  Runs,
  Windows,      \* the window sizes the callers ask for
  SpanFactor,   \* UIDs per page of a search, per wanted mail (the code: 8)
  SEARCH_PAGES, PER_FOLDER_CAP, OLDER_BATCH,
  Qresync,      \* the server answers a SELECT with VANISHED
  Kinds,        \* the operations of this instance
  FirstSynced,  \* a first sync of everything has completed
  MaxUid,       \* bound: UIDs
  MaxMail,      \* bound: messages that ever arrive
  MaxSeq,       \* bound: modseqs
  MaxRebuilds   \* bound: UIDVALIDITY changes

VARIABLES
  box,        \* server: UID -> message, 0 for none
  uidnext, validity, hi,
  gone,       \* server: UID -> the modseq it was expunged at, 0 for never
  row,        \* cache: UID -> message, 0 for none
  rec,        \* the folders row: what set_sync_state recorded
  run,
  overlooked, \* history: UIDs a sync after a rebuild neither fetched nor dropped
  mail        \* bound: messages so far

server == <<box, uidnext, validity, hi, gone>>
vars == <<server, row, rec, run, overlooked, mail>>

UidRange == 1..MaxUid
Nothing == [u \in UidRange |-> 0]
On(f) == {u \in UidRange : f[u] # 0}
State == [val : Nat, next : Nat, total : Nat, seq : Nat]
ServerState == [val |-> validity, next |-> uidnext, total |-> Cardinality(On(box)), seq |-> hi]

\* A run: what it does, the folder row it read, what the SELECT said, and the
\* UID sets it works with.
Labels == {"idle", "select", "vanish", "list", "search", "fetch", "drop", "record"}
Run == [pc : Labels, kind : {"none"} \cup Kinds, win : Nat, folder : State, sel : State,
        van : SUBSET UidRange, old : SUBSET UidRange, local : SUBSET UidRange,
        found : SUBSET UidRange, lo : Nat, todo : SUBSET UidRange, fast : BOOLEAN]
NoState == [val |-> 0, next |-> 0, total |-> 0, seq |-> 0]
NoRun == [pc |-> "idle", kind |-> "none", win |-> 0, folder |-> NoState, sel |-> NoState,
          van |-> {}, old |-> {}, local |-> {}, found |-> {}, lo |-> 0, todo |-> {},
          fast |-> FALSE]

At(r, label) == run[r].pc = label
Does(r, kind) == run[r].kind = kind

\* The k largest of a set of UIDs.
Newest(us, k) == {u \in us : Cardinality({v \in us : v > u}) < k}

-----------------------------------------------------------------------------
(* The server.                                                             *)

Arrive ==
  /\ mail < MaxMail /\ uidnext <= MaxUid /\ hi < MaxSeq
  /\ mail' = mail + 1 /\ hi' = hi + 1
  /\ box' = [box EXCEPT ![uidnext] = mail'] /\ uidnext' = uidnext + 1
  /\ UNCHANGED <<validity, gone, row, rec, run, overlooked>>

\* Another client deletes a mail.
Remove(u) ==
  /\ box[u] # 0 /\ hi < MaxSeq
  /\ hi' = hi + 1
  /\ box' = [box EXCEPT ![u] = 0] /\ gone' = [gone EXCEPT ![u] = hi']
  /\ UNCHANGED <<uidnext, validity, row, rec, run, overlooked, mail>>

\* note_removed_on_server
note_removed_on_server == [rec EXCEPT !.total = IF @ = 0 THEN 0 ELSE @ - 1]

\* The user's own delete or move was carried out (see PendingMoves).
RemoveOwn(u) ==
  /\ box[u] # 0 /\ row[u] # 0 /\ hi < MaxSeq
  /\ hi' = hi + 1
  /\ box' = [box EXCEPT ![u] = 0] /\ gone' = [gone EXCEPT ![u] = hi']
  /\ row' = [row EXCEPT ![u] = 0]
  /\ rec' = note_removed_on_server
  /\ UNCHANGED <<uidnext, validity, run, overlooked, mail>>

\* The mailbox is rebuilt: the mails get the UIDs 1, 2, ... in their order.
\* The server closes the sessions that had it selected.
Rebuild ==
  LET rank(u) == Cardinality({v \in On(box) : v <= u}) IN
  /\ validity <= MaxRebuilds /\ On(box) # {}
  /\ validity' = validity + 1 /\ hi' = 1
  /\ box' = [k \in UidRange |-> IF \E u \in On(box) : rank(u) = k
                              THEN box[CHOOSE u \in On(box) : rank(u) = k] ELSE 0]
  /\ uidnext' = Cardinality(On(box)) + 1 /\ gone' = Nothing
  /\ run' = [r \in Runs |-> NoRun]
  /\ UNCHANGED <<row, rec, overlooked, mail>>

-----------------------------------------------------------------------------
(* sync_folder_window.                                                     *)

\* The folder row as it is when the operation starts.
Start(r, kind, win) ==
  /\ At(r, "idle")
  /\ run' = [run EXCEPT ![r] = [NoRun EXCEPT !.pc = "select", !.kind = kind, !.win = win,
                                             !.folder = rec]]
  /\ UNCHANGED <<server, row, rec, overlooked, mail>>

\* Faulty variant: rows of the old UIDVALIDITY count as cached.
validity_changed_Never(r) == FALSE
validity_changed(r) == run[r].folder.val # 0 /\ run[r].folder.val # run[r].sel.val

\* What VANISHED may name: what is gone since the recorded modseq, or, as
\* some servers do, everything from UID 1 up.
Vanished(folder) ==
  IF ~Qresync \/ folder.val # validity THEN {{}}
  ELSE LET exact == {u \in UidRange : gone[u] > folder.seq}
       IN {exact, IF exact = {} THEN {} ELSE 1..(uidnext - 1)}

Select(r) ==
  /\ At(r, "select")
  /\ \E van \in IF Does(r, "window") THEN Vanished(run[r].folder) ELSE {{}} :
       LET changed == run[r].folder.val \notin {0, validity} IN
       run' = [run EXCEPT ![r] = [@ EXCEPT
         !.sel = ServerState, !.van = van,
         !.old = IF changed /\ Does(r, "window") THEN On(row) ELSE {},
         !.kind = IF changed /\ Does(r, "older") THEN "window" ELSE run[r].kind,
         !.win = IF changed /\ Does(r, "older") THEN Max(Windows) ELSE run[r].win,
         !.pc = IF changed /\ Does(r, "older") THEN "select"
                  ELSE IF van # {} THEN "vanish"
                  ELSE IF Does(r, "window") THEN "list" ELSE "search"]]
  /\ UNCHANGED <<server, row, rec, overlooked, mail>>

\* The named rows a UID SEARCH no longer finds.
NotFound(named) == {u \in named : box[u] = 0}

Vanish(r) ==
  /\ At(r, "vanish")
  /\ LET dropped == NotFound(On(row) \cap run[r].van)
     IN row' = [u \in UidRange |-> IF u \in dropped THEN 0 ELSE row[u]]
  /\ run' = [run EXCEPT ![r].pc = "list"]
  /\ UNCHANGED <<server, rec, overlooked, mail>>

\* folder_unchanged
folder_unchanged(f, sel, cached, win) ==
  /\ cached >= Min({win, sel.total})
  /\ f.seq > 0 /\ f.next # 0 /\ f.val # 0 /\ sel = f

\* local_uids and the fast path.
List(r) ==
  LET local == IF validity_changed(r) THEN On(row) \ run[r].old ELSE On(row)
      fast == /\ ~validity_changed(r) /\ run[r].van = {}
              /\ folder_unchanged(run[r].folder, run[r].sel, Cardinality(local), run[r].win)
  IN
  /\ At(r, "list")
  /\ run' = [run EXCEPT ![r] = [@ EXCEPT !.local = local, !.fast = fast,
               !.pc = IF fast THEN "record" ELSE "search"]]
  /\ UNCHANGED <<server, row, rec, overlooked, mail>>

\* search_recent_uids and search_paged: whole pages of `span` UIDs from the
\* top, until enough are found, UID 1 is reached or SEARCH_PAGES were asked.
PageLo(top, span, k) == IF top > span * k THEN top - span * k + 1 ELSE 1

\* Faulty variant: the page below the last one asked about is named.
search_paged_Below(top, want, span) ==
  LET hits(k) == {u \in On(box) : u >= PageLo(top, span, k) /\ u <= top}
      pages == Min({k \in 1..SEARCH_PAGES :
                 k = SEARCH_PAGES \/ Cardinality(hits(k)) >= want \/ PageLo(top, span, k) <= 1})
  IN <<hits(pages), PageLo(top, span, pages + 1)>>
search_paged(top, want, span) ==
  LET hits(k) == {u \in On(box) : u >= PageLo(top, span, k) /\ u <= top}
      pages == Min({k \in 1..SEARCH_PAGES :
                 k = SEARCH_PAGES \/ Cardinality(hits(k)) >= want \/ PageLo(top, span, k) <= 1})
  IN <<hits(pages), PageLo(top, span, pages)>>

search_recent_uids(uid_next, win) ==
  IF uid_next <= 1 THEN <<On(box), 1>> ELSE search_paged(uid_next - 1, win, SpanFactor * win)

Search(r) ==
  LET s == search_recent_uids(run[r].sel.next, run[r].win) IN
  /\ At(r, "search") /\ Does(r, "window")
  /\ run' = [run EXCEPT ![r] = [@ EXCEPT !.pc = "fetch", !.found = s[1], !.lo = s[2],
               !.todo = Newest(s[1], run[r].win) \ run[r].local]]
  /\ UNCHANGED <<server, row, rec, overlooked, mail>>

\* One message body, oldest first; a mail gone meanwhile is not answered.
\* upsert: the row of a UID is inserted, or replaced by what the mail says.
upsert(u) == IF box[u] # 0 THEN [row EXCEPT ![u] = box[u]] ELSE row

Fetch(r) ==
  /\ At(r, "fetch") /\ run[r].todo # {}
  /\ LET u == Min(run[r].todo) IN
     /\ row' = upsert(u)
     /\ run' = [run EXCEPT ![r].todo = @ \ {u}]
     /\ overlooked' = IF box[u] # 0 THEN overlooked \ {u} ELSE overlooked
  /\ UNCHANGED <<server, rec, mail>>

Fetched(r) ==
  /\ At(r, "fetch") /\ run[r].todo = {}
  /\ run' = [run EXCEPT ![r] =
       CASE Does(r, "window") -> [@ EXCEPT !.pc = "drop"]
         [] Does(r, "older")  -> [@ EXCEPT !.pc = "record"]
         [] OTHER             -> NoRun]
  /\ UNCHANGED <<server, row, rec, overlooked, mail>>

\* Old rows whose UID did not survive a rebuild, and what the searched range
\* no longer has.
Stale(r) == (run[r].old \ run[r].found)
              \cup {u \in run[r].local : u >= run[r].lo /\ u \notin run[r].found}

\* Old rows that stay because their UID means something on the server, though
\* not in the window, so nothing was fetched for them.
Overlooked(r) == (run[r].old \cap run[r].found) \ Newest(run[r].found, run[r].win)

Drop(r) ==
  /\ At(r, "drop")
  /\ row' = [u \in UidRange |-> IF u \in Stale(r) THEN 0 ELSE row[u]]
  /\ run' = [run EXCEPT ![r].pc = "record"]
  /\ overlooked' = IF validity_changed(r) THEN Overlooked(r) ELSE overlooked
  /\ UNCHANGED <<server, rec, mail>>

\* Faulty variant: "Load older" records all of the server's state.
Recorded_All(r) == run[r].sel
\* set_sync_state: a window sync records the SELECT's state; "Load older"
\* looked at neither new mail nor changes, and refreshes the count only.
Recorded(r) ==
  IF Does(r, "older")
    THEN [run[r].folder EXCEPT !.val = run[r].sel.val, !.total = run[r].sel.total,
                               !.next = IF @ = 0 THEN run[r].sel.next ELSE @]
    ELSE run[r].sel

Record(r) ==
  /\ At(r, "record")
  /\ rec' = Recorded(r)
  /\ run' = [run EXCEPT ![r] = NoRun]
  /\ UNCHANGED <<server, row, overlooked, mail>>

\* sync_older: the newest gaps below the largest cached UID.
SearchOlder(r) ==
  /\ At(r, "search") /\ Does(r, "older")
  /\ run' = [run EXCEPT ![r] =
       IF On(row) = {} THEN [@ EXCEPT !.kind = "window", !.win = Max(Windows), !.pc = "select"]
       ELSE [@ EXCEPT !.pc = "fetch",
              !.todo = Newest({u \in On(box) : u <= Max(On(row))} \ On(row), OLDER_BATCH)]]
  /\ UNCHANGED <<server, row, rec, overlooked, mail>>

\* search_server_into_cache: any hits, the newest PER_FOLDER_CAP of them.
SearchHits(r) ==
  /\ At(r, "search") /\ Does(r, "search")
  /\ \E hits \in SUBSET On(box) :
       run' = [run EXCEPT ![r] = [@ EXCEPT !.pc = "fetch",
                 !.todo = Newest(hits \ On(row), PER_FOLDER_CAP)]]
  /\ UNCHANGED <<server, row, rec, overlooked, mail>>

\* A command fails, the connection is lost, or the process dies.
Abort(r) ==
  /\ ~At(r, "idle")
  /\ run' = [run EXCEPT ![r] = NoRun]
  /\ UNCHANGED <<server, row, rec, overlooked, mail>>

-----------------------------------------------------------------------------
\* Some mail on the server; the folder was never synced, or completely.
Init ==
  /\ mail \in 0..MaxMail /\ mail <= MaxUid
  /\ box = [u \in UidRange |-> IF u <= mail THEN u ELSE 0]
  /\ uidnext = mail + 1 /\ validity = 1 /\ hi = 1 /\ gone = Nothing
  /\ row = IF FirstSynced THEN box ELSE Nothing
  /\ rec = IF FirstSynced THEN ServerState ELSE NoState
  /\ run = [r \in Runs |-> NoRun] /\ overlooked = {}

Work(r) ==
  \/ Select(r) \/ Vanish(r) \/ List(r) \/ Search(r) \/ SearchOlder(r) \/ SearchHits(r)
  \/ Fetch(r) \/ Fetched(r) \/ Drop(r) \/ Record(r)

Next ==
  \/ Arrive \/ Rebuild
  \/ \E u \in UidRange : Remove(u) \/ RemoveOwn(u)
  \/ \E r \in Runs : Work(r) \/ Abort(r)
  \/ \E r \in Runs, kind \in Kinds, win \in Windows :
       (kind # "window" => win = Max(Windows)) /\ Start(r, kind, win)

Spec == Init /\ [][Next]_vars

-----------------------------------------------------------------------------
(* Properties.                                                             *)

TypeOK ==
  /\ box \in [UidRange -> 0..MaxMail] /\ row \in [UidRange -> 0..MaxMail]
  /\ gone \in [UidRange -> Nat]
  /\ uidnext \in 1..(MaxUid + 1) /\ validity \in Nat /\ hi \in Nat
  /\ rec \in State /\ run \in [Runs -> Run] /\ overlooked \subseteq UidRange /\ mail \in 0..MaxMail

\* Whatever was fetched, aborted or loaded meanwhile: once the folder row says
\* what the server says, the next sync may skip everything, so the newest
\* mails of the smallest window are all cached, and nothing of that stretch is
\* cached that the server no longer has.
SettledIsAccurate ==
  LET window == Newest(On(box), Min(Windows)) IN
  rec = ServerState =>
    /\ \A u \in window : row[u] = box[u]
    /\ \A u \in UidRange : u >= Min(window \cup {MaxUid}) /\ row[u] # 0 => box[u] # 0

\* A sync never drops a cached mail the server still has.  ("Expunge locally
\* what the searched UID range no longer has.  UIDs below `search_lo` were
\* never asked about, so they stay cached.")
DropsOnlyGone == \A u \in UidRange : row[u] # 0 /\ row'[u] = 0 => box'[u] # row[u]

\* A cached row is the mail that has its UID.
Right(u) == row[u] # 0 /\ box[u] # 0 => row[u] = box[u]

\* Once the new UIDVALIDITY is recorded no row shows a mail under a UID that
\* means another one ("Old rows whose UID survives on the server are kept
\* (they were re-fetched/updated); the rest are purged").
NoStaleUid == rec.val = validity => \A u \in UidRange : Right(u)

\* It is true of every row but those a sync left out: the search names more
\* UIDs than the window has, and only those in it are fetched again (sync.rs,
\* steps 4 and 4b of sync_folder_window).
NoOtherStaleUid == rec.val = validity => \A u \in UidRange \ overlooked : Right(u)

\* After a rebuild the folder is not emptied before its new window is in
\* place: old rows go only when the wanted mails still there are cached.
DropsAfterFetch ==
  \A r \in Runs : At(r, "drop") /\ run'[r].pc = "record" /\ run[r].old # {} =>
    \A u \in Newest(run[r].found, run[r].win) : box[u] # 0 => row'[u] = box[u]
=============================================================================
