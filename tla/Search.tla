------------------------------- MODULE Search -------------------------------
(* The search field and the list filters: how the typed tokens are read, the *)
(* index query, the folder list's filters, and the server search that pulls  *)
(* mail which was never cached (search.rs, search/list_filter.rs, feed.rs,   *)
(* engine/search.rs).                                                        *)
EXTENDS Integers, FiniteSetsExt, SequencesExt

CONSTANTS
  Mails,      \* [uid, folder, words, read, starred, files, day, sent]: words are
              \* <<column, word>> pairs, `day` is the stored UTC day (0: no date),
              \* `sent` the day the Date: header names in its own zone
  Trash,      \* the Trash folder
  Known,      \* the sets of mails that may have rows at the start
  Queries,    \* what can be typed, sequences of tokens: [text, neg, phrase, key, val, day], `text` without the
              \* sign, `day` 0 unless the word or value is a date
  Begins(_, _),  \* Begins(t, w): word w starts with t
  Within(_, _),  \* Within(t, w): word w contains t
  Ascii,      \* the texts a SEARCH command carries
  Short,      \* the texts of fewer than INDEX_MIN_CHARS letters
  HitLimit, FolderCap, TotalCap, MaxSteps

VARIABLES
  typed,      \* the tokens in the search field
  cached,     \* the mails that have a row
  flipped,    \* rows whose read flag was changed here and not pushed yet
  moving,     \* rows with a queued move
  ui,         \* which frontend: "phone" or "desk"
  waiting,    \* the pause before a server search is running
  fired,      \* phone, serverSearchFired: this query had its server search
  last,       \* the query last sent to the server
  clean,      \* the last query whose server search left nothing out
  job,        \* the server search: its query, folders left, rows fetched, what it left out
  steps

vars == <<typed, cached, flipped, moving, ui, waiting, fired, last, clean, job, steps>>

Columns == [any |-> {"from", "to", "subject", "body"}, from |-> {"from"}, to |-> {"to"},
            subject |-> {"subject"}]
MailFolders == {m.folder : m \in Mails}
NoFilters == [read |-> BOOLEAN, starred |-> BOOLEAN, files |-> BOOLEAN, after |-> 0, before |-> 0]
Idle == [on |-> FALSE, query |-> <<>>, todo |-> {}, fetched |-> 0, short |-> FALSE]

-----------------------------------------------------------------------------
(* Reading the query. *)

IsDateKey(k) == k.key \in {"after", "before"}
IsDate(k) == k.key = "" /\ ~k.neg /\ k.day > 0
IsFilter(k) ==
  \/ k.key = "is" /\ k.val \in {"unread", "read", "starred"}
  \/ k.key = "has" /\ k.val = "attachment"
  \/ IsDateKey(k) /\ k.day > 0

\* A filter word; the sign turns it round, except a date's, which is dropped.
FilterOf(k) ==
  CASE k.key = "is" /\ k.val = "starred" -> [starred |-> {~k.neg}]
    [] k.key = "is" /\ k.val # "starred" -> [read |-> {(k.val = "read") # k.neg}]
    [] k.key = "has"    -> [files |-> {~k.neg}]
    [] k.key = "after"  -> [after |-> k.day]
    [] k.key = "before" -> [before |-> k.day]

\* The later token of a kind wins.
Under(set, q) == [q EXCEPT !.filters = [x \in DOMAIN @ |->
                     IF x \in DOMAIN set /\ @[x] = NoFilters[x] THEN set[x] ELSE @[x]]]
Term(field, k, neg, q) ==
  [q EXCEPT !.terms = @ \cup {[field |-> field, text |-> k.text, phrase |-> k.phrase, neg |-> neg]}]

\* parse_query_full: a bare date key takes the next word only when that is a
\* date; a bare field takes whatever comes next.
ParseFrom(s) ==
  LET p[i \in 1..Len(s) + 2] ==
    IF i > Len(s) THEN [terms |-> {}, filters |-> NoFilters]
    ELSE LET k == s[i]
             next == IF i < Len(s) THEN s[i + 1] ELSE [k EXCEPT !.key = "end", !.day = 0]
         IN IF IsDateKey(k) /\ k.day = 0 /\ IsDate(next)
              THEN Under(FilterOf([k EXCEPT !.day = next.day]), p[i + 2])
            ELSE IF IsFilter(k) THEN Under(FilterOf(k), p[i + 1])
            ELSE IF k.key \in {"from", "to", "subject"} /\ k.val = ""
              THEN IF next.key = "end" THEN p[i + 1] ELSE Term(k.key, next, k.neg, p[i + 2])
            ELSE Term("any", k, k.neg, p[i + 1])
  IN p[1]

\* The faulty variant for the mutant: a bare date key swallows the next word.
ParseFrom_Swallow(s) ==
  LET p[i \in 1..Len(s) + 2] ==
    IF i > Len(s) THEN [terms |-> {}, filters |-> NoFilters]
    ELSE IF IsDateKey(s[i]) /\ s[i].day = 0
           THEN IF i < Len(s) /\ IsDate(s[i + 1])
                  THEN Under(FilterOf([s[i] EXCEPT !.day = s[i + 1].day]), p[i + 2])
                  ELSE p[i + 2]
         ELSE IF IsFilter(s[i]) THEN Under(FilterOf(s[i]), p[i + 1])
         ELSE Term("any", s[i], s[i].neg, p[i + 1])
  IN p[1]

Parse(s) == ParseFrom(s)
Positive(q) == {t \in q.terms : ~t.neg}
Negative(q) == {t \in q.terms : t.neg}
is_searchable(q) == Positive(q) # {} \/ q.filters # NoFilters

\* A filter word always searches the index; few letters only filter the folder.
mode(s) ==
  CASE s = <<>> -> "off"
    [] s # <<>> /\ Parse(s).filters # NoFilters -> "index"
    [] OTHER -> IF Len(s) = 1 /\ s[1].text \in Short THEN "filter" ELSE "index"

-----------------------------------------------------------------------------
(* The index query (feed.rs, search_json). *)

Read(m) == m.read # (m \in flipped)
fts(t, m) == \E w \in m.words : /\ w[1] \in Columns[t.field]
                                /\ IF t.phrase THEN w[2] = t.text ELSE Begins(t.text, w[2])
\* Every positive term has to match, NOT drops the rest.
MatchRows(q) == {m \in cached : /\ \A t \in Positive(q) : fts(t, m)
                                /\ ~\E t \in Negative(q) : fts(t, m)}
\* Without a positive term: all rows but those any exclusion hits.
\* The faulty variant for the mutant: exclusions alone are forgotten.
Unexcluded_All(q) == cached
Unexcluded(q) == {m \in cached : ~\E t \in Negative(q) : fts(t, m)}
Source(q) == IF Positive(q) # {} THEN MatchRows(q) ELSE Unexcluded(q)

Passes(f, m) ==
  /\ Read(m) \in f.read /\ m.starred \in f.starred /\ m.files \in f.files
  /\ f.after # 0 => m.day # 0 /\ m.day >= f.after
  /\ f.before # 0 => m.day # 0 /\ m.day < f.before

Newer(m, n) == m.day > n.day \/ (m.day = n.day /\ m.uid > n.uid)
NewestFirst(set) == SetToSortSeq(set, Newer)
Found(q, folder) ==
  IF ~is_searchable(q) THEN <<>>
  ELSE LET rows == NewestFirst({m \in Source(q) : Passes(q.filters, m) /\ m \notin moving
                                                  /\ folder \in {"", m.folder}})
       IN SubSeq(rows, 1, IF Len(rows) < HitLimit THEN Len(rows) ELSE HitLimit)
\* hits_json: folders in the order of their first hit, a folder's hits together.
Grouped(rows) ==
  LET firsts == FoldSeq(LAMBDA m, acc : IF Contains(acc, m.folder) THEN acc ELSE Append(acc, m.folder), <<>>, rows)
  IN FlattenSeq([i \in DOMAIN firsts |-> SelectSeq(rows, LAMBDA m : m.folder = firsts[i])])
search_json(q, folder) == Grouped(Found(q, folder))

-----------------------------------------------------------------------------
(* The folder list's filters (list_filter.rs). *)

\* The faulty variant for the mutant: an undated row counts as very old.
date_bounds_pass_Undated(m, after, before) == m.day >= after /\ (before # 0 => m.day < before)
date_bounds_pass(m, after, before) ==
  \/ after = 0 /\ before = 0
  \/ /\ m.day # 0 /\ m.day >= after
     /\ (before # 0 => m.day < before)

\* Nothing in Trash is shown unread.
shown_unread(m) == m.folder # Trash /\ ~Read(m)
keep_in_folder(folder, q) ==
  {m \in cached : /\ m.folder = folder /\ m \notin moving
                  /\ q.read = {FALSE} => shown_unread(m)
                  /\ m.starred \in q.starred /\ m.files \in q.files
                  /\ date_bounds_pass(m, q.after, q.before)}

-----------------------------------------------------------------------------
(* The server search (engine/search.rs, search_server_into_cache). *)

\* imap_key: only ASCII text is sent.
Keys(q) == {t \in q.terms : t.text \in Ascii}
Criteria(q) == {t \in Keys(q) : ~t.neg} # {}
\* The server looks anywhere in a word, at its own flags and the Date: header.
on_server(t, m) == \E w \in m.words : w[1] \in Columns[t.field] /\ Within(t.text, w[2])
ServerHits(q, folder) ==
  {m \in Mails : /\ m.folder = folder
                 /\ \A t \in Keys(q) : on_server(t, m) # t.neg
                 /\ m.read \in q.filters.read /\ m.starred \in q.filters.starred
                 /\ q.filters.after # 0 => m.sent >= q.filters.after
                 /\ q.filters.before # 0 => m.sent < q.filters.before}
\* The faulty variants for the mutants: the oldest first; only what is unread.
Missing_Oldest(q, folder) == SetToSortSeq(ServerHits(q, folder) \ cached, LAMBDA m, n : m.uid < n.uid)
Missing(q, folder) == SetToSortSeq(ServerHits(q, folder) \ cached, LAMBDA m, n : m.uid > n.uid)

Init ==
  /\ typed = <<>> /\ last = <<>> /\ clean = <<>> /\ job = Idle /\ steps = 0
  /\ ui \in {"phone", "desk"} /\ waiting = FALSE /\ fired = FALSE
  /\ cached \in Known /\ moving = {} /\ flipped = {}

Step == steps < MaxSteps /\ steps' = steps + 1
Thin(s) == mode(s) = "index" /\ Len(search_json(Parse(s), "")) < HitLimit

\* MailStateSearch.kt, setSearch and runSearch: a thin result starts the pause,
\* once per query.  Main.qml, updateSearch: every keystroke starts it anew.
Type(s) ==
  /\ Step /\ s # typed /\ typed' = s
  /\ fired' = (ui = "phone" /\ Thin(s))
  /\ waiting' = IF ui = "phone" THEN Thin(s) ELSE mode(s) = "index"
  /\ UNCHANGED <<cached, flipped, moving, ui, last, clean, job>>

\* The pause is over.  One server search per account runs at a time: the phone's
\* call is refused and forgotten, the desktop returns early (kickServerSearch).
Kick ==
  /\ waiting /\ waiting' = FALSE
  /\ IF ~job.on /\ is_searchable(Parse(typed)) /\ (ui = "desk" => Thin(typed) /\ typed # last)
       THEN /\ job' = [Idle EXCEPT !.on = TRUE, !.query = typed,
                                   !.todo = IF Criteria(Parse(typed)) THEN MailFolders ELSE {},
                                   !.short = ~Criteria(Parse(typed))]
            /\ last' = typed
       ELSE UNCHANGED <<job, last>>
  /\ UNCHANGED <<typed, cached, flipped, moving, ui, fired, clean, steps>>

\* One folder: its newest missing hits, up to the cap.
SearchFolder(folder) ==
  LET new == Missing(Parse(job.query), folder)
      taken == {new[i] : i \in {j \in DOMAIN new : j <= FolderCap}}
  IN /\ job.on /\ folder \in job.todo /\ job.fetched < TotalCap
     /\ cached' = cached \cup taken
     /\ job' = [job EXCEPT !.todo = @ \ {folder}, !.fetched = @ + Cardinality(taken),
                           !.short = @ \/ Len(new) > FolderCap]
     /\ UNCHANGED <<typed, flipped, moving, ui, waiting, fired, last, clean, steps>>

\* A folder that cannot be selected or searched is left out.
FolderFails(folder) ==
  /\ job.on /\ folder \in job.todo /\ Step
  /\ job' = [job EXCEPT !.todo = @ \ {folder}, !.short = TRUE]
  /\ UNCHANGED <<typed, cached, flipped, moving, ui, waiting, fired, last, clean>>

\* A failed fetch ends the job with what came before it.
FetchFails == /\ job.on /\ Step /\ job' = Idle
              /\ UNCHANGED <<typed, cached, flipped, moving, ui, waiting, fired, last, clean>>

\* All folders done, or the total cap reached.
Done == /\ job.on /\ (job.todo = {} \/ job.fetched >= TotalCap)
        /\ clean' = IF job.short \/ job.todo # {} THEN clean ELSE job.query
        /\ job' = Idle
        /\ UNCHANGED <<typed, cached, flipped, moving, ui, waiting, fired, last, steps>>

\* refreshSearch: the phone reads the hits again; a result thin by now asks too.
Reread == /\ UNCHANGED <<typed, cached, ui, last, clean, job>>
          /\ waiting' = (waiting \/ (ui = "phone" /\ ~fired /\ Thin(typed)'))
          /\ fired' = (fired \/ (ui = "phone" /\ Thin(typed)'))
Toggle(m) == /\ m \in cached /\ Step
             /\ flipped' = IF m \in flipped THEN flipped \ {m} ELSE flipped \cup {m}
             /\ UNCHANGED moving /\ Reread
Move(m) == m \in cached \ moving /\ Step /\ moving' = moving \cup {m} /\ UNCHANGED flipped /\ Reread
Undo(m) == m \in moving /\ Step /\ moving' = moving \ {m} /\ UNCHANGED flipped /\ Reread

Next ==
  \/ \E s \in Queries : Type(s)
  \/ Kick \/ FetchFails \/ Done
  \/ \E folder \in MailFolders : SearchFolder(folder) \/ FolderFails(folder)
  \/ \E m \in cached : Toggle(m) \/ Move(m) \/ Undo(m)
Spec == Init /\ [][Next]_vars

-----------------------------------------------------------------------------
(* What a query means, said once for a mail. *)
Says(t, m) == \E w \in m.words : /\ t.field \in {"any", w[1]}
                                 /\ (w[2] = t.text \/ (~t.phrase /\ Begins(t.text, w[2])))
Means(q, m) ==
  /\ \A t \in q.terms : Says(t, m) = ~t.neg
  /\ m.starred \in q.filters.starred /\ m.files \in q.filters.files
  /\ (q.filters.after > 0 \/ q.filters.before > 0) => m.day > 0
  /\ m.day >= q.filters.after /\ (q.filters.before > 0 => m.day < q.filters.before)
\* Every word typed is looked for, or names a filter.
Heard(s) == \A i \in DOMAIN s :
  \/ IsFilter(s[i]) \/ s[i].key \in {"from", "to", "subject"}
  \/ \E t \in Parse(s).terms : t.text = s[i].text
  \/ i > 1 /\ IsDateKey(s[i - 1]) /\ IsDate(s[i])
  \/ IsDateKey(s[i]) /\ s[i].day = 0 /\ i < Len(s) /\ IsDate(s[i + 1])

\* Every word typed counts, the hits are the newest rows the query means, each
\* once and a folder's together, and no mail on its way out among them
\* (search.rs, parse_query_full and fts_query; feed.rs, search_json).
HitsHonest ==
  LET q == Parse(typed) hits == search_json(q, "")
      all == {m \in cached \ moving : Means(q, m) /\ Read(m) \in q.filters.read}
  IN /\ Heard(typed)
     /\ is_searchable(q) =>
          /\ Range(hits) \subseteq all /\ Cardinality(Range(hits)) = Len(hits)
          /\ Len(hits) < HitLimit => Range(hits) = all
          /\ \A m \in all \ Range(hits), n \in Range(hits) : n.day >= m.day
          /\ \A i, j, k \in DOMAIN hits : i < j /\ j < k /\ hits[i].folder = hits[k].folder
                                          => hits[j].folder = hits[i].folder

\* The folder list's filters keep the rows the same words in the search field
\* find there, but for what Trash does not show as unread (search.rs,
\* date_passes: "so a list date quick-filter and an `after:`/`before:` query agree").
FiltersAgree ==
  LET q == [terms |-> {}, filters |-> Parse(typed).filters]
  IN \A folder \in MailFolders : q.filters # NoFilters /\ (folder = Trash => q.filters.read = BOOLEAN)
       /\ q.filters.read # {TRUE} =>
         LET kept == keep_in_folder(folder, q.filters) hits == Range(search_json(q, folder))
         IN hits \subseteq kept /\ (Cardinality(hits) < HitLimit => hits = kept)

\* A server search that ran through leaves no mail on the server which the query
\* means, but for mail whose sender's clock is on another day and for words an
\* exclusion finds only inside others; one cut short took the newest first
\* (engine/search.rs, search_server_into_cache and imap_criteria).
NothingLeft ==
  LET q == Parse(clean)
  IN clean # <<>> => \A m \in Mails \ cached : Means(q, m) /\ m.read \in q.filters.read =>
       \/ m.sent # m.day
       \/ \E t \in Negative(q) : on_server(t, m)

=============================================================================
