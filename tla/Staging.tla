------------------------------- MODULE Staging --------------------------------
(***************************************************************************)
(* The files of a mail on their way through the composer (mailcore paths.rs *)
(* new_stage_dir and prune_stale_draft_dirs, compose/drafts.rs              *)
(* stage_draft_files, compose/forward.rs, outbox.rs take_for_edit,          *)
(* sync/sender/attachments.rs; ComposerFiles.kt).                           *)
(*                                                                         *)
(* Both composers attach from paths, so the files of a reopened draft, a    *)
(* forwarded mail or a mail taken back from the outbox are written to a     *)
(* temporary folder each, in a base that all processes share.  Nobody       *)
(* removes a folder when its composer closes: each opening prunes those     *)
(* that are a day old, whosoever they are.                                  *)
(***************************************************************************)
EXTENDS Naturals, SequencesExt, FiniteSetsExt, Functions

CONSTANTS
  Procs,       \* processes with a composer each
  Phones,      \* those of them with Android's composer
  Files,       \* the files of the mail, in their order
  MaxAge,      \* when a folder is old (24 hours)
  MaxCount,    \* files one mail may carry (20)
  MaxOpenings, MaxFaults, MaxPicks

VARIABLES
  dirs,      \* the folders there are: <<process, number>> -> [file, age]
  next,      \* [Procs -> the next number to try]
  cached,    \* the files whose bytes the database has
  row,       \* the mail in the outbox: "there", "sending" or "gone"
  job,       \* [Procs -> the opening under way, or Idle]
  composer,  \* [Procs -> the composer, or Closed]
  ended,     \* history: the mail of the outbox was delivered again or given up
  openings, faults

vars == <<dirs, next, cached, row, job, composer, ended, openings, faults>>

Idle   == [kind |-> "none", left |-> <<>>, done |-> <<>>, age |-> 0]
Closed == [kind |-> "none", files |-> <<>>, named |-> {}, age |-> 0]
Order  == SetToSeq(Files)
FilesOf(entries) == [k \in DOMAIN entries |-> entries[k].file]

-----------------------------------------------------------------------------
\* Faulty: a folder is old an hour early.
Stale_Early(d) == dirs[d].age + 1 >= MaxAge
Stale(d) == dirs[d].age >= MaxAge

\* prune_stale_draft_dirs: the folders that stay.
Young == {d \in DOMAIN dirs : ~Stale(d)}
Pruned == Restrict(dirs, Young)

\* new_stage_dir: a name that is taken is skipped, as a process may have the
\* number of an earlier one.
Fresh(p) == CHOOSE n \in next[p]..(next[p] + Cardinality(DOMAIN dirs)) :
              /\ <<p, n>> \notin DOMAIN dirs
              /\ \A k \in next[p]..(n - 1) : <<p, k>> \in DOMAIN dirs
With(ds, p, f) == [d \in DOMAIN ds \cup {<<p, Fresh(p)>>} |->
                     IF d = <<p, Fresh(p)>> THEN [file |-> f, age |-> 0] ELSE ds[d]]

Opened(p, kind, files, named, age) ==
  composer' = [composer EXCEPT ![p] = [kind |-> kind, files |-> files, named |-> named, age |-> age]]

-----------------------------------------------------------------------------
(* Opening a composer with files.                                           *)

Begins(p, kind) ==
  /\ job[p] = Idle /\ composer[p] = Closed
  /\ openings < MaxOpenings /\ openings' = openings + 1
  /\ job' = [job EXCEPT ![p] = [Idle EXCEPT !.kind = kind, !.left = Order]]
  /\ UNCHANGED <<dirs, next, composer, ended, faults>>

\* A draft needs all its bytes, a forward goes without those it cannot fetch.
OpenDraft(p) == Begins(p, "draft") /\ cached' = Files /\ UNCHANGED row
Forward(p) ==
  Begins(p, "forward") /\ cached' \in {c \in SUBSET Files : cached \subseteq c} /\ UNCHANGED row

\* Faulty: the row is deleted before its files are written.
Edit_Deletes(p) == row # "gone" /\ Begins(p, "edit") /\ row' = "gone" /\ UNCHANGED cached
\* take_for_edit reads the row whatever its status is.
Edit(p) == row # "gone" /\ Begins(p, "edit") /\ UNCHANGED <<cached, row>>

\* Faulty: what is not there is left out of any mail.
Required_Never(kind) == FALSE
\* Only a forward goes without a file.
Required(kind) == kind # "forward"

\* stage_attachment, or stage_bytes for a mail of the outbox: the folder and
\* the file in it are made before the bytes are read.
Stage(p) ==
  /\ job[p].kind # "none" /\ job[p].left # <<>>
  /\ LET f == Head(job[p].left) IN
     /\ job[p].kind = "edit" \/ f \in cached
     /\ dirs' = With(dirs, p, f)
     /\ next' = [next EXCEPT ![p] = Fresh(p) + 1]
     /\ job' = [job EXCEPT ![p].left = Tail(@), ![p].done = Append(@, [dir |-> <<p, Fresh(p)>>, file |-> f])]
  /\ UNCHANGED <<cached, row, composer, ended, openings, faults>>

\* Its bytes were dropped from the cache meanwhile, or the disk is full: a
\* forward goes on without it.
StageFails(p) ==
  /\ job[p].kind # "none" /\ job[p].left # <<>>
  /\ \/ job[p].kind # "edit" /\ Head(job[p].left) \notin cached /\ UNCHANGED faults
     \/ faults < MaxFaults /\ faults' = faults + 1
  /\ \/ job[p].kind = "forward" /\ Head(job[p].left) \notin cached /\ UNCHANGED <<dirs, next>>
     \/ dirs' = With(dirs, p, "nothing") /\ next' = [next EXCEPT ![p] = Fresh(p) + 1]
  /\ IF Required(job[p].kind)
     THEN /\ job' = [job EXCEPT ![p] = Idle]
          /\ IF job[p].kind = "draft" /\ p \in Phones
             THEN Opened(p, "draft", <<>>, Files, job[p].age) ELSE UNCHANGED composer
     ELSE job' = [job EXCEPT ![p].left = Tail(@)] /\ UNCHANGED composer
  /\ UNCHANGED <<cached, row, ended, openings>>

\* All files are written; a forward names those it goes without.
Staged(p) ==
  /\ job[p].kind \in {"draft", "forward"} /\ job[p].left = <<>>
  /\ dirs' = Pruned
  /\ job' = [job EXCEPT ![p] = Idle]
  /\ Opened(p, job[p].kind, job[p].done,
            IF job[p].kind = "forward" THEN Files \ Range(FilesOf(job[p].done)) ELSE {}, job[p].age)
  /\ UNCHANGED <<next, cached, row, ended, openings, faults>>

\* take_for_edit prunes, then deletes the row.
StagedEdit(p) ==
  /\ job[p].kind = "edit" /\ job[p].left = <<>>
  /\ dirs' = Pruned
  /\ job' = [job EXCEPT ![p].kind = "take"]
  /\ UNCHANGED <<next, cached, row, composer, ended, openings, faults>>

\* A row that is being sent is not taken.
Deletable(status) == status = "there"

Take(p) ==
  /\ job[p].kind = "take"
  /\ job' = [job EXCEPT ![p] = Idle]
  /\ IF Deletable(row)
     THEN row' = "gone" /\ Opened(p, "edit", job[p].done, {}, job[p].age)
     ELSE UNCHANGED <<row, composer>>
  /\ UNCHANGED <<dirs, next, cached, ended, openings, faults>>

-----------------------------------------------------------------------------
(* The composer.                                                            *)

Shuts(p) ==
  /\ composer[p] # Closed
  /\ composer' = [composer EXCEPT ![p] = Closed]
  /\ ended' = (ended \/ composer[p].kind = "edit")

\* A file is picked on a phone: prune, then a copy, which may fail.
Pick(p) ==
  /\ p \in Phones /\ composer[p] # Closed /\ Len(composer[p].files) < Cardinality(Files) + MaxPicks
  /\ next' = [next EXCEPT ![p] = Fresh(p) + 1]
  /\ \/ /\ dirs' = With(Pruned, p, "pick")
        /\ composer' = [composer EXCEPT ![p].files = Append(@, [dir |-> <<p, Fresh(p)>>, file |-> "pick"])]
        /\ UNCHANGED faults
     \/ /\ faults < MaxFaults /\ faults' = faults + 1
        /\ dirs' = With(Pruned, p, "nothing") /\ UNCHANGED composer
  /\ UNCHANGED <<cached, row, job, ended, openings>>

\* load_outgoing_attachments, for a mail or a draft: all of them or an error
\* (which leaves the composer as it is).
Build(p) ==
  /\ LET es == composer[p].files IN
     /\ \A k \in DOMAIN es : es[k].dir \in DOMAIN dirs
     /\ Len(es) =< MaxCount
  /\ Shuts(p)
  /\ UNCHANGED <<dirs, next, cached, row, job, openings, faults>>

Discard(p) == Shuts(p) /\ UNCHANGED <<dirs, next, cached, row, job, openings, faults>>

\* The process ends, and the next one has its number.
Quit(p) ==
  /\ composer[p] # Closed \/ job[p] # Idle
  /\ composer' = [composer EXCEPT ![p] = Closed]
  /\ job' = [job EXCEPT ![p] = Idle]
  /\ next' = [next EXCEPT ![p] = 0]
  /\ ended' = (ended \/ composer[p].kind = "edit")
  /\ UNCHANGED <<dirs, cached, row, openings, faults>>

-----------------------------------------------------------------------------
\* cleanup_temp_files prunes as well.
CleanUp == Young # DOMAIN dirs /\ dirs' = Pruned
           /\ UNCHANGED <<next, cached, row, job, composer, ended, openings, faults>>

Evict == \E f \in cached : cached' = cached \ {f}
           /\ UNCHANGED <<dirs, next, row, job, composer, ended, openings, faults>>

\* A flush claims the row, and delivers it or puts it back.
Flush ==
  /\ \/ row = "there" /\ row' = "sending" /\ UNCHANGED ended
     \/ row = "sending" /\ row' = "there" /\ UNCHANGED ended
     \/ row = "sending" /\ row' = "gone" /\ ended' = TRUE
  /\ UNCHANGED <<dirs, next, cached, job, composer, openings, faults>>

Older(n) == IF n < MaxAge THEN n + 1 ELSE n
Tick ==
  /\ dirs' = [d \in DOMAIN dirs |-> [dirs[d] EXCEPT !.age = Older(@)]]
  /\ composer' = [p \in Procs |-> IF composer[p] = Closed THEN Closed ELSE [composer[p] EXCEPT !.age = Older(@)]]
  /\ job' = [p \in Procs |-> IF job[p] = Idle THEN Idle ELSE [job[p] EXCEPT !.age = Older(@)]]
  /\ UNCHANGED <<next, cached, row, ended, openings, faults>>

Init ==
  /\ dirs = <<>> /\ next = [p \in Procs |-> 0]
  /\ cached \in SUBSET Files
  /\ row = "there"
  /\ job = [p \in Procs |-> Idle] /\ composer = [p \in Procs |-> Closed]
  /\ ended = FALSE /\ openings = 0 /\ faults = 0

Next ==
  \/ \E p \in Procs :
       \/ OpenDraft(p) \/ Forward(p) \/ Edit(p) \/ Stage(p) \/ StageFails(p) \/ Staged(p)
       \/ StagedEdit(p) \/ Take(p) \/ Pick(p) \/ Build(p) \/ Discard(p) \/ Quit(p)
  \/ CleanUp \/ Evict \/ Flush \/ Tick

Spec == Init /\ [][Next]_vars

-----------------------------------------------------------------------------
\* The files a composer shows are on disk for a day after it began to open,
\* whatever other composers and processes prune (paths.rs TEMP_COPY_MAX_AGE).
StaysAttached ==
  \A p \in Procs : composer[p].age < MaxAge =>
    \A e \in Range(composer[p].files) : e.dir \in DOMAIN dirs /\ dirs[e.dir].file = e.file

\* No file of the mail is dropped in silence: the composer shows it, or names
\* it as missing (forward.rs ForwardFiles, drafts.rs stage_draft_files).
NoneDropped ==
  \A p \in Procs : composer[p] # Closed =>
    Files \subseteq Range(FilesOf(composer[p].files)) \cup composer[p].named

\* A mail taken back to be edited is always somewhere, and never twice: in the
\* outbox, or in one composer, until it is delivered again or given up
\* (outbox.rs take_for_edit).
EditIsSomewhere ==
  LET holders == {p \in Procs : composer[p].kind = "edit"} IN
  /\ row = "gone" /\ ~ended => holders # {}
  /\ Cardinality(holders) =< 1
  /\ holders # {} => row = "gone" /\ ~ended
=============================================================================
