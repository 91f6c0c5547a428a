------------------------------- MODULE Drafts -------------------------------
(***************************************************************************)
(* A mail between the composer, the server's Drafts folder and the outbox  *)
(* (mailcore compose/drafts.rs, compose/send.rs, outbox.rs take_for_edit;  *)
(* the adapters api/composer.rs, bridge/composer.rs, ComposerScreen.kt and *)
(* MailState.kt).                                                          *)
(*                                                                         *)
(* Saving a draft appends the new version before it removes the one the    *)
(* composer was opened from; sending and scheduling remove it after the    *)
(* outbox has the mail.  The composer closes when the job is queued and    *)
(* comes back with its text when the job fails.  Jobs run one at a time.   *)
(*                                                                         *)
(* A text is <<mail, version>>; a version is what the user last typed.     *)
(***************************************************************************)
EXTENDS Naturals, FiniteSets

CONSTANTS Mails, MaxVersion, MaxUid, MaxFaults, NoText

VARIABLES
  server,    \* [1..MaxUid -> the draft of that UID, or NoText]
  cached,    \* the UIDs the local cache lists
  text,      \* [1..MaxUid -> what was stored there, while it or a cached row is left]
  top,       \* the highest UID the server gave out
  composer,  \* [at: "none", "open", "away" (closed over a queued job), uid, text]
  job,       \* the job that runs
  cleanup,   \* UIDs that wait for a "Delete draft" job
  outbox,    \* texts waiting in the outbox
  sent,      \* texts the SMTP server took
  typed,     \* history: [Mails -> what the user last typed and still wants, or NoText]
  kept,      \* history: [Mails -> what was last stored of it outside the composer]
  tangled,   \* history: mails with a lost answer, a refused removal or two lives
  faults

vars == <<server, cached, text, top, composer, job, cleanup, outbox, sent, typed, kept, tangled, faults>>

Uids   == 1..MaxUid
NoDraft == [at |-> "none", uid |-> 0, text |-> NoText]
Idle   == [at |-> "idle", uid |-> 0, text |-> NoText]
MailOf(t) == t[1]
Named(us) == {MailOf(text[u]) : u \in {x \in us : server[x] # NoText \/ x \in cached}}
Held   == {server[u] : u \in Uids} \ {NoText}

Fault  == faults < MaxFaults /\ faults' = faults + 1

-----------------------------------------------------------------------------
(* The composer.                                                           *)

Compose(m) ==
    /\ composer.at = "none" /\ typed[m] = NoText
    /\ \A t \in Held \cup {text[u] : u \in cached} \cup outbox \cup sent : MailOf(t) # m
    /\ composer' = [at |-> "open", uid |-> 0, text |-> <<m, 1>>]
    /\ typed' = [typed EXCEPT ![m] = <<m, 1>>]
    /\ UNCHANGED <<server, cached, text, top, job, cleanup, outbox, sent, kept, tangled, faults>>

\* open_draft reads the cache, so the draft may be gone on the server.  One that
\* is still there though its mail is scheduled makes two mails of it.
OpenDraft(u) ==
    /\ composer.at = "none" /\ u \in cached
    /\ composer' = [at |-> "open", uid |-> u, text |-> text[u]]
    /\ typed' = [typed EXCEPT ![MailOf(text[u])] = text[u]]
    /\ tangled' = IF u \in cleanup THEN tangled \cup Named({u}) ELSE tangled
    /\ UNCHANGED <<server, cached, text, top, job, cleanup, outbox, sent, kept, faults>>

Type ==
    /\ composer.at = "open" /\ composer.text[2] < MaxVersion
    /\ LET t == <<MailOf(composer.text), composer.text[2] + 1>>
       IN  composer' = [composer EXCEPT !.text = t] /\ typed' = [typed EXCEPT ![t[1]] = t]
    /\ UNCHANGED <<server, cached, text, top, job, cleanup, outbox, sent, kept, tangled, faults>>

\* Discard leaves the server's copy alone.
Discard ==
    /\ composer.at = "open"
    /\ composer' = NoDraft
    /\ typed' = [typed EXCEPT ![MailOf(composer.text)] = NoText]
    /\ UNCHANGED <<server, cached, text, top, job, cleanup, outbox, sent, kept, tangled, faults>>

\* The button is there for a reopened draft only.
DeleteDraft ==
    /\ composer.at = "open" /\ composer.uid > 0
    /\ composer' = NoDraft
    /\ cleanup' = cleanup \cup {composer.uid}
    /\ typed' = [typed EXCEPT ![MailOf(composer.text)] = NoText]
    /\ kept' = [kept EXCEPT ![MailOf(composer.text)] = NoText]
    /\ UNCHANGED <<server, cached, text, top, job, outbox, sent, tangled, faults>>

Submit(at) ==
    /\ composer.at = "open" /\ job = Idle
    /\ composer' = [composer EXCEPT !.at = "away"]
    /\ job' = [at |-> at, uid |-> composer.uid, text |-> composer.text]
    /\ UNCHANGED <<server, cached, text, top, cleanup, outbox, sent, typed, kept, tangled, faults>>
SaveDraft == Submit("check")
SendMail  == Submit("submit")

\* Faulty: the composer stays closed over a failed job.
Reopened_Closed == composer' = NoDraft /\ job' = Idle

\* A job refused or failed: the composer is open again, over the same source.
Reopened == composer' = [composer EXCEPT !.at = "open"] /\ job' = Idle

-----------------------------------------------------------------------------
(* save_draft                                                              *)

\* Faulty: the source is not looked for.
CheckSource_Skipped ==
    /\ job.at = "check"
    /\ job' = [job EXCEPT !.at = "append"]
    /\ UNCHANGED <<composer, server, cached, text, top, cleanup, outbox, sent, typed, kept, tangled, faults>>

\* Faulty: the source goes before its successor is stored.
CheckSource_ExpungeFirst ==
    /\ job.at = "check"
    /\ IF job.uid > 0 /\ job.uid \notin cached THEN Reopened /\ UNCHANGED <<server, cached>>
       ELSE /\ job' = [job EXCEPT !.at = "append", !.uid = 0] /\ UNCHANGED composer
            /\ server' = [u \in Uids |-> IF u = job.uid THEN NoText ELSE server[u]]
            /\ cached' = cached \ {job.uid}
    /\ UNCHANGED <<text, top, cleanup, outbox, sent, typed, kept, tangled, faults>>

CheckSource ==
    /\ job.at = "check"
    /\ IF job.uid > 0 /\ job.uid \notin cached
       THEN Reopened
       ELSE job' = [job EXCEPT !.at = "append"] /\ UNCHANGED composer
    /\ UNCHANGED <<server, cached, text, top, cleanup, outbox, sent, typed, kept, tangled, faults>>

Store(t) == /\ top < MaxUid /\ top' = top + 1
            /\ server' = [server EXCEPT ![top + 1] = t]
            /\ text' = [text EXCEPT ![top + 1] = t]
            /\ kept' = [kept EXCEPT ![MailOf(t)] = t]

\* The answer to an append may be lost after the server stored it.
Append ==
    /\ job.at = "append"
    /\ \/ /\ Store(job.text)
          /\ job' = [job EXCEPT !.at = IF job.uid > 0 THEN "expunge" ELSE "resync"]
          /\ UNCHANGED <<composer, tangled, faults>>
       \/ Fault /\ Reopened /\ UNCHANGED <<server, text, top, kept, tangled>>
       \/ Fault /\ Reopened /\ Store(job.text) /\ tangled' = tangled \cup {MailOf(job.text)}
    /\ UNCHANGED <<cached, cleanup, outbox, sent, typed>>

\* delete_message: the server's copy, then the cached row.
Removed(u) == /\ server' = [server EXCEPT ![u] = NoText] /\ cached' = cached \ {u}
              /\ text' = [text EXCEPT ![u] = NoText]

Expunge ==
    /\ job.at = "expunge"
    /\ \/ Removed(job.uid) /\ UNCHANGED <<tangled, faults>>
       \/ Fault /\ tangled' = tangled \cup {MailOf(job.text)} /\ UNCHANGED <<server, cached, text>>
    /\ job' = [job EXCEPT !.at = "resync"]
    /\ UNCHANGED <<top, composer, cleanup, outbox, sent, typed, kept>>

\* sync_folder_window of the Drafts folder: the rows are the server's.
Listed == cached' = {u \in Uids : server[u] # NoText} /\ text' = server

\* A failed refresh fails the save, whatever it has stored.
Resync ==
    /\ job.at = "resync"
    /\ \/ /\ Listed
          /\ composer' = NoDraft /\ job' = Idle
          /\ UNCHANGED <<tangled, faults>>
       \/ /\ Fault /\ Reopened
          /\ tangled' = IF job.uid > 0 THEN tangled ELSE tangled \cup {MailOf(job.text)}
          /\ UNCHANGED <<cached, text>>
    /\ UNCHANGED <<server, top, cleanup, outbox, sent, typed, kept>>

-----------------------------------------------------------------------------
(* deliver, prepare_scheduled, take_for_edit, delete_draft                 *)

\* Before acceptance a failure gives the text back and drops the row's bytes;
\* afterwards only the filing can fail.
Deliver ==
    /\ job.at = "submit"
    /\ \/ /\ sent' = sent \cup {job.text}
          /\ kept' = [kept EXCEPT ![MailOf(job.text)] = job.text]
          /\ composer' = NoDraft
          /\ job' = IF job.uid > 0 THEN [job EXCEPT !.at = "unsource"] ELSE Idle
          /\ UNCHANGED faults
       \/ Fault /\ Reopened /\ UNCHANGED <<sent, kept>>
    /\ UNCHANGED <<server, cached, text, top, cleanup, outbox, typed, tangled>>

RemoveSource ==
    /\ job.at = "unsource"
    /\ IF job.uid \notin cached THEN UNCHANGED <<server, cached, text, faults>>
       ELSE \/ Removed(job.uid) /\ UNCHANGED faults
            \/ Fault /\ UNCHANGED <<server, cached, text>>
    /\ job' = Idle
    /\ UNCHANGED <<top, composer, cleanup, outbox, sent, typed, kept, tangled>>

\* The outbox row first; the source goes in a job of its own.
ScheduleMail ==
    /\ composer.at = "open"
    /\ outbox' = outbox \cup {composer.text}
    /\ cleanup' = IF composer.uid > 0 THEN cleanup \cup {composer.uid} ELSE cleanup
    /\ composer' = NoDraft
    /\ kept' = [kept EXCEPT ![MailOf(composer.text)] = composer.text]
    /\ tangled' = IF composer.uid \in cached \cup {0} THEN tangled ELSE tangled \cup {MailOf(composer.text)}
    /\ UNCHANGED <<server, cached, text, top, job, sent, typed, faults>>

DeleteJob(u) ==
    /\ u \in cleanup /\ job = Idle
    /\ cleanup' = cleanup \ {u}
    /\ IF u \notin cached THEN UNCHANGED <<server, cached, text, tangled, faults>>
       ELSE \/ Removed(u) /\ UNCHANGED <<tangled, faults>>
            \/ Fault /\ tangled' = tangled \cup Named({u}) /\ UNCHANGED <<server, cached, text>>
    /\ UNCHANGED <<top, composer, job, outbox, sent, typed, kept>>

\* The composer then holds the only copy, with no draft behind it.
take_for_edit(t) ==
    /\ composer.at = "none" /\ t \in outbox
    /\ outbox' = outbox \ {t}
    /\ composer' = [at |-> "open", uid |-> 0, text |-> t]
    /\ typed' = [typed EXCEPT ![MailOf(t)] = t]
    /\ kept' = [kept EXCEPT ![MailOf(t)] = NoText]
    /\ UNCHANGED <<server, cached, text, top, job, cleanup, sent, tangled, faults>>

GoesOut(t) ==
    /\ t \in outbox
    /\ outbox' = outbox \ {t} /\ sent' = sent \cup {t}
    /\ UNCHANGED <<server, cached, text, top, composer, job, cleanup, typed, kept, tangled, faults>>

-----------------------------------------------------------------------------
\* Any sync of the Drafts folder.
SyncDrafts ==
    /\ job = Idle
    /\ Listed
    /\ UNCHANGED <<server, top, composer, job, cleanup, outbox, sent, typed, kept, tangled, faults>>

\* Another client deletes a draft.
DeletedElsewhere(u) ==
    /\ server[u] # NoText /\ Fault
    /\ server' = [server EXCEPT ![u] = NoText]
    /\ text' = IF u \in cached THEN text ELSE [text EXCEPT ![u] = NoText]
    /\ typed' = [typed EXCEPT ![MailOf(server[u])] = IF @ = server[u] THEN NoText ELSE @]
    /\ kept' = [kept EXCEPT ![MailOf(server[u])] = IF @ = server[u] THEN NoText ELSE @]
    /\ UNCHANGED <<cached, top, composer, job, cleanup, outbox, sent, tangled>>

\* What was only in the composer dies with it; a save killed between its
\* append and its expunge leaves both versions.
Crash ==
    /\ Fault
    /\ composer' = NoDraft /\ job' = Idle /\ cleanup' = {}
    /\ typed' = [m \in Mails |-> IF typed[m] = NoText THEN NoText ELSE kept[m]]
    /\ tangled' = tangled \cup Named(cleanup) \cup (IF job.at = "expunge" THEN {MailOf(job.text)} ELSE {})
    /\ UNCHANGED <<server, cached, text, top, outbox, sent, kept>>

Init ==
    /\ server = [u \in Uids |-> NoText] /\ text = server /\ cached = {} /\ top = 0
    /\ composer = NoDraft /\ job = Idle /\ cleanup = {}
    /\ outbox = {} /\ sent = {}
    /\ typed = [m \in Mails |-> NoText] /\ kept = typed /\ tangled = {}
    /\ faults = 0

Next == \/ \E m \in Mails : Compose(m)
        \/ \E u \in Uids : OpenDraft(u) \/ DeleteJob(u) \/ DeletedElsewhere(u)
        \/ Type \/ Discard \/ DeleteDraft \/ SaveDraft \/ SendMail \/ ScheduleMail
        \/ CheckSource \/ Append \/ Expunge \/ Resync \/ Deliver \/ RemoveSource
        \/ \E t \in outbox : take_for_edit(t) \/ GoesOut(t)
        \/ SyncDrafts \/ Crash

-----------------------------------------------------------------------------
(* Properties.                                                             *)

\* What the user typed and did not throw away is in the composer, on the
\* server, in the outbox or sent, at every step of every save, send and
\* removal, a failed one and a killed one too (drafts.rs, save_draft appends
\* before it expunges; send.rs, deliver; outbox.rs, take_for_edit).
TypedKept ==
    \A m \in Mails :
       LET stored == Held \cup outbox \cup sent
       IN  /\ kept[m] # NoText => kept[m] \in stored
           /\ typed[m] # NoText => typed[m] \in stored \cup {composer.text}

\* A stale composer leaves no second copy behind (drafts.rs, save_draft: "Check
\* the source still exists before appending"): outside a save and a queued
\* removal there is one draft of a mail, unless an append's answer or an expunge failed, or the first
\* save of a mail failed after it had stored it.
OneDraft ==
    job = Idle /\ cleanup = {} => \A m \in Mails \ tangled :
       Cardinality({u \in Uids : server[u] # NoText /\ MailOf(server[u]) = m}) <= 1
=============================================================================
