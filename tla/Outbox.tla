------------------------------- MODULE Outbox -------------------------------
(***************************************************************************)
(* The outbox of mailcore: the `send_queue` table (store/queue.rs), the    *)
(* runs that submit its rows (sync/sender/client.rs, compose/send.rs,      *)
(* sync/background.rs) and the user's actions on it (outbox.rs).           *)
(*                                                                         *)
(* The app's net thread (Gui) and any number of background runs share one  *)
(* database file.  Every SQL statement is atomic; between two statements   *)
(* of one run the others move, so a run is a small program (pc) with one   *)
(* action per statement that can be observed by the others.                *)
(*                                                                         *)
(* Time is relative: a row carries the ticks until its send_at (`at`),     *)
(* until its next attempt (`pause`) and since its last update (`idle`).    *)
(* Each saturates past the largest value a query compares it with, so no   *)
(* clock has to be bounded.  One account is modelled: every statement but  *)
(* prune_sent and take_failure_notices is scoped to one.                   *)
(***************************************************************************)
EXTENDS Integers, Sequences, FiniteSets

CONSTANTS
  Ids,                 \* queue ids; autoincrement, so none is ever reused
  Procs,               \* the runs that may touch the queue at the same time
  Gui,                 \* the app's single net thread, one of Procs
  None,                \* no lock holder, no current row
  Chargers,            \* the runs whose keyring may be unreadable
  Android,             \* a background check also asks for failure notices
  SendTimes,           \* delays the user may pick for a scheduled send
  MAX_SEND_RETRIES,
  SCHEDULED_BACKOFF,   \* pause after the 1st, 2nd, ... failed attempt
  SCHEDULED_DEADLINE,
  SCHEDULE_LEAD,
  STALE_SENDING,       \* lease of a `sending` row
  SENT_RETENTION,
  MaxHold,             \* environment: a live submit holds its row this long
  MaxQueued,           \* environment: a prepared send waits this long at most
  MaxCrashes,          \* bound of the model
  MaxUserOps           \* bound of the model

ASSUME ConstantsOK ==
  /\ Gui \in Procs /\ None \notin Procs /\ None \notin Ids /\ Chargers \subseteq Procs
  /\ Android \in BOOLEAN
  /\ SendTimes \subseteq Nat
  /\ MAX_SEND_RETRIES \in Nat \ {0}
  /\ SCHEDULED_BACKOFF \in Seq(Nat)
  /\ SCHEDULED_DEADLINE \in Nat /\ SCHEDULE_LEAD \in Nat
  /\ STALE_SENDING \in Nat /\ SENT_RETENTION \in Nat
  /\ STALE_SENDING <= SENT_RETENTION
  /\ MaxHold \in Nat /\ MaxQueued \in Nat
  /\ MaxCrashes \in Nat /\ MaxUserOps \in Nat

VARIABLES
  rows,      \* the table: Ids -> row (status "none": no such row)
  job,       \* Ids -> the composer's delivery job: none, prepared or queued
  pc, mode, cur, todo, sched, role,  \* the runs (see TypeOK)
  lock,      \* holder of the cross-process sync lock
  fate,      \* history: what became of the mail, from the user's side
  accepted,  \* history: how often an SMTP server took the mail
  lostAck,   \* history: acceptances the client never got to record
  crashes, userOps

procVars  == <<pc, mode, cur, todo, sched, role>>
ghostVars == <<fate, accepted, lostAck>>
vars == <<rows, job, procVars, lock, ghostVars, crashes, userOps>>

-----------------------------------------------------------------------------
(* Rows and the statements of store/queue.rs, as functions on a row.       *)

Statuses  == {"none", "queued", "sending", "failed", "scheduled", "sent"}
Unclaimed == {"queued", "failed"}
HELD_STATUSES == {"scheduled", "queued", "failed"}

Row == [status : Statuses, retries : Nat, bytes : BOOLEAN,
        planned : BOOLEAN,   \* send_at is not null
        at : Int,            \* ticks until send_at; 0 when not planned
        pause : Nat,         \* ticks until next_attempt_at; 0 = none, or past
        idle : Nat,          \* ticks since updated_at
        noticed : BOOLEAN, notify_self : BOOLEAN]

NoRow == [status |-> "none", retries |-> 0, bytes |-> FALSE,
          planned |-> FALSE, at |-> 0, pause |-> 0, idle |-> 0,
          noticed |-> FALSE, notify_self |-> FALSE]

\* enqueue_mime: born `sending`, i.e. claimed by its creator.
ImmediateRow == [NoRow EXCEPT !.status = "sending", !.bytes = TRUE]

\* enqueue_scheduled_mime: born unclaimed, held for its time.
ScheduledRow(d, notify) ==
  [NoRow EXCEPT !.status = "scheduled", !.bytes = TRUE, !.planned = TRUE,
                !.at = d, !.notify_self = notify]

\* The `where` clause of list_submittable.
Submittable(row) ==
  /\ row.status \in Unclaimed /\ row.bytes
  /\ row.retries < MAX_SEND_RETRIES
  /\ row.at <= 0 /\ row.pause = 0

\* The rows of waiting_scheduled, and the ones fail_due_scheduled charges.
Waiting(row) ==
  /\ row.planned /\ row.status \in HELD_STATUSES /\ row.bytes
  /\ row.retries < MAX_SEND_RETRIES
DueScheduled(row) == Waiting(row) /\ row.at <= 0 /\ row.pause = 0

\* The rows take_failure_notices reports.
Noticeable(row) ==
  /\ row.status = "failed" /\ row.planned /\ ~row.noticed
  /\ row.retries >= MAX_SEND_RETRIES

\* Faulty variants, to see that the properties notice: recovery that does not
\* look at the age of the claim, that also takes completed rows, or none.
requeue_Eager(row) ==
  IF row.status = "sending" /\ row.bytes
    THEN [row EXCEPT !.status = "queued", !.idle = 0] ELSE row
requeue_Completed(row) ==
  IF row.status \in {"sending", "sent"} /\ row.idle > STALE_SENDING
    THEN [row EXCEPT !.status = IF row.bytes THEN "queued" ELSE "failed", !.idle = 0]
    ELSE row
requeue_Never(row) == row

requeue_interrupted(row) ==
  LET stale == row.status = "sending" /\ row.idle > STALE_SENDING IN
  IF stale /\ row.bytes
    THEN [row EXCEPT !.status = "queued", !.idle = 0]
  ELSE IF (stale \/ row.status = "queued") /\ ~row.bytes
    THEN [row EXCEPT !.status = "failed", !.idle = 0]
  ELSE row

promote_due(row) ==
  IF row.status = "scheduled" /\ row.planned /\ row.at <= 0 /\ row.bytes
    THEN [row EXCEPT !.status = "queued", !.idle = 0]
    ELSE row

\* Faulty variant: pruning by age alone.
prune_AnyStatus(row) == IF row.idle > SENT_RETENTION THEN NoRow ELSE row

prune_sent(row) ==
  IF row.status = "sent" /\ row.idle > SENT_RETENTION THEN NoRow ELSE row

\* Faulty variant: a claim that does not exclude rows in other hands.
Claimable_Sending(row) == row.status \in Unclaimed \cup {"sending"}

Claimable(row) == row.status \in Unclaimed

claim(row) == [row EXCEPT !.status = "sending", !.idle = 0]

\* A statement `update ... where id = ?` finds no row once it is deleted.
Update(row, new) == IF row.status = "none" THEN row ELSE new

\* Faulty variants: a delivered row is put back, a failed one loses its bytes.
mark_sent_Requeues(row) ==
  Update(row, [row EXCEPT !.status = "queued", !.idle = 0])
mark_failed_Discards(row) ==
  Update(row, [row EXCEPT !.status = "failed", !.retries = @ + 1, !.bytes = FALSE,
                          !.idle = 0])

mark_sent(row) ==
  Update(row, [row EXCEPT !.status = "sent", !.bytes = FALSE, !.idle = 0])

mark_failed(row) ==
  Update(row, [row EXCEPT !.status = "failed", !.retries = @ + 1, !.idle = 0])

fail_and_discard(row) ==
  Update(row, [row EXCEPT !.status = "failed", !.bytes = FALSE, !.idle = 0])

update_raw_mime(row) == Update(row, [row EXCEPT !.bytes = TRUE, !.idle = 0])

GivesUp(row, permanent) ==
  \/ permanent
  \/ row.planned /\ row.at < -SCHEDULED_DEADLINE
  \/ row.retries + 1 >= MAX_SEND_RETRIES
  \/ row.retries + 1 > Len(SCHEDULED_BACKOFF)

fail_scheduled_attempt(row, permanent) ==
  LET gaveUp == GivesUp(row, permanent) IN
  Update(row,
    [row EXCEPT !.status = "failed", !.idle = 0, !.noticed = FALSE,
       !.retries = IF gaveUp THEN MAX_SEND_RETRIES ELSE @ + 1,
       !.pause = IF gaveUp THEN 0 ELSE SCHEDULED_BACKOFF[row.retries + 1]])

\* What reschedule and send_now reset besides status and send_at.
Restarted(row) ==
  [row EXCEPT !.planned = TRUE, !.retries = 0, !.pause = 0,
              !.noticed = FALSE, !.idle = 0]

\* One tick: send_at and next_attempt_at come closer, the row ages.
Older(row) ==
  Update(row,
    [row EXCEPT
       !.at = IF row.planned /\ row.at >= -SCHEDULED_DEADLINE THEN @ - 1 ELSE @,
       !.pause = IF @ > 0 THEN @ - 1 ELSE 0,
       !.idle = IF @ <= SENT_RETENTION THEN @ + 1 ELSE @])

-----------------------------------------------------------------------------
(* Runs.                                                                   *)

\* Ids never handed out so far.
Fresh == {r \in Ids : fate[r] = "none"}

\* The run is between its claim (or its birth) and the recorded outcome.
OwnPCs == {"get", "refresh", "smtp", "accepted", "rejected", "refused"}
Owns(p, r) == pc[p] \in OwnPCs /\ cur[p] = r
Goto(p, l) == pc' = [pc EXCEPT ![p] = l]

\* SyncLock is dropped with its guard when the run ends.
Unlock(p) == lock' = IF lock = p THEN None ELSE lock

Init ==
  /\ rows = [r \in Ids |-> NoRow]
  /\ job = [r \in Ids |-> "none"]
  /\ pc = [p \in Procs |-> "idle"]
  /\ mode = [p \in Procs |-> "none"]
  /\ cur = [p \in Procs |-> None]
  /\ todo = [p \in Procs |-> {}]
  /\ sched = [p \in Procs |-> FALSE]
  /\ role = [p \in Procs |-> "plain"]
  /\ lock = None
  /\ fate = [r \in Ids |-> "none"]
  /\ accepted = [r \in Ids |-> 0]
  /\ lostAck = [r \in Ids |-> 0]
  /\ crashes = 0
  /\ userOps = 0

(* --- composing: the UI thread writes the row, then hands over the job -- *)

\* prepare_send: a row born claimed, its job not spawned yet.
PrepareSend(r) ==
  /\ r \in Fresh
  /\ rows' = [rows EXCEPT ![r] = ImmediateRow]
  /\ job' = [job EXCEPT ![r] = "prepared"]
  /\ fate' = [fate EXCEPT ![r] = "open"]
  /\ UNCHANGED <<procVars, lock, accepted, lostAck, crashes, userOps>>

\* spawn_job took the delivery; it waits its turn on the net thread.
SpawnDeliver(r) ==
  /\ job[r] = "prepared"
  /\ job' = [job EXCEPT ![r] = "queued"]
  /\ UNCHANGED <<rows, procVars, lock, ghostVars, crashes, userOps>>

\* spawn_job refused: abandon_send drops the row, the composer keeps the text.
AbandonSend(r) ==
  /\ job[r] = "prepared"
  /\ job' = [job EXCEPT ![r] = "none"]
  /\ rows' = [rows EXCEPT ![r] = NoRow]
  /\ fate' = [fate EXCEPT ![r] = "withdrawn"]
  /\ UNCHANGED <<procVars, lock, accepted, lostAck, crashes, userOps>>

\* prepare_scheduled: normalize_future_send_at refuses a time too close.
PrepareScheduled(r, d, notify) ==
  /\ r \in Fresh
  /\ d > SCHEDULE_LEAD
  /\ rows' = [rows EXCEPT ![r] = ScheduledRow(d, notify)]
  /\ fate' = [fate EXCEPT ![r] = "open"]
  /\ UNCHANGED <<job, procVars, lock, accepted, lostAck, crashes, userOps>>

(* --- flush_outbox ------------------------------------------------------ *)

\* sync_account of a sync run.  The app's own syncs do not take the lock.
BeginSync(p) ==
  /\ pc[p] = "idle"
  /\ IF p = Gui THEN lock' = lock
                ELSE lock = None /\ lock' = p
  /\ mode' = [mode EXCEPT ![p] = "sync"]
  /\ Goto(p, "recover")
  /\ UNCHANGED <<rows, job, cur, todo, sched, role, ghostVars, crashes, userOps>>

\* send_due_scheduled: nothing due, a flush, or an account it cannot try.
BeginDue(p) ==
  /\ pc[p] = "idle"
  /\ lock = None /\ lock' = p
  /\ mode' = [mode EXCEPT ![p] = "due"]
  /\ IF \E r \in Ids : DueScheduled(rows[r])
       THEN Goto(p, "recover") \/ (p \in Chargers /\ Goto(p, "unreachable"))
       ELSE Goto(p, "notices")
  /\ UNCHANGED <<rows, job, cur, todo, sched, role, ghostVars, crashes, userOps>>

Recover(p) ==
  /\ pc[p] = "recover"
  /\ rows' = [r \in Ids |-> requeue_interrupted(rows[r])]
  /\ Goto(p, "promote")
  /\ UNCHANGED <<job, mode, cur, todo, sched, role, lock, ghostVars, crashes, userOps>>

\* promote_due, then prune_sent: they touch different rows.
Promote(p) ==
  /\ pc[p] = "promote"
  /\ rows' = [r \in Ids |-> prune_sent(promote_due(rows[r]))]
  /\ Goto(p, "list")
  /\ UNCHANGED <<job, mode, cur, todo, sched, role, lock, ghostVars, crashes, userOps>>

\* Faulty variants: a snapshot that ignores times, pauses and attempts, and
\* one that forgets failed rows.
List_Unclaimed(p) ==
  /\ pc[p] = "list"
  /\ todo' = [todo EXCEPT ![p] = {r \in Ids : rows[r].status \in Unclaimed}]
  /\ Goto(p, "next")
  /\ UNCHANGED <<rows, job, mode, cur, sched, role, lock, ghostVars, crashes, userOps>>

\* list_submittable: from here on the run works through this snapshot.
List(p) ==
  /\ pc[p] = "list"
  /\ todo' = [todo EXCEPT ![p] = {r \in Ids : Submittable(rows[r])}]
  /\ Goto(p, "next")
  /\ UNCHANGED <<rows, job, mode, cur, sched, role, lock, ghostVars, crashes, userOps>>

Claim(p, r) ==
  /\ pc[p] = "next" /\ r \in todo[p]
  /\ todo' = [todo EXCEPT ![p] = @ \ {r}]
  /\ IF Claimable(rows[r])
       THEN /\ rows' = [rows EXCEPT ![r] = claim(rows[r])]
            /\ cur' = [cur EXCEPT ![p] = r]
            /\ role' = [role EXCEPT ![p] =
                          IF rows[r].notify_self THEN "wants_receipt" ELSE "plain"]
            /\ Goto(p, "get")
       ELSE UNCHANGED <<rows, cur, role, pc>>
  /\ UNCHANGED <<job, mode, sched, lock, ghostVars, crashes, userOps>>

\* Faulty variant: a flush that ends without asking for notices.
EndFlush_Silent(p) ==
  /\ pc[p] = "next" /\ todo[p] = {}
  /\ Goto(p, "idle") /\ Unlock(p)
  /\ mode' = [mode EXCEPT ![p] = "none"]
  /\ UNCHANGED <<rows, job, cur, todo, sched, role, ghostVars, crashes, userOps>>

\* The end of a flush.  send_due_scheduled goes on to take_failure_notices;
\* on Android a background check drops the lock and asks for them as well.
EndFlush(p) ==
  /\ pc[p] = "next" /\ todo[p] = {}
  /\ IF mode[p] = "due" THEN Goto(p, "notices") /\ UNCHANGED <<mode, lock>>
     ELSE /\ Goto(p, IF Android /\ p # Gui THEN "notices" ELSE "idle")
          /\ Unlock(p)
          /\ mode' = [mode EXCEPT ![p] = "none"]
  /\ UNCHANGED <<rows, job, cur, todo, sched, role, ghostVars, crashes, userOps>>

(* --- submit_claimed_via ------------------------------------------------ *)

\* Where the caller goes when a submit of its row failed: deliver tells the
\* user, send_self_receipt drops its row, a flush moves on.
Failed(p) ==
  IF mode[p] = "deliver" THEN "discard"
  ELSE IF role[p] = "is_receipt" THEN "drop" ELSE "next"

\* The run lets go of its row and moves on to `l`.
Release(p, l) ==
  /\ Goto(p, l)
  /\ cur' = [cur EXCEPT ![p] = None]
  /\ sched' = [sched EXCEPT ![p] = FALSE]
  /\ role' = [role EXCEPT ![p] = "plain"]
  /\ mode' = IF l = "idle" THEN [mode EXCEPT ![p] = "none"] ELSE mode

\* The submit of its row failed: on to the next row, or to the clean-up.
AfterFailure(p) ==
  IF Failed(p) = "next"
    THEN Release(p, "next")
    ELSE Goto(p, Failed(p)) /\ UNCHANGED <<mode, cur, sched, role>>

\* queue::get: no row or no bytes fails the submit and leaves the status.
Get(p) ==
  LET row == rows[cur[p]] IN
  /\ pc[p] = "get"
  /\ \/ /\ row.status # "none" /\ row.bytes
        /\ Goto(p, IF row.planned THEN "refresh" ELSE "smtp")
        /\ sched' = [sched EXCEPT ![p] = row.planned]
        /\ UNCHANGED <<mode, cur, role>>
     \/ /\ ~(row.status # "none" /\ row.bytes)
        /\ AfterFailure(p)
  /\ UNCHANGED <<rows, job, todo, lock, ghostVars, crashes, userOps>>

\* A scheduled send's Date: header is rewritten in the stored bytes.
Refresh(p) ==
  /\ pc[p] = "refresh"
  /\ rows' = [rows EXCEPT ![cur[p]] = update_raw_mime(@)]
  /\ Goto(p, "smtp")
  /\ UNCHANGED <<job, mode, cur, todo, sched, role, lock, ghostVars, crashes, userOps>>

\* The SMTP server takes the mail.
SmtpAccept(p) ==
  /\ pc[p] = "smtp"
  /\ accepted' = [accepted EXCEPT ![cur[p]] = @ + 1]
  /\ Goto(p, "accepted")
  /\ UNCHANGED <<rows, job, mode, cur, todo, sched, role, lock, fate, lostAck,
                 crashes, userOps>>

\* The server refuses, for now or for good (5xx), or cannot be reached.
SmtpReject(p, outcome) ==
  /\ pc[p] = "smtp"
  /\ Goto(p, outcome)
  /\ UNCHANGED <<rows, job, mode, cur, todo, sched, role, lock, ghostVars,
                 crashes, userOps>>

\* The server takes the mail but its reply is lost: a timeout for the client.
SmtpLostReply(p) ==
  /\ pc[p] = "smtp"
  /\ crashes < MaxCrashes
  /\ crashes' = crashes + 1
  /\ accepted' = [accepted EXCEPT ![cur[p]] = @ + 1]
  /\ lostAck' = [lostAck EXCEPT ![cur[p]] = @ + 1]
  /\ Goto(p, "rejected")
  /\ UNCHANGED <<rows, job, mode, cur, todo, sched, role, lock, fate, userOps>>

\* mark_sent; then the receipt, the next row, or the end of deliver.
RecordSent(p) ==
  /\ pc[p] = "accepted"
  /\ rows' = [rows EXCEPT ![cur[p]] = mark_sent(@)]
  /\ \/ role[p] = "wants_receipt" /\ Release(p, "receipt")
     \/ role[p] # "wants_receipt" /\ mode[p] # "deliver" /\ Release(p, "next")
     \/ role[p] # "wants_receipt" /\ mode[p] = "deliver" /\ Release(p, "idle")
  /\ UNCHANGED <<job, todo, lock, ghostVars, crashes, userOps>>

\* mark_failed, or fail_scheduled_attempt for a row that was scheduled when
\* the submit read it.
RecordFailure(p) ==
  /\ pc[p] \in {"rejected", "refused"}
  /\ rows' = [rows EXCEPT ![cur[p]] =
       IF sched[p] THEN fail_scheduled_attempt(@, pc[p] = "refused")
                   ELSE mark_failed(@)]
  /\ AfterFailure(p)
  /\ UNCHANGED <<job, todo, lock, ghostVars, crashes, userOps>>

\* send_self_receipt: a new immediate row, born claimed by this flush -- or
\* the receipt cannot be built and the flush moves on.
SelfReceipt(p) ==
  /\ pc[p] = "receipt"
  /\ \/ \E q \in Fresh :
          /\ rows' = [rows EXCEPT ![q] = ImmediateRow]
          /\ fate' = [fate EXCEPT ![q] = "open"]
          /\ cur' = [cur EXCEPT ![p] = q]
          /\ role' = [role EXCEPT ![p] = "is_receipt"]
          /\ Goto(p, "get")
     \/ Goto(p, "next") /\ UNCHANGED <<rows, fate, cur, role>>
  /\ UNCHANGED <<job, mode, todo, sched, lock, accepted, lostAck, crashes, userOps>>

\* A failed receipt is deleted, whatever its status is by now.
DropReceipt(p) ==
  /\ pc[p] = "drop"
  /\ rows' = [rows EXCEPT ![cur[p]] = NoRow]
  /\ fate' = [fate EXCEPT ![cur[p]] = IF @ = "open" THEN "dropped" ELSE @]
  /\ Release(p, "next")
  /\ UNCHANGED <<job, todo, lock, accepted, lostAck, crashes, userOps>>

(* --- deliver, on the app's net thread ---------------------------------- *)

\* The job runs: it submits the row it was born owning, without a claim.
StartDeliver(r) ==
  /\ pc[Gui] = "idle" /\ job[r] = "queued"
  /\ job' = [job EXCEPT ![r] = "none"]
  /\ mode' = [mode EXCEPT ![Gui] = "deliver"]
  /\ cur' = [cur EXCEPT ![Gui] = r]
  /\ \/ Goto(Gui, "get")
     \/ Goto(Gui, "discard")      \* no account or no password
  /\ UNCHANGED <<rows, todo, sched, role, lock, ghostVars, crashes, userOps>>

\* PreparedSend::fail: the user is told; the bytes go so nothing resends it.
TellFailure(p) ==
  /\ pc[p] = "discard"
  /\ rows' = [rows EXCEPT ![cur[p]] = fail_and_discard(@)]
  /\ fate' = [fate EXCEPT ![cur[p]] = "told"]
  /\ Release(p, "idle")
  /\ UNCHANGED <<job, todo, lock, accepted, lostAck, crashes, userOps>>

(* --- charge_unreachable / fail_due_scheduled ---------------------------- *)

\* The rows that are due when the password turned out to be unreadable.
SelectDue(p) ==
  /\ pc[p] = "unreachable"
  /\ todo' = [todo EXCEPT ![p] = {r \in Ids : DueScheduled(rows[r])}]
  /\ Goto(p, "charge")
  /\ UNCHANGED <<rows, job, mode, cur, sched, role, lock, ghostVars, crashes, userOps>>

\* One failed attempt for a row of the snapshot, whoever has it by now; a row
\* that is gone ends the loop with an error.
Charge(p, r) ==
  /\ pc[p] = "charge" /\ r \in todo[p]
  /\ rows' = [rows EXCEPT ![r] = fail_scheduled_attempt(@, FALSE)]
  /\ todo' = [todo EXCEPT ![p] = IF rows[r].status = "none" THEN {} ELSE @ \ {r}]
  /\ UNCHANGED <<job, pc, mode, cur, sched, role, lock, ghostVars, crashes, userOps>>

EndCharge(p) ==
  /\ pc[p] = "charge" /\ todo[p] = {}
  /\ Goto(p, "notices")
  /\ UNCHANGED <<rows, job, mode, cur, todo, sched, role, lock, ghostVars,
                 crashes, userOps>>

(* --- take_failure_notices ----------------------------------------------- *)

SelectNotices(p) ==
  /\ pc[p] = "notices"
  /\ todo' = [todo EXCEPT ![p] = {r \in Ids : Noticeable(rows[r])}]
  /\ Goto(p, "report")
  /\ UNCHANGED <<rows, job, mode, cur, sched, role, lock, ghostVars, crashes, userOps>>

Report(p, r) ==
  /\ pc[p] = "report" /\ r \in todo[p]
  /\ rows' = [rows EXCEPT ![r] = Update(@, [@ EXCEPT !.noticed = TRUE])]
  /\ todo' = [todo EXCEPT ![p] = @ \ {r}]
  /\ UNCHANGED <<job, pc, mode, cur, sched, role, lock, ghostVars, crashes, userOps>>

EndNotices(p) ==
  /\ pc[p] = "report" /\ todo[p] = {}
  /\ Goto(p, "idle") /\ Unlock(p)
  /\ mode' = [mode EXCEPT ![p] = "none"]
  /\ UNCHANGED <<rows, job, cur, todo, sched, role, ghostVars, crashes, userOps>>

(* --- the user's outbox actions (UI thread) ------------------------------ *)

UserOp ==
  /\ userOps < MaxUserOps
  /\ userOps' = userOps + 1
  /\ UNCHANGED <<job, procVars, lock, accepted, lostAck, crashes>>

Reschedule(r, d) ==
  /\ d > SCHEDULE_LEAD
  /\ rows[r].status \in HELD_STATUSES /\ rows[r].bytes
  /\ rows' = [rows EXCEPT ![r] =
                [Restarted(@) EXCEPT !.status = "scheduled", !.at = d]]
  /\ fate' = fate
  /\ UserOp

SendNow(r) ==
  /\ rows[r].status \in HELD_STATUSES /\ rows[r].bytes
  /\ rows' = [rows EXCEPT ![r] =
                [Restarted(@) EXCEPT !.status = "queued", !.at = 0]]
  /\ fate' = fate
  /\ UserOp

\* Faulty variant: a delete that does not look at the status.
Dismiss_Sending(r) ==
  /\ rows[r].status \in HELD_STATUSES \cup {"sending"}
  /\ rows' = [rows EXCEPT ![r] = NoRow]
  /\ fate' = [fate EXCEPT ![r] = IF @ = "told" THEN @ ELSE "withdrawn"]
  /\ UserOp

\* dismiss; take_for_edit ends in the same conditional delete.
Dismiss(r) ==
  /\ rows[r].status \in HELD_STATUSES
  /\ rows' = [rows EXCEPT ![r] = NoRow]
  /\ fate' = [fate EXCEPT ![r] = IF @ = "told" THEN @ ELSE "withdrawn"]
  /\ UserOp

\* The account is removed: its rows cascade away, a `sending` one too.
RemoveAccount ==
  /\ rows' = [r \in Ids |-> NoRow]
  /\ fate' = [r \in Ids |-> IF fate[r] = "open" THEN "removed" ELSE fate[r]]
  /\ UserOp

(* --- environment -------------------------------------------------------- *)

\* The process dies.  With the app die its pending jobs; the kernel drops the
\* lock.  An acceptance not yet recorded is lost.
Crash(p) ==
  /\ crashes < MaxCrashes
  /\ pc[p] # "idle" \/ (p = Gui /\ \E r \in Ids : job[r] # "none")
  /\ crashes' = crashes + 1
  /\ lostAck' = IF pc[p] = "accepted" THEN [lostAck EXCEPT ![cur[p]] = @ + 1]
                                      ELSE lostAck
  /\ job' = IF p = Gui THEN [r \in Ids |-> "none"] ELSE job
  /\ Release(p, "idle")
  /\ todo' = [todo EXCEPT ![p] = {}]
  /\ Unlock(p)
  /\ UNCHANGED <<rows, fate, accepted, userOps>>

\* Time passes, but not so far that a live owner outstays its welcome.
Tick ==
  /\ \A p \in Procs, r \in Ids :
       Owns(p, r) /\ rows[r].status # "none" => rows[r].idle < MaxHold
  /\ \A r \in Ids :
       job[r] # "none" /\ rows[r].status # "none" => rows[r].idle < MaxQueued
  /\ rows' = [r \in Ids |-> Older(rows[r])]
  /\ UNCHANGED <<job, procVars, lock, ghostVars, crashes, userOps>>

-----------------------------------------------------------------------------
Compose ==
  \E r \in Ids :
    \/ PrepareSend(r) \/ SpawnDeliver(r) \/ AbandonSend(r)
    \/ \E d \in SendTimes, notify \in BOOLEAN : PrepareScheduled(r, d, notify)

User ==
  \/ \E r \in Ids : SendNow(r) \/ Dismiss(r) \/ \E d \in SendTimes : Reschedule(r, d)
  \/ RemoveAccount

\* The steps of a run that is under way.
Step(p) ==
  \/ Recover(p) \/ Promote(p) \/ List(p) \/ EndFlush(p)
  \/ Get(p) \/ Refresh(p) \/ SmtpAccept(p) \/ SmtpLostReply(p)
  \/ SmtpReject(p, "rejected") \/ SmtpReject(p, "refused")
  \/ RecordSent(p) \/ RecordFailure(p) \/ SelfReceipt(p) \/ DropReceipt(p)
  \/ TellFailure(p) \/ SelectDue(p) \/ EndCharge(p) \/ SelectNotices(p) \/ EndNotices(p)
  \/ \E r \in Ids : Claim(p, r) \/ Charge(p, r) \/ Report(p, r)

Start(p) == BeginSync(p) \/ BeginDue(p)

Next ==
  \/ Compose \/ User \/ Tick
  \/ \E r \in Ids : StartDeliver(r)
  \/ \E p \in Procs : Start(p) \/ Step(p) \/ Crash(p)

Spec == Init /\ [][Next]_vars

-----------------------------------------------------------------------------
(* What the runs promise.                                                  *)

PCs == {"idle", "recover", "promote", "list", "next", "discard", "drop",
        "receipt", "unreachable", "charge", "notices", "report"} \cup OwnPCs

TypeOK ==
  /\ rows \in [Ids -> Row]
  /\ job \in [Ids -> {"none", "prepared", "queued"}]
  /\ pc \in [Procs -> PCs]
  /\ mode \in [Procs -> {"none", "sync", "due", "deliver"}]
  /\ cur \in [Procs -> Ids \cup {None}]
  /\ todo \in [Procs -> SUBSET Ids]
  /\ sched \in [Procs -> BOOLEAN]
  /\ role \in [Procs -> {"plain", "wants_receipt", "is_receipt"}]
  /\ lock \in Procs \cup {None}
  /\ fate \in [Ids -> {"none", "open", "told", "withdrawn", "dropped", "removed"}]
  /\ accepted \in [Ids -> Nat]
  /\ lostAck \in [Ids -> Nat]
  /\ crashes \in 0..MaxCrashes
  /\ userOps \in 0..MaxUserOps
  /\ \A p \in Procs : pc[p] \in OwnPCs \cup {"discard", "drop"} => cur[p] \in Ids

(* The claim is what keeps two runs from submitting one row: as long as the *)
(* user was not told that the send failed, a row has at most one live owner *)
(* (queue::claim; rows born `sending` in enqueue_mime).                     *)
OneOwner ==
  \A r \in Ids : fate[r] # "told" =>
    /\ \A p, q \in Procs : Owns(p, r) /\ Owns(q, r) => p = q
    /\ \A p \in Procs : Owns(p, r) => job[r] = "none"

(* No message goes out twice: beyond the acceptances whose confirmation was *)
(* lost (a crash before mark_sent, a lost SMTP reply), the servers take a   *)
(* mail at most once, however flushes, deliveries and user actions overlap. *)
AtMostOnce ==
  \A r \in Ids : fate[r] # "told" => accepted[r] <= 1 + lostAck[r]

(* No message is lost: a mail that no server took and the user neither      *)
(* withdrew nor was told about is still in the table with its bytes,        *)
(* whatever crashed in between (queue::requeue_interrupted, mark_sent,      *)
(* prune_sent).                                                             *)
NothingLost ==
  \A r \in Ids : fate[r] = "open" /\ accepted[r] = 0 =>
    rows[r].status \in {"queued", "sending", "failed", "scheduled"} /\ rows[r].bytes

(* A mail the user took back (outbox::dismiss, outbox::take_for_edit, an    *)
(* abandoned compose) never reaches a server afterwards.                    *)
WithdrawnStays ==
  [][\A r \in Ids : fate[r] = "withdrawn" => accepted'[r] = accepted[r]]_vars

(* A row is claimed only while it is submittable: due, out of its pause and *)
(* with attempts left (queue::list_submittable, queue::claim).              *)
ClaimsWhatIsDue ==
  \A r \in Ids :
    rows[r].status # "sending" /\ rows'[r].status = "sending"
      => rows[r].status = "none" \/ Submittable(rows[r])

(* A row recorded as sent is never turned into a failed one by a run that   *)
(* does not own it (queue::mark_sent against queue::fail_due_scheduled).    *)
SentIsFinal ==
  [][\A r \in Ids : rows[r].status = "sent" =>
       rows'[r].status \in {"sent", "none"} \/ fate'[r] = "told"]_vars

-----------------------------------------------------------------------------
(* What the outbox dialog shows (outbox.rs).                                *)

\* Faulty variant: a row that gave up is shown as retrying.
RowKind_NoLimit(row) ==
  CASE row.status \in {"scheduled", "queued"} -> row.status
    [] row.status = "failed" /\ row.bytes -> "retrying"
    [] row.status = "failed" /\ ~row.bytes -> "failed"
    [] OTHER -> "sending"

RowKind(row) ==
  CASE row.status = "scheduled" -> "scheduled"
    [] row.status = "queued" -> "queued"
    [] row.status = "failed" /\ row.bytes /\ row.retries < MAX_SEND_RETRIES -> "retrying"
    [] row.status = "failed" /\ ~(row.bytes /\ row.retries < MAX_SEND_RETRIES) -> "failed"
    [] OTHER -> "sending"

RowActions(row) ==
  LET kind == RowKind(row)
      movable == row.bytes /\ kind # "sending" IN
  {a \in {"send_now", "reschedule", "edit", "delete"} :
     \/ a = "send_now" /\ row.bytes /\ kind \in {"scheduled", "retrying", "failed"}
     \/ a \in {"reschedule", "edit"} /\ movable
     \/ a = "delete" /\ kind # "sending"}

\* list_json's `retryable`, computed from the kind and the pause alone.
ShownRetryable(row) ==
  RowKind(row) \in {"queued", "retrying"} /\ row.bytes /\ row.pause = 0

Shown == {r \in Ids : rows[r].status \in {"queued", "sending", "failed", "scheduled"}}

\* A failed row whose time is still to come: the user rescheduled it while a
\* charge, or a delivery that lost its row, was about to record a failure.
Overtaken(row) == row.status = "failed" /\ row.at > 0

(* The outbox dialog tells the truth: a row shown as retryable is one the    *)
(* next flush submits, unless a charge overtook the user (list_json looks at *)
(* the pause only), and a row that neither waits for its time nor is being   *)
(* sent offers the user a way out (outbox::list_json, RowActions::of against *)
(* list_submittable, reschedule, send_now, dismiss).                         *)
ViewHonest ==
  \A r \in Shown :
    /\ ~Overtaken(rows[r]) => (ShownRetryable(rows[r]) <=> Submittable(rows[r]))
    /\ rows[r].status \in HELD_STATUSES =>
         /\ "delete" \in RowActions(rows[r])
         /\ rows[r].bytes => {"reschedule", "edit"} \subseteq RowActions(rows[r])
    /\ rows[r].status \notin HELD_STATUSES => RowActions(rows[r]) = {}

-----------------------------------------------------------------------------
(* What the ownership argument needs of the environment.                    *)

\* No live submit and no waiting delivery job outlasts the lease of its row.
LiveSubmitsAreQuick == MaxHold <= STALE_SENDING /\ MaxQueued <= STALE_SENDING

\* No run charges rows it does not own.
KeyringReadable == Chargers = {}

-----------------------------------------------------------------------------
(* The inductive invariant behind OneOwner, AtMostOnce and NothingLost.     *)

\* An id not handed out yet has left no trace.
FreshInv(r) == fate[r] = "none" =>
  /\ rows[r].status = "none" /\ job[r] = "none"
  /\ accepted[r] = lostAck[r]
  /\ \A p \in Procs : cur[p] # r

\* A job is spent before its row is in any run's hands.
JobInv(r) ==
  /\ \A p \in Procs : cur[p] = r => job[r] = "none"
  /\ fate[r] = "told" => job[r] = "none"

\* An owned row is `sending`, keeps its bytes and its lease is not over.
HoldInv(r) ==
  /\ \A p \in Procs :
       Owns(p, r) /\ rows[r].status # "none" => rows[r].status = "sending"
  /\ job[r] # "none" /\ rows[r].status # "none" => rows[r].status = "sending"
  /\ (\E p \in Procs : Owns(p, r)) \/ job[r] # "none"
       => rows[r].status = "none" \/ (rows[r].bytes /\ rows[r].idle <= STALE_SENDING)

\* Bytes go only with the last word on a row.
BytesInv(r) == rows[r].status \in HELD_STATUSES \cup {"sending"} => rows[r].bytes

OwnerInv(r) == \A p, q \in Procs : Owns(p, r) /\ Owns(q, r) => p = q

\* Exactly the recorded deliveries and those about to be recorded are
\* confirmed; a row anyone may still submit has none.
CountInv(r) ==
  /\ accepted[r] = lostAck[r] \/ accepted[r] = lostAck[r] + 1
  /\ \A p \in Procs : Owns(p, r) =>
       accepted[r] = lostAck[r] + (IF pc[p] = "accepted" THEN 1 ELSE 0)
  /\ job[r] # "none" => accepted[r] = lostAck[r]
  /\ rows[r].status \in HELD_STATUSES => accepted[r] = lostAck[r]
  /\ rows[r].status = "sending" /\ (\A p \in Procs : ~Owns(p, r))
       => accepted[r] = lostAck[r]

WithdrawnInv(r) == fate[r] = "withdrawn" =>
  rows[r].status = "none" /\ job[r] = "none" /\ \A p \in Procs : ~Owns(p, r)

KeptInv(r) == fate[r] = "open" /\ accepted[r] = 0 =>
  rows[r].status \in {"queued", "sending", "failed", "scheduled"} /\ rows[r].bytes

RowInv(r) ==
  /\ FreshInv(r) /\ JobInv(r) /\ WithdrawnInv(r) /\ KeptInv(r)
  /\ fate[r] # "told" => HoldInv(r) /\ BytesInv(r) /\ OwnerInv(r) /\ CountInv(r)

ChargeInv == \A p \in Procs : pc[p] \in {"unreachable", "charge"} => p \in Chargers

(* Ownership, as an inductive invariant: a mail of which the user was not    *)
(* told a failure is in at most one pair of hands, those hold it as          *)
(* `sending` within its lease, and confirmed acceptances match the table     *)
(* (queue::claim, requeue_interrupted, submit_claimed_via).                  *)
IInv == TypeOK /\ ChargeInv /\ \A r \in Ids : RowInv(r)

-----------------------------------------------------------------------------
(* The outbox implements SendPromise.                                       *)

PromiseState ==
  [r \in Ids |-> IF fate[r] \in {"none", "told", "withdrawn"} THEN fate[r]
                 ELSE IF accepted[r] > lostAck[r] THEN "delivered" ELSE "pending"]

Promise == INSTANCE SendPromise WITH
  Mails <- Ids, state <- PromiseState, copies <- accepted, unconfirmed <- lostAck

(* Every step of the outbox is a step of SendPromise or invisible to it:     *)
(* deliveries, withdrawals and told failures (compose::deliver,              *)
(* flush_outbox, outbox::dismiss) come in the order it allows.               *)
PromiseSpec == Promise!Spec

-----------------------------------------------------------------------------
(* Liveness.  Time passes; a run under way goes on (every SMTP exchange has  *)
(* a socket timeout); the composer hands its job over and the net thread     *)
(* takes it; periodic checks come round again; and while a scheduled send is *)
(* due the timer or alarm that next_due arms, retried within a minute when   *)
(* the lock is taken, gets its run in sometime.                              *)
DueNow == \E r \in Ids : DueScheduled(rows[r])

Fairness ==
  /\ WF_vars(Tick)
  /\ \A p \in Procs : WF_vars(Step(p)) /\ SF_vars(BeginSync(p))
  /\ \A r \in Ids : WF_vars(SpawnDeliver(r)) /\ SF_vars(StartDeliver(r))
  /\ SF_vars(DueNow /\ \E p \in Procs : BeginDue(p))

FairSpec == Spec /\ Fairness

\* Nothing is left to do for row r without the user.
Settled(r) ==
  \/ rows[r].status \in {"none", "sent"}
  \/ rows[r].status = "failed" /\ (rows[r].retries >= MAX_SEND_RETRIES \/ ~rows[r].bytes)

(* Every composed mail is settled in the end: sent, given up or reported --  *)
(* a crashed submit is found again, a paused row wakes up, none hangs in     *)
(* `sending` (queue::requeue_interrupted, promote_due,                       *)
(* fail_scheduled_attempt).                                                  *)
EventuallySettled == \A r \in Ids : fate[r] = "open" ~> Settled(r)
=============================================================================
