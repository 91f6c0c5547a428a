---------------------------- MODULE OutboxProofs ----------------------------
(***************************************************************************)
(* Theorems about Outbox, for any number of rows and runs, any send times, *)
(* back-off table, lease and retention, and any number of crashes.         *)
(*                                                                         *)
(* First types.  Then ownership: a mail is in at most one pair of hands,   *)
(* by the inductive invariant IInv of Outbox, and what follows from it: no *)
(* mail goes out twice or is lost, what was sent or taken back stays so,   *)
(* and the whole outbox does what SendPromise says.  In between, for a     *)
(* single process, what is claimed and what the outbox dialog shows.       *)
(*                                                                         *)
(* Two assumptions on the environment are needed for ownership.  A live    *)
(* submit and a waiting delivery job must not outlast the lease of their   *)
(* row (nothing in the code renews it), and no run may charge rows it does *)
(* not own (the run outbox_charge shows a run that does).                  *)
(***************************************************************************)
EXTENDS Outbox, TLAPS

-----------------------------------------------------------------------------
(* The statements of store/queue.rs yield rows.                            *)

\* The inserts of enqueue_mime and enqueue_scheduled_mime build rows.
LEMMA BornRows ==
  /\ NoRow \in Row /\ ImmediateRow \in Row
  /\ \A d \in Nat, b \in BOOLEAN : ScheduledRow(d, b) \in Row
<1>1. NoRow \in Row
  BY DEF NoRow, Row, Statuses
<1>2. ImmediateRow \in Row
  BY <1>1 DEF ImmediateRow, Row, Statuses
<1>3. ASSUME NEW d \in Nat, NEW b \in BOOLEAN
      PROVE  ScheduledRow(d, b) \in Row
  <2>1. d \in Int
    OBVIOUS
  <2>2. [NoRow EXCEPT !.status = "scheduled", !.bytes = TRUE, !.planned = TRUE,
                      !.at = d, !.notify_self = b] \in Row
    BY <1>1, <2>1 DEF Row, Statuses
  <2> QED
    BY <2>2 DEF ScheduledRow
<1> QED
  BY <1>1, <1>2, <1>3

\* Ageing a row (a tick of the clock) yields a row.
LEMMA OlderRow ==
  ASSUME NEW row \in Row
  PROVE  Older(row) \in Row
<1> DEFINE a == IF row.planned /\ row.at >= -SCHEDULED_DEADLINE
                  THEN row.at - 1 ELSE row.at
           b == IF row.pause > 0 THEN row.pause - 1 ELSE 0
           c == IF row.idle <= SENT_RETENTION THEN row.idle + 1 ELSE row.idle
<1>1. a \in Int
  BY DEF Row
<1>2. b \in Nat /\ c \in Nat
  BY DEF Row
<1> HIDE DEF a, b, c
<1>3. [row EXCEPT !.at = a, !.pause = b, !.idle = c] \in Row
  BY <1>1, <1>2 DEF Row
<1> QED
  BY <1>3 DEF Older, Update, a, b, c

\* The updates of a flush and of a submit turn a row into a row.
LEMMA RowStatements ==
  ASSUME NEW row \in Row
  PROVE  /\ requeue_interrupted(row) \in Row
         /\ promote_due(row) \in Row
         /\ prune_sent(row) \in Row
         /\ claim(row) \in Row
         /\ mark_sent(row) \in Row
         /\ mark_failed(row) \in Row
         /\ fail_and_discard(row) \in Row
         /\ update_raw_mime(row) \in Row
<1>1. requeue_interrupted(row) \in Row
  BY DEF requeue_interrupted, Row, Statuses
<1>2. promote_due(row) \in Row
  BY DEF promote_due, Row, Statuses
<1>3. prune_sent(row) \in Row
  BY BornRows DEF prune_sent
<1>4. claim(row) \in Row /\ mark_sent(row) \in Row
  BY DEF claim, mark_sent, Update, Row, Statuses
<1>5. mark_failed(row) \in Row
  <2>1. row.retries + 1 \in Nat
    BY DEF Row
  <2>2. [row EXCEPT !.status = "failed", !.retries = @ + 1, !.idle = 0] \in Row
    BY <2>1 DEF Row, Statuses
  <2> QED
    BY <2>2 DEF mark_failed, Update
<1>6. fail_and_discard(row) \in Row /\ update_raw_mime(row) \in Row
  BY DEF fail_and_discard, update_raw_mime, Update, Row, Statuses
<1> QED
  BY <1>1, <1>2, <1>3, <1>4, <1>5, <1>6

\* A failed attempt of a scheduled send yields a row: as long as it does not
\* give up, the back-off table has an entry for it.
LEMMA FailedAttempt ==
  ASSUME NEW row \in Row, NEW permanent \in BOOLEAN
  PROVE  fail_scheduled_attempt(row, permanent) \in Row
<1> DEFINE g == GivesUp(row, permanent)
           a == IF g THEN MAX_SEND_RETRIES ELSE row.retries + 1
           b == IF g THEN 0 ELSE SCHEDULED_BACKOFF[row.retries + 1]
<1>1. a \in Nat
  BY ConstantsOK DEF Row
<1>2. b \in Nat
  <2>1. CASE g
    BY <2>1
  <2>2. CASE ~g
    <3>1. row.retries + 1 \in 1..Len(SCHEDULED_BACKOFF)
      BY <2>2, ConstantsOK DEF GivesUp, Row
    <3> QED
      BY <2>2, <3>1, ConstantsOK
  <2> QED
    BY <2>1, <2>2
<1> HIDE DEF a, b
<1>3. [row EXCEPT !.status = "failed", !.idle = 0, !.noticed = FALSE,
                  !.retries = a, !.pause = b] \in Row
  BY <1>1, <1>2 DEF Row, Statuses
<1> QED
  BY <1>3 DEF fail_scheduled_attempt, Update, a, b, g

\* The user's reschedule and send_now yield rows.
LEMMA RestartedRow ==
  ASSUME NEW row \in Row, NEW d \in Nat
  PROVE  /\ [Restarted(row) EXCEPT !.status = "scheduled", !.at = d] \in Row
         /\ [Restarted(row) EXCEPT !.status = "queued", !.at = 0] \in Row
<1>1. Restarted(row) \in Row
  BY DEF Restarted, Row
<1>2. d \in Int /\ 0 \in Int
  OBVIOUS
<1> QED
  BY <1>1, <1>2 DEF Row, Statuses

-----------------------------------------------------------------------------
(* Type correctness.                                                       *)

\* What a run is left with when it lets go of its row.
LEMMA TypeRelease ==
  ASSUME TypeOK, NEW p \in Procs, NEW l \in {"idle", "next", "receipt"}, Release(p, l)
  PROVE  /\ pc' \in [Procs -> PCs]
         /\ mode' \in [Procs -> {"none", "sync", "due", "deliver"}]
         /\ cur' \in [Procs -> Ids \cup {None}]
         /\ sched' \in [Procs -> BOOLEAN]
         /\ role' \in [Procs -> {"plain", "wants_receipt", "is_receipt"}]
         /\ \A q \in Procs : pc'[q] \in OwnPCs \cup {"discard", "drop"} => cur'[q] \in Ids
<1>1. /\ pc' \in [Procs -> PCs]
      /\ cur' \in [Procs -> Ids \cup {None}]
      /\ sched' \in [Procs -> BOOLEAN]
      /\ role' \in [Procs -> {"plain", "wants_receipt", "is_receipt"}]
  BY DEF TypeOK, Release, Goto, PCs
<1>2. mode' \in [Procs -> {"none", "sync", "due", "deliver"}]
  BY DEF TypeOK, Release
<1>3. \A q \in Procs : pc'[q] \in OwnPCs \cup {"discard", "drop"} => cur'[q] \in Ids
  BY DEF TypeOK, Release, Goto, OwnPCs
<1> QED
  BY <1>1, <1>2, <1>3

\* And after a failed submit.
LEMMA TypeAfterFailure ==
  ASSUME TypeOK, NEW p \in Procs, pc[p] \in OwnPCs, AfterFailure(p)
  PROVE  /\ pc' \in [Procs -> PCs]
         /\ mode' \in [Procs -> {"none", "sync", "due", "deliver"}]
         /\ cur' \in [Procs -> Ids \cup {None}]
         /\ sched' \in [Procs -> BOOLEAN]
         /\ role' \in [Procs -> {"plain", "wants_receipt", "is_receipt"}]
         /\ \A q \in Procs : pc'[q] \in OwnPCs \cup {"discard", "drop"} => cur'[q] \in Ids
<1>1. CASE Failed(p) = "next"
  BY <1>1, TypeRelease DEF AfterFailure
<1>2. CASE Failed(p) # "next"
  <2>1. Failed(p) \in {"discard", "drop"}
    BY <1>2 DEF Failed
  <2>2. Goto(p, Failed(p)) /\ UNCHANGED <<mode, cur, sched, role>>
    BY <1>2 DEF AfterFailure
  <2> QED
    BY <2>1, <2>2 DEF TypeOK, PCs, OwnPCs, Goto
<1> QED
  BY <1>1, <1>2

\* A step of a run preserves the types.
LEMMA TypeStep ==
  ASSUME TypeOK, NEW p \in Procs, Step(p)
  PROVE  TypeOK'
<1> USE ConstantsOK DEF TypeOK, PCs, OwnPCs, procVars, ghostVars, Goto
<1>1. CASE Recover(p)
  <2>1. rows' \in [Ids -> Row]
    BY <1>1, RowStatements DEF Recover
  <2> QED
    BY <1>1, <2>1 DEF Recover
<1>2. CASE Promote(p)
  <2>1. rows' \in [Ids -> Row]
    BY <1>2, RowStatements DEF Promote
  <2> QED
    BY <1>2, <2>1 DEF Promote
<1>3. CASE List(p)
  BY <1>3 DEF List
<1>4. CASE EndFlush(p)
  <2>1. lock' \in Procs \cup {None}
    BY <1>4 DEF EndFlush, Unlock
  <2>2. mode' \in [Procs -> {"none", "sync", "due", "deliver"}]
    BY <1>4 DEF EndFlush
  <2>3. \E l \in {"notices", "idle"} : pc' = [pc EXCEPT ![p] = l]
    BY <1>4 DEF EndFlush
  <2>4. UNCHANGED <<rows, job, cur, todo, sched, role, ghostVars, crashes, userOps>>
    BY <1>4 DEF EndFlush
  <2> QED
    BY <2>1, <2>2, <2>3, <2>4
<1>5. CASE Get(p)
  <2>1. UNCHANGED <<rows, job, todo, lock, ghostVars, crashes, userOps>>
    BY <1>5 DEF Get
  <2>2. CASE AfterFailure(p)
    <3>1. pc[p] \in OwnPCs
      BY <1>5 DEF Get
    <3> QED
      BY <2>1, <2>2, <3>1, TypeAfterFailure
  <2>3. CASE /\ \E l \in {"refresh", "smtp"} : pc' = [pc EXCEPT ![p] = l]
             /\ sched' = [sched EXCEPT ![p] = rows[cur[p]].planned]
             /\ UNCHANGED <<mode, cur, role>>
    <3>1. cur[p] \in Ids /\ pc[p] \in OwnPCs
      BY <1>5 DEF Get
    <3>2. sched' \in [Procs -> BOOLEAN]
      BY <2>3, <3>1 DEF Row
    <3> QED
      BY <2>1, <2>3, <3>1, <3>2
  <2> QED
    BY <1>5, <2>2, <2>3 DEF Get
<1>6. CASE Refresh(p)
  <2>1. rows' \in [Ids -> Row]
    BY <1>6, RowStatements DEF Refresh
  <2> QED
    BY <1>6, <2>1 DEF Refresh
<1>7. CASE SmtpAccept(p)
  BY <1>7 DEF SmtpAccept
<1>8. CASE SmtpLostReply(p)
  BY <1>8 DEF SmtpLostReply
<1>9. CASE SmtpReject(p, "rejected") \/ SmtpReject(p, "refused")
  <2>1. \E l \in {"rejected", "refused"} : pc' = [pc EXCEPT ![p] = l]
    BY <1>9 DEF SmtpReject
  <2>2. /\ cur[p] \in Ids
        /\ UNCHANGED <<rows, job, mode, cur, todo, sched, role, lock, ghostVars, crashes, userOps>>
    BY <1>9 DEF SmtpReject
  <2> QED
    BY <2>1, <2>2
<1>10. CASE RecordSent(p)
  <2>1. rows' \in [Ids -> Row]
    BY <1>10, RowStatements DEF RecordSent
  <2> QED
    BY <1>10, <2>1, TypeRelease DEF RecordSent
<1>11. CASE RecordFailure(p)
  <2>1. rows' \in [Ids -> Row]
    BY <1>11, RowStatements, FailedAttempt DEF RecordFailure
  <2> QED
    BY <1>11, <2>1, TypeAfterFailure DEF RecordFailure
<1>12. CASE SelfReceipt(p)
  <2>1. CASE UNCHANGED <<rows, fate, cur, role>> /\ Goto(p, "next")
    BY <1>12, <2>1 DEF SelfReceipt
  <2>2. ASSUME NEW q \in Ids,
               rows' = [rows EXCEPT ![q] = ImmediateRow],
               fate' = [fate EXCEPT ![q] = "open"],
               cur' = [cur EXCEPT ![p] = q],
               role' = [role EXCEPT ![p] = "is_receipt"],
               Goto(p, "get")
        PROVE  TypeOK'
    <3>1. rows' \in [Ids -> Row]
      BY <2>2, BornRows
    <3>2. UNCHANGED <<job, mode, todo, sched, lock, accepted, lostAck, crashes, userOps>>
      BY <1>12 DEF SelfReceipt
    <3> QED
      BY <2>2, <3>1, <3>2
  <2> QED
    BY <1>12, <2>1, <2>2 DEF SelfReceipt, Fresh
<1>13. CASE DropReceipt(p)
  BY <1>13, BornRows DEF DropReceipt, Release
<1>14. CASE TellFailure(p)
  <2>1. rows' \in [Ids -> Row]
    BY <1>14, RowStatements DEF TellFailure
  <2> QED
    BY <1>14, <2>1 DEF TellFailure, Release
<1>15. CASE SelectDue(p) \/ EndCharge(p) \/ SelectNotices(p) \/ EndNotices(p)
  <2>1. CASE SelectDue(p) \/ EndCharge(p) \/ SelectNotices(p)
    <3>1. CASE EndCharge(p)
      BY <3>1 DEF EndCharge
    <3>2. CASE SelectNotices(p)
      BY <3>2 DEF SelectNotices
    <3>3. CASE SelectDue(p)
      BY <3>3 DEF SelectDue
    <3> QED
      BY <2>1, <3>1, <3>2, <3>3
  <2>2. CASE EndNotices(p)
    <3>1. lock' \in Procs \cup {None}
      BY <2>2 DEF EndNotices, Unlock
    <3> QED
      BY <2>2, <3>1 DEF EndNotices
  <2> QED
    BY <1>15, <2>1, <2>2
<1>16. ASSUME NEW r \in Ids, Claim(p, r)
       PROVE  TypeOK'
  <2>1. rows' \in [Ids -> Row]
    <3>1. claim(rows[r]) \in Row
      BY RowStatements
    <3>2. rows' \in {rows, [rows EXCEPT ![r] = claim(rows[r])]}
      BY <1>16 DEF Claim
    <3> QED
      BY <3>1, <3>2
  <2>2. /\ todo' = [todo EXCEPT ![p] = @ \ {r}]
        /\ UNCHANGED <<job, mode, sched, lock, ghostVars, crashes, userOps>>
    BY <1>16 DEF Claim
  <2>3. \/ UNCHANGED <<cur, role, pc>>
        \/ /\ cur' = [cur EXCEPT ![p] = r] /\ pc' = [pc EXCEPT ![p] = "get"]
           /\ \E l \in {"wants_receipt", "plain"} : role' = [role EXCEPT ![p] = l]
    BY <1>16 DEF Claim
  <2>4. CASE UNCHANGED <<cur, role, pc>>
    BY <2>1, <2>2, <2>4
  <2>5. CASE /\ cur' = [cur EXCEPT ![p] = r] /\ pc' = [pc EXCEPT ![p] = "get"]
             /\ \E l \in {"wants_receipt", "plain"} : role' = [role EXCEPT ![p] = l]
    BY <2>1, <2>2, <2>5
  <2> QED
    BY <2>3, <2>4, <2>5
<1>17. ASSUME NEW r \in Ids, Charge(p, r)
       PROVE  TypeOK'
  <2>1. rows' \in [Ids -> Row]
    BY <1>17, FailedAttempt DEF Charge
  <2> QED
    BY <1>17, <2>1 DEF Charge
<1>18. ASSUME NEW r \in Ids, Report(p, r)
       PROVE  TypeOK'
  <2>1. rows' \in [Ids -> Row]
    <3>1. Update(rows[r], [rows[r] EXCEPT !.noticed = TRUE]) \in Row
      <4>1. rows[r] \in Row
        OBVIOUS
      <4> QED
        BY <4>1 DEF Update, Row
    <3> QED
      BY <1>18, <3>1 DEF Report
  <2> QED
    BY <1>18, <2>1 DEF Report
<1> QED
  BY <1>1, <1>2, <1>3, <1>4, <1>5, <1>6, <1>7, <1>8, <1>9, <1>10, <1>11, <1>12,
     <1>13, <1>14, <1>15, <1>16, <1>17, <1>18 DEF Step

\* Composing, the user, the clock, the start and the end of a run preserve
\* the types.
LEMMA TypeOther ==
  ASSUME TypeOK,
         \/ Compose \/ User \/ Tick
         \/ \E r \in Ids : StartDeliver(r)
         \/ \E p \in Procs : Start(p) \/ Crash(p)
  PROVE  TypeOK'
<1> USE ConstantsOK DEF TypeOK, PCs, OwnPCs, procVars, ghostVars, Goto
<1>1. ASSUME NEW r \in Ids, PrepareSend(r)
      PROVE  TypeOK'
  BY <1>1, BornRows DEF PrepareSend
<1>2. ASSUME NEW r \in Ids, SpawnDeliver(r) \/ AbandonSend(r)
      PROVE  TypeOK'
  <2>1. CASE SpawnDeliver(r)
    BY <2>1 DEF SpawnDeliver
  <2>2. CASE AbandonSend(r)
    BY <2>2, BornRows DEF AbandonSend
  <2> QED
    BY <1>2, <2>1, <2>2
<1>3. ASSUME NEW r \in Ids, NEW d \in SendTimes, NEW b \in BOOLEAN,
             PrepareScheduled(r, d, b)
      PROVE  TypeOK'
  <2>1. ScheduledRow(d, b) \in Row
    BY BornRows
  <2> QED
    BY <1>3, <2>1 DEF PrepareScheduled
<1>4. ASSUME NEW r \in Ids, NEW d \in SendTimes, Reschedule(r, d)
      PROVE  TypeOK'
  <2>1. rows' \in [Ids -> Row]
    BY <1>4, RestartedRow DEF Reschedule
  <2> QED
    <3>1. fate' = fate /\ UserOp
      BY <1>4 DEF Reschedule
    <3> QED
      BY <2>1, <3>1 DEF UserOp
<1>5. ASSUME NEW r \in Ids, SendNow(r)
      PROVE  TypeOK'
  <2>1. rows' \in [Ids -> Row]
    BY <1>5, RestartedRow DEF SendNow
  <2> QED
    <3>1. fate' = fate /\ UserOp
      BY <1>5 DEF SendNow
    <3> QED
      BY <2>1, <3>1 DEF UserOp
<1>6. ASSUME NEW r \in Ids, Dismiss(r)
      PROVE  TypeOK'
  BY <1>6, BornRows DEF Dismiss, UserOp
<1>7. CASE RemoveAccount
  BY <1>7, BornRows DEF RemoveAccount, UserOp
<1>8. CASE Tick
  <2>1. rows' \in [Ids -> Row]
    BY <1>8, OlderRow DEF Tick
  <2> QED
    BY <1>8, <2>1 DEF Tick
<1>9. ASSUME NEW r \in Ids, StartDeliver(r)
      PROVE  TypeOK'
  <2>1. PICK l \in {"get", "discard"} :
          /\ pc' = [pc EXCEPT ![Gui] = l] /\ cur' = [cur EXCEPT ![Gui] = r]
          /\ job' = [job EXCEPT ![r] = "none"] /\ mode' = [mode EXCEPT ![Gui] = "deliver"]
          /\ UNCHANGED <<rows, todo, sched, role, lock, ghostVars, crashes, userOps>>
    BY <1>9 DEF StartDeliver
  <2> QED
    BY <2>1
<1>10. ASSUME NEW p \in Procs, BeginSync(p)
       PROVE  TypeOK'
  BY <1>10 DEF BeginSync
<1>11. ASSUME NEW p \in Procs, BeginDue(p)
       PROVE  TypeOK'
  <2>1. /\ lock' = p /\ mode' = [mode EXCEPT ![p] = "due"]
        /\ UNCHANGED <<rows, job, cur, sched, role, ghostVars, crashes, userOps>>
    BY <1>11 DEF BeginDue
  <2>2. \E l \in {"notices", "recover", "unreachable"} : pc' = [pc EXCEPT ![p] = l]
    BY <1>11 DEF BeginDue
  <2>3. todo' \in [Procs -> SUBSET Ids]
    BY <1>11 DEF BeginDue
  <2>4. PICK l \in {"notices", "recover", "unreachable"} : pc' = [pc EXCEPT ![p] = l]
    BY <2>2
  <2>5. \A q \in Procs : pc'[q] \in OwnPCs \cup {"discard", "drop"} => cur'[q] \in Ids
    BY <2>1, <2>4
  <2>6. mode' \in [Procs -> {"none", "sync", "due", "deliver"}] /\ pc' \in [Procs -> PCs]
    BY <2>1, <2>4
  <2> QED
    BY <2>1, <2>3, <2>5, <2>6
<1>12. ASSUME NEW p \in Procs, Crash(p)
       PROVE  TypeOK'
  BY <1>12 DEF Crash, Release, Unlock
<1> HIDE DEF TypeOK, PCs, OwnPCs, procVars, ghostVars, Goto
<1>13. Compose => TypeOK'
  BY <1>1, <1>2, <1>3, Zenon DEF Compose
<1>14. User => TypeOK'
  BY <1>4, <1>5, <1>6, <1>7, Zenon DEF User
<1>15. ASSUME NEW p \in Procs, Start(p) \/ Crash(p)
       PROVE  TypeOK'
  BY <1>10, <1>11, <1>12, <1>15, Zenon DEF Start
<1> QED
  BY <1>8, <1>9, <1>13, <1>14, <1>15, Zenon

(* Every reachable state of the outbox is well typed: no status, counter or *)
(* run leaves its range, whatever flushes, deliveries, user actions and     *)
(* crashes interleave (store/queue.rs, sync/sender/client.rs).              *)
THEOREM TypeCorrect == Spec => []TypeOK
<1>1. Init => TypeOK
  BY ConstantsOK, BornRows DEF Init, TypeOK, PCs, OwnPCs
<1>2. TypeOK /\ [Next]_vars => TypeOK'
  <2> SUFFICES ASSUME TypeOK, [Next]_vars PROVE TypeOK'
    OBVIOUS
  <2>1. CASE Next
    BY <2>1, TypeStep, TypeOther DEF Next
  <2>2. CASE UNCHANGED vars
    BY <2>2 DEF TypeOK, vars, procVars, ghostVars
  <2> QED
    BY <2>1, <2>2
<1> QED
  BY <1>1, <1>2, PTL DEF Spec

-----------------------------------------------------------------------------
(* What the statements do to the fields the ownership argument looks at.   *)

LEMMA BornFields ==
  /\ NoRow.status = "none"
  /\ ImmediateRow.status = "sending" /\ ImmediateRow.bytes = TRUE /\ ImmediateRow.idle = 0
  /\ \A d \in Nat, b \in BOOLEAN :
       ScheduledRow(d, b).status = "scheduled" /\ ScheduledRow(d, b).bytes = TRUE
BY DEF NoRow, ImmediateRow, ScheduledRow

\* Crash recovery touches only rows whose lease is over.
LEMMA RequeueFields ==
  ASSUME NEW row \in Row, row.status \in HELD_STATUSES \cup {"sending"} => row.bytes
  PROVE  \/ requeue_interrupted(row) = row
         \/ /\ row.status = "sending" /\ row.idle > STALE_SENDING
            /\ requeue_interrupted(row).status = "queued"
            /\ requeue_interrupted(row).bytes = row.bytes
BY DEF requeue_interrupted, HELD_STATUSES, Row

LEMMA PromoteFields ==
  ASSUME NEW row \in Row
  PROVE  \/ prune_sent(promote_due(row)) = row
         \/ /\ row.status = "scheduled"
            /\ prune_sent(promote_due(row)).status = "queued"
            /\ prune_sent(promote_due(row)).bytes = row.bytes
         \/ /\ row.status = "sent"
            /\ prune_sent(promote_due(row)).status = "none"
BY BornFields DEF promote_due, prune_sent, Row

LEMMA ClaimFields ==
  ASSUME NEW row \in Row
  PROVE  claim(row).status = "sending" /\ claim(row).bytes = row.bytes /\ claim(row).idle = 0
BY DEF claim, Row

LEMMA SubmitFields ==
  ASSUME NEW row \in Row
  PROVE  /\ row.status = "none" => mark_sent(row) = row
         /\ row.status # "none" => mark_sent(row).status = "sent"
         /\ row.status = "none" => mark_failed(row) = row
         /\ row.status # "none" =>
              mark_failed(row).status = "failed" /\ mark_failed(row).bytes = row.bytes
         /\ row.status = "none" => update_raw_mime(row) = row
         /\ row.status # "none" =>
              /\ update_raw_mime(row).status = row.status
              /\ update_raw_mime(row).bytes = TRUE /\ update_raw_mime(row).idle = 0
BY DEF mark_sent, mark_failed, update_raw_mime, Update, Row

LEMMA AttemptFields ==
  ASSUME NEW row \in Row, NEW b \in BOOLEAN
  PROVE  /\ row.status = "none" => fail_scheduled_attempt(row, b) = row
         /\ row.status # "none" =>
              /\ fail_scheduled_attempt(row, b).status = "failed"
              /\ fail_scheduled_attempt(row, b).bytes = row.bytes
BY DEF fail_scheduled_attempt, Update, Row

LEMMA RestartedFields ==
  ASSUME NEW row \in Row, NEW d \in Nat
  PROVE  /\ [Restarted(row) EXCEPT !.status = "scheduled", !.at = d].status = "scheduled"
         /\ [Restarted(row) EXCEPT !.status = "scheduled", !.at = d].bytes = row.bytes
         /\ [Restarted(row) EXCEPT !.status = "queued", !.at = 0].status = "queued"
         /\ [Restarted(row) EXCEPT !.status = "queued", !.at = 0].bytes = row.bytes
<1>1. Restarted(row) \in Row /\ Restarted(row).bytes = row.bytes
  BY DEF Restarted, Row
<1> QED
  BY <1>1 DEF Row

LEMMA OlderFields ==
  ASSUME NEW row \in Row
  PROVE  /\ Older(row).status = row.status /\ Older(row).bytes = row.bytes
         /\ Older(row).idle <= row.idle + 1
<1>1. CASE row.status = "none"
  BY <1>1 DEF Older, Update, Row
<1>2. CASE row.status # "none"
  <2>1. /\ Older(row).status = row.status /\ Older(row).bytes = row.bytes
        /\ Older(row).idle = IF row.idle <= SENT_RETENTION THEN row.idle + 1 ELSE row.idle
    BY <1>2 DEF Older, Update, Row
  <2> QED
    BY <2>1 DEF Row
<1> QED
  BY <1>1, <1>2

-----------------------------------------------------------------------------
(* Rows a step does not concern.                                           *)

\* The table and the history keep what the argument needs of row r.
SameRow(r) ==
  /\ rows'[r].status = rows[r].status /\ rows'[r].bytes = rows[r].bytes
  /\ rows'[r].idle = rows[r].idle \/ rows'[r].idle = 0
  /\ job'[r] = job[r] /\ fate'[r] = fate[r]
  /\ accepted'[r] = accepted[r] /\ lostAck'[r] = lostAck[r]

\* No run takes or drops row r, or has it accepted.
SameHands(r) ==
  \A p \in Procs :
    /\ Owns(p, r)' <=> Owns(p, r)
    /\ Owns(p, r) => (pc'[p] = "accepted" <=> pc[p] = "accepted")
    /\ cur'[p] = r => cur[p] = r

\* Run p has no row in its hands any more; the other runs stay as they are.
LetsGo(p) ==
  /\ pc'[p] \notin OwnPCs
  /\ cur'[p] = cur[p] \/ cur'[p] = None
  /\ \A q \in Procs \ {p} : pc'[q] = pc[q] /\ cur'[q] = cur[q]

LEMMA Frame ==
  ASSUME TypeOK, NEW r \in Ids, RowInv(r), SameRow(r), SameHands(r)
  PROVE  RowInv(r)'
<1> USE DEF SameRow, SameHands
<1>1. FreshInv(r)' /\ JobInv(r)' /\ WithdrawnInv(r)' /\ KeptInv(r)'
  BY DEF RowInv, FreshInv, JobInv, WithdrawnInv, KeptInv
<1>2. ASSUME fate[r] # "told"
      PROVE  HoldInv(r)' /\ BytesInv(r)' /\ OwnerInv(r)' /\ CountInv(r)'
  <2>1. HoldInv(r)'
    BY <1>2, ConstantsOK DEF RowInv, HoldInv
  <2>2. BytesInv(r)' /\ OwnerInv(r)'
    BY <1>2 DEF RowInv, BytesInv, OwnerInv
  <2>3. CountInv(r)'
    BY <1>2 DEF RowInv, CountInv
  <2> QED
    BY <2>1, <2>2, <2>3
<1> QED
  BY <1>1, <1>2 DEF RowInv

LEMMA Releases ==
  ASSUME TypeOK, NEW p \in Procs
  PROVE  /\ \A l \in {"idle", "next", "receipt"} : Release(p, l) => LetsGo(p)
         /\ AfterFailure(p) => LetsGo(p)
BY DEF TypeOK, Release, AfterFailure, Failed, Goto, LetsGo, OwnPCs

\* Whoever lets go leaves the other rows alone.
LEMMA OthersKept ==
  ASSUME TypeOK, NEW p \in Procs, LetsGo(p), NEW r \in Ids, ~Owns(p, r)
  PROVE  SameHands(r)
BY ConstantsOK DEF TypeOK, LetsGo, SameHands, Owns

-----------------------------------------------------------------------------
(* One lemma per group of actions, for an arbitrary row r.                 *)

\* The user composes: a fresh row, its job handed over or abandoned.
LEMMA ComposeKeeps ==
  ASSUME IInv, Compose, NEW r \in Ids
  PROVE  RowInv(r)'
<1> USE DEF IInv
<1>1. SUFFICES ASSUME NEW s \in Ids,
                      \/ PrepareSend(s) \/ SpawnDeliver(s) \/ AbandonSend(s)
                      \/ \E d \in SendTimes, b \in BOOLEAN : PrepareScheduled(s, d, b)
               PROVE  RowInv(r)'
  BY DEF Compose
<1>2. RowInv(r) /\ TypeOK /\ UNCHANGED <<pc, cur, accepted, lostAck>>
  BY <1>1 DEF PrepareSend, SpawnDeliver, AbandonSend, PrepareScheduled, procVars, ghostVars
<1>3. CASE r # s
  <2>1. SameRow(r)
    BY <1>1, <1>3 DEF TypeOK, SameRow, PrepareSend, SpawnDeliver, AbandonSend,
                      PrepareScheduled, ghostVars
  <2> QED
    BY <1>2, <2>1, Frame DEF SameHands, Owns
<1>4. CASE r = s /\ PrepareSend(s)
  <2>1. /\ rows'[r] = ImmediateRow /\ job'[r] = "prepared" /\ fate'[r] = "open"
        /\ fate[r] = "none"
    BY <1>4 DEF PrepareSend, TypeOK, Fresh
  <2>2. accepted[r] = lostAck[r] /\ \A p \in Procs : cur[p] # r
    BY <1>2, <2>1 DEF RowInv, FreshInv
  <2> QED
    BY <1>2, <2>1, <2>2, BornFields, ConstantsOK
       DEF RowInv, FreshInv, JobInv, WithdrawnInv, KeptInv, HoldInv, BytesInv,
           OwnerInv, CountInv, Owns, HELD_STATUSES
<1>5. CASE r = s /\ SpawnDeliver(s)
  BY <1>2, <1>5
     DEF SpawnDeliver, TypeOK, ghostVars, RowInv, FreshInv, JobInv, WithdrawnInv,
         KeptInv, HoldInv, BytesInv, OwnerInv, CountInv, Owns
<1>6. CASE r = s /\ AbandonSend(s)
  <2>1. /\ rows'[r] = NoRow /\ job'[r] = "none" /\ fate'[r] = "withdrawn"
        /\ job[r] # "none"
    BY <1>6 DEF AbandonSend, TypeOK
  <2>2. fate[r] # "told" /\ \A p \in Procs : cur[p] # r
    BY <1>2, <2>1 DEF RowInv, JobInv
  <2> QED
    BY <1>2, <2>1, <2>2, BornFields
       DEF RowInv, FreshInv, JobInv, WithdrawnInv, KeptInv, HoldInv, BytesInv,
           OwnerInv, CountInv, Owns, HELD_STATUSES
<1>7. ASSUME NEW d \in SendTimes, NEW b \in BOOLEAN, r = s, PrepareScheduled(s, d, b)
      PROVE  RowInv(r)'
  <2>1. /\ rows'[r] = ScheduledRow(d, b) /\ job'[r] = job[r] /\ fate'[r] = "open"
        /\ fate[r] = "none"
    BY <1>7 DEF PrepareScheduled, TypeOK, Fresh
  <2>2. accepted[r] = lostAck[r] /\ job[r] = "none" /\ \A p \in Procs : cur[p] # r
    BY <1>2, <2>1 DEF RowInv, FreshInv
  <2>3. rows'[r].status = "scheduled" /\ rows'[r].bytes
    BY <2>1, BornFields, ConstantsOK
  <2> QED
    BY <1>2, <2>1, <2>2, <2>3
       DEF RowInv, FreshInv, JobInv, WithdrawnInv, KeptInv, HoldInv, BytesInv,
           OwnerInv, CountInv, Owns, HELD_STATUSES
<1> QED
  BY <1>1, <1>3, <1>4, <1>5, <1>6, <1>7

\* The user acts on a held row: nobody has it in hands.
LEMMA UserKeeps ==
  ASSUME IInv, User, NEW r \in Ids
  PROVE  RowInv(r)'
<1> USE DEF IInv
<1>1. RowInv(r) /\ TypeOK
  OBVIOUS
<1>2. UNCHANGED <<job, pc, cur, accepted, lostAck>>
  BY DEF User, SendNow, Dismiss, Reschedule, RemoveAccount, UserOp, procVars
<1>3. ASSUME NEW s \in Ids,
             \/ SendNow(s) \/ Dismiss(s) \/ \E d \in SendTimes : Reschedule(s, d)
      PROVE  RowInv(r)'
  <2>1. CASE r # s
    <3>1. SameRow(r)
      BY <1>2, <1>3, <2>1 DEF TypeOK, SameRow, SendNow, Dismiss, Reschedule
    <3> QED
      BY <1>1, <1>2, <3>1, Frame DEF SameHands, Owns
  <2>2. CASE r = s /\ Dismiss(s)
    <3>1. /\ rows[r].status \in HELD_STATUSES /\ rows'[r].status = "none"
          /\ fate'[r] = IF fate[r] = "told" THEN "told" ELSE "withdrawn"
      BY <2>2, BornFields DEF Dismiss, TypeOK
    <3>2. fate[r] # "told" => job[r] = "none" /\ \A p \in Procs : ~Owns(p, r)
      BY <1>1, <3>1 DEF RowInv, HoldInv, HELD_STATUSES
    <3> QED
      BY <1>1, <1>2, <3>1, <3>2
         DEF RowInv, FreshInv, JobInv, WithdrawnInv, KeptInv, HoldInv, BytesInv,
             OwnerInv, CountInv, Owns, HELD_STATUSES
  <2>3. CASE r = s /\ (SendNow(s) \/ \E d \in SendTimes : Reschedule(s, d))
    <3>1. /\ rows[r].status \in HELD_STATUSES /\ rows[r].bytes
          /\ rows'[r].status \in HELD_STATUSES /\ rows'[r].bytes
          /\ fate'[r] = fate[r]
      <4>1. rows[r] \in Row
        BY DEF TypeOK
      <4>2. CASE SendNow(s)
        BY <2>3, <4>1, <4>2, RestartedFields DEF SendNow, TypeOK, HELD_STATUSES
      <4>3. ASSUME NEW d \in SendTimes, Reschedule(s, d)
            PROVE  <3>1!:
        <5>1. d \in Nat
          BY ConstantsOK
        <5>2. /\ rows'[r] = [Restarted(rows[r]) EXCEPT !.status = "scheduled", !.at = d]
              /\ rows[r].status \in HELD_STATUSES /\ rows[r].bytes /\ fate'[r] = fate[r]
          BY <2>3, <4>3 DEF Reschedule, TypeOK
        <5>3. rows'[r].status = "scheduled" /\ rows'[r].bytes = rows[r].bytes
          <6>1. /\ [Restarted(rows[r]) EXCEPT !.status = "scheduled", !.at = d].status
                     = "scheduled"
                /\ [Restarted(rows[r]) EXCEPT !.status = "scheduled", !.at = d].bytes
                     = rows[r].bytes
            BY <4>1, <5>1, RestartedFields
          <6>2. rows'[r] = [Restarted(rows[r]) EXCEPT !.status = "scheduled", !.at = d]
            BY <5>2
          <6> HIDE DEF IInv
          <6> QED
            BY ONLY <6>1, <6>2
        <5> QED
          BY <5>2, <5>3 DEF HELD_STATUSES
      <4> QED
        BY <2>3, <4>2, <4>3
    <3>2. fate[r] # "told" => job[r] = "none" /\ \A p \in Procs : ~Owns(p, r)
      BY <1>1, <3>1 DEF RowInv, HoldInv, HELD_STATUSES
    <3> QED
      BY <1>1, <1>2, <3>1, <3>2
         DEF RowInv, FreshInv, JobInv, WithdrawnInv, KeptInv, HoldInv, BytesInv,
             OwnerInv, CountInv, Owns, HELD_STATUSES
  <2> QED
    BY <1>3, <2>1, <2>2, <2>3
<1>4. CASE RemoveAccount
  <2>1. /\ rows'[r].status = "none"
        /\ fate'[r] = IF fate[r] = "open" THEN "removed" ELSE fate[r]
    BY <1>4, BornFields DEF RemoveAccount
  <2> QED
    BY <1>1, <1>2, <2>1
       DEF RowInv, FreshInv, JobInv, WithdrawnInv, KeptInv, HoldInv, BytesInv,
           OwnerInv, CountInv, Owns, HELD_STATUSES
<1> QED
  BY <1>3, <1>4 DEF User

\* The clock: an owned row stays within its lease.
LEMMA TickKeeps ==
  ASSUME IInv, LiveSubmitsAreQuick, Tick, NEW r \in Ids
  PROVE  RowInv(r)'
<1> USE DEF IInv
<1>1. /\ RowInv(r) /\ TypeOK /\ rows[r] \in Row
      /\ UNCHANGED <<job, pc, cur, fate, accepted, lostAck>>
  BY DEF Tick, TypeOK, procVars, ghostVars
<1>2. /\ rows'[r].status = rows[r].status /\ rows'[r].bytes = rows[r].bytes
      /\ rows'[r].idle <= rows[r].idle + 1
      /\ rows[r].idle \in Nat /\ rows'[r].idle \in Nat
  <2>1. rows'[r] = Older(rows[r])
    BY DEF Tick
  <2>2. rows'[r] \in Row
    BY <1>1, <2>1, OlderRow
  <2> QED
    BY <1>1, <2>1, <2>2, OlderFields DEF Row
<1>3. ASSUME rows[r].status # "none",
             job[r] # "none" \/ \E p \in Procs : Owns(p, r)
      PROVE  rows'[r].idle <= STALE_SENDING
  <2>1. CASE job[r] # "none"
    <3>1. rows[r].idle < MaxQueued
      BY <1>3, <2>1 DEF Tick
    <3> QED
      BY <1>2, <3>1, ConstantsOK DEF LiveSubmitsAreQuick
  <2>2. CASE \E p \in Procs : Owns(p, r)
    <3>1. rows[r].idle < MaxHold
      BY <1>3, <2>2 DEF Tick
    <3> QED
      BY <1>2, <3>1, ConstantsOK DEF LiveSubmitsAreQuick
  <2> QED
    BY <1>3, <2>1, <2>2
<1>4. FreshInv(r)' /\ JobInv(r)' /\ WithdrawnInv(r)' /\ KeptInv(r)'
  BY <1>1, <1>2 DEF RowInv, FreshInv, JobInv, WithdrawnInv, KeptInv, Owns
<1>5. ASSUME fate[r] # "told"
      PROVE  HoldInv(r)' /\ BytesInv(r)' /\ OwnerInv(r)' /\ CountInv(r)'
  <2>1. HoldInv(r)'
    BY <1>1, <1>2, <1>3, <1>5 DEF RowInv, HoldInv, Owns
  <2>2. BytesInv(r)' /\ OwnerInv(r)' /\ CountInv(r)'
    BY <1>1, <1>2, <1>5 DEF RowInv, BytesInv, OwnerInv, CountInv, Owns
  <2> QED
    BY <2>1, <2>2
<1> QED
  BY <1>1, <1>4, <1>5 DEF RowInv

\* Runs that start, and the delivery job, which takes its row along.
LEMMA StartKeeps ==
  ASSUME IInv, NEW r \in Ids,
         \/ \E s \in Ids : StartDeliver(s)
         \/ \E p \in Procs : Start(p)
  PROVE  RowInv(r)'
<1> USE DEF IInv
<1>1. RowInv(r) /\ TypeOK /\ UNCHANGED <<rows, fate, accepted, lostAck>>
  BY DEF StartDeliver, Start, BeginSync, BeginDue, ghostVars
<1>2. ASSUME NEW p \in Procs, Start(p)
      PROVE  RowInv(r)'
  <2>1. SameRow(r)
    BY <1>1, <1>2 DEF SameRow, Start, BeginSync, BeginDue
  <2>2. /\ pc[p] = "idle" /\ cur' = cur
        /\ \E l \in {"recover", "notices", "unreachable"} : pc' = [pc EXCEPT ![p] = l]
    BY <1>2 DEF Start, BeginSync, BeginDue, Goto
  <2>3. SameHands(r)
    BY <2>2 DEF TypeOK, SameHands, Owns, OwnPCs
  <2> QED
    BY <1>1, <2>1, <2>3, Frame
<1>3. ASSUME NEW s \in Ids, StartDeliver(s)
      PROVE  RowInv(r)'
  <2>1. /\ pc[Gui] = "idle" /\ job[s] = "queued"
        /\ job' = [job EXCEPT ![s] = "none"] /\ cur' = [cur EXCEPT ![Gui] = s]
        /\ \E l \in {"get", "discard"} : pc' = [pc EXCEPT ![Gui] = l]
    BY <1>3 DEF StartDeliver, Goto
  <2>2. CASE r # s
    <3>1. SameRow(r)
      BY <1>1, <2>1, <2>2 DEF SameRow, TypeOK
    <3>2. SameHands(r)
      BY <2>1, <2>2, ConstantsOK DEF TypeOK, SameHands, Owns, OwnPCs
    <3> QED
      BY <1>1, <3>1, <3>2, Frame
  <2>3. CASE r = s
    <3>1. /\ fate[r] \notin {"none", "told", "withdrawn"} /\ job'[r] = "none"
          /\ \A p \in Procs : cur[p] # r
      BY <1>1, <2>1, <2>3 DEF RowInv, FreshInv, JobInv, WithdrawnInv, TypeOK
    <3>2. /\ \A p \in Procs : Owns(p, r)' => p = Gui /\ pc'[p] # "accepted"
          /\ \A p \in Procs : ~Owns(p, r)
      BY <2>1, <2>3, <3>1, ConstantsOK DEF Owns, TypeOK, OwnPCs
    <3>3. FreshInv(r)' /\ JobInv(r)' /\ WithdrawnInv(r)' /\ KeptInv(r)'
      BY <1>1, <3>1 DEF RowInv, FreshInv, JobInv, WithdrawnInv, KeptInv
    <3>4. HoldInv(r)' /\ BytesInv(r)' /\ OwnerInv(r)'
      BY <1>1, <2>1, <2>3, <3>1, <3>2 DEF RowInv, HoldInv, BytesInv, OwnerInv
    <3>5. CountInv(r)'
      <4>1. accepted[r] = lostAck[r] /\ lostAck[r] \in Nat
        BY <1>1, <2>1, <2>3, <3>1 DEF RowInv, CountInv, TypeOK
      <4>2. \A p \in Procs : Owns(p, r)' => pc'[p] # "accepted"
        BY <3>2
      <4> QED
        BY <1>1, <3>1, <4>1, <4>2 DEF CountInv
    <3> QED
      BY <3>3, <3>4, <3>5 DEF RowInv
  <2> QED
    BY <2>2, <2>3
<1> QED
  BY <1>2, <1>3

\* A crash: the row stays as it is, an unrecorded acceptance is lost.
LEMMA CrashKeeps ==
  ASSUME IInv, NEW p \in Procs, Crash(p), NEW r \in Ids
  PROVE  RowInv(r)'
<1> USE DEF IInv
<1>1. RowInv(r) /\ TypeOK /\ UNCHANGED <<rows, fate, accepted>>
  BY DEF Crash
<1>2. /\ pc'[p] = "idle" /\ cur'[p] = None
      /\ \A q \in Procs \ {p} : pc'[q] = pc[q] /\ cur'[q] = cur[q]
      /\ job'[r] = job[r] \/ job'[r] = "none"
  BY DEF Crash, Release, Goto, TypeOK
<1>3. lostAck'[r] = IF pc[p] = "accepted" /\ cur[p] = r THEN lostAck[r] + 1 ELSE lostAck[r]
  BY DEF Crash, TypeOK
<1>4. /\ \A q \in Procs : Owns(q, r)' => q # p /\ Owns(q, r) /\ pc'[q] = pc[q]
      /\ \A q \in Procs : q # p /\ Owns(q, r) => Owns(q, r)'
      /\ \A q \in Procs : cur'[q] = r => cur[q] = r
  BY <1>2, ConstantsOK DEF Owns, OwnPCs
<1>5. FreshInv(r)' /\ JobInv(r)' /\ WithdrawnInv(r)' /\ KeptInv(r)'
  BY <1>1, <1>2, <1>3, <1>4 DEF RowInv, FreshInv, JobInv, WithdrawnInv, KeptInv
<1>6. ASSUME fate[r] # "told"
      PROVE  HoldInv(r)' /\ BytesInv(r)' /\ OwnerInv(r)' /\ CountInv(r)'
  <2>1. HoldInv(r)' /\ BytesInv(r)' /\ OwnerInv(r)'
    BY <1>1, <1>2, <1>4, <1>6 DEF RowInv, HoldInv, BytesInv, OwnerInv
  <2>2. CASE Owns(p, r)
    <3>1. \A q \in Procs : ~Owns(q, r)'
      BY <1>1, <1>4, <1>6, <2>2 DEF RowInv, OwnerInv
    <3>2. accepted[r] = lostAck'[r]
      BY <1>1, <1>3, <1>6, <2>2 DEF RowInv, CountInv, Owns, TypeOK
    <3> QED
      BY <1>1, <2>1, <3>1, <3>2 DEF CountInv
  <2>3. CASE ~Owns(p, r)
    <3>1. lostAck'[r] = lostAck[r]
      BY <1>3, <2>3 DEF Owns, OwnPCs
    <3>2. \A q \in Procs : Owns(q, r) => Owns(q, r)'
      BY <1>4, <2>3
    <3> QED
      BY <1>1, <1>2, <1>4, <1>6, <2>1, <3>1, <3>2 DEF RowInv, CountInv
  <2> QED
    BY <2>1, <2>2, <2>3
<1> QED
  BY <1>1, <1>5, <1>6 DEF RowInv

\* The opening statements of a flush: no row in hands is requeued.
LEMMA FlushKeeps ==
  ASSUME IInv, NEW p \in Procs, Recover(p) \/ Promote(p), NEW r \in Ids
  PROVE  RowInv(r)'
<1> USE DEF IInv
<1>1. /\ RowInv(r) /\ TypeOK /\ rows[r] \in Row
      /\ UNCHANGED <<job, cur, fate, accepted, lostAck>>
      /\ pc[p] \notin OwnPCs
      /\ \E l \in {"promote", "list"} : pc' = [pc EXCEPT ![p] = l]
  BY DEF Recover, Promote, Goto, TypeOK, ghostVars, OwnPCs
<1>2. SameHands(r)
  BY <1>1 DEF SameHands, Owns, OwnPCs, TypeOK
<1>3. CASE rows'[r] = rows[r]
  BY <1>1, <1>2, <1>3, Frame DEF SameRow
<1>4. CASE /\ rows'[r].status = "queued" /\ rows'[r].bytes = rows[r].bytes
           /\ \/ rows[r].status = "scheduled"
              \/ rows[r].status = "sending" /\ rows[r].idle > STALE_SENDING
  <2>1. fate[r] # "told" => job[r] = "none" /\ \A q \in Procs : ~Owns(q, r)
    BY <1>1, <1>4, ConstantsOK DEF RowInv, HoldInv, TypeOK, Row
  <2>2. \A q \in Procs : (Owns(q, r)' <=> Owns(q, r)) /\ cur'[q] = cur[q]
    BY <1>1, <1>2 DEF SameHands
  <2>3. FreshInv(r)' /\ JobInv(r)' /\ WithdrawnInv(r)' /\ KeptInv(r)'
    BY <1>1, <1>4, <2>2 DEF RowInv, FreshInv, JobInv, WithdrawnInv, KeptInv
  <2>4. ASSUME fate[r] # "told"
        PROVE  HoldInv(r)' /\ BytesInv(r)' /\ OwnerInv(r)' /\ CountInv(r)'
    BY <1>1, <1>4, <2>1, <2>2, <2>4
       DEF RowInv, HoldInv, BytesInv, OwnerInv, CountInv, HELD_STATUSES
  <2> QED
    BY <1>1, <2>3, <2>4 DEF RowInv
<1>5. CASE rows[r].status = "sent" /\ rows'[r].status = "none"
  <2>1. \A q \in Procs : (Owns(q, r)' <=> Owns(q, r)) /\ cur'[q] = cur[q]
    BY <1>1, <1>2 DEF SameHands
  <2>2. FreshInv(r)' /\ JobInv(r)' /\ WithdrawnInv(r)' /\ KeptInv(r)'
    BY <1>1, <1>5, <2>1 DEF RowInv, FreshInv, JobInv, WithdrawnInv, KeptInv
  <2>3. ASSUME fate[r] # "told"
        PROVE  HoldInv(r)' /\ BytesInv(r)' /\ OwnerInv(r)' /\ CountInv(r)'
    BY <1>1, <1>2, <1>5, <2>1, <2>3
       DEF RowInv, HoldInv, BytesInv, OwnerInv, CountInv, HELD_STATUSES, SameHands
  <2> QED
    BY <1>1, <2>2, <2>3 DEF RowInv
<1>6. CASE fate[r] = "told"
  <2>1. \A q \in Procs : cur'[q] = cur[q]
    BY <1>1
  <2> QED
    BY <1>1, <1>6, <2>1 DEF RowInv, FreshInv, JobInv, WithdrawnInv, KeptInv
<1>7. CASE fate[r] # "told" /\ Recover(p)
  <2>1. rows'[r] = requeue_interrupted(rows[r])
    BY <1>7 DEF Recover
  <2>2. rows[r].status \in HELD_STATUSES \cup {"sending"} => rows[r].bytes
    BY <1>1, <1>7 DEF RowInv, BytesInv
  <2> QED
    BY <1>1, <1>3, <1>4, <2>1, <2>2, RequeueFields
<1>8. CASE Promote(p)
  <2>1. rows'[r] = prune_sent(promote_due(rows[r]))
    BY <1>8 DEF Promote
  <2> QED
    BY <1>1, <1>3, <1>4, <1>5, <2>1, PromoteFields
<1> QED
  BY <1>6, <1>7, <1>8

\* A claim: only a row that nobody holds can be claimed.
LEMMA ClaimKeeps ==
  ASSUME IInv, NEW p \in Procs, NEW s \in Ids, Claim(p, s), NEW r \in Ids
  PROVE  RowInv(r)'
<1> USE DEF IInv
<1>1. /\ RowInv(r) /\ TypeOK /\ rows[r] \in Row /\ pc[p] = "next"
      /\ UNCHANGED <<job, fate, accepted, lostAck>>
  BY DEF Claim, TypeOK, ghostVars
<1>2. CASE ~Claimable(rows[s])
  BY <1>1, <1>2, Frame DEF Claim, SameRow, SameHands, Owns
<1>3. CASE Claimable(rows[s])
  <2>1. /\ rows' = [rows EXCEPT ![s] = claim(rows[s])]
        /\ cur' = [cur EXCEPT ![p] = s] /\ pc' = [pc EXCEPT ![p] = "get"]
    BY <1>3 DEF Claim, Goto
  <2>2. CASE r # s
    <3>1. SameRow(r)
      BY <1>1, <2>1, <2>2 DEF SameRow, TypeOK
    <3>2. SameHands(r)
      BY <1>1, <2>1, <2>2 DEF SameHands, Owns, OwnPCs, TypeOK
    <3> QED
      BY <1>1, <3>1, <3>2, Frame
  <2>3. CASE r = s
    <3>1. /\ rows'[r].status = "sending" /\ rows'[r].bytes = rows[r].bytes
          /\ rows'[r].idle = 0 /\ rows[r].status \in {"queued", "failed"}
      BY <1>1, <1>3, <2>1, <2>3, ClaimFields DEF Claimable, Unclaimed, TypeOK
    <3>2. /\ fate[r] \notin {"none", "withdrawn"}
          /\ fate[r] = "told" => job[r] = "none"
          /\ fate[r] # "told" => /\ job[r] = "none" /\ rows[r].bytes
                                 /\ accepted[r] = lostAck[r]
                                 /\ \A q \in Procs : ~Owns(q, r)
      BY <1>1, <3>1 DEF RowInv, FreshInv, WithdrawnInv, JobInv, HoldInv, BytesInv,
                        CountInv, HELD_STATUSES
    <3>3. /\ Owns(p, r)' /\ pc'[p] = "get"
          /\ \A q \in Procs \ {p} : pc'[q] = pc[q] /\ cur'[q] = cur[q]
      BY <2>1, <2>3 DEF Owns, OwnPCs, TypeOK
    <3>4. fate[r] # "told" => \A q \in Procs : Owns(q, r)' => q = p
      BY <3>2, <3>3 DEF Owns
    <3>5. FreshInv(r)' /\ JobInv(r)' /\ WithdrawnInv(r)' /\ KeptInv(r)'
      BY <1>1, <3>1, <3>2 DEF RowInv, FreshInv, JobInv, WithdrawnInv, KeptInv
    <3>6. ASSUME fate[r] # "told"
          PROVE  HoldInv(r)' /\ BytesInv(r)' /\ OwnerInv(r)' /\ CountInv(r)'
      <4>1. HoldInv(r)' /\ BytesInv(r)' /\ OwnerInv(r)'
        BY <1>1, <3>1, <3>2, <3>4, <3>6, ConstantsOK DEF HoldInv, BytesInv, OwnerInv
      <4>2. accepted[r] = lostAck[r] /\ lostAck[r] \in Nat
        BY <3>2, <3>6 DEF TypeOK
      <4>3. CountInv(r)'
        BY <1>1, <3>3, <3>4, <3>6, <4>2 DEF CountInv
      <4> QED
        BY <4>1, <4>3
    <3> QED
      BY <1>1, <3>5, <3>6 DEF RowInv
  <2> QED
    BY <2>2, <2>3
<1> QED
  BY <1>2, <1>3

\* Once the user was told, nothing more is promised of a row.
LEMMA ToldKeeps ==
  ASSUME NEW r \in Ids, RowInv(r), fate'[r] = "told",
         job'[r] = "none" \/ (job'[r] = job[r] /\ \E p \in Procs : cur[p] = r)
  PROVE  RowInv(r)'
<1>1. job'[r] = "none"
  BY DEF RowInv, JobInv
<1> QED
  BY <1>1 DEF RowInv, FreshInv, JobInv, WithdrawnInv, KeptInv

\* Steps that read, or write only what the argument does not look at.
LEMMA QuietKeeps ==
  ASSUME IInv, NEW p \in Procs, NEW r \in Ids,
         \/ List(p) \/ EndFlush(p) \/ Refresh(p)
         \/ SmtpReject(p, "rejected") \/ SmtpReject(p, "refused")
         \/ SelectDue(p) \/ EndCharge(p) \/ SelectNotices(p) \/ EndNotices(p)
         \/ \E s \in Ids : Report(p, s)
  PROVE  RowInv(r)'
<1> USE DEF IInv
<1>1. /\ RowInv(r) /\ TypeOK /\ rows[r] \in Row
      /\ UNCHANGED <<job, cur, fate, accepted, lostAck>>
  BY DEF List, EndFlush, Refresh, SmtpReject, SelectDue, EndCharge, SelectNotices,
         EndNotices, Report, TypeOK, ghostVars
<1>2. SameHands(r)
  <2>1. CASE Refresh(p) \/ SmtpReject(p, "rejected") \/ SmtpReject(p, "refused")
    <3>1. /\ pc[p] \in {"refresh", "smtp"}
          /\ \E l \in {"smtp", "rejected", "refused"} : pc' = [pc EXCEPT ![p] = l]
      BY <2>1 DEF Refresh, SmtpReject, Goto
    <3> QED
      BY <1>1, <3>1 DEF SameHands, Owns, OwnPCs, TypeOK
  <2>2. CASE \E s \in Ids : Report(p, s)
    BY <1>1, <2>2 DEF Report, SameHands, Owns
  <2>3. CASE \/ List(p) \/ EndFlush(p) \/ SelectDue(p) \/ EndCharge(p) \/ SelectNotices(p)
             \/ EndNotices(p)
    <3>1. /\ pc[p] \in {"list", "next", "unreachable", "charge", "notices", "report"}
          /\ \E l \in {"next", "charge", "notices", "idle", "report"} : pc' = [pc EXCEPT ![p] = l]
      BY <2>3 DEF List, EndFlush, SelectDue, EndCharge, SelectNotices, EndNotices, Goto
    <3> QED
      BY <1>1, <3>1 DEF SameHands, Owns, OwnPCs, TypeOK
  <2> QED
    BY <2>1, <2>2, <2>3
<1>3. CASE rows' = rows
  BY <1>1, <1>2, <1>3, Frame DEF SameRow
<1>4. ASSUME NEW s \in Ids, Report(p, s)
      PROVE  RowInv(r)'
  <2>1. /\ rows'[r].status = rows[r].status /\ rows'[r].bytes = rows[r].bytes
        /\ rows'[r].idle = rows[r].idle
    <3>1. CASE r # s
      BY <1>4, <3>1 DEF Report, TypeOK
    <3>2. CASE r = s
      <4>1. rows'[r] = Update(rows[r], [rows[r] EXCEPT !.noticed = TRUE])
        BY <1>4, <3>2 DEF Report, TypeOK
      <4> QED
        BY <1>1, <4>1 DEF Update, Row
    <3> QED
      BY <3>1, <3>2
  <2> QED
    BY <1>1, <1>2, <2>1, Frame DEF SameRow
<1>5. CASE Refresh(p)
  <2>1. /\ cur[p] \in Ids /\ Owns(p, cur[p])
        /\ rows' = [rows EXCEPT ![cur[p]] = update_raw_mime(rows[cur[p]])]
    BY <1>5 DEF Refresh, TypeOK, OwnPCs, Owns
  <2>2. CASE r # cur[p]
    BY <1>1, <1>2, <2>1, <2>2, Frame DEF SameRow, TypeOK
  <2>3. CASE r = cur[p] /\ fate[r] = "told"
    BY <1>1, <2>3, ToldKeeps
  <2>4. CASE r = cur[p] /\ fate[r] # "told"
    <3>1. rows'[r] = update_raw_mime(rows[r])
      BY <2>1, <2>4 DEF TypeOK
    <3>2. rows[r].status = "none" \/ rows[r].bytes
      BY <1>1, <2>1, <2>4 DEF RowInv, HoldInv
    <3>3. SameRow(r)
      BY <1>1, <3>1, <3>2, SubmitFields DEF SameRow, Row
    <3> QED
      BY <1>1, <1>2, <3>3, Frame
  <2> QED
    BY <2>2, <2>3, <2>4
<1> QED
  BY <1>3, <1>4, <1>5 DEF List, EndFlush, SmtpReject, SelectDue, EndCharge, SelectNotices, EndNotices

\* The server takes the mail, and its answer arrives or is lost.
LEMMA SmtpKeeps ==
  ASSUME IInv, NEW p \in Procs, SmtpAccept(p) \/ SmtpLostReply(p), NEW r \in Ids
  PROVE  RowInv(r)'
<1> USE DEF IInv
<1>1. /\ RowInv(r) /\ TypeOK /\ UNCHANGED <<rows, job, cur, fate>>
      /\ pc[p] = "smtp" /\ cur[p] \in Ids /\ Owns(p, cur[p])
      /\ accepted[r] \in Nat /\ lostAck[r] \in Nat
  BY DEF SmtpAccept, SmtpLostReply, TypeOK, OwnPCs, Owns
<1>2. /\ \A q \in Procs \ {p} : pc'[q] = pc[q]
      /\ pc'[p] \in OwnPCs
      /\ \A q \in Procs : Owns(q, r)' <=> Owns(q, r)
  BY <1>1 DEF SmtpAccept, SmtpLostReply, Goto, TypeOK, Owns, OwnPCs
<1>3. CASE r # cur[p]
  <2>1. SameRow(r)
    BY <1>1, <1>3 DEF SameRow, SmtpAccept, SmtpLostReply, TypeOK
  <2>2. SameHands(r)
    BY <1>1, <1>2, <1>3 DEF SameHands, Owns
  <2> QED
    BY <1>1, <2>1, <2>2, Frame
<1>4. CASE r = cur[p] /\ fate[r] = "told"
  BY <1>1, <1>4, ToldKeeps
<1>5. CASE r = cur[p] /\ fate[r] # "told"
  <2>1. /\ Owns(p, r) /\ job[r] = "none" /\ accepted[r] = lostAck[r]
        /\ rows[r].status \notin HELD_STATUSES
        /\ \A q \in Procs : Owns(q, r) => q = p
        /\ fate[r] \notin {"none", "withdrawn"}
    BY <1>1, <1>5 DEF RowInv, FreshInv, JobInv, WithdrawnInv, HoldInv, OwnerInv, CountInv,
                      HELD_STATUSES
  <2>2. \/ /\ accepted'[r] = accepted[r] + 1 /\ lostAck'[r] = lostAck[r]
           /\ pc'[p] = "accepted"
        \/ /\ accepted'[r] = accepted[r] + 1 /\ lostAck'[r] = lostAck[r] + 1
           /\ pc'[p] # "accepted"
    BY <1>1, <1>5 DEF SmtpAccept, SmtpLostReply, TypeOK, Goto
  <2>3. FreshInv(r)' /\ JobInv(r)' /\ WithdrawnInv(r)' /\ KeptInv(r)'
    BY <1>1, <2>1, <2>2 DEF RowInv, FreshInv, JobInv, WithdrawnInv, KeptInv
  <2>4. HoldInv(r)' /\ BytesInv(r)' /\ OwnerInv(r)'
    BY <1>1, <1>2, <1>5 DEF RowInv, HoldInv, BytesInv, OwnerInv
  <2>5. CountInv(r)'
    <3>1. \A q \in Procs : Owns(q, r)' => q = p
      BY <1>2, <2>1
    <3>2. accepted'[r] = lostAck'[r] + (IF pc'[p] = "accepted" THEN 1 ELSE 0)
      BY <1>1, <2>1, <2>2
    <3>3. accepted'[r] = lostAck'[r] \/ accepted'[r] = lostAck'[r] + 1
      BY <1>1, <2>1, <2>2
    <3>4. Owns(p, r)'
      BY <1>2, <2>1
    <3> QED
      BY <1>1, <2>1, <3>1, <3>2, <3>3, <3>4 DEF CountInv
  <2> QED
    BY <2>3, <2>4, <2>5 DEF RowInv
<1> QED
  BY <1>3, <1>4, <1>5

\* A run lets go of row r, which it had in hands, and leaves it as `row`
\* with the outcome of its submit.
LEMMA LeaveKeeps ==
  ASSUME IInv, NEW p \in Procs, LetsGo(p), NEW r \in Ids, Owns(p, r),
         fate[r] # "told", UNCHANGED <<job, fate, accepted, lostAck>>,
         \/ rows'[r].status = "none" /\ rows[r].status = "none"
         \/ rows'[r].status = "sent" /\ pc[p] = "accepted"
         \/ /\ rows'[r].status = "failed" /\ rows'[r].bytes = rows[r].bytes
            /\ rows[r].status # "none" /\ pc[p] # "accepted"
  PROVE  RowInv(r)'
<1> USE DEF IInv
<1>1. RowInv(r) /\ TypeOK /\ lostAck[r] \in Nat /\ accepted[r] \in Nat
  BY DEF TypeOK
<1>2. /\ job[r] = "none" /\ fate[r] \notin {"none", "withdrawn"}
      /\ accepted[r] = lostAck[r] + (IF pc[p] = "accepted" THEN 1 ELSE 0)
      /\ rows[r].status = "none" \/ rows[r].bytes
      /\ \A q \in Procs : Owns(q, r) => q = p
  BY <1>1 DEF RowInv, FreshInv, WithdrawnInv, JobInv, HoldInv, OwnerInv, CountInv, Owns
<1>3. /\ \A q \in Procs : ~Owns(q, r)'
      /\ \A q \in Procs : cur'[q] = r => cur[q] = r
  BY <1>2, ConstantsOK DEF LetsGo, Owns
<1>4. FreshInv(r)' /\ JobInv(r)' /\ WithdrawnInv(r)'
  BY <1>1, <1>2, <1>3 DEF RowInv, FreshInv, JobInv, WithdrawnInv
<1>5. KeptInv(r)'
  BY <1>1, <1>2 DEF RowInv, KeptInv
<1>6. HoldInv(r)' /\ BytesInv(r)' /\ OwnerInv(r)'
  BY <1>2, <1>3 DEF HoldInv, BytesInv, OwnerInv, HELD_STATUSES
<1>7. CountInv(r)'
  <2>1. accepted'[r] = lostAck'[r] \/ accepted'[r] = lostAck'[r] + 1
    BY <1>1, <1>2
  <2>2. rows'[r].status \in HELD_STATUSES => accepted'[r] = lostAck'[r]
    BY <1>1, <1>2 DEF HELD_STATUSES
  <2>3. rows'[r].status # "sending" /\ job'[r] = "none"
    BY <1>2
  <2> QED
    BY <1>3, <2>1, <2>2, <2>3 DEF CountInv
<1> QED
  BY <1>4, <1>5, <1>6, <1>7 DEF RowInv

\* The outcome of a submit is recorded, or the row was gone already.
LEMMA OutcomeKeeps ==
  ASSUME IInv, NEW p \in Procs, RecordSent(p) \/ RecordFailure(p), NEW r \in Ids
  PROVE  RowInv(r)'
<1> USE DEF IInv
<1>1. /\ RowInv(r) /\ TypeOK /\ cur[p] \in Ids /\ Owns(p, cur[p]) /\ rows[r] \in Row
      /\ UNCHANGED <<job, fate, accepted, lostAck>>
  BY DEF RecordSent, RecordFailure, TypeOK, Owns, OwnPCs, ghostVars
<1>2. LetsGo(p)
  BY <1>1, Releases DEF RecordSent, RecordFailure
<1>3. CASE r # cur[p]
  <2>1. SameRow(r)
    BY <1>1, <1>3 DEF SameRow, RecordSent, RecordFailure, TypeOK
  <2>2. SameHands(r)
    BY <1>1, <1>2, <1>3, OthersKept DEF Owns
  <2> QED
    BY <1>1, <2>1, <2>2, Frame
<1>4. CASE r = cur[p] /\ fate[r] = "told"
  BY <1>1, <1>4, ToldKeeps
<1>5. CASE r = cur[p] /\ fate[r] # "told" /\ RecordSent(p)
  <2>1. rows'[r] = mark_sent(rows[r]) /\ pc[p] = "accepted"
    BY <1>5 DEF RecordSent, TypeOK
  <2>2. \/ rows'[r].status = "none" /\ rows[r].status = "none"
        \/ rows'[r].status = "sent"
    <3> HIDE DEF IInv
    <3>1. \/ rows[r].status = "none" /\ mark_sent(rows[r]) = rows[r]
          \/ mark_sent(rows[r]).status = "sent"
      BY <1>1, SubmitFields
    <3> QED
      BY <2>1, <3>1
  <2> QED
    BY <1>1, <1>2, <1>5, <2>1, <2>2, LeaveKeeps
<1>6. CASE r = cur[p] /\ fate[r] # "told" /\ RecordFailure(p)
  <2>1. /\ pc[p] # "accepted"
        /\ \/ rows'[r] = mark_failed(rows[r])
           \/ \E b \in BOOLEAN : rows'[r] = fail_scheduled_attempt(rows[r], b)
    BY <1>6 DEF RecordFailure, TypeOK
  <2>2. \/ rows'[r].status = "none" /\ rows[r].status = "none"
        \/ /\ rows'[r].status = "failed" /\ rows'[r].bytes = rows[r].bytes
           /\ rows[r].status # "none"
    <3> HIDE DEF IInv
    <3>1. CASE rows'[r] = mark_failed(rows[r])
      <4>1. \/ rows[r].status = "none" /\ mark_failed(rows[r]) = rows[r]
            \/ /\ rows[r].status # "none" /\ mark_failed(rows[r]).status = "failed"
               /\ mark_failed(rows[r]).bytes = rows[r].bytes
        BY <1>1, SubmitFields
      <4> QED
        BY <3>1, <4>1
    <3>2. ASSUME NEW b \in BOOLEAN, rows'[r] = fail_scheduled_attempt(rows[r], b)
          PROVE  <2>2!:
      <4>1. \/ rows[r].status = "none" /\ fail_scheduled_attempt(rows[r], b) = rows[r]
            \/ /\ rows[r].status # "none"
               /\ fail_scheduled_attempt(rows[r], b).status = "failed"
               /\ fail_scheduled_attempt(rows[r], b).bytes = rows[r].bytes
        BY <1>1, AttemptFields
      <4> QED
        BY <3>2, <4>1
    <3> QED
      BY <2>1, <3>1, <3>2
  <2> QED
    BY <1>1, <1>2, <1>6, <2>1, <2>2, LeaveKeeps
<1> QED
  BY <1>3, <1>4, <1>5, <1>6

\* The row is read: it goes on to SMTP, or it is gone and is let go.
LEMMA GetKeeps ==
  ASSUME IInv, NEW p \in Procs, Get(p), NEW r \in Ids
  PROVE  RowInv(r)'
<1> USE DEF IInv
<1>1. /\ RowInv(r) /\ TypeOK /\ cur[p] \in Ids /\ Owns(p, cur[p]) /\ pc[p] = "get"
      /\ UNCHANGED <<rows, job, fate, accepted, lostAck>>
  BY DEF Get, TypeOK, Owns, OwnPCs, ghostVars
<1>2. SameRow(r)
  BY <1>1 DEF SameRow
<1>3. CASE cur' = cur /\ \E l \in {"refresh", "smtp"} : pc' = [pc EXCEPT ![p] = l]
  <2>1. SameHands(r)
    BY <1>1, <1>3 DEF SameHands, Owns, OwnPCs, TypeOK
  <2> QED
    BY <1>1, <1>2, <2>1, Frame
<1>4. CASE /\ ~(rows[cur[p]].status # "none" /\ rows[cur[p]].bytes)
           /\ AfterFailure(p)
  <2>1. LetsGo(p)
    BY <1>1, <1>4, Releases
  <2>2. CASE r # cur[p]
    BY <1>1, <1>2, <2>1, <2>2, OthersKept, Frame DEF Owns
  <2>3. CASE r = cur[p] /\ fate[r] = "told"
    BY <1>1, <2>3, ToldKeeps
  <2>4. CASE r = cur[p] /\ fate[r] # "told"
    <3>1. rows[r].status = "none"
      BY <1>1, <1>4, <2>4 DEF RowInv, HoldInv
    <3> QED
      BY <1>1, <2>1, <2>4, <3>1, LeaveKeeps
  <2> QED
    BY <2>2, <2>3, <2>4
<1> QED
  BY <1>3, <1>4 DEF Get, Goto

\* A failed receipt is dropped, and a failed delivery is told: the run had
\* the row in hands before, another one may have it by now.
LEMMA CleanUpKeeps ==
  ASSUME IInv, NEW p \in Procs, DropReceipt(p) \/ TellFailure(p), NEW r \in Ids
  PROVE  RowInv(r)'
<1> USE DEF IInv
<1>1. /\ RowInv(r) /\ TypeOK /\ cur[p] \in Ids /\ pc[p] \notin OwnPCs
      /\ UNCHANGED <<job, accepted, lostAck>>
  BY DEF DropReceipt, TellFailure, TypeOK, OwnPCs
<1>2. LetsGo(p) /\ SameHands(r)
  <2>1. LetsGo(p)
    BY <1>1, Releases DEF DropReceipt, TellFailure
  <2> QED
    BY <1>1, <2>1, OthersKept DEF Owns
<1>3. CASE r # cur[p]
  <2>1. SameRow(r)
    BY <1>1, <1>3 DEF SameRow, DropReceipt, TellFailure, TypeOK
  <2> QED
    BY <1>1, <1>2, <2>1, Frame
<1>4. CASE r = cur[p] /\ fate'[r] = "told"
  BY <1>1, <1>4, ToldKeeps
<1>5. CASE r = cur[p] /\ DropReceipt(p) /\ fate'[r] # "told"
  <2>1. /\ rows'[r].status = "none"
        /\ fate'[r] = IF fate[r] = "open" THEN "dropped" ELSE fate[r]
    BY <1>1, <1>5, BornFields DEF DropReceipt, TypeOK
  <2>2. FreshInv(r)' /\ JobInv(r)' /\ WithdrawnInv(r)' /\ KeptInv(r)'
    BY <1>1, <1>2, <2>1 DEF RowInv, FreshInv, JobInv, WithdrawnInv, KeptInv, SameHands
  <2>3. HoldInv(r)' /\ BytesInv(r)' /\ OwnerInv(r)'
    BY <1>1, <1>2, <1>5, <2>1
       DEF RowInv, HoldInv, BytesInv, OwnerInv, SameHands, HELD_STATUSES
  <2>4. CountInv(r)'
    BY <1>1, <1>2, <1>5, <2>1 DEF RowInv, CountInv, SameHands, HELD_STATUSES
  <2> QED
    BY <2>2, <2>3, <2>4 DEF RowInv
<1> QED
  BY <1>1, <1>3, <1>4, <1>5 DEF TellFailure, TypeOK

\* The receipt of a scheduled send: a fresh row, born in the run's hands.
LEMMA ReceiptKeeps ==
  ASSUME IInv, NEW p \in Procs, SelfReceipt(p), NEW r \in Ids
  PROVE  RowInv(r)'
<1> USE DEF IInv
<1>1. /\ RowInv(r) /\ TypeOK /\ pc[p] = "receipt"
      /\ UNCHANGED <<job, accepted, lostAck>>
  BY DEF SelfReceipt
<1>2. CASE Goto(p, "next") /\ UNCHANGED <<rows, fate, cur>>
  <2>1. SameHands(r)
    BY <1>1, <1>2 DEF SameHands, Owns, OwnPCs, TypeOK, Goto
  <2> QED
    BY <1>1, <1>2, <2>1, Frame DEF SameRow
<1>3. ASSUME NEW s \in Ids, fate[s] = "none",
             rows' = [rows EXCEPT ![s] = ImmediateRow],
             fate' = [fate EXCEPT ![s] = "open"],
             cur' = [cur EXCEPT ![p] = s], pc' = [pc EXCEPT ![p] = "get"]
      PROVE  RowInv(r)'
  <2>1. CASE r # s
    <3>1. SameRow(r)
      BY <1>1, <1>3, <2>1 DEF SameRow, TypeOK
    <3>2. SameHands(r)
      BY <1>1, <1>3, <2>1 DEF SameHands, Owns, OwnPCs, TypeOK
    <3> QED
      BY <1>1, <3>1, <3>2, Frame
  <2>2. CASE r = s
    <3>1. /\ rows'[r].status = "sending" /\ rows'[r].bytes /\ rows'[r].idle = 0
          /\ fate'[r] = "open" /\ job[r] = "none"
          /\ accepted[r] = lostAck[r] /\ lostAck[r] \in Nat
          /\ \A q \in Procs : cur[q] # r
      BY <1>1, <1>3, <2>2, BornFields DEF RowInv, FreshInv, TypeOK
    <3>2. /\ \A q \in Procs : Owns(q, r)' => q = p
          /\ Owns(p, r)' /\ pc'[p] = "get"
      BY <1>3, <2>2, <3>1 DEF Owns, OwnPCs, TypeOK
    <3>3. FreshInv(r)' /\ JobInv(r)' /\ WithdrawnInv(r)' /\ KeptInv(r)'
      BY <1>1, <3>1 DEF FreshInv, JobInv, WithdrawnInv, KeptInv
    <3>4. HoldInv(r)' /\ BytesInv(r)' /\ OwnerInv(r)'
      BY <1>1, <3>1, <3>2, ConstantsOK DEF HoldInv, BytesInv, OwnerInv
    <3>5. CountInv(r)'
      BY <1>1, <3>1, <3>2 DEF CountInv
    <3> QED
      BY <3>3, <3>4, <3>5 DEF RowInv
  <2> QED
    BY <2>1, <2>2
<1> QED
  BY <1>2, <1>3 DEF SelfReceipt, Fresh, Goto

\* Only a run that cannot read the keyring charges.
LEMMA ChargeKeeps ==
  ASSUME TypeOK, ChargeInv, Next
  PROVE  ChargeInv'
<1> USE DEF TypeOK, ChargeInv, Goto
<1>1. CASE Compose \/ User \/ Tick
  BY <1>1 DEF Compose, User, Tick, PrepareSend, SpawnDeliver, AbandonSend,
              PrepareScheduled, SendNow, Dismiss, Reschedule, RemoveAccount, UserOp, procVars
<1>2. CASE \E r \in Ids : StartDeliver(r)
  BY <1>2 DEF StartDeliver
<1>3. ASSUME NEW p \in Procs, Start(p)
      PROVE  ChargeInv'
  BY <1>3 DEF Start, BeginSync, BeginDue
<1>4. ASSUME NEW p \in Procs, Crash(p)
      PROVE  ChargeInv'
  BY <1>4 DEF Crash, Release
<1>5. ASSUME NEW p \in Procs, Step(p)
      PROVE  ChargeInv'
  <2>1. CASE \/ Get(p) \/ RecordSent(p) \/ RecordFailure(p) \/ DropReceipt(p)
             \/ TellFailure(p)
    BY <2>1 DEF Get, RecordSent, RecordFailure, DropReceipt, TellFailure,
                AfterFailure, Failed, Release
  <2>2. CASE \/ Recover(p) \/ Promote(p) \/ List(p) \/ EndFlush(p) \/ Refresh(p)
             \/ SmtpAccept(p) \/ SmtpLostReply(p)
             \/ SmtpReject(p, "rejected") \/ SmtpReject(p, "refused")
             \/ SelfReceipt(p) \/ SelectDue(p) \/ EndCharge(p) \/ SelectNotices(p) \/ EndNotices(p)
    BY <2>2 DEF Recover, Promote, List, EndFlush, Refresh, SmtpAccept, SmtpLostReply,
                SmtpReject, SelfReceipt, SelectDue, EndCharge, SelectNotices, EndNotices
  <2>3. CASE \E r \in Ids : Claim(p, r) \/ Charge(p, r) \/ Report(p, r)
    <3>1. ASSUME NEW r \in Ids, Claim(p, r) PROVE ChargeInv'
      BY <3>1 DEF Claim
    <3>2. ASSUME NEW r \in Ids, Charge(p, r) PROVE ChargeInv'
      BY <3>2 DEF Charge
    <3>3. ASSUME NEW r \in Ids, Report(p, r) PROVE ChargeInv'
      BY <3>3 DEF Report
    <3> QED
      BY <2>3, <3>1, <3>2, <3>3
  <2> QED
    BY <1>5, <2>1, <2>2, <2>3 DEF Step
<1> QED
  BY <1>1, <1>2, <1>3, <1>4, <1>5 DEF Next

-----------------------------------------------------------------------------

(* A mail of which the user was not told a failure is in at most one pair   *)
(* of hands, held as `sending` within its lease, and confirmed acceptances  *)
(* match the table (queue::claim, requeue_interrupted, submit_claimed_via): *)
(* IInv is inductive once live submits are quicker than the lease.          *)
THEOREM Ownership ==
  ASSUME LiveSubmitsAreQuick, KeyringReadable
  PROVE  Spec => []IInv
<1>1. Init => IInv
  <2> SUFFICES ASSUME Init PROVE IInv
    OBVIOUS
  <2>1. TypeOK /\ ChargeInv
    BY ConstantsOK, BornRows DEF Init, TypeOK, PCs, OwnPCs, ChargeInv
  <2>2. ASSUME NEW r \in Ids PROVE RowInv(r)
    <3>1. /\ rows[r].status = "none" /\ job[r] = "none" /\ fate[r] = "none"
          /\ accepted[r] = 0 /\ lostAck[r] = 0
          /\ \A p \in Procs : cur[p] # r /\ ~Owns(p, r)
      BY ConstantsOK, BornFields DEF Init, Owns
    <3> QED
      BY <3>1 DEF RowInv, FreshInv, JobInv, WithdrawnInv, KeptInv, HoldInv,
                  BytesInv, OwnerInv, CountInv, HELD_STATUSES
  <2> QED
    BY <2>1, <2>2 DEF IInv
<1>2. IInv /\ [Next]_vars => IInv'
  <2> SUFFICES ASSUME IInv, [Next]_vars PROVE IInv'
    OBVIOUS
  <2>1. CASE Next
    <3>1. TypeOK'
      BY <2>1, TypeStep, TypeOther DEF Next, IInv
    <3>2. ChargeInv'
      BY <2>1, ChargeKeeps DEF IInv
    <3>3. ASSUME NEW r \in Ids PROVE RowInv(r)'
      <4>1. CASE Compose \/ User \/ Tick
        BY <4>1, ComposeKeeps, UserKeeps, TickKeeps
      <4>2. CASE \/ \E s \in Ids : StartDeliver(s)
                 \/ \E p \in Procs : Start(p)
        BY <4>2, StartKeeps
      <4>3. ASSUME NEW p \in Procs, Crash(p) PROVE RowInv(r)'
        BY <4>3, CrashKeeps
      <4>4. ASSUME NEW p \in Procs, Step(p) PROVE RowInv(r)'
        <5>1. CASE Recover(p) \/ Promote(p)
          BY <5>1, FlushKeeps
        <5>2. ASSUME NEW s \in Ids, Claim(p, s) PROVE RowInv(r)'
          BY <5>2, ClaimKeeps
        <5>3. ASSUME NEW s \in Ids, Charge(p, s) PROVE FALSE
          BY <5>3 DEF Charge, IInv, ChargeInv, KeyringReadable
        <5>4. CASE \/ List(p) \/ EndFlush(p) \/ Refresh(p)
                   \/ SmtpReject(p, "rejected") \/ SmtpReject(p, "refused")
                   \/ SelectDue(p) \/ EndCharge(p) \/ SelectNotices(p) \/ EndNotices(p)
                   \/ \E s \in Ids : Report(p, s)
          BY <5>4, QuietKeeps
        <5>5. CASE SmtpAccept(p) \/ SmtpLostReply(p)
          BY <5>5, SmtpKeeps
        <5>6. CASE RecordSent(p) \/ RecordFailure(p) \/ Get(p)
          BY <5>6, OutcomeKeeps, GetKeeps
        <5>7. CASE DropReceipt(p) \/ TellFailure(p) \/ SelfReceipt(p)
          BY <5>7, CleanUpKeeps, ReceiptKeeps
        <5> QED
          BY <4>4, <5>1, <5>2, <5>3, <5>4, <5>5, <5>6, <5>7 DEF Step
      <4> QED
        BY <2>1, <4>1, <4>2, <4>3, <4>4 DEF Next
    <3> QED
      BY <3>1, <3>2, <3>3 DEF IInv
  <2>2. CASE UNCHANGED vars
    BY <2>2 DEF vars, procVars, ghostVars, IInv, TypeOK, ChargeInv, RowInv, FreshInv,
                JobInv, WithdrawnInv, KeptInv, HoldInv, BytesInv, OwnerInv, CountInv, Owns
  <2> QED
    BY <2>1, <2>2
<1> QED
  BY <1>1, <1>2, PTL DEF Spec

(* No message goes out twice, except for acceptances the client never       *)
(* learnt of: however flushes, deliveries, timers, user actions and crashes *)
(* overlap (queue::claim, enqueue_mime, requeue_interrupted).               *)
THEOREM NoDoubleDelivery ==
  ASSUME LiveSubmitsAreQuick, KeyringReadable
  PROVE  Spec => []AtMostOnce
<1>1. IInv => AtMostOnce
  BY DEF IInv, TypeOK, RowInv, CountInv, AtMostOnce
<1> QED
  BY <1>1, Ownership, PTL

(* No message is lost: as long as no server took it and the user neither    *)
(* withdrew it nor was told, its row and its bytes are in the table         *)
(* (queue::requeue_interrupted, mark_sent, prune_sent).                     *)
THEOREM NoMailLost ==
  ASSUME LiveSubmitsAreQuick, KeyringReadable
  PROVE  Spec => []NothingLost
<1>1. IInv => NothingLost
  BY DEF IInv, RowInv, KeptInv, NothingLost
<1> QED
  BY <1>1, Ownership, PTL

(* Two runs never have one row in hands, nor a run and the delivery job the *)
(* row was born for (queue::claim; rows born `sending` in enqueue_mime).    *)
THEOREM SingleOwner ==
  ASSUME LiveSubmitsAreQuick, KeyringReadable
  PROVE  Spec => []OneOwner
<1>1. IInv => OneOwner
  BY DEF IInv, RowInv, OwnerInv, JobInv, OneOwner, Owns
<1> QED
  BY <1>1, Ownership, PTL

(* A mail the user took back never reaches a server afterwards              *)
(* (outbox::dismiss, outbox::take_for_edit, PreparedSend::abandon).         *)
THEOREM WithdrawnIsFinal ==
  ASSUME LiveSubmitsAreQuick, KeyringReadable
  PROVE  Spec => WithdrawnStays
<1>1. IInv /\ [Next]_vars
        => [\A r \in Ids : fate[r] = "withdrawn" => accepted'[r] = accepted[r]]_vars
  <2> SUFFICES ASSUME IInv, [Next]_vars, NEW r \in Ids, fate[r] = "withdrawn"
               PROVE  accepted'[r] = accepted[r]
    OBVIOUS
  <2>1. \A p \in Procs : ~Owns(p, r)
    BY DEF IInv, RowInv, WithdrawnInv
  <2>2. ASSUME NEW p \in Procs, SmtpAccept(p) \/ SmtpLostReply(p)
        PROVE  accepted'[r] = accepted[r]
    BY <2>1, <2>2 DEF SmtpAccept, SmtpLostReply, Owns, OwnPCs, IInv, TypeOK
  <2>3. CASE UNCHANGED vars
    BY <2>3 DEF vars, ghostVars
  <2>4. CASE Next
    <3>1. CASE Compose \/ User \/ Tick
      BY <3>1 DEF Compose, User, Tick, PrepareSend, SpawnDeliver, AbandonSend,
         PrepareScheduled, SendNow, Dismiss, Reschedule, RemoveAccount, UserOp, ghostVars
    <3>2. CASE \E s \in Ids : StartDeliver(s)
      BY <3>2 DEF StartDeliver, ghostVars
    <3>3. ASSUME NEW p \in Procs, Start(p) \/ Crash(p)
          PROVE  accepted' = accepted
      BY <3>3 DEF Start, BeginSync, BeginDue, Crash, ghostVars
    <3>4. ASSUME NEW p \in Procs, Step(p)
          PROVE  accepted'[r] = accepted[r]
      BY <2>2, <3>4
         DEF Step, Recover, Promote, List, EndFlush, Get, Refresh, SmtpReject,
             RecordSent, RecordFailure, SelfReceipt, DropReceipt, TellFailure,
             SelectDue, EndCharge, SelectNotices, EndNotices, Claim, Charge, Report, ghostVars
    <3> QED
      BY <2>4, <3>1, <3>2, <3>3, <3>4 DEF Next
  <2> QED
    BY <2>3, <2>4
<1> QED
  BY <1>1, Ownership, PTL DEF Spec, WithdrawnStays

-----------------------------------------------------------------------------
(* What was recorded as sent stays so.                                     *)

\* The user is not un-told.
LEMMA ToldStays ==
  ASSUME IInv, Next, NEW r \in Ids, fate[r] = "told"
  PROVE  fate'[r] = "told"
<1>1. job[r] = "none" /\ DOMAIN fate = Ids
  BY DEF IInv, TypeOK, RowInv, JobInv
<1>2. CASE Compose \/ User \/ Tick
  BY <1>1, <1>2
     DEF Compose, PrepareSend, SpawnDeliver, AbandonSend, PrepareScheduled, Fresh,
         User, SendNow, Dismiss, Reschedule, RemoveAccount, Tick, ghostVars
<1>3. CASE \E s \in Ids : StartDeliver(s)
  BY <1>3 DEF StartDeliver, ghostVars
<1>4. ASSUME NEW p \in Procs, Start(p) \/ Crash(p)
      PROVE  fate' = fate
  BY <1>4 DEF Start, BeginSync, BeginDue, Crash, ghostVars
<1>5. ASSUME NEW p \in Procs, TellFailure(p) \/ SelfReceipt(p) \/ DropReceipt(p)
      PROVE  fate'[r] = "told"
  BY <1>1, <1>5 DEF TellFailure, SelfReceipt, DropReceipt, Fresh
<1>6. ASSUME NEW p \in Procs, Step(p)
      PROVE  fate'[r] = "told"
  BY <1>5, <1>6
     DEF Step, Recover, Promote, List, EndFlush, Get, Refresh, SmtpAccept,
         SmtpLostReply, SmtpReject, RecordSent, RecordFailure, SelectDue, EndCharge,
         SelectNotices, EndNotices, Claim, Charge, Report, ghostVars
<1> QED
  BY <1>2, <1>3, <1>4, <1>5, <1>6 DEF Next

\* A row recorded as sent is in nobody's hands and waits for nobody.
LEMMA SentIsAlone ==
  ASSUME IInv, NEW r \in Ids, rows[r].status = "sent", fate[r] # "told"
  PROVE  /\ rows[r] \in Row /\ rows \in [Ids -> Row] /\ fate[r] # "none"
         /\ \A p \in Procs : ~Owns(p, r)
BY DEF IInv, TypeOK, RowInv, FreshInv, HoldInv

\* What a run does to a sent row: it prunes or deletes it, or records it again.
LEMMA StepKeepsSent ==
  ASSUME IInv, KeyringReadable, NEW p \in Procs, Step(p),
         NEW r \in Ids, rows[r].status = "sent", fate'[r] # "told", fate[r] # "told"
  PROVE  rows'[r].status \in {"sent", "none"}
<1>1. /\ rows[r] \in Row /\ rows \in [Ids -> Row] /\ fate[r] # "none"
      /\ pc[p] \in OwnPCs => cur[p] # r
  BY SentIsAlone DEF Owns
<1>2. CASE Recover(p)
  <2>1. rows'[r] = requeue_interrupted(rows[r])
    BY <1>2 DEF Recover
  <2>2. requeue_interrupted(rows[r]) = rows[r]
    BY <1>1, RequeueFields DEF HELD_STATUSES
  <2> QED
    BY <2>1, <2>2
<1>3. CASE Promote(p)
  <2>1. rows'[r] = prune_sent(promote_due(rows[r]))
    BY <1>3 DEF Promote
  <2>2. prune_sent(promote_due(rows[r])).status \in {"sent", "none"}
    BY <1>1, PromoteFields
  <2> QED
    BY <2>1, <2>2
<1>4. ASSUME NEW s \in Ids, Claim(p, s) PROVE rows'[r] = rows[r]
  BY <1>1, <1>4 DEF Claim, Claimable, Unclaimed
<1>5. ASSUME NEW s \in Ids, Charge(p, s) PROVE FALSE
  BY <1>5 DEF Charge, IInv, ChargeInv, KeyringReadable
<1>6. ASSUME NEW s \in Ids, Report(p, s) PROVE rows'[r].status = "sent"
  <2>1. CASE s # r
    BY <1>1, <1>6, <2>1 DEF Report
  <2>2. CASE s = r
    <3>1. rows'[r] = [rows[r] EXCEPT !.noticed = TRUE]
      BY <1>1, <1>6, <2>2 DEF Report, Update
    <3> QED
      BY <1>1, <3>1 DEF Row
  <2> QED
    BY <2>1, <2>2
<1>7. CASE Refresh(p) \/ RecordSent(p) \/ RecordFailure(p)
  BY <1>1, <1>7 DEF Refresh, RecordSent, RecordFailure, OwnPCs
<1>8. CASE DropReceipt(p) \/ TellFailure(p) \/ SelfReceipt(p)
  <2>1. CASE DropReceipt(p)
    BY <1>1, <2>1, BornFields DEF DropReceipt
  <2>2. CASE TellFailure(p)
    BY <1>1, <2>2 DEF TellFailure, IInv, TypeOK
  <2>3. CASE SelfReceipt(p)
    BY <1>1, <2>3 DEF SelfReceipt, Fresh
  <2> QED
    BY <1>8, <2>1, <2>2, <2>3
<1>9. CASE \/ List(p) \/ EndFlush(p) \/ Get(p) \/ SmtpAccept(p) \/ SmtpLostReply(p)
           \/ SmtpReject(p, "rejected") \/ SmtpReject(p, "refused")
           \/ SelectDue(p) \/ EndCharge(p) \/ SelectNotices(p) \/ EndNotices(p)
  BY <1>9 DEF List, EndFlush, Get, SmtpAccept, SmtpLostReply, SmtpReject, SelectDue,
              EndCharge, SelectNotices, EndNotices
<1> QED
  BY <1>2, <1>3, <1>4, <1>5, <1>6, <1>7, <1>8, <1>9 DEF Step

(* Where no run charges rows it does not own, recovery, a late run and the  *)
(* user's actions leave a row recorded as sent as it is until it goes,      *)
(* unless the user was told of a failure (queue::mark_sent against          *)
(* requeue_interrupted and promote_due).  A charge, fail_due_scheduled, is  *)
(* what KeyringReadable rules out: it tests no status, and can turn the row.*)
THEOREM SentStays ==
  ASSUME LiveSubmitsAreQuick, KeyringReadable
  PROVE  Spec => SentIsFinal
<1>1. IInv /\ [Next]_vars
        => [\A r \in Ids : rows[r].status = "sent" =>
              rows'[r].status \in {"sent", "none"} \/ fate'[r] = "told"]_vars
  <2> SUFFICES ASSUME IInv, Next, NEW r \in Ids, rows[r].status = "sent",
                      fate'[r] # "told"
               PROVE  rows'[r].status \in {"sent", "none"}
    BY DEF vars
  <2>1. fate[r] # "told"
    BY ToldStays
  <2>2. rows[r] \in Row /\ rows \in [Ids -> Row] /\ fate[r] # "none"
    BY <2>1, SentIsAlone
  <2>3. CASE Compose
    BY <2>2, <2>3, BornFields
       DEF Compose, PrepareSend, SpawnDeliver, AbandonSend, PrepareScheduled, Fresh
  <2>4. CASE User
    BY <2>2, <2>4, BornFields
       DEF User, SendNow, Dismiss, Reschedule, RemoveAccount, HELD_STATUSES
  <2>5. CASE Tick
    <3>1. rows'[r] = Older(rows[r])
      BY <2>5 DEF Tick
    <3> QED
      BY <2>2, <3>1, OlderFields
  <2>6. CASE \E s \in Ids : StartDeliver(s)
    BY <2>6 DEF StartDeliver
  <2>7. ASSUME NEW p \in Procs, Start(p) \/ Crash(p)
        PROVE  rows' = rows
    BY <2>7 DEF Start, BeginSync, BeginDue, Crash
  <2>8. ASSUME NEW p \in Procs, Step(p)
        PROVE  rows'[r].status \in {"sent", "none"}
    BY <2>1, <2>8, StepKeepsSent
  <2> QED
    BY <2>3, <2>4, <2>5, <2>6, <2>7, <2>8 DEF Next
<1> QED
  BY <1>1, Ownership, PTL DEF Spec, SentIsFinal

-----------------------------------------------------------------------------
(* A single process: a row is claimed when it is due, and the dialog shows  *)
(* what the next flush will do.                                             *)

\* The app is the only process on the queue.
OneProcess == Procs = {Gui}

\* A row that waits for a flush, or is being sent, is past its time and has
\* attempts left; one held for its time has them all.
InTime(row) ==
  /\ row.status \in {"queued", "sending"} => row.at <= 0
  /\ row.status \in {"queued", "sending", "scheduled"} => row.retries < MAX_SEND_RETRIES

\* A row of a flush's list that is still to be claimed is due.
StillDue(row) == row.status \in Unclaimed => Submittable(row)

\* The run works through a list of list_submittable.
Flushing(p) == pc[p] \in OwnPCs \cup {"next", "receipt", "drop"} /\ mode[p] # "deliver"

ListInv(p) ==
  /\ pc[p] \notin {"charge", "report"} /\ ~Flushing(p) => todo[p] = {}
  /\ Flushing(p) => \A r \in todo[p] : StillDue(rows[r])
  /\ \A r \in todo[p] : fate[r] # "none"
  /\ pc[p] \in OwnPCs \cup {"drop"} => cur[p] \notin todo[p]
  /\ pc[p] = "discard" => mode[p] = "deliver"
  /\ mode[p] = "deliver" => pc[p] \in OwnPCs \cup {"next", "receipt", "discard"}

RowDue(r) == InTime(rows[r]) /\ (fate[r] = "none" => rows[r].status = "none")

\* The inductive invariant: what a flush has listed and not claimed yet is due,
\* as only the user changes it meanwhile.
DueInv == (\A r \in Ids : RowDue(r)) /\ ListInv(Gui)

\* No statement makes a row early, or a row of none.
LEMMA StatementsInTime ==
  ASSUME NEW row \in Row, InTime(row)
  PROVE  /\ InTime(requeue_interrupted(row)) /\ InTime(prune_sent(promote_due(row)))
         /\ InTime(mark_sent(row)) /\ InTime(mark_failed(row))
         /\ InTime(fail_and_discard(row)) /\ InTime(update_raw_mime(row))
         /\ \A b \in BOOLEAN : InTime(fail_scheduled_attempt(row, b))
         /\ InTime(Update(row, [row EXCEPT !.noticed = TRUE]))
         /\ Submittable(row) => InTime(claim(row))
<1> USE DEF InTime, Row
<1>1. InTime(requeue_interrupted(row))
  BY DEF requeue_interrupted
<1>2. InTime(prune_sent(promote_due(row)))
  BY DEF prune_sent, promote_due, NoRow
<1>3. InTime(mark_sent(row)) /\ InTime(mark_failed(row)) /\ InTime(fail_and_discard(row))
  BY DEF mark_sent, mark_failed, fail_and_discard, Update
<1>4. InTime(update_raw_mime(row)) /\ InTime(Update(row, [row EXCEPT !.noticed = TRUE]))
  BY DEF update_raw_mime, Update
<1>5. ASSUME NEW b \in BOOLEAN PROVE InTime(fail_scheduled_attempt(row, b))
  BY AttemptFields
<1>6. Submittable(row) => InTime(claim(row))
  BY DEF claim, Submittable
<1> QED
  BY <1>1, <1>2, <1>3, <1>4, <1>5, <1>6

LEMMA NoneStaysNone ==
  ASSUME NEW row \in Row, row.status = "none"
  PROVE  /\ requeue_interrupted(row).status = "none" /\ prune_sent(promote_due(row)).status = "none"
         /\ mark_sent(row) = row /\ mark_failed(row) = row
         /\ fail_and_discard(row) = row /\ update_raw_mime(row) = row
         /\ \A b \in BOOLEAN : fail_scheduled_attempt(row, b) = row
         /\ Update(row, [row EXCEPT !.noticed = TRUE]) = row
         /\ Older(row) = row
BY DEF requeue_interrupted, prune_sent, promote_due, mark_sent, mark_failed, fail_and_discard,
       update_raw_mime, fail_scheduled_attempt, Update, Older

\* What the user and the composer put into the table is in time, and due if it
\* is not held; so is a row that ages.
LEMMA UserRows ==
  ASSUME NEW row \in Row
  PROVE  /\ InTime(NoRow) /\ StillDue(NoRow) /\ InTime(ImmediateRow) /\ StillDue(ImmediateRow)
         /\ \A d \in Nat, b \in BOOLEAN :
              InTime(ScheduledRow(d, b)) /\ StillDue(ScheduledRow(d, b))
         /\ \A d \in Nat :
              LET new == [Restarted(row) EXCEPT !.status = "scheduled", !.at = d] IN
              InTime(new) /\ StillDue(new) /\ new.status # "none"
         /\ LET new == [Restarted(row) EXCEPT !.status = "queued", !.at = 0] IN
            InTime(new) /\ (row.bytes => StillDue(new)) /\ new.status # "none"
         /\ InTime(row) => InTime(Older(row))
         /\ StillDue(row) => StillDue(Older(row))
<1> USE ConstantsOK DEF InTime, StillDue, Unclaimed, Submittable
<1>1. InTime(NoRow) /\ StillDue(NoRow) /\ InTime(ImmediateRow) /\ StillDue(ImmediateRow)
  BY DEF NoRow, ImmediateRow
<1>2. ASSUME NEW d \in Nat, NEW b \in BOOLEAN
      PROVE  InTime(ScheduledRow(d, b)) /\ StillDue(ScheduledRow(d, b))
  BY DEF ScheduledRow, NoRow
<1>3. ASSUME NEW d \in Nat
      PROVE  LET new == [Restarted(row) EXCEPT !.status = "scheduled", !.at = d] IN
             InTime(new) /\ StillDue(new) /\ new.status # "none"
  BY DEF Restarted, Row
<1>4. LET new == [Restarted(row) EXCEPT !.status = "queued", !.at = 0] IN
      InTime(new) /\ (row.bytes => StillDue(new)) /\ new.status # "none"
  BY DEF Restarted, Row
<1>5. /\ Older(row).status = row.status /\ Older(row).bytes = row.bytes
      /\ Older(row).retries = row.retries
      /\ Older(row).at <= row.at /\ (row.pause = 0 => Older(row).pause = 0)
  BY DEF Older, Update, Row
<1>6. (InTime(row) => InTime(Older(row))) /\ (StillDue(row) => StillDue(Older(row)))
  <2>1. row.at <= 0 => Older(row).at <= 0
    BY <1>5, OlderRow DEF Row
  <2> QED
    BY <1>5, <2>1
<1> QED
  BY <1>1, <1>2, <1>3, <1>4, <1>6

-----------------------------------------------------------------------------
LEMMA DueInit ==
  ASSUME Init PROVE DueInv
<1>1. \A r \in Ids : rows[r] = NoRow /\ pc[Gui] = "idle" /\ mode[Gui] = "none" /\ todo[Gui] = {}
  BY ConstantsOK DEF Init
<1>2. pc[Gui] = "idle" /\ mode[Gui] = "none" /\ todo[Gui] = {}
  BY ConstantsOK DEF Init
<1> QED
  BY <1>1, <1>2 DEF DueInv, RowDue, ListInv, Flushing, InTime, NoRow, OwnPCs

\* What a run does to a row leaves it in time.
LEMMA StepRowDue ==
  ASSUME TypeOK, DueInv, Step(Gui), NEW r \in Ids
  PROVE  RowDue(r)'
<1>1. /\ rows[r] \in Row /\ rows \in [Ids -> Row] /\ fate \in [Ids -> {"none", "open", "told", "withdrawn", "dropped", "removed"}]
      /\ InTime(rows[r]) /\ (fate[r] = "none" => rows[r].status = "none")
      /\ Gui \in Procs
  BY ConstantsOK DEF TypeOK, DueInv, RowDue
<1>2. CASE Recover(Gui) \/ Promote(Gui)
  <2>1. /\ fate' = fate
        /\ \/ rows'[r] = requeue_interrupted(rows[r])
           \/ rows'[r] = prune_sent(promote_due(rows[r]))
    BY <1>2 DEF Recover, Promote, ghostVars
  <2> QED
    BY <1>1, <2>1, StatementsInTime, NoneStaysNone DEF RowDue
<1>3. ASSUME NEW s \in Ids, Claim(Gui, s) PROVE RowDue(r)'
  <2>1. fate' = fate /\ (rows'[r] = rows[r] \/ (s = r /\ rows'[r] = claim(rows[r])))
    BY <1>1, <1>3 DEF Claim, ghostVars
  <2>2. CASE s = r /\ rows'[r] = claim(rows[r]) /\ rows'[r] # rows[r]
    <3>1. Claimable(rows[r]) /\ r \in todo[Gui] /\ pc[Gui] = "next"
      BY <1>3, <2>2 DEF Claim
    <3>2. Flushing(Gui) /\ StillDue(rows[r]) /\ fate[r] # "none"
      BY <3>1 DEF DueInv, ListInv, Flushing
    <3>3. Submittable(rows[r])
      BY <3>1, <3>2 DEF StillDue, Claimable
    <3> QED
      BY <1>1, <2>1, <2>2, <3>2, <3>3, StatementsInTime DEF RowDue
  <2> QED
    BY <1>1, <2>1, <2>2 DEF RowDue
<1>4. ASSUME NEW s \in Ids, Charge(Gui, s) \/ Report(Gui, s) PROVE RowDue(r)'
  <2>1. /\ fate' = fate
        /\ \/ rows'[r] = rows[r]
           \/ rows'[r] = fail_scheduled_attempt(rows[r], FALSE)
           \/ rows'[r] = Update(rows[r], [rows[r] EXCEPT !.noticed = TRUE])
    BY <1>1, <1>4 DEF Charge, Report, ghostVars
  <2> QED
    BY <1>1, <2>1, StatementsInTime, NoneStaysNone DEF RowDue
<1>5. CASE Refresh(Gui) \/ RecordSent(Gui) \/ RecordFailure(Gui)
  <2>1. /\ fate' = fate
        /\ \/ rows'[r] = rows[r]
           \/ rows'[r] = update_raw_mime(rows[r])
           \/ rows'[r] = mark_sent(rows[r])
           \/ rows'[r] = mark_failed(rows[r])
           \/ \E b \in BOOLEAN : rows'[r] = fail_scheduled_attempt(rows[r], b)
    BY <1>1, <1>5 DEF Refresh, RecordSent, RecordFailure, ghostVars
  <2> QED
    BY <1>1, <2>1, StatementsInTime, NoneStaysNone DEF RowDue
<1>6. CASE DropReceipt(Gui) \/ TellFailure(Gui) \/ SelfReceipt(Gui)
  <2>1. \/ fate'[r] # "none" /\ rows'[r] = ImmediateRow
        \/ rows'[r] = NoRow
        \/ rows'[r] = rows[r] /\ (fate'[r] = "none" => fate[r] = "none")
        \/ rows'[r] = fail_and_discard(rows[r]) /\ fate'[r] # "none"
    <3>1. CASE DropReceipt(Gui)
      BY <1>1, <3>1 DEF DropReceipt
    <3>2. CASE TellFailure(Gui)
      BY <1>1, <3>2 DEF TellFailure
    <3>3. CASE SelfReceipt(Gui)
      BY <1>1, <3>3 DEF SelfReceipt
    <3> QED
      BY <1>6, <3>1, <3>2, <3>3
  <2>2. NoRow.status = "none"
    BY DEF NoRow
  <2> QED
    BY <1>1, <2>1, <2>2, StatementsInTime, UserRows DEF RowDue
<1>7. CASE \/ List(Gui) \/ EndFlush(Gui) \/ Get(Gui) \/ SmtpAccept(Gui) \/ SmtpLostReply(Gui)
           \/ SmtpReject(Gui, "rejected") \/ SmtpReject(Gui, "refused")
           \/ SelectDue(Gui) \/ EndCharge(Gui) \/ SelectNotices(Gui) \/ EndNotices(Gui)
  <2>1. rows' = rows /\ fate' = fate
    BY <1>7 DEF List, EndFlush, Get, SmtpAccept, SmtpLostReply, SmtpReject, SelectDue,
                EndCharge, SelectNotices, EndNotices, ghostVars
  <2> QED
    BY <1>1, <2>1 DEF RowDue
<1> QED
  BY <1>2, <1>3, <1>4, <1>5, <1>6, <1>7 DEF Step

\* A run that moves along its program keeps to its list.
LEMMA StepListInv ==
  ASSUME TypeOK, DueInv, Step(Gui)
  PROVE  ListInv(Gui)'
<1>1. /\ rows \in [Ids -> Row] /\ todo \in [Procs -> SUBSET Ids] /\ pc \in [Procs -> PCs]
      /\ mode \in [Procs -> {"none", "sync", "due", "deliver"}]
      /\ cur \in [Procs -> Ids \cup {None}] /\ Gui \in Procs /\ None \notin Ids
      /\ fate \in [Ids -> {"none", "open", "told", "withdrawn", "dropped", "removed"}]
  BY ConstantsOK DEF TypeOK
<1>2. ListInv(Gui) /\ \A r \in Ids : RowDue(r)
  BY DEF DueInv
<1>3. CASE Recover(Gui) \/ Promote(Gui)
  BY <1>1, <1>2, <1>3 DEF Recover, Promote, Goto, ghostVars, ListInv, Flushing, OwnPCs
<1>4. CASE List(Gui)
  <2>1. /\ todo'[Gui] = {r \in Ids : Submittable(rows[r])} /\ pc'[Gui] = "next"
        /\ rows' = rows /\ fate' = fate /\ mode' = mode /\ pc[Gui] = "list"
    BY <1>1, <1>4 DEF List, Goto, ghostVars
  <2>2. \A r \in todo'[Gui] : StillDue(rows'[r]) /\ fate'[r] # "none"
    BY <1>2, <2>1 DEF StillDue, Submittable, Unclaimed, RowDue
  <2> QED
    BY <1>2, <2>1, <2>2 DEF ListInv, Flushing, OwnPCs
<1>5. ASSUME NEW s \in Ids, Claim(Gui, s) PROVE ListInv(Gui)'
  <2>1. /\ pc[Gui] = "next" /\ todo'[Gui] = todo[Gui] \ {s} /\ mode' = mode /\ fate' = fate
        /\ pc'[Gui] = "next" \/ (pc'[Gui] = "get" /\ cur'[Gui] = s)
        /\ \A r \in todo'[Gui] : rows'[r] = rows[r]
    BY <1>1, <1>5 DEF Claim, Goto, ghostVars
  <2> QED
    BY <1>2, <2>1 DEF ListInv, Flushing, OwnPCs
<1>6. CASE EndFlush(Gui) \/ EndCharge(Gui) \/ EndNotices(Gui)
  <2>1. /\ todo[Gui] = {} /\ todo' = todo /\ pc'[Gui] \in {"notices", "idle"}
        /\ mode'[Gui] # "deliver"
    BY <1>1, <1>2, <1>6
       DEF EndFlush, EndCharge, EndNotices, Goto, ListInv, OwnPCs
  <2> QED
    BY <2>1 DEF ListInv, Flushing, OwnPCs
<1>7. CASE SelectDue(Gui) \/ SelectNotices(Gui)
  <2>1. /\ \A r \in todo'[Gui] : r \in Ids /\ rows[r].status # "none"
        /\ pc[Gui] \in {"unreachable", "notices"} /\ pc'[Gui] \in {"charge", "report"}
        /\ rows' = rows /\ fate' = fate /\ mode' = mode
    BY <1>1, <1>7 DEF SelectDue, SelectNotices, Goto, ghostVars, DueScheduled, Waiting,
                      Noticeable, HELD_STATUSES
  <2> QED
    BY <1>2, <2>1 DEF ListInv, Flushing, OwnPCs, RowDue
<1>8. ASSUME NEW s \in Ids, Charge(Gui, s) \/ Report(Gui, s) PROVE ListInv(Gui)'
  <2>1. /\ pc[Gui] \in {"charge", "report"} /\ pc' = pc /\ mode' = mode /\ fate' = fate
        /\ todo'[Gui] \in {{}, todo[Gui] \ {s}}
    BY <1>1, <1>8 DEF Charge, Report, ghostVars
  <2>2. \A r \in todo'[Gui] : r \in todo[Gui]
    BY <2>1
  <2> QED
    BY <1>2, <2>1, <2>2 DEF ListInv, Flushing, OwnPCs
<1>9. CASE Get(Gui) \/ RecordSent(Gui) \/ RecordFailure(Gui) \/ Refresh(Gui)
  <2>1. /\ pc[Gui] \in OwnPCs /\ fate' = fate /\ todo' = todo
        /\ \A r \in todo[Gui] : r # cur[Gui] => rows'[r] = rows[r]
    BY <1>1, <1>9 DEF Get, RecordSent, RecordFailure, Refresh, ghostVars, OwnPCs
  <2>2. \/ pc'[Gui] \in OwnPCs /\ cur' = cur /\ mode' = mode
        \/ pc'[Gui] = "discard" /\ mode[Gui] = "deliver" /\ mode' = mode
        \/ pc'[Gui] = "drop" /\ mode[Gui] # "deliver" /\ mode' = mode /\ cur' = cur
        \/ pc'[Gui] \in {"next", "receipt"} /\ mode' = mode
        \/ pc'[Gui] = "idle" /\ mode[Gui] = "deliver" /\ mode'[Gui] = "none"
    BY <1>1, <1>9 DEF Get, RecordSent, RecordFailure, Refresh, AfterFailure, Failed, Release,
                      Goto, OwnPCs
  <2>3. /\ mode[Gui] = "deliver" => todo[Gui] = {}
        /\ mode[Gui] # "deliver" => \A r \in todo[Gui] : StillDue(rows[r])
        /\ cur[Gui] \notin todo[Gui]
    BY <1>2, <2>1 DEF ListInv, Flushing, OwnPCs
  <2>4. mode[Gui] # "deliver" => \A r \in todo[Gui] : StillDue(rows'[r])
    BY <2>1, <2>3
  <2> QED
    BY <1>2, <2>1, <2>2, <2>3, <2>4 DEF ListInv, Flushing, OwnPCs
<1>10. CASE \/ SmtpAccept(Gui) \/ SmtpLostReply(Gui)
            \/ SmtpReject(Gui, "rejected") \/ SmtpReject(Gui, "refused")
  <2>1. /\ pc[Gui] \in OwnPCs /\ pc'[Gui] \in OwnPCs /\ fate' = fate /\ todo' = todo
        /\ rows' = rows /\ cur' = cur /\ mode' = mode
    BY <1>1, <1>10 DEF SmtpAccept, SmtpLostReply, SmtpReject, Goto, ghostVars, OwnPCs
  <2> QED
    BY <1>2, <2>1 DEF ListInv, Flushing, OwnPCs
<1>11. CASE SelfReceipt(Gui)
  <2>1. /\ pc[Gui] = "receipt" /\ todo' = todo /\ mode' = mode
        /\ \/ \E q \in Fresh : /\ pc'[Gui] = "get" /\ cur'[Gui] = q
                               /\ \A r \in Ids \ {q} : rows'[r] = rows[r] /\ fate'[r] = fate[r]
           \/ pc'[Gui] = "next" /\ rows' = rows /\ fate' = fate
    BY <1>1, <1>11 DEF SelfReceipt, Goto, Fresh
  <2>2. \A q \in Fresh : q \notin todo[Gui]
    BY <1>2 DEF ListInv, Fresh
  <2> QED
    BY <1>1, <1>2, <2>1, <2>2 DEF ListInv, Flushing, OwnPCs
<1>12. CASE DropReceipt(Gui)
  <2>1. /\ pc[Gui] = "drop" /\ pc'[Gui] = "next" /\ todo' = todo /\ mode' = mode
        /\ \A r \in Ids : fate[r] # "none" => fate'[r] # "none"
        /\ \A r \in Ids : r # cur[Gui] => rows'[r] = rows[r]
    BY <1>1, <1>12 DEF DropReceipt, Release, Goto
  <2> QED
    BY <1>1, <1>2, <2>1 DEF ListInv, Flushing, OwnPCs
<1>13. CASE TellFailure(Gui)
  <2>1. pc[Gui] = "discard" /\ pc'[Gui] = "idle" /\ todo' = todo /\ mode'[Gui] = "none"
    BY <1>1, <1>13 DEF TellFailure, Release, Goto
  <2> QED
    BY <1>2, <2>1 DEF ListInv, Flushing, OwnPCs
<1> QED
  BY <1>3, <1>4, <1>5, <1>6, <1>7, <1>8, <1>9, <1>10, <1>11, <1>12, <1>13 DEF Step

\* The others' steps: the user, the composer, the clock, a crash, a new run.
LEMMA OtherDueInv ==
  ASSUME OneProcess, TypeOK, DueInv,
         \/ Compose \/ User \/ Tick \/ (\E s \in Ids : StartDeliver(s))
         \/ Start(Gui) \/ Crash(Gui)
  PROVE  DueInv'
<1>1. /\ rows \in [Ids -> Row] /\ todo \in [Procs -> SUBSET Ids] /\ pc \in [Procs -> PCs]
      /\ mode \in [Procs -> {"none", "sync", "due", "deliver"}]
      /\ cur \in [Procs -> Ids \cup {None}] /\ Gui \in Procs /\ None \notin Ids
      /\ fate \in [Ids -> {"none", "open", "told", "withdrawn", "dropped", "removed"}]
  BY ConstantsOK DEF TypeOK
<1>2. ListInv(Gui) /\ \A r \in Ids : RowDue(r)
  BY DEF DueInv
<1>3. NoRow.status = "none"
  BY DEF NoRow
<1>4. CASE Compose \/ User \/ Tick
  <2>1. pc' = pc /\ mode' = mode /\ todo' = todo /\ cur' = cur
    BY <1>4 DEF Compose, PrepareSend, SpawnDeliver, AbandonSend, PrepareScheduled, User, SendNow,
                Dismiss, Reschedule, RemoveAccount, UserOp, Tick, procVars
  <2>2. ASSUME NEW r \in Ids
        PROVE  /\ RowDue(r)' /\ (fate[r] # "none" => fate'[r] # "none")
               /\ fate[r] # "none" /\ StillDue(rows[r]) => StillDue(rows'[r])
    <3>1. rows[r] \in Row /\ RowDue(r) /\ SendTimes \subseteq Nat
      BY <1>1, <1>2, ConstantsOK
    <3>2. CASE Compose
      <4>1. \/ rows'[r] = rows[r] /\ fate'[r] = fate[r]
            \/ rows'[r] = ImmediateRow /\ fate'[r] = "open"
            \/ rows'[r] = NoRow /\ fate'[r] = "withdrawn"
            \/ (\E d \in Nat, b \in BOOLEAN : rows'[r] = ScheduledRow(d, b)) /\ fate'[r] = "open"
        BY <1>1, <3>1, <3>2
           DEF Compose, PrepareSend, SpawnDeliver, AbandonSend, PrepareScheduled, ghostVars
      <4> QED
        BY <3>1, <4>1, UserRows DEF RowDue
    <3>3. CASE User
      <4>1. CASE rows'[r] \in {rows[r], NoRow} /\ (fate'[r] = "none" <=> fate[r] = "none")
        BY <1>3, <3>1, <4>1, UserRows DEF RowDue
      <4>2. CASE /\ rows[r].bytes /\ rows[r].status # "none" /\ fate' = fate
                 /\ \/ rows'[r] = [Restarted(rows[r]) EXCEPT !.status = "queued", !.at = 0]
                    \/ \E d \in Nat :
                         rows'[r] = [Restarted(rows[r]) EXCEPT !.status = "scheduled", !.at = d]
        BY <3>1, <4>2, UserRows DEF RowDue
      <4>3. CASE RemoveAccount
        BY <1>1, <4>1, <4>3 DEF RemoveAccount
      <4>4. ASSUME NEW s \in Ids, Dismiss(s)
            PROVE  rows'[r] \in {rows[r], NoRow} /\ (fate'[r] = "none" <=> fate[r] = "none")
        <5>1. fate[s] # "none"
          BY <1>2, <4>4 DEF Dismiss, HELD_STATUSES, RowDue
        <5>2. rows'[r] \in {rows[r], NoRow}
          BY <1>1, <4>4 DEF Dismiss
        <5>3. fate'[r] = IF s = r THEN (IF fate[r] = "told" THEN fate[r] ELSE "withdrawn") ELSE fate[r]
          BY <1>1, <4>4 DEF Dismiss
        <5> QED
          BY <5>1, <5>2, <5>3
      <4>5. ASSUME NEW s \in Ids, SendNow(s) \/ \E d \in SendTimes : Reschedule(s, d)
            PROVE  \/ rows'[r] = rows[r] /\ fate' = fate
                   \/ /\ rows[r].bytes /\ rows[r].status # "none" /\ fate' = fate
                      /\ \/ rows'[r] = [Restarted(rows[r]) EXCEPT !.status = "queued", !.at = 0]
                         \/ \E d \in Nat :
                              rows'[r] = [Restarted(rows[r]) EXCEPT !.status = "scheduled", !.at = d]
        <5>1. CASE s = r /\ SendNow(s)
          BY <1>1, <5>1 DEF SendNow, HELD_STATUSES
        <5>3. ASSUME NEW d \in SendTimes, s = r, Reschedule(s, d)
              PROVE  /\ rows[r].bytes /\ rows[r].status # "none" /\ fate' = fate /\ d \in Nat
                     /\ rows'[r] = [Restarted(rows[r]) EXCEPT !.status = "scheduled", !.at = d]
          BY <1>1, <3>1, <5>3 DEF Reschedule, HELD_STATUSES
        <5>2. CASE s # r
          BY <1>1, <4>5, <5>2 DEF SendNow, Reschedule
        <5> QED
          BY <4>5, <5>1, <5>2, <5>3
      <4> QED
        BY <3>3, <4>1, <4>2, <4>3, <4>4, <4>5 DEF User
    <3>4. CASE Tick
      <4>1. rows'[r] = Older(rows[r]) /\ fate' = fate
        BY <3>4 DEF Tick, ghostVars
      <4> QED
        BY <3>1, <4>1, UserRows, NoneStaysNone DEF RowDue
    <3> QED
      BY <1>4, <3>2, <3>3, <3>4
  <2>3. ListInv(Gui)'
    BY <1>1, <1>2, <2>1, <2>2 DEF ListInv, Flushing
  <2> QED
    BY <2>2, <2>3 DEF DueInv
<1>5. CASE (\E s \in Ids : StartDeliver(s)) \/ Start(Gui) \/ Crash(Gui)
  <2>1. rows' = rows /\ fate' = fate
    BY <1>5 DEF StartDeliver, Start, BeginSync, BeginDue, Crash, ghostVars
  <2>2. todo'[Gui] = {} /\ \/ pc'[Gui] \in {"idle", "recover", "unreachable", "notices"} /\ mode'[Gui] # "deliver"
                           \/ pc'[Gui] \in {"get", "discard"} /\ mode'[Gui] = "deliver"
    <3>1. CASE Crash(Gui)
      BY <1>1, <3>1 DEF Crash, Release, Goto
    <3>2. CASE (\E s \in Ids : StartDeliver(s)) \/ Start(Gui)
      <4>1. todo' = todo /\ todo[Gui] = {}
        BY <1>2, <3>2 DEF StartDeliver, Start, BeginSync, BeginDue, ListInv, Flushing, OwnPCs
      <4> QED
        BY <1>1, <3>2, <4>1 DEF StartDeliver, Start, BeginSync, BeginDue, Goto
    <3> QED
      BY <1>5, <3>1, <3>2
  <2> QED
    BY <1>2, <2>1, <2>2 DEF DueInv, ListInv, RowDue, Flushing, OwnPCs
<1> QED
  BY <1>4, <1>5

LEMMA DueNext ==
  ASSUME OneProcess, TypeOK, DueInv, [Next]_vars
  PROVE  DueInv'
<1>1. CASE Next
  <2>1. \/ Compose \/ User \/ Tick \/ (\E s \in Ids : StartDeliver(s))
        \/ Start(Gui) \/ Crash(Gui) \/ Step(Gui)
    BY <1>1 DEF Next, OneProcess
  <2>2. CASE Step(Gui)
    BY <2>2, StepRowDue, StepListInv DEF DueInv
  <2> QED
    BY <2>1, <2>2, OtherDueInv
<1>2. CASE UNCHANGED vars
  BY <1>2 DEF vars, procVars, ghostVars, DueInv, RowDue, ListInv, Flushing
<1> QED
  BY <1>1, <1>2

(* With a single process, which may crash anywhere, the outbox dialog shows *)
(* what the next flush will do with each row and offers a way out, but for  *)
(* rows a failure overtook (outbox.rs, list_json and RowActions::of).       *)
THEOREM DialogIsRight ==
  ASSUME OneProcess PROVE Spec => []ViewHonest
<1>1. Init => DueInv
  BY DueInit
<1>2. TypeOK /\ DueInv /\ [Next]_vars => DueInv'
  BY DueNext
<1>3. TypeOK /\ DueInv => ViewHonest
  <2> SUFFICES ASSUME TypeOK, DueInv, NEW r \in Shown PROVE
        /\ ~Overtaken(rows[r]) => (ShownRetryable(rows[r]) <=> Submittable(rows[r]))
        /\ rows[r].status \in HELD_STATUSES =>
             /\ "delete" \in RowActions(rows[r])
             /\ rows[r].bytes => {"reschedule", "edit"} \subseteq RowActions(rows[r])
        /\ rows[r].status \notin HELD_STATUSES => RowActions(rows[r]) = {}
    BY DEF ViewHonest
  <2>1. /\ rows[r] \in Row /\ InTime(rows[r])
        /\ rows[r].status \in {"queued", "sending", "failed", "scheduled"}
    BY DEF TypeOK, DueInv, RowDue, Shown
  <2>2. ~Overtaken(rows[r]) => (ShownRetryable(rows[r]) <=> Submittable(rows[r]))
    BY <2>1 DEF Overtaken, ShownRetryable, Submittable, RowKind, Unclaimed, InTime, Row
  <2>3. rows[r].status \in HELD_STATUSES <=> RowKind(rows[r]) # "sending"
    BY <2>1 DEF RowKind, HELD_STATUSES
  <2> QED
    BY <2>1, <2>2, <2>3 DEF RowActions, HELD_STATUSES, RowKind
<1> QED
  BY <1>1, <1>2, <1>3, TypeCorrect, PTL DEF Spec

\* Only a claim makes a row that is there a `sending` one.
LEMMA StepOrClaim ==
  ASSUME TypeOK, DueInv, Step(Gui), NEW r \in Ids, ~\E s \in Ids : Claim(Gui, s),
         rows[r].status \notin {"sending", "none"}
  PROVE  rows'[r].status # "sending"
<1>1. rows[r] \in Row /\ rows \in [Ids -> Row] /\ fate[r] # "none" /\ Gui \in Procs
  BY ConstantsOK DEF TypeOK, DueInv, RowDue
<1>2. CASE Recover(Gui) \/ Promote(Gui)
  <2>1. \/ rows'[r] = requeue_interrupted(rows[r]) \/ rows'[r] = prune_sent(promote_due(rows[r]))
    BY <1>2 DEF Recover, Promote
  <2> QED
    BY <1>1, <2>1, PromoteFields DEF requeue_interrupted, Row
<1>3. ASSUME NEW s \in Ids, Charge(Gui, s) \/ Report(Gui, s) PROVE rows'[r].status # "sending"
  <2>1. \/ rows'[r] = rows[r]
        \/ rows'[r] = fail_scheduled_attempt(rows[r], FALSE)
        \/ rows'[r] = Update(rows[r], [rows[r] EXCEPT !.noticed = TRUE])
    BY <1>1, <1>3 DEF Charge, Report
  <2>2. Update(rows[r], [rows[r] EXCEPT !.noticed = TRUE]).status = rows[r].status
    BY <1>1 DEF Update, Row
  <2> QED
    BY <1>1, <2>1, <2>2, AttemptFields
<1>4. CASE Refresh(Gui) \/ RecordSent(Gui) \/ RecordFailure(Gui)
  <2>1. \/ rows'[r] = rows[r]
        \/ rows'[r] = update_raw_mime(rows[r]) \/ rows'[r] = mark_sent(rows[r])
        \/ rows'[r] = mark_failed(rows[r])
        \/ \E b \in BOOLEAN : rows'[r] = fail_scheduled_attempt(rows[r], b)
    BY <1>1, <1>4 DEF Refresh, RecordSent, RecordFailure
  <2> QED
    BY <1>1, <2>1, SubmitFields, AttemptFields
<1>5. CASE DropReceipt(Gui) \/ TellFailure(Gui) \/ SelfReceipt(Gui)
  <2>1. rows'[r] \in {rows[r], NoRow, fail_and_discard(rows[r])}
    BY <1>1, <1>5 DEF DropReceipt, TellFailure, SelfReceipt, Fresh
  <2> QED
    <3>1. fail_and_discard(rows[r]).status # "sending"
      BY <1>1 DEF fail_and_discard, Update, Row
    <3> QED
      BY <2>1, <3>1, BornFields
<1>6. CASE \/ List(Gui) \/ EndFlush(Gui) \/ Get(Gui) \/ SmtpAccept(Gui) \/ SmtpLostReply(Gui)
           \/ SmtpReject(Gui, "rejected") \/ SmtpReject(Gui, "refused")
           \/ SelectDue(Gui) \/ EndCharge(Gui) \/ SelectNotices(Gui) \/ EndNotices(Gui)
  BY <1>1, <1>6 DEF List, EndFlush, Get, SmtpAccept, SmtpLostReply, SmtpReject, SelectDue,
                    EndCharge, SelectNotices, EndNotices
<1> QED
  BY <1>2, <1>3, <1>4, <1>5, <1>6 DEF Step

(* With a single process a row is claimed only when it is due, out of its   *)
(* pause and with attempts left, though the flush listed it long before     *)
(* (queue::list_submittable, queue::claim).                                 *)
THEOREM ClaimsAreDue ==
  ASSUME OneProcess PROVE Spec => [][ClaimsWhatIsDue]_vars
<1>1. TypeOK /\ DueInv /\ [Next]_vars => [ClaimsWhatIsDue]_vars
  <2> SUFFICES ASSUME TypeOK, DueInv, Next, NEW r \in Ids,
                      rows[r].status \notin {"sending", "none"}, rows'[r].status = "sending"
               PROVE  Submittable(rows[r])
    BY DEF ClaimsWhatIsDue
  <2>1. rows[r] \in Row /\ rows \in [Ids -> Row] /\ RowDue(r) /\ ListInv(Gui) /\ fate[r] # "none"
    BY DEF TypeOK, DueInv, RowDue
  <2>2. CASE Step(Gui)
    <3>1. ASSUME NEW s \in Ids, Claim(Gui, s) PROVE Submittable(rows[r])
      <4>1. pc[Gui] = "next" /\ r \in todo[Gui] /\ Claimable(rows[r])
        BY <2>1, <3>1 DEF Claim
      <4>2. Flushing(Gui) \/ todo[Gui] = {}
        BY <2>1, <4>1 DEF Flushing, ListInv
      <4> QED
        BY <2>1, <4>1, <4>2 DEF ListInv, StillDue, Claimable
    <3>2. CASE ~\E s \in Ids : Claim(Gui, s)
      <4>1. rows'[r].status # "sending"
        BY <2>1, <2>2, <3>2, StepOrClaim
      <4> QED
        BY <4>1
    <3> QED
      BY <3>1, <3>2
  <2>3. CASE Compose
    BY <2>1, <2>3, BornFields, ConstantsOK
       DEF Compose, PrepareSend, SpawnDeliver, AbandonSend, PrepareScheduled, Fresh
  <2>4. CASE User
    <3>1. ASSUME NEW d \in Nat
          PROVE  /\ [Restarted(rows[r]) EXCEPT !.status = "scheduled", !.at = d].status # "sending"
                 /\ [Restarted(rows[r]) EXCEPT !.status = "queued", !.at = 0].status # "sending"
      BY <2>1, RestartedFields
    <3>2. ASSUME NEW s \in Ids, NEW d \in SendTimes, Reschedule(s, d) PROVE FALSE
      <4>1. d \in Nat
        BY ConstantsOK
      <4> QED
        BY <2>1, <3>1, <3>2, <4>1 DEF Reschedule
    <3>3. ASSUME NEW s \in Ids, SendNow(s) \/ Dismiss(s) PROVE FALSE
      BY <2>1, <3>1, <3>3, BornFields DEF SendNow, Dismiss
    <3>4. CASE RemoveAccount
      BY <2>1, <3>4, BornFields DEF RemoveAccount
    <3> QED
      BY <2>4, <3>2, <3>3, <3>4 DEF User
  <2>5. CASE Tick
    BY <2>1, <2>5, OlderFields DEF Tick
  <2>6. CASE (\E s \in Ids : StartDeliver(s)) \/ Start(Gui) \/ Crash(Gui)
    BY <2>6 DEF StartDeliver, Start, BeginSync, BeginDue, Crash
  <2> QED
    BY <2>2, <2>3, <2>4, <2>5, <2>6 DEF Next, OneProcess
<1> QED
  BY <1>1, DueInit, DueNext, TypeCorrect, PTL DEF Spec

\* A row that is not held for a time is past its own.
PastInv ==
  \A r \in Ids :
    fate[r] # "told" /\ rows[r].status \in {"queued", "sending", "failed", "sent"} => rows[r].at <= 0

\* What leaves a row's time alone, and what sets it.
LEMMA TimeFields ==
  ASSUME NEW row \in Row
  PROVE  /\ requeue_interrupted(row).at = row.at
         /\ requeue_interrupted(row).status \in {row.status, "queued", "failed"}
         /\ requeue_interrupted(row).status # row.status => row.status \in {"sending", "queued"}
         /\ prune_sent(promote_due(row)).status = "none" \/ prune_sent(promote_due(row)).at = row.at
         /\ row.status = "scheduled" /\ prune_sent(promote_due(row)).status # "scheduled" => row.at <= 0
         /\ row.status = "none" => prune_sent(promote_due(row)).status = "none"
         /\ claim(row).at = row.at /\ update_raw_mime(row).at = row.at
         /\ mark_sent(row).at = row.at /\ mark_failed(row).at = row.at
         /\ \A b \in BOOLEAN : fail_scheduled_attempt(row, b).at = row.at
         /\ Older(row).at <= row.at
         /\ Update(row, [row EXCEPT !.noticed = TRUE]).at = row.at
         /\ Update(row, [row EXCEPT !.noticed = TRUE]).status = row.status
         /\ [Restarted(row) EXCEPT !.status = "queued", !.at = 0].at = 0
         /\ NoRow.at = 0 /\ ImmediateRow.at = 0
<1> USE DEF Row, Update
<1>1. /\ requeue_interrupted(row).at = row.at
      /\ requeue_interrupted(row).status \in {row.status, "queued", "failed"}
      /\ requeue_interrupted(row).status # row.status => row.status \in {"sending", "queued"}
  BY DEF requeue_interrupted
<1>2. /\ prune_sent(promote_due(row)).status = "none" \/ prune_sent(promote_due(row)).at = row.at
      /\ row.status = "scheduled" /\ prune_sent(promote_due(row)).status # "scheduled" => row.at <= 0
      /\ row.status = "none" => prune_sent(promote_due(row)).status = "none"
  BY DEF promote_due, prune_sent, NoRow
<1>3. claim(row).at = row.at /\ update_raw_mime(row).at = row.at
  BY DEF claim, update_raw_mime
<1>4. mark_sent(row).at = row.at /\ mark_failed(row).at = row.at
  BY DEF mark_sent, mark_failed
<1>5. \A b \in BOOLEAN : fail_scheduled_attempt(row, b).at = row.at
  BY DEF fail_scheduled_attempt
<1>6. Older(row).at <= row.at
  BY DEF Older
<1>7. /\ Update(row, [row EXCEPT !.noticed = TRUE]).at = row.at
      /\ Update(row, [row EXCEPT !.noticed = TRUE]).status = row.status
  OBVIOUS
<1>8. [Restarted(row) EXCEPT !.status = "queued", !.at = 0].at = 0
  BY DEF Restarted
<1>9. NoRow.at = 0 /\ ImmediateRow.at = 0
  BY DEF NoRow, ImmediateRow
<1> QED
  BY <1>1, <1>2, <1>3, <1>4, <1>5, <1>6, <1>7, <1>8, <1>9

LEMMA PastStep ==
  ASSUME IInv, PastInv, KeyringReadable, NEW p \in Procs, Step(p)
  PROVE  PastInv'
<1> SUFFICES ASSUME NEW r \in Ids, fate'[r] # "told",
                    rows'[r].status \in {"queued", "sending", "failed", "sent"}
             PROVE  rows'[r].at <= 0
  BY DEF PastInv
<1>1. fate[r] # "told"
  BY ToldStays DEF Next
<1>2. /\ rows[r] \in Row /\ rows \in [Ids -> Row]
      /\ rows[r].status \in {"queued", "sending", "failed", "sent"} => rows[r].at <= 0
      /\ Owns(p, r) /\ rows[r].status # "none" => rows[r].status = "sending"
  BY <1>1 DEF IInv, TypeOK, PastInv, RowInv, HoldInv
<1>3. CASE Recover(p) \/ Promote(p)
  <2>1. \/ rows'[r] = requeue_interrupted(rows[r]) \/ rows'[r] = prune_sent(promote_due(rows[r]))
    BY <1>3 DEF Recover, Promote
  <2>2. rows[r].at <= 0 \/ rows[r].status = "none" \/ rows[r].status = "scheduled"
    BY <1>2 DEF Row, Statuses
  <2>3. CASE rows'[r] = requeue_interrupted(rows[r])
    <3>1. /\ rows'[r].at = rows[r].at
          /\ rows'[r].status # rows[r].status => rows[r].status \in {"sending", "queued"}
      <4>1. /\ requeue_interrupted(rows[r]).at = rows[r].at
            /\ requeue_interrupted(rows[r]).status # rows[r].status =>
                 rows[r].status \in {"sending", "queued"}
        BY <1>2, TimeFields
      <4> QED
        BY <2>3, <4>1
    <3> QED
      BY <1>2, <3>1
  <2>4. CASE rows'[r] = prune_sent(promote_due(rows[r]))
    <3>1. /\ rows'[r].status = "none" \/ rows'[r].at = rows[r].at
          /\ rows[r].status = "scheduled" /\ rows'[r].status # "scheduled" => rows[r].at <= 0
          /\ rows[r].status = "none" => rows'[r].status = "none"
      <4> DEFINE new == prune_sent(promote_due(rows[r]))
      <4>1. /\ new.status = "none" \/ new.at = rows[r].at
            /\ rows[r].status = "scheduled" /\ new.status # "scheduled" => rows[r].at <= 0
            /\ rows[r].status = "none" => new.status = "none"
        BY <1>2, TimeFields
      <4> HIDE DEF new
      <4>2. rows'[r] = new
        BY <2>4 DEF new
      <4> QED
        BY <4>1, <4>2
    <3> QED
      BY <2>2, <3>1
  <2> QED
    BY <2>1, <2>3, <2>4
<1>4. ASSUME NEW s \in Ids, Claim(p, s) PROVE rows'[r].at <= 0
  <2>1. \/ rows'[r] = rows[r]
        \/ rows[r].status \in Unclaimed /\ rows'[r] = claim(rows[r])
    BY <1>2, <1>4 DEF Claim, Claimable
  <2>2. claim(rows[r]).at = rows[r].at
    BY <1>2, TimeFields
  <2> QED
    BY <1>2, <2>1, <2>2 DEF Unclaimed
<1>5. ASSUME NEW s \in Ids, Charge(p, s) PROVE FALSE
  BY <1>5 DEF Charge, IInv, ChargeInv, KeyringReadable
<1>6. ASSUME NEW s \in Ids, Report(p, s) PROVE rows'[r].at <= 0
  <2>1. rows'[r] = rows[r] \/ rows'[r] = Update(rows[r], [rows[r] EXCEPT !.noticed = TRUE])
    BY <1>2, <1>6 DEF Report
  <2> QED
    BY <1>2, <2>1, TimeFields
<1>7. CASE Refresh(p) \/ RecordSent(p) \/ RecordFailure(p)
  <2>1. CASE cur[p] # r
    BY <1>2, <1>7, <2>1 DEF Refresh, RecordSent, RecordFailure
  <2>2. CASE cur[p] = r
    <3>1. rows[r].status \in {"none", "sending"}
      BY <1>2, <1>7, <2>2 DEF Owns, OwnPCs, Refresh, RecordSent, RecordFailure
    <3>2. \/ rows'[r] = update_raw_mime(rows[r]) \/ rows'[r] = mark_sent(rows[r])
          \/ rows'[r] = mark_failed(rows[r])
          \/ \E b \in BOOLEAN : rows'[r] = fail_scheduled_attempt(rows[r], b)
      BY <1>2, <1>7, <2>2 DEF Refresh, RecordSent, RecordFailure
    <3>3. rows'[r].at = rows[r].at
      <4>1. /\ update_raw_mime(rows[r]).at = rows[r].at /\ mark_sent(rows[r]).at = rows[r].at
            /\ mark_failed(rows[r]).at = rows[r].at
            /\ \A b \in BOOLEAN : fail_scheduled_attempt(rows[r], b).at = rows[r].at
        BY <1>2, TimeFields
      <4> QED
        BY <3>2, <4>1
    <3>4. rows[r].status = "none" => rows'[r].status = "none"
      BY <1>2, <3>2, NoneStaysNone
    <3> QED
      BY <1>2, <3>1, <3>3, <3>4
  <2> QED
    BY <2>1, <2>2
<1>8. CASE DropReceipt(p) \/ TellFailure(p) \/ SelfReceipt(p)
  <2>1. rows'[r] = rows[r] \/ rows'[r] = NoRow \/ rows'[r] = ImmediateRow
    <3>1. CASE TellFailure(p)
      <4>1. cur[p] # r
        BY <1>2, <3>1 DEF TellFailure, IInv, TypeOK
      <4> QED
        BY <1>2, <3>1, <4>1 DEF TellFailure
    <3>2. CASE DropReceipt(p) \/ SelfReceipt(p)
      BY <1>2, <3>2 DEF DropReceipt, SelfReceipt, Fresh
    <3> QED
      BY <1>8, <3>1, <3>2
  <2> QED
    <3>1. NoRow.at = 0 /\ ImmediateRow.at = 0
      BY <1>2, TimeFields
    <3> QED
      BY <1>2, <2>1, <3>1
<1>9. CASE \/ List(p) \/ EndFlush(p) \/ Get(p) \/ SmtpAccept(p) \/ SmtpLostReply(p)
           \/ SmtpReject(p, "rejected") \/ SmtpReject(p, "refused")
           \/ SelectDue(p) \/ EndCharge(p) \/ SelectNotices(p) \/ EndNotices(p)
  BY <1>2, <1>9 DEF List, EndFlush, Get, SmtpAccept, SmtpLostReply, SmtpReject, SelectDue,
                    EndCharge, SelectNotices, EndNotices
<1> QED
  BY <1>3, <1>4, <1>5, <1>6, <1>7, <1>8, <1>9 DEF Step

(* Where ownership holds, no failure overtakes the user, with any number of *)
(* processes: a failed row he was not told of is past its time, so the      *)
(* exemption in ViewHonest is of charged and recovered rows only            *)
(* (queue::reschedule against fail_scheduled_attempt).                      *)
THEOREM NoneOvertaken ==
  ASSUME LiveSubmitsAreQuick, KeyringReadable
  PROVE  Spec => [](\A r \in Ids : fate[r] # "told" => ~Overtaken(rows[r]))
<1>1. Init => PastInv
  BY BornFields DEF Init, PastInv
<1>2. IInv /\ PastInv /\ [Next]_vars => PastInv'
  <2> SUFFICES ASSUME IInv, PastInv, [Next]_vars PROVE PastInv'
    OBVIOUS
  <2>1. CASE \E p \in Procs : Step(p)
    BY <2>1, PastStep
  <2>2. CASE ~(\E p \in Procs : Step(p)) /\ Next
    <3> SUFFICES ASSUME NEW r \in Ids, fate'[r] # "told",
                        rows'[r].status \in {"queued", "sending", "failed", "sent"}
                 PROVE  rows'[r].at <= 0
      BY DEF PastInv
    <3>1. /\ rows[r] \in Row /\ rows \in [Ids -> Row] /\ fate[r] # "told"
          /\ rows[r].status \in {"queued", "sending", "failed", "sent"} => rows[r].at <= 0
      BY <2>2, ToldStays DEF IInv, TypeOK, PastInv
    <3>2. CASE Compose
      <4>1. \/ rows'[r] = rows[r] \/ rows'[r] = NoRow \/ rows'[r] = ImmediateRow
            \/ \E d \in Nat, b \in BOOLEAN : rows'[r] = ScheduledRow(d, b)
        BY <3>1, <3>2, ConstantsOK
           DEF Compose, PrepareSend, SpawnDeliver, AbandonSend, PrepareScheduled
      <4> QED
        <5>1. NoRow.at = 0 /\ ImmediateRow.at = 0
          BY <3>1, TimeFields
        <5>2. \A d \in Nat, b \in BOOLEAN : ScheduledRow(d, b).status = "scheduled"
          BY BornFields
        <5> QED
          BY <3>1, <4>1, <5>1, <5>2
    <3>3. CASE User
      <4>1. ASSUME NEW s \in Ids, NEW d \in SendTimes, Reschedule(s, d) PROVE rows'[r].at <= 0
        <5>1. d \in Nat
          BY ConstantsOK
        <5> QED
          BY <3>1, <4>1, <5>1, RestartedFields DEF Reschedule
      <4>2. ASSUME NEW s \in Ids, SendNow(s) \/ Dismiss(s) PROVE rows'[r].at <= 0
        <5> DEFINE new == [Restarted(rows[r]) EXCEPT !.status = "queued", !.at = 0]
        <5>1. rows'[r] \in {rows[r], NoRow, new}
          BY <3>1, <4>2 DEF SendNow, Dismiss
        <5>2. NoRow.at = 0 /\ new.at = 0
          BY <3>1, TimeFields
        <5> HIDE DEF new
        <5> QED
          BY <3>1, <5>1, <5>2
      <4>3. CASE RemoveAccount
        BY <4>3, BornFields DEF RemoveAccount
      <4> QED
        BY <3>3, <4>1, <4>2, <4>3 DEF User
    <3>4. CASE Tick
      <4>1. rows'[r] = Older(rows[r]) /\ Older(rows[r]) \in Row
        BY <3>1, <3>4, OlderRow DEF Tick
      <4>2. Older(rows[r]).status = rows[r].status /\ Older(rows[r]).at <= rows[r].at
        <5>1. Older(rows[r]).status = rows[r].status
          BY <3>1, OlderFields
        <5>2. Older(rows[r]).at <= rows[r].at
          BY <3>1, TimeFields
        <5> QED
          BY <5>1, <5>2
      <4>3. rows[r].at <= 0
        BY <3>1, <4>1, <4>2
      <4> QED
        BY <3>1, <4>1, <4>2, <4>3 DEF Row
    <3>5. CASE \/ \E s \in Ids : StartDeliver(s)
               \/ \E p \in Procs : Start(p) \/ Crash(p)
      BY <3>1, <3>5 DEF StartDeliver, Start, BeginSync, BeginDue, Crash
    <3> QED
      BY <2>2, <3>2, <3>3, <3>4, <3>5 DEF Next
  <2>3. CASE UNCHANGED vars
    BY <2>3 DEF vars, ghostVars, PastInv
  <2> QED
    BY <2>1, <2>2, <2>3
<1>3. IInv /\ PastInv => \A r \in Ids : fate[r] # "told" => ~Overtaken(rows[r])
  BY DEF IInv, TypeOK, PastInv, Overtaken, Row
<1> QED
  BY <1>1, <1>2, <1>3, Ownership, PTL DEF Spec

-----------------------------------------------------------------------------
(* The outbox implements SendPromise.                                      *)

\* What the promise says of mail r looks at the history of r alone.
LEMMA PromiseOf ==
  ASSUME NEW r \in Ids
  PROVE  /\ PromiseState[r] = IF fate[r] \in {"none", "told", "withdrawn"} THEN fate[r]
                              ELSE IF accepted[r] > lostAck[r] THEN "delivered"
                              ELSE "pending"
         /\ PromiseState'[r] = IF fate'[r] \in {"none", "told", "withdrawn"} THEN fate'[r]
                               ELSE IF accepted'[r] > lostAck'[r] THEN "delivered"
                               ELSE "pending"
BY DEF PromiseState

\* Mail m becomes `s`, the others stay what they are.
LEMMA PromiseBecomes ==
  ASSUME NEW m \in Ids, NEW s, PromiseState'[m] = s,
         \A r \in Ids \ {m} :
           fate'[r] = fate[r] /\ accepted'[r] = accepted[r] /\ lostAck'[r] = lostAck[r]
  PROVE  PromiseState' = [PromiseState EXCEPT ![m] = s]
<1>1. \A r \in Ids : PromiseState'[r] = [PromiseState EXCEPT ![m] = s][r]
  BY DEF PromiseState
<1> QED
  BY <1>1 DEF PromiseState

\* A step that keeps the history of every mail is invisible.
LEMMA PromiseStutters ==
  ASSUME UNCHANGED ghostVars
  PROVE  UNCHANGED Promise!vars
BY DEF ghostVars, PromiseState, Promise!vars

\* What the invariant says of a mail in a run's hands.
LEMMA InHands ==
  ASSUME IInv, NEW p \in Procs, pc[p] \in OwnPCs \cup {"discard"}
  PROVE  /\ cur[p] \in Ids /\ fate[cur[p]] # "none"
         /\ accepted[cur[p]] \in Nat /\ lostAck[cur[p]] \in Nat
         /\ pc[p] \in OwnPCs => fate[cur[p]] # "withdrawn"
         /\ pc[p] \in OwnPCs /\ fate[cur[p]] # "told" =>
              accepted[cur[p]] = lostAck[cur[p]] + (IF pc[p] = "accepted" THEN 1 ELSE 0)
<1>1. cur[p] \in Ids /\ RowInv(cur[p])
  BY DEF IInv, TypeOK
<1>2. /\ fate[cur[p]] # "none"
      /\ accepted[cur[p]] \in Nat /\ lostAck[cur[p]] \in Nat
  BY <1>1 DEF RowInv, FreshInv, IInv, TypeOK
<1>3. ASSUME pc[p] \in OwnPCs
      PROVE  /\ fate[cur[p]] # "withdrawn"
             /\ fate[cur[p]] # "told" =>
                  accepted[cur[p]] = lostAck[cur[p]] + (IF pc[p] = "accepted" THEN 1 ELSE 0)
  BY <1>1, <1>3 DEF RowInv, WithdrawnInv, CountInv, Owns
<1> QED
  BY <1>1, <1>2, <1>3

\* A mail handed over and held in the table or by its job is pending.
LEMMA HeldIsPending ==
  ASSUME IInv, NEW r \in Ids, fate[r] # "told",
         job[r] # "none" \/ rows[r].status \in HELD_STATUSES
  PROVE  PromiseState[r] = "pending"
<1>1. fate[r] \notin {"none", "withdrawn", "told"}
  BY DEF IInv, RowInv, FreshInv, WithdrawnInv, HELD_STATUSES
<1>2. accepted[r] = lostAck[r] /\ lostAck[r] \in Nat
  BY DEF IInv, TypeOK, RowInv, CountInv
<1> QED
  BY <1>1, <1>2, PromiseOf

\* The composer hands a mail over, or takes it back.
LEMMA ComposePromise ==
  ASSUME IInv, Compose
  PROVE  [Promise!Next]_Promise!vars
<1>1. ASSUME NEW r \in Ids,
             PrepareSend(r) \/ \E d \in SendTimes, b \in BOOLEAN : PrepareScheduled(r, d, b)
      PROVE  Promise!HandOver(r)
  <2>1. /\ fate[r] = "none" /\ fate' = [fate EXCEPT ![r] = "open"]
        /\ UNCHANGED <<accepted, lostAck>>
    BY <1>1 DEF PrepareSend, PrepareScheduled, Fresh
  <2>2. accepted[r] = lostAck[r] /\ lostAck[r] \in Nat /\ DOMAIN fate = Ids
    BY <2>1 DEF IInv, TypeOK, RowInv, FreshInv
  <2>3. PromiseState[r] = "none" /\ PromiseState'[r] = "pending"
    BY <2>1, <2>2, PromiseOf
  <2>4. PromiseState' = [PromiseState EXCEPT ![r] = "pending"]
    BY <2>1, <2>2, <2>3, PromiseBecomes
  <2> QED
    BY <2>1, <2>3, <2>4 DEF Promise!HandOver, Promise!Become
<1>2. ASSUME NEW r \in Ids, SpawnDeliver(r)
      PROVE  UNCHANGED Promise!vars
  BY <1>2, PromiseStutters DEF SpawnDeliver
<1>3. ASSUME NEW r \in Ids, AbandonSend(r)
      PROVE  Promise!Withdraw(r)
  <2>1. /\ job[r] # "none" /\ fate' = [fate EXCEPT ![r] = "withdrawn"]
        /\ UNCHANGED <<accepted, lostAck>> /\ DOMAIN fate = Ids
    BY <1>3 DEF AbandonSend, IInv, TypeOK
  <2>2. fate[r] # "told"
    BY <2>1 DEF IInv, RowInv, JobInv
  <2>3. PromiseState[r] = "pending" /\ PromiseState'[r] = "withdrawn"
    BY <2>1, <2>2, HeldIsPending, PromiseOf
  <2>4. PromiseState' = [PromiseState EXCEPT ![r] = "withdrawn"]
    BY <2>1, <2>3, PromiseBecomes
  <2> QED
    BY <2>1, <2>3, <2>4 DEF Promise!Withdraw, Promise!Become
<1> QED
  BY <1>1, <1>2, <1>3 DEF Compose, Promise!Next

\* Taking a mail back withdraws it; the user's other actions are invisible.
LEMMA UserPromise ==
  ASSUME IInv, User
  PROVE  [Promise!Next]_Promise!vars
<1>1. UNCHANGED <<accepted, lostAck>> /\ DOMAIN fate = Ids
  BY DEF User, SendNow, Dismiss, Reschedule, RemoveAccount, UserOp, IInv, TypeOK
<1>2. CASE fate' = fate
  BY <1>1, <1>2, PromiseStutters DEF ghostVars
<1>3. CASE RemoveAccount
  <2>1. \A r \in Ids : fate'[r] = IF fate[r] = "open" THEN "removed" ELSE fate[r]
    BY <1>3 DEF RemoveAccount
  <2>2. PromiseState' = PromiseState
    BY <1>1, <2>1 DEF PromiseState
  <2> QED
    BY <1>1, <2>2 DEF Promise!vars
<1>4. ASSUME NEW r \in Ids, Dismiss(r), fate[r] # "told"
      PROVE  Promise!Withdraw(r)
  <2>1. /\ rows[r].status \in HELD_STATUSES
        /\ fate' = [fate EXCEPT ![r] = "withdrawn"]
    BY <1>4 DEF Dismiss
  <2>2. PromiseState[r] = "pending" /\ PromiseState'[r] = "withdrawn"
    BY <1>1, <1>4, <2>1, HeldIsPending, PromiseOf
  <2>3. PromiseState' = [PromiseState EXCEPT ![r] = "withdrawn"]
    BY <1>1, <2>1, <2>2, PromiseBecomes
  <2> QED
    BY <1>1, <2>2, <2>3 DEF Promise!Withdraw, Promise!Become
<1>5. ASSUME NEW r \in Ids, Dismiss(r), fate[r] = "told"
      PROVE  fate' = fate
  BY <1>5 DEF Dismiss, IInv, TypeOK
<1>6. ASSUME NEW r \in Ids, SendNow(r) \/ \E d \in SendTimes : Reschedule(r, d)
      PROVE  fate' = fate
  BY <1>6 DEF SendNow, Reschedule
<1>7. ASSUME NEW r \in Ids, Dismiss(r)
      PROVE  [Promise!Next]_Promise!vars
  BY <1>2, <1>4, <1>5, <1>7 DEF Promise!Next
<1> QED
  BY <1>2, <1>3, <1>6, <1>7 DEF User

\* A crash forgets a delivery that was not written down.
LEMMA CrashPromise ==
  ASSUME IInv, NEW p \in Procs, Crash(p)
  PROVE  [Promise!Next]_Promise!vars
<1>1. UNCHANGED <<fate, accepted>> /\ DOMAIN fate = Ids /\ lostAck \in [Ids -> Nat]
  BY DEF Crash, IInv, TypeOK
<1>2. CASE pc[p] # "accepted"
  BY <1>1, <1>2, PromiseStutters DEF Crash, ghostVars
<1>3. CASE pc[p] = "accepted"
  <2> DEFINE r == cur[p]
  <2>1. /\ r \in Ids /\ fate[r] \notin {"none", "withdrawn"}
        /\ accepted[r] \in Nat /\ lostAck[r] \in Nat
        /\ fate[r] # "told" => accepted[r] = lostAck[r] + 1
    BY <1>3, InHands DEF OwnPCs
  <2>2. lostAck' = [lostAck EXCEPT ![r] = lostAck[r] + 1]
    BY <1>3 DEF Crash
  <2> HIDE DEF r
  <2>3. CASE fate[r] = "told"
    <3>1. PromiseState[r] = "told" /\ PromiseState'[r] = "told"
      BY <1>1, <2>1, <2>3, PromiseOf
    <3>2. PromiseState' = [PromiseState EXCEPT ![r] = "told"]
      BY <1>1, <2>1, <2>2, <3>1, PromiseBecomes
    <3>3. PromiseState' = PromiseState
      BY <2>1, <3>1, <3>2 DEF PromiseState
    <3>4. Promise!Late(r)
      BY <1>1, <2>2, <3>1, <3>3 DEF Promise!Late
    <3> QED
      BY <2>1, <3>4 DEF Promise!Next
  <2>4. CASE fate[r] # "told"
    <3>1. lostAck'[r] = accepted[r] /\ accepted[r] > lostAck[r]
      BY <1>1, <2>1, <2>2, <2>4
    <3>2. PromiseState[r] = "delivered" /\ PromiseState'[r] = "pending"
      BY <1>1, <2>1, <2>4, <3>1, PromiseOf
    <3>3. PromiseState' = [PromiseState EXCEPT ![r] = "pending"]
      BY <1>1, <2>1, <2>2, <3>2, PromiseBecomes
    <3>4. Promise!Forget(r)
      BY <1>1, <2>2, <3>2, <3>3 DEF Promise!Forget, Promise!Become
    <3> QED
      BY <2>1, <3>4 DEF Promise!Next
  <2> QED
    BY <2>3, <2>4
<1> QED
  BY <1>2, <1>3

\* A server takes the mail: once, or once more with the reply lost, or late.
LEMMA SmtpPromise ==
  ASSUME IInv, NEW p \in Procs, SmtpAccept(p) \/ SmtpLostReply(p)
  PROVE  [Promise!Next]_Promise!vars
<1> DEFINE r == cur[p]
<1>1. /\ pc[p] = "smtp" /\ fate' = fate
      /\ accepted' = [accepted EXCEPT ![r] = accepted[r] + 1]
      /\ \/ SmtpAccept(p) /\ lostAck' = lostAck
         \/ SmtpLostReply(p) /\ lostAck' = [lostAck EXCEPT ![r] = lostAck[r] + 1]
  BY DEF SmtpAccept, SmtpLostReply
<1>2. /\ r \in Ids /\ fate[r] \notin {"none", "withdrawn"}
      /\ accepted[r] \in Nat /\ lostAck[r] \in Nat
      /\ fate[r] # "told" => accepted[r] = lostAck[r]
      /\ accepted \in [Ids -> Nat] /\ lostAck \in [Ids -> Nat]
  BY <1>1, InHands DEF OwnPCs, IInv, TypeOK
<1> HIDE DEF r
<1>3. CASE fate[r] = "told"
  <2>1. PromiseState[r] = "told" /\ PromiseState'[r] = "told"
    BY <1>1, <1>2, <1>3, PromiseOf
  <2>2. PromiseState' = [PromiseState EXCEPT ![r] = "told"]
    BY <1>1, <1>2, <2>1, PromiseBecomes
  <2>3. PromiseState' = PromiseState
    BY <1>2, <2>1, <2>2 DEF PromiseState
  <2>4. Promise!Late(r)
    BY <1>1, <2>1, <2>3 DEF Promise!Late
  <2> QED
    BY <1>2, <2>4 DEF Promise!Next
<1>4. CASE fate[r] # "told" /\ lostAck' = lostAck
  <2>1. PromiseState[r] = "pending" /\ PromiseState'[r] = "delivered"
    BY <1>1, <1>2, <1>4, PromiseOf
  <2>2. PromiseState' = [PromiseState EXCEPT ![r] = "delivered"]
    BY <1>1, <1>2, <1>4, <2>1, PromiseBecomes
  <2>3. Promise!Deliver(r)
    BY <1>1, <1>4, <2>1, <2>2 DEF Promise!Deliver, Promise!Become
  <2> QED
    BY <1>2, <2>3 DEF Promise!Next
<1>5. CASE fate[r] # "told" /\ lostAck' = [lostAck EXCEPT ![r] = lostAck[r] + 1]
  <2>1. PromiseState[r] = "pending" /\ PromiseState'[r] = "pending"
    BY <1>1, <1>2, <1>5, PromiseOf
  <2>2. PromiseState' = [PromiseState EXCEPT ![r] = "pending"]
    BY <1>1, <1>2, <1>5, <2>1, PromiseBecomes
  <2>3. PromiseState' = PromiseState
    BY <1>2, <2>1, <2>2 DEF PromiseState
  <2>4. Promise!DeliverUnconfirmed(r)
    BY <1>1, <1>5, <2>1, <2>3 DEF Promise!DeliverUnconfirmed
  <2> QED
    BY <1>2, <2>4 DEF Promise!Next
<1> QED
  BY <1>1, <1>3, <1>4, <1>5

\* The user is told; a receipt is handed over, or dropped unseen.
LEMMA EndsPromise ==
  ASSUME IInv, NEW p \in Procs, TellFailure(p) \/ SelfReceipt(p) \/ DropReceipt(p)
  PROVE  [Promise!Next]_Promise!vars
<1>1. UNCHANGED <<accepted, lostAck>> /\ DOMAIN fate = Ids
  BY DEF TellFailure, SelfReceipt, DropReceipt, IInv, TypeOK
<1>2. ASSUME TellFailure(p)
      PROVE  Promise!Next
  <2> DEFINE r == cur[p]
  <2>1. r \in Ids /\ fate[r] # "none" /\ fate' = [fate EXCEPT ![r] = "told"]
    BY <1>2, InHands DEF TellFailure
  <2> HIDE DEF r
  <2>2. PromiseState[r] # "none" /\ PromiseState'[r] = "told"
    BY <1>1, <2>1, PromiseOf
  <2>3. PromiseState' = [PromiseState EXCEPT ![r] = "told"]
    BY <1>1, <2>1, <2>2, PromiseBecomes
  <2>4. Promise!Tell(r)
    BY <1>1, <2>2, <2>3 DEF Promise!Tell, Promise!Become
  <2> QED
    BY <2>1, <2>4 DEF Promise!Next
<1>3. ASSUME NEW q \in Fresh, fate' = [fate EXCEPT ![q] = "open"]
      PROVE  Promise!Next
  <2>1. q \in Ids /\ fate[q] = "none"
    BY DEF Fresh
  <2>2. accepted[q] = lostAck[q] /\ lostAck[q] \in Nat
    BY <2>1 DEF IInv, TypeOK, RowInv, FreshInv
  <2>3. PromiseState[q] = "none" /\ PromiseState'[q] = "pending"
    BY <1>1, <1>3, <2>1, <2>2, PromiseOf
  <2>4. PromiseState' = [PromiseState EXCEPT ![q] = "pending"]
    BY <1>1, <1>3, <2>1, <2>3, PromiseBecomes
  <2>5. Promise!HandOver(q)
    BY <1>1, <2>3, <2>4 DEF Promise!HandOver, Promise!Become
  <2> QED
    BY <2>1, <2>5 DEF Promise!Next
<1>4. ASSUME DropReceipt(p)
      PROVE  UNCHANGED Promise!vars
  <2>1. cur[p] \in Ids /\ \A r \in Ids : fate'[r] = fate[r] \/ (fate[r] = "open" /\ fate'[r] = "dropped")
    BY <1>1, <1>4 DEF DropReceipt, IInv, TypeOK
  <2>2. PromiseState' = PromiseState
    BY <1>1, <2>1 DEF PromiseState
  <2> QED
    BY <1>1, <2>2 DEF Promise!vars
<1>5. CASE fate' = fate
  BY <1>1, <1>5, PromiseStutters DEF ghostVars
<1>6. SelfReceipt(p) => fate' = fate \/ \E q \in Fresh : fate' = [fate EXCEPT ![q] = "open"]
  BY DEF SelfReceipt
<1> QED
  BY <1>2, <1>3, <1>4, <1>5, <1>6

(* Every step of the outbox is a step of SendPromise or invisible to it:    *)
(* hand-overs, deliveries, withdrawals and told failures come in the order  *)
(* it allows (compose::deliver, flush_outbox, outbox::dismiss).             *)
THEOREM KeepsPromise ==
  ASSUME LiveSubmitsAreQuick, KeyringReadable
  PROVE  Spec => PromiseSpec
<1>1. Init => Promise!Init
  BY DEF Init, Promise!Init, PromiseState
<1>2. IInv /\ [Next]_vars => [Promise!Next]_Promise!vars
  <2> SUFFICES ASSUME IInv, [Next]_vars PROVE [Promise!Next]_Promise!vars
    OBVIOUS
  <2>1. CASE UNCHANGED vars
    BY <2>1, PromiseStutters DEF vars
  <2>2. CASE Compose \/ User
    BY <2>2, ComposePromise, UserPromise
  <2>3. CASE Tick \/ \E r \in Ids : StartDeliver(r)
    BY <2>3, PromiseStutters DEF Tick, StartDeliver
  <2>4. ASSUME NEW p \in Procs, Start(p) \/ Step(p) \/ Crash(p)
        PROVE  [Promise!Next]_Promise!vars
    <3>1. CASE Start(p)
      BY <3>1, PromiseStutters DEF Start, BeginSync, BeginDue
    <3>2. CASE Crash(p)
      BY <3>2, CrashPromise
    <3>3. CASE SmtpAccept(p) \/ SmtpLostReply(p)
      BY <3>3, SmtpPromise
    <3>4. CASE TellFailure(p) \/ SelfReceipt(p) \/ DropReceipt(p)
      BY <3>4, EndsPromise
    <3>5. CASE \/ Recover(p) \/ Promote(p) \/ List(p) \/ EndFlush(p)
               \/ Get(p) \/ Refresh(p)
               \/ SmtpReject(p, "rejected") \/ SmtpReject(p, "refused")
               \/ RecordSent(p) \/ RecordFailure(p)
               \/ SelectDue(p) \/ EndCharge(p) \/ SelectNotices(p) \/ EndNotices(p)
               \/ \E r \in Ids : Claim(p, r) \/ Charge(p, r) \/ Report(p, r)
      BY <3>5, PromiseStutters
         DEF Recover, Promote, List, EndFlush, Get, Refresh, SmtpReject, RecordSent,
             RecordFailure, SelectDue, EndCharge, SelectNotices, EndNotices,
             Claim, Charge, Report
    <3> QED
      BY <2>4, <3>1, <3>2, <3>3, <3>4, <3>5 DEF Step
  <2> QED
    BY <2>1, <2>2, <2>3, <2>4 DEF Next
<1> QED
  BY <1>1, <1>2, Ownership, PTL DEF Spec, PromiseSpec, Promise!Spec
=============================================================================
