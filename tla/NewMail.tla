------------------------------- MODULE NewMail -------------------------------
(***************************************************************************)
(* The background check and the new-mail notifications: what arrived       *)
(* (mailcore sync/background.rs), what to put on screen                    *)
(* (sync/background/notify.rs, notify/buttons.rs) and the Android host     *)
(* that carries the plan out and commits its marks (MailNotifier.kt,       *)
(* MailCheckWorker.kt, MailPushService.kt, MailActions.kt, MailState.kt).  *)
(*                                                                         *)
(* Every inbox keeps two marks: `seen`, above which unread mail is new,    *)
(* and `line`, above which it is still listed.  A check takes the process  *)
(* wide sync lock, syncs, reads the inbox tops, reads what is unread above *)
(* the marks and gives the lock back; only then is its report planned,     *)
(* posted and committed, one delivery at a time.  The scheduled worker and *)
(* the push monitor do this on threads of their own, the buttons of the    *)
(* notifications deliver too, and the user opens and leaves the app in     *)
(* between.                                                                *)
(*                                                                         *)
(* A mail is <<account, UID>>; every account has one inbox.  The settings  *)
(* a plan reads (muted accounts, the Android permission) may be different  *)
(* at every plan, so they are inputs of Plan and not state.                *)
(***************************************************************************)
EXTENDS Naturals, FiniteSets

CONSTANTS Accounts, MaxUid, MaxChildren, Worker, Push, Button, Nobody,
          Worlds  \* what a behaviour may meet: [kinds: the checkers the settings
                  \* switch on, mails: the mails that arrive, resets, crashes, app: it is opened]

Mails     == Accounts \X (1..MaxUid)
Checkers  == {Worker, Push}
Threads   == Checkers \cup {Button}

ASSUME NewMailOK ==
  /\ MaxUid \in Nat
  /\ Worker # Push /\ Button \notin Checkers
  /\ \A w \in Worlds : w.kinds \subseteq Checkers /\ w.resets \in Nat

NoMark    == [v |-> 0, u |-> 0]
MarkAt(v, u) == [v |-> v, u |-> u]

VARIABLES
  world,      \* the bounds of this behaviour
  mail,       \* [Mails -> "none", "server", "unread", "done" (read, or hidden by a queued
              \*         move), "gone"]
  validity,   \* [Accounts -> UIDVALIDITY of the inbox, server and cache]
  seen, line, \* the two marks of every inbox
  lock,       \* holder of the sync lock
  job,        \* what every thread is at, with its report and its plan
  desk,       \* the thread inside MailNotifier.deliver
  screen,     \* mails with a notification of their own
  group,      \* mails the account summaries on screen list
  foreground, \* the app is on screen
  crashes,
  \* history: how often the alert of a mail rang, while only one checker is
  \* switched on ("app": the app's own sync brought it in), and the mail that
  \* is accounted for (rung, silenced by a setting, on screen in the app,
  \* below a baseline, touched by the user or another client)
  rang, answered

vars == <<world, mail, validity, seen, line, lock, job, desk, screen, group, foreground, crashes,
          rang, answered>>

Named(ms)  == {<<validity[m[1]], m>> : m \in ms}
Maximum(S) == CHOOSE x \in S : \A y \in S : y <= x
Idle       == [at |-> "idle"]
Validities == UNION {1..(1 + w.resets) : w \in Worlds}

-----------------------------------------------------------------------------
(* Marks and lists.                                                        *)

Cached     == {m \in Mails : mail[m] \in {"unread", "done"}}
TopOf(a)   == Maximum({0} \cup {m[2] : m \in {c \in Cached : c[1] = a}})
Tops       == [a \in Accounts |-> MarkAt(validity[a], TopOf(a))]

\* Faulty: a mark of the old numbering is believed.
Valid_AnyNumbering(marks, tops, a) == marks[a] # NoMark

\* A mark counts only under the UIDVALIDITY it was drawn under.
Valid(marks, tops, a)   == marks[a].v = tops[a].v /\ marks[a] # NoMark
Unread                  == {m \in Mails : mail[m] = "unread"}
Above(tops, a, mark)    == {m \in Unread : m[1] = a /\ m[2] > mark.u}

CollectNew(tops)     == UNION {Above(tops, a, seen[a]) : a \in {x \in Accounts : Valid(seen, tops, x)}}
CollectPending(tops) ==
    UNION {IF Valid(line, tops, a) THEN Above(tops, a, line[a])
           ELSE IF Valid(seen, tops, a) THEN Above(tops, a, seen[a])
           ELSE {} : a \in Accounts}

\* First sighting or a new UIDVALIDITY: the folder's top is the baseline and
\* what lies below it is never reported.
Baseline(tops) == {m \in Cached : ~Valid(seen, tops, m[1]) /\ m[2] <= tops[m[1]].u}

-----------------------------------------------------------------------------
(* A check: the lock, the sync, the tops, the lists.                       *)

Skipped  == [at |-> "deliver", skipped |-> TRUE, new |-> {}, pending |-> {}, based |-> {},
             tops |-> [a \in {} |-> NoMark], ids |-> [a \in {} |-> 0]]

\* The worker (scheduled or the tile) delivers the empty report of a check
\* that found the lock taken; the push monitor drops it.
Begin(r) ==
    /\ r \in world.kinds
    /\ job[r] = Idle
    /\ IF lock = Nobody
       THEN lock' = r /\ job' = [job EXCEPT ![r] = [at |-> "sync"]]
       ELSE /\ r = Worker
            /\ job' = [job EXCEPT ![r] = Skipped]
            /\ UNCHANGED lock
    /\ UNCHANGED <<world, mail, validity, seen, line, desk, screen, group, foreground, crashes,
                   rang, answered>>

\* Missing mail is fetched in ascending UIDs; an error may end it early.
Lands(a, u) == mail' = [m \in Mails |-> IF m[1] = a /\ m[2] <= u /\ mail[m] = "server" THEN "unread" ELSE mail[m]]

Fetch(a, u) ==
    /\ \E r \in Checkers : job[r].at = "sync"
    /\ mail[<<a, u>>] = "server"
    /\ Lands(a, u)
    /\ UNCHANGED <<world, validity, seen, line, lock, job, desk, screen, group, foreground, crashes,
                   rang, answered>>

\* The app's own sync takes no lock.
AppFetch(a, u) ==
    /\ foreground
    /\ mail[<<a, u>>] = "server"
    /\ Lands(a, u)
    /\ rang' = [n \in DOMAIN rang |->
                  IF world.kinds # Checkers /\ n \in Named(Mails) /\ mail[n[2]] # mail'[n[2]] THEN "app" ELSE rang[n]]
    /\ UNCHANGED <<world, validity, seen, line, lock, job, desk, screen, group, foreground, crashes, answered>>

ReadTops(r) ==
    /\ job[r].at = "sync"
    /\ job' = [job EXCEPT ![r] = [at |-> "tops", tops |-> Tops]]
    /\ UNCHANGED <<world, mail, validity, seen, line, lock, desk, screen, group, foreground, crashes,
                   rang, answered>>

Collect(r) ==
    /\ job[r].at = "tops"
    /\ job' = [job EXCEPT ![r] = [at |-> "deliver", skipped |-> FALSE, tops |-> job[r].tops,
                                  new |-> CollectNew(job[r].tops), pending |-> CollectPending(job[r].tops),
                                  based |-> Baseline(job[r].tops), ids |-> validity]]
    /\ lock' = Nobody
    /\ UNCHANGED <<world, mail, validity, seen, line, desk, screen, group, foreground, crashes,
                   rang, answered>>

-----------------------------------------------------------------------------
(* The plan.                                                               *)

\* The newest mails of every account get a notification of their own.
Newest(ms) == {m \in ms : Cardinality({n \in ms : n[1] = m[1] /\ n[2] > m[2]}) < MaxChildren}
Of(ms, as) == {m \in ms : m[1] \in as}

\* What a report without a plan of its own comes to: nothing moves on screen.
Settled(how, report) == [how |-> how, cancel |-> {}, shut |-> {}, sum |-> {}, open |-> {},
                         post |-> {}, rings |-> {}]

PlanOn(report, alerts, permitted) ==
    LET alerting == report.new # {} /\ alerts
        listed   == IF report.pending = {} THEN report.new ELSE report.pending
        fresh    == IF alerting THEN report.new ELSE {}
        onScreen == listed \cap (screen \cup fresh)
        shownBy  == {m[1] : m \in onScreen}
        loud     == {m[1] : m \in onScreen \cap fresh}
        open     == loud \cup {a \in shownBy : Of(group, {a}) # Of(onScreen, {a})}
    IN  IF foreground /\ report.new # {} THEN Settled("foreground", report)
        ELSE IF report.new # {} /\ ~permitted THEN Settled("blocked", report)
        ELSE [how |-> IF alerting THEN "alert" ELSE IF report.new # {} THEN "off" ELSE "update",
              cancel |-> screen \ Newest(onScreen),
              shut   |-> {m[1] : m \in group} \ shownBy,
              open   |-> open,
              sum    |-> Of(onScreen, open),
              post   |-> Newest(onScreen) \ (screen \ fresh),
              rings  |-> onScreen \cap fresh]

\* Under each account's own "Show notifications" setting.
PlanFor(report, muted, permitted) ==
    LET heard == [report EXCEPT !.new = @ \ Of(@, muted), !.pending = @ \ Of(@, muted)]
    IN  IF heard.new = {} /\ report.new # {}
        THEN PlanOn([heard EXCEPT !.new = report.new], FALSE, permitted)
        ELSE PlanOn(heard, TRUE, permitted)

Tagged(ids, ms) == {<<ids[m[1]], m>> : m \in Of(ms, DOMAIN ids)}

-----------------------------------------------------------------------------
(* Carrying it out.  The screen is read, the plan made and the             *)
(* notifications posted in one go; the marks follow.                       *)

\* Cancels go first, and a group's summary before its children.
Cancelled(plan) == screen \ plan.cancel
Summaries(plan) == (group \ Of(group, plan.shut \cup plan.open)) \cup plan.sum
Once(count)     == CASE count = "no" -> "once" [] count = "once" -> "twice" [] OTHER -> count

\* Deliveries enter one at a time.
Post(r, muted, permitted) ==
    /\ job[r].at = "deliver" /\ desk = Nobody
    /\ LET report == job[r]
           plan   == PlanFor(report, muted, permitted)
           heard  == IF plan.how = "alert" THEN plan.rings \cup Of(report.new, muted) ELSE report.new
       IN  /\ screen' = Cancelled(plan) \cup plan.post
           /\ group' = Summaries(plan)
           /\ rang' = [n \in DOMAIN rang |->
                         IF world.kinds # Checkers /\ n \in Tagged(report.ids, plan.rings) THEN Once(rang[n]) ELSE rang[n]]
           /\ job' = [job EXCEPT ![r] = [at |-> "commit", tops |-> report.tops,
                                         answers |-> Tagged(report.ids, report.based \cup heard)]]
    /\ desk' = r
    /\ UNCHANGED <<world, mail, validity, seen, line, lock, foreground, crashes, answered>>

\* Faulty: a failed post commits its marks all the same.
PostFails_Commits(r, muted, permitted) ==
    /\ job[r].at = "deliver" /\ desk = Nobody
    /\ PlanFor(job[r], muted, permitted).post # {}
    /\ job' = [job EXCEPT ![r] = [at |-> "commit", tops |-> job[r].tops, answers |-> {}]]
    /\ desk' = r
    /\ UNCHANGED <<world, mail, validity, seen, line, lock, screen, group, foreground, crashes, rang, answered>>

\* Faulty: the children go out before their summary.
PostFails_ChildrenFirst(r, muted, permitted) ==
    /\ job[r].at = "deliver" /\ desk = Nobody
    /\ LET plan == PlanFor(job[r], muted, permitted)
       IN  plan.post # {} /\ \E posted \in SUBSET plan.post : screen' = Cancelled(plan) \cup posted
    /\ job' = [job EXCEPT ![r] = Idle]
    /\ UNCHANGED <<world, mail, validity, seen, line, lock, desk, group, foreground, crashes, rang, answered>>

\* A notification that could not be posted: the cancels and the summaries
\* may be out already, the marks stay where they are.
PostFails(r, muted, permitted) ==
    /\ job[r].at = "deliver" /\ desk = Nobody
    /\ LET plan == PlanFor(job[r], muted, permitted)
       IN  /\ plan.post # {}
           /\ screen' = Cancelled(plan)
           /\ group' = Summaries(plan)
    /\ job' = [job EXCEPT ![r] = Idle]
    /\ UNCHANGED <<world, mail, validity, seen, line, lock, desk, foreground, crashes, rang, answered>>

\* Faulty: the marks are the tops of now, not of before the lists.
commit_seen_Now(tops) ==
    /\ seen' = [a \in Accounts |-> IF a \in DOMAIN tops THEN Tops[a] ELSE seen[a]]
    /\ UNCHANGED line

\* Faulty: only the shown line moves.
commit_seen_LineOnly(tops) ==
    /\ line' = [a \in Accounts |-> IF a \in DOMAIN tops THEN tops[a] ELSE line[a]]
    /\ seen' = [a \in Accounts |-> IF seen[a] = NoMark /\ a \in DOMAIN tops THEN tops[a] ELSE seen[a]]

\* The shown line starts where the alerts did.
commit_seen(tops) ==
    /\ seen' = [a \in Accounts |-> IF a \in DOMAIN tops THEN tops[a] ELSE seen[a]]
    /\ line' = [a \in Accounts |->
                  IF a \notin DOMAIN tops \/ Valid(line, tops, a) THEN line[a]
                  ELSE IF Valid(seen, tops, a) THEN seen[a] ELSE tops[a]]

Commit(r) ==
    /\ job[r].at = "commit"
    /\ commit_seen(job[r].tops)
    /\ answered' = answered \cup job[r].answers
    /\ job' = [job EXCEPT ![r] = Idle]
    /\ desk' = Nobody
    /\ UNCHANGED <<world, mail, validity, lock, screen, group, foreground, crashes, rang>>

-----------------------------------------------------------------------------
(* The notifications' buttons and the user.                                *)

\* Mark read, Archive or Delete, on one mail or on an account's summary:
\* the cache changes at once and what is still pending is delivered again,
\* without marks.
Press(ms) ==
    /\ job[Button] = Idle
    /\ ms # {}
    /\ mail' = [m \in Mails |-> IF m \in ms /\ mail[m] = "unread" THEN "done" ELSE mail[m]]
    /\ answered' = answered \cup Named(ms)
    /\ job' = [job EXCEPT ![Button] = [Skipped EXCEPT !.skipped = FALSE, !.pending = CollectPending(Tops) \ ms]]
    /\ UNCHANGED <<world, validity, seen, line, lock, desk, screen, group, foreground, crashes, rang>>

PressMail(m)    == m \in screen /\ Press({m})
PressSummary(a) == Press(Of(group, {a}))

\* Android removes a summary with its last mail.
Swipe(ms) ==
    /\ screen' = screen \ ms
    /\ group' = {m \in group : \E n \in screen \ ms : n[1] = m[1]}
    /\ UNCHANGED <<world, mail, validity, seen, line, lock, job, desk, foreground, crashes, rang, answered>>
SwipeMail(m)    == m \in screen /\ Swipe({m})
SwipeGroup(a)   == Of(group, {a}) # {} /\ Swipe(Of(screen, {a}))

mark_inbox_seen ==
    /\ seen' = Tops /\ line' = Tops
    /\ answered' = answered \cup Named(Cached)

Resume ==
    /\ world.app /\ ~foreground /\ foreground' = TRUE
    /\ screen' = {} /\ group' = {}
    /\ mark_inbox_seen
    /\ UNCHANGED <<world, mail, validity, lock, job, desk, crashes, rang>>

Pause ==
    /\ foreground /\ foreground' = FALSE
    /\ mark_inbox_seen
    /\ UNCHANGED <<world, mail, validity, lock, job, desk, screen, group, crashes, rang>>

\* The user opens or moves a mail in the app, takes a move back, or another
\* client reads it and a sync finds out.
Handle(m) ==
    /\ \/ mail[m] = "unread" /\ (foreground \/ \E r \in Checkers : job[r].at = "sync")
          /\ mail' = [mail EXCEPT ![m] = "done"]
       \/ mail[m] = "done" /\ foreground /\ mail' = [mail EXCEPT ![m] = "unread"]
       \/ mail[m] = "done" /\ mail' = [mail EXCEPT ![m] = "gone"]
    /\ answered' = answered \cup Named({m})
    /\ UNCHANGED <<world, validity, seen, line, lock, job, desk, screen, group, foreground, crashes, rang>>

-----------------------------------------------------------------------------
(* The server, and the end of the process.                                 *)

Arrive(m) ==
    /\ mail[m] = "none" /\ m \in world.mails
    /\ \A n \in Mails : n[1] = m[1] /\ n[2] < m[2] => mail[n] # "none"
    /\ mail' = [mail EXCEPT ![m] = "server"]
    /\ UNCHANGED <<world, validity, seen, line, lock, job, desk, screen, group, foreground, crashes,
                   rang, answered>>

\* A sync finds the inbox numbered anew and empties the cache.
Renumber(a) ==
    /\ foreground \/ \E r \in Checkers : job[r].at = "sync"
    /\ validity[a] <= world.resets
    /\ validity' = [validity EXCEPT ![a] = @ + 1]
    /\ mail' = [m \in Mails |-> IF m[1] = a THEN "none" ELSE mail[m]]
    /\ UNCHANGED <<world, seen, line, lock, job, desk, screen, group, foreground, crashes, rang, answered>>

\* Notifications outlive the process.
Crash ==
    /\ crashes < world.crashes
    /\ crashes' = crashes + 1
    /\ job' = [r \in Threads |-> Idle]
    /\ lock' = Nobody /\ desk' = Nobody /\ foreground' = FALSE
    /\ UNCHANGED <<world, mail, validity, seen, line, screen, group, rang, answered>>

-----------------------------------------------------------------------------
Init ==
    /\ world \in Worlds
    /\ mail = [m \in Mails |-> "none"]
    /\ validity = [a \in Accounts |-> 1]
    /\ seen = [a \in Accounts |-> NoMark] /\ line = [a \in Accounts |-> NoMark]
    /\ lock = Nobody /\ desk = Nobody
    /\ job = [r \in Threads |-> Idle]
    /\ screen = {} /\ group = {} /\ foreground = FALSE /\ crashes = 0
    /\ rang = [n \in Validities \X Mails |-> "no"]
    /\ answered = {}

Check(r)   == Begin(r) \/ ReadTops(r) \/ Collect(r)
\* The settings a plan of this thread's report reads.
Mutable(r) == IF job[r].at = "deliver" THEN {m[1] : m \in job[r].new \cup job[r].pending} ELSE {}

Deliver(r) == \/ \E muted \in SUBSET Mutable(r), permitted \in BOOLEAN :
                   Post(r, muted, permitted) \/ PostFails(r, muted, permitted)
              \/ Commit(r)
Buttons    == \/ \E m \in Mails : PressMail(m) \/ SwipeMail(m)
              \/ \E a \in Accounts : PressSummary(a) \/ SwipeGroup(a)
User       == Resume \/ Pause \/ \E m \in Mails : Handle(m)
Server     == \/ \E m \in Mails : Arrive(m) \/ Fetch(m[1], m[2]) \/ AppFetch(m[1], m[2])
              \/ \E a \in Accounts : Renumber(a)

Next == \/ \E r \in Checkers : Check(r)
        \/ \E r \in Threads : Deliver(r)
        \/ Buttons \/ User \/ Server \/ Crash

Spec == Init /\ [][Next]_vars

-----------------------------------------------------------------------------
(* Properties.                                                             *)

\* A mark never passes an unread mail nobody was told of: a mail is below its
\* inbox's `seen` mark only when it rang, was silenced by a setting, was seen in
\* the app, lay below a first baseline, or somebody touched it -- with checks,
\* posts and commits of several threads in any order, failed posts and crashes
\* between them (background.rs, collect_new_mail reads the tops before the lists;
\* MailNotifier.kt, deliver commits last).
NothingSwallowed ==
    \A m \in Unread : /\ seen[m[1]].v = validity[m[1]]
                      /\ m[2] <= seen[m[1]].u
                      => <<validity[m[1]], m>> \in answered

\* While one checker is switched on and nothing crashed, a mail rings once
\* (background.rs, commit_seen; push.rs:77, Reporter).
AlertedOnce == crashes = 0 => \A n \in DOMAIN rang : rang[n] # "twice"

\* Every notification on screen is listed by its account's summary, also after a
\* plan that could only be posted in part (notify.rs, plan; MailNotifier.kt, deliver).
ScreenHonest == screen \subseteq group

\* No new mail is skipped by a mark, none rings twice while one checker is on,
\* and no notification stays without its account's summary (background.rs,
\* collect_new_mail and commit_seen; notify.rs, plan; MailNotifier.kt, deliver).
AlertsHonest == NothingSwallowed /\ AlertedOnce /\ ScreenHonest
=============================================================================
