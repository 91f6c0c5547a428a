---------------------------- MODULE CheckSchedule ----------------------------
(***************************************************************************)
(* When the background checks run (mailcore sync/background/schedule.rs,   *)
(* store/account_settings/quiet_hours.rs) and the Android alarms that      *)
(* carry the plan out (MailSchedule.kt, MailAlarm.kt).                     *)
(*                                                                         *)
(* The core turns every account's interval, push switch and quiet hours    *)
(* into one plan: is push wanted, how often does the poller fire, when     *)
(* does a quiet window next start or end.  The host arms one alarm for the *)
(* poller and one for the next change; each shot of the poller enqueues a  *)
(* check that serves the accounts that are due, the change alarm plans     *)
(* again and checks at once.                                               *)
(*                                                                         *)
(* Time is counted in units of the alarm's resolution; `now` is the local  *)
(* time of day, the rest are times since or until.                         *)
(***************************************************************************)
EXTENDS Integers, FiniteSets

CONSTANTS
  Accounts,
  Day,      \* units in a day
  Minutes,  \* [Accounts -> interval, 0 for an account that is synced by hand]
  Start, End, \* [Accounts -> quiet hours, equal for an account without]
  Late,     \* how late an alarm or an enqueued check may run
  Edits     \* how often the user changes an account's push switch, or travels

Cap  == Day      \* time since the last check is counted up to here
NoWork == -1

VARIABLES
  now,
  push,     \* [Accounts -> the account's push switch]
  since,    \* [Accounts -> time since its last check, Cap: never or long ago]
  shot,     \* time until the poller's alarm, negative when it is late, or NoWork
  armed,    \* the poller's stored interval, 0 when off
  replan,   \* time until the change alarm, or NoWork
  idle,     \* the accounts the push monitor keeps in IDLE
  work,     \* how long an enqueued check has been waiting, or NoWork
  notice,   \* a time zone change the host has not heard of yet
  edits,
  missed    \* history: accounts a check has failed for since their last good one

vars == <<now, push, since, shot, armed, replan, idle, work, notice, edits, missed>>

Off == Day + 5   \* an alarm that is not armed

-----------------------------------------------------------------------------
(* The core's plan.                                                        *)

\* Faulty: quiet until the end of its last minute.
contains_EndIncluded(a, t) ==
    IF Start[a] <= End[a] THEN Start[a] <= t /\ t <= End[a] ELSE t >= Start[a] \/ t <= End[a]

\* [start, end), past midnight when start is later; equal is empty.
contains(a, t) == IF Start[a] <= End[a] THEN Start[a] <= t /\ t < End[a]
                  ELSE t >= Start[a] \/ t < End[a]

Lowest(S) == CHOOSE x \in S : \A y \in S : x <= y

\* Faulty: tomorrow's end of a window is not looked for.
next_change_Today(a, t) ==
    IF Start[a] = End[a] \/ {x \in {Start[a], End[a]} : x > t} = {} THEN {}
    ELSE {Lowest({x - t : x \in {y \in {Start[a], End[a]} : y > t}})}

\* Time until the window next starts or ends: today's and tomorrow's ends of
\* it, those ahead of now.
next_change(a, t) ==
    IF Start[a] = End[a] THEN {}
    ELSE {Lowest({at - t : at \in {x \in {Start[a], End[a], Start[a] + Day, End[a] + Day} : x > t}})}

Scheduled == {a \in Accounts : Minutes[a] > 0}
Active(t) == {a \in Scheduled : ~contains(a, t)}
Polled(t) == {a \in Active(t) : ~push[a]}

replan_at(t)    == LET ends == UNION {next_change(a, t) : a \in Scheduled}
                   IN  IF ends = {} THEN Off ELSE Lowest(ends)
poll_minutes(t) == IF Polled(t) = {} THEN 0 ELSE Lowest({Minutes[a] : a \in Polled(t)})
push_account_ids(t) == {a \in Active(t) : push[a]}

\* Faulty: due on the minute.
due_accounts_Exact(t) == {a \in Polled(t) : since[a] >= Minutes[a]}

\* Half a tick early: a shot that comes a little soon must not make an
\* account wait for the one after.
due_accounts(t) == {a \in Polled(t) : 2 * since[a] >= 2 * Minutes[a] - poll_minutes(t)}

-----------------------------------------------------------------------------
(* The host.                                                               *)

\* MailAlarm.arm starts the interval over.
arm(minutes) == /\ armed' = minutes
                /\ shot' = IF minutes > 0 THEN minutes ELSE Off

\* MailSchedule.refresh
refresh(switch) ==
    LET polled == {a \in Active(now) : ~switch[a]}
    IN  /\ arm(IF polled = {} THEN 0 ELSE Lowest({Minutes[a] : a \in polled}))
        /\ replan' = replan_at(now)
        /\ idle' = {a \in Active(now) : switch[a]}

\* KEEP: a check that still waits is not stacked.
enqueueCheck == work' = IF work = NoWork THEN 0 ELSE work

\* Faulty: plans again and leaves the check to the poller.
Replan_Quietly ==
    /\ replan # Off /\ replan <= 0
    /\ refresh(push)
    /\ UNCHANGED <<now, push, since, work, notice, edits, missed>>

\* A quiet window started or ended.
Replan ==
    /\ replan # Off /\ replan <= 0
    /\ refresh(push)
    /\ IF poll_minutes(now) > 0 THEN enqueueCheck ELSE UNCHANGED work
    /\ UNCHANGED <<now, push, since, notice, edits, missed>>

\* Faulty: a shot that is not followed by the next.
Fire_Once ==
    /\ shot <= 0
    /\ enqueueCheck
    /\ shot' = Off
    /\ UNCHANGED <<now, push, since, armed, replan, idle, notice, edits, missed>>

\* The poller's alarm, re-armed from the stored interval.
Fire ==
    /\ shot <= 0
    /\ enqueueCheck
    /\ shot' = armed
    /\ UNCHANGED <<now, push, since, armed, replan, idle, notice, edits, missed>>

\* The enqueued check runs; accounts whose inbox it reached are marked.
RunCheck(reached) ==
    /\ work # NoWork
    /\ reached \subseteq due_accounts(now)
    /\ work' = NoWork
    /\ since' = [a \in Accounts |-> IF a \in reached THEN 0 ELSE since[a]]
    /\ missed' = (missed \ reached) \cup (due_accounts(now) \ reached)
    /\ UNCHANGED <<now, push, shot, armed, replan, idle, notice, edits>>

\* The user turns an account's push on or off; the app plans again.
SetPush(a) ==
    /\ edits < Edits /\ edits' = edits + 1
    /\ Minutes[a] > 0
    /\ push' = [push EXCEPT ![a] = ~@]
    /\ refresh(push')
    /\ missed' = Accounts
    /\ UNCHANGED <<now, since, work, notice>>

\* The phone moves to another time zone; the broadcast follows.
Travel(t) ==
    /\ edits < Edits /\ edits' = edits + 1
    /\ t # now
    /\ now' = t /\ notice' = TRUE
    /\ UNCHANGED <<push, since, shot, armed, replan, idle, work, missed>>

TimezoneChanged ==
    /\ notice /\ notice' = FALSE
    /\ refresh(push)
    /\ missed' = Accounts
    /\ UNCHANGED <<now, push, since, work, edits>>

\* Alarms and enqueued checks run at most Late late.
Tick ==
    /\ shot > -Late /\ (replan > 0 \/ replan = Off) /\ work < Late /\ ~notice
    /\ now' = (now + 1) % Day
    /\ since' = [a \in Accounts |-> IF since[a] < Cap THEN since[a] + 1 ELSE Cap]
    /\ shot' = IF shot = Off THEN Off ELSE shot - 1
    /\ replan' = IF replan = Off THEN Off ELSE replan - 1
    /\ work' = IF work = NoWork THEN NoWork ELSE work + 1
    /\ UNCHANGED <<push, armed, idle, notice, edits, missed>>

Init ==
    /\ now \in 0..(Day - 1)
    /\ push \in [Accounts -> BOOLEAN]
    /\ \A a \in Accounts : Minutes[a] = 0 => ~push[a]
    /\ since = [a \in Accounts |-> Cap]
    /\ shot = (IF poll_minutes(now) > 0 THEN poll_minutes(now) ELSE Off) /\ armed = poll_minutes(now)
    /\ replan = replan_at(now)
    /\ idle = push_account_ids(now)
    /\ work = NoWork /\ notice = FALSE /\ edits = 0 /\ missed = Accounts

Next == \/ Replan \/ Fire \/ Tick \/ TimezoneChanged
        \/ \E reached \in SUBSET Accounts : RunCheck(reached)
        \/ \E a \in Accounts : SetPush(a)
        \/ \E t \in 0..(Day - 1) : Travel(t)

-----------------------------------------------------------------------------
(* Properties.                                                             *)

\* Outside a change the host is about to hear of, the mechanisms it runs are
\* those the core would plan now: nobody is in IDLE in its quiet hours, every
\* other push account is, and the poller's interval serves exactly the polled
\* accounts.  The change alarm is the only thing that keeps this true while
\* time passes, so its time has to be right at both ends of every window.
PlanCurrent ==
    replan > 0 /\ ~notice => /\ idle = push_account_ids(now)
                             /\ armed = poll_minutes(now)

\* A polled account outside its quiet hours is checked again within its
\* interval, half a poller's tick and the alarms' delay: due_accounts has to
\* make up for shots that come early, and a quiet window that ends has to
\* bring a check along.  An account a check failed for waits for the next.
NotStarved ==
    \A a \in Polled(now) \ missed :
       \/ 2 * since[a] < 2 * Minutes[a] + poll_minutes(now) + 2 * Late
       \/ replan <= 0 \/ work # NoWork \/ notice
=============================================================================
