----------------------------- MODULE GraceTimer -----------------------------
(***************************************************************************)
(* The timer thread behind Undo (undo/grace.rs): an undoable action puts a *)
(* row into pending_moves, due GRACE later, and a deadline into the timer, *)
(* DELAY later.  When a deadline is reached the thread hands the account's *)
(* push to the net thread, and drops the deadlines of the same account     *)
(* that follow within COALESCE.  The push sends what is due by then, which *)
(* of the rows whose deadlines were dropped need not be all.               *)
(*                                                                         *)
(* Times are seconds, as due_at is.  A thread may be late by any amount;   *)
(* none is early.  What a push does with the rows it takes is PendingMoves.*)
(***************************************************************************)
EXTENDS Integers, FiniteSets

CONSTANTS
  Accounts,
  GRACE,      \* UNDO_GRACE_SECS
  COALESCE,
  MaxTime,    \* bound: the clock stops here
  MaxActions  \* bound: undoable actions

\* push_after_grace: the timer's delay.
DELAY == GRACE + 1

VARIABLES
  now,
  waiting,    \* rows of pending_moves no push has taken: due_at, own deadline
  heap,    \* the timer's deadlines; `n` keeps equal ones apart
  jobs,    \* accounts whose push waits on the net thread
  fired,   \* history: the deadline each account's last push came from
  n        \* bound

timerVars == <<now, waiting, heap, jobs, fired, n>>

Row      == [acc : Accounts, due : Nat, deadline : Nat]
Deadline == [at : Nat, acc : Accounts, n : Nat]

-----------------------------------------------------------------------------
\* queue_with_grace: due_at.
DueAt(t) == t + GRACE

\* queue_with_grace and push_after_grace: GraceTimer::schedule.
Schedule(a) ==
  /\ n < MaxActions /\ n' = n + 1
  /\ waiting' = waiting \cup {[acc |-> a, due |-> DueAt(now), deadline |-> now + DELAY]}
  /\ heap' = heap \cup {[at |-> now + DELAY, acc |-> a, n |-> n]}
  /\ UNCHANGED <<now, jobs, fired>>

\* Faulty variant: only the deadline itself goes.
RideAlong_None(h) == {h}
\* Faulty variant: whatever falls due close behind is dropped.
RideAlong_Everyone(h) == {k \in heap : k.at <= h.at + COALESCE}

\* The deadlines a firing takes off the heap.
RideAlong(h) == {h} \cup {k \in heap : k.acc = h.acc /\ k.at <= h.at + COALESCE}

\* GraceTimer::run: the earliest deadline is reached.
Fire ==
  \E h \in heap :
    /\ h.at <= now /\ \A k \in heap : h.at <= k.at
    /\ heap' = heap \ RideAlong(h)
    /\ jobs' = jobs \cup {h.acc}
    /\ fired' = [fired EXCEPT ![h.acc] = h.at]
    /\ UNCHANGED <<now, waiting, n>>

\* The net thread runs push_local_changes: everything due by now goes out.
Push(a) ==
  /\ a \in jobs /\ jobs' = jobs \ {a}
  /\ waiting' = {p \in waiting : p.acc # a \/ p.due > now}
  /\ UNCHANGED <<now, heap, fired, n>>

\* A sync of the account, whenever it comes, pushes what is due as well.
Sync(a) ==
  /\ waiting' = {p \in waiting : p.acc # a \/ p.due > now}
  /\ waiting' # waiting
  /\ UNCHANGED <<now, heap, jobs, fired, n>>

\* Undo takes a row back; its deadline stays in the heap.
TakeBack(p) ==
  /\ p \in waiting /\ waiting' = waiting \ {p}
  /\ UNCHANGED <<now, heap, jobs, fired, n>>

Tick ==
  /\ now < MaxTime /\ now' = now + 1
  /\ UNCHANGED <<waiting, heap, jobs, fired, n>>

TimerInit ==
  /\ now = 0 /\ waiting = {} /\ heap = {} /\ jobs = {} /\ n = 0
  /\ fired = [a \in Accounts |-> 0]

TimerNext ==
  \/ \E a \in Accounts : Schedule(a) \/ Push(a) \/ Sync(a)
  \/ \E p \in waiting : TakeBack(p)
  \/ Fire \/ Tick

TimerSpec == TimerInit /\ [][TimerNext]_timerVars

-----------------------------------------------------------------------------
(* Properties.                                                             *)

TimerTypeOK ==
  /\ now \in Nat /\ n \in Nat
  /\ waiting \subseteq Row /\ heap \subseteq Deadline
  /\ jobs \subseteq Accounts /\ fired \in [Accounts -> Nat]

\* The timer will still push row p once it is due: a deadline of its account
\* is left, or the push already waits and p is due.
Covered(p) ==
  \/ \E h \in heap : h.acc = p.acc /\ h.at >= p.due
  \/ p.acc \in jobs /\ p.due <= now

\* Row p lost its deadline to one that fired before p was due: p was made more
\* than DELAY - GRACE, and at most COALESCE, after that action.
LeftBehind(p) == p.due > fired[p.acc] /\ p.deadline <= fired[p.acc] + COALESCE

\* The timer pushes every row but those: made together with an earlier action
\* of its account, later than its burst, or in another account, a row keeps a
\* deadline that finds it due.
OnlyLateRidersLeft == \A p \in waiting : Covered(p) \/ LeftBehind(p)

\* What grace.rs says of itself: the push of a burst sends all of it, every
\* action is pushed once its grace is over.  The code does not keep it: TLC
\* refutes it (README, section 7).
NoneLeftBehind ==
  \A p \in waiting : p.acc \in jobs \/ \E h \in heap : h.acc = p.acc /\ h.at >= p.due

\* A burst of actions of one account is pushed once: the deadlines of two
\* pushes of an account are more than COALESCE apart (D8, E10).
OnePushPerBurst ==
  [][\A a \in Accounts :
       fired'[a] # fired[a] /\ fired[a] # 0 => fired'[a] > fired[a] + COALESCE]_timerVars

(* The timer pushes each action's row once it is due, except one made one to *)
(* COALESCE seconds after the action that took its deadline; and a burst of  *)
(* actions of one account is pushed once (undo/grace.rs).                    *)
TimerExact == [](TimerTypeOK /\ OnlyLateRidersLeft) /\ OnePushPerBurst

=============================================================================
