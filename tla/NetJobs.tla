------------------------------ MODULE NetJobs ------------------------------
(***************************************************************************)
(* The jobs of the Android app: queued from its I/O threads, run one after *)
(* the other on the `mailclient-net` thread (mailffi: net.rs), announced   *)
(* to Kotlin as messages (android/jobs.rs), which the main thread applies  *)
(* in the order they were posted (MailState.kt).                           *)
(*                                                                         *)
(* The main thread hears about the table of jobs from two sides, the       *)
(* thread that queued a job and the net thread that ended it, so the       *)
(* messages may be posted in either order.                                 *)
(***************************************************************************)
EXTENDS Naturals, Sequences, FiniteSets

CONSTANTS
  Keys,      \* dedupe keys of jobs
  KindOf,    \* Keys -> the kind the spinner shows
  Callers,   \* I/O threads of the app, each at times waiting for its job
  None,
  MaxJobs    \* bound: jobs that are ever asked for

VARIABLES
  inflight,   \* the table: keys queued or running ...
  gen,        \* ... and how often it changed
  chan,       \* the channel to the net thread
  net,        \* the net thread: its job, how far it is, the message it built
  caller,     \* Callers -> the same for a thread that queues a job
  started,    \* the screen is up: "no", "subscribed", "loading", "yes"
  loaded,     \* what loadBusy read
  posts,      \* messages waiting for the main thread
  shown,      \* main thread: the kinds shown and the generation they are of
  waiting,    \* main thread: finishWaiters, as Callers -> key
  asked       \* bound

jobsVars == <<inflight, gen, chan, net, caller, started, loaded, posts, shown, waiting, asked>>

Kinds == {KindOf[k] : k \in Keys}
Snapshot == [gen : Nat, kinds : SUBSET Kinds]
Message == [phase : {"queued", "finished"}, key : Keys, busy : Snapshot]
NoMsg == <<>>
KindsOf(ks) == {KindOf[k] : k \in ks}

\* busy_snapshot
Busy == [gen |-> gen, kinds |-> KindsOf(inflight)]

Subscribed == started # "no"
\* deliver_job_json: nobody listens before the screen is up.
Post(m) == posts' = IF Subscribed THEN Append(posts, m) ELSE posts

-----------------------------------------------------------------------------
(* The threads that queue.                                                 *)

\* Faulty variant: the waiter is put in place when the job is queued.
Registers_Late(step) == step = "forward"
\* awaitFinished: the waiter is in place before the job is queued.
Registers(step) == step = "ask"

\* A thread asks for a job, and may wait for its end.
Ask(c, k, waits) ==
  /\ caller[c].at = "idle" /\ waiting[c] = None /\ asked < MaxJobs
  /\ waits => Subscribed
  /\ asked' = asked + 1
  /\ caller' = [caller EXCEPT ![c] = [at |-> "spawn", key |-> k, waits |-> waits, msg |-> NoMsg]]
  /\ waiting' = IF waits /\ Registers("ask") THEN [waiting EXCEPT ![c] = k] ELSE waiting
  /\ UNCHANGED <<inflight, gen, chan, net, started, loaded, posts, shown>>

\* Faulty variant: a job of a key in flight is stacked.
Refused_Never(k) == FALSE
\* A second job of a key in flight is refused.
Refused(k) == k \in inflight

\* spawn, up to the lock's end: refused, or in the table with a snapshot.
Spawn(c) ==
  LET k == caller[c].key IN
  /\ caller[c].at = "spawn"
  /\ IF Refused(k)
       THEN /\ caller' = [caller EXCEPT ![c].at = "idle"]
            /\ waiting' = [waiting EXCEPT ![c] = None]
            /\ UNCHANGED <<inflight, gen>>
       ELSE /\ inflight' = inflight \cup {k} /\ gen' = gen + 1
            /\ caller' = [caller EXCEPT ![c] =
                 [@ EXCEPT !.at = "send", !.msg = <<[phase |-> "queued", key |-> k,
                   busy |-> [gen |-> gen', kinds |-> KindsOf(inflight')]]>>]]
            /\ UNCHANGED waiting
  /\ UNCHANGED <<chan, net, started, loaded, posts, shown, asked>>

Send(c) ==
  /\ caller[c].at = "send"
  /\ chan' = Append(chan, caller[c].key)
  /\ caller' = [caller EXCEPT ![c].at = "forward"]
  /\ UNCHANGED <<inflight, gen, net, started, loaded, posts, shown, waiting, asked>>

\* forward_busy, on the queueing thread.
Forward(c) ==
  /\ caller[c].at = "forward"
  /\ Post(Head(caller[c].msg))
  /\ caller' = [caller EXCEPT ![c] = [@ EXCEPT !.at = "idle", !.msg = NoMsg]]
  /\ waiting' = IF caller[c].waits /\ Registers("forward")
                  THEN [waiting EXCEPT ![c] = caller[c].key] ELSE waiting
  /\ UNCHANGED <<inflight, gen, chan, net, started, loaded, shown, asked>>

\* The wait times out.
GiveUp(c) ==
  /\ caller[c].at = "idle" /\ waiting[c] # None
  /\ waiting' = [waiting EXCEPT ![c] = None]
  /\ UNCHANGED <<inflight, gen, chan, net, caller, started, loaded, posts, shown, asked>>

-----------------------------------------------------------------------------
(* The net thread.                                                         *)

TakeJob ==
  /\ net.at = "idle" /\ chan # <<>>
  /\ net' = [at |-> "run", key |-> Head(chan), msg |-> NoMsg] /\ chan' = Tail(chan)
  /\ UNCHANGED <<inflight, gen, caller, started, loaded, posts, shown, waiting, asked>>

\* Faulty variant: a job that panics skips what follows it.
AfterPanic_Unwinds == "idle"
\* guard: a panic becomes the job's error.
AfterPanic == "ran"

\* The job's own work: done, failed, or panicked.
RunJob ==
  /\ net.at = "run"
  /\ \E next \in {"ran", AfterPanic} : net' = [net EXCEPT !.at = next]
  /\ UNCHANGED <<inflight, gen, chan, caller, started, loaded, posts, shown, waiting, asked>>

\* remove_inflight
Remove ==
  /\ net.at = "ran"
  /\ inflight' = inflight \ {net.key} /\ gen' = gen + 1
  /\ net' = [net EXCEPT !.at = "gone"]
  /\ UNCHANGED <<chan, caller, started, loaded, posts, shown, waiting, asked>>

\* forward_job_event reads the table anew ...
Describe ==
  /\ net.at = "gone"
  /\ net' = [net EXCEPT !.at = "tell",
               !.msg = <<[phase |-> "finished", key |-> net.key, busy |-> Busy]>>]
  /\ UNCHANGED <<inflight, gen, chan, caller, started, loaded, posts, shown, waiting, asked>>

\* ... and delivers.
Tell ==
  /\ net.at = "tell"
  /\ Post(Head(net.msg))
  /\ net' = [at |-> "idle", key |-> None, msg |-> NoMsg]
  /\ UNCHANGED <<inflight, gen, chan, caller, started, loaded, shown, waiting, asked>>

-----------------------------------------------------------------------------
(* The main thread.                                                        *)

\* Faulty variant: whatever arrives is shown.
Newer_Any(busy) == TRUE
\* applyBusy drops what is older than what it has applied.
Newer(busy) == busy.gen >= shown.gen
ApplyBusy(busy) == shown' = IF Newer(busy) THEN busy ELSE shown

\* onJobEvent
HandlePost ==
  /\ posts # <<>> /\ posts' = Tail(posts)
  /\ ApplyBusy(Head(posts).busy)
  /\ waiting' = IF Head(posts).phase = "finished"
       THEN [c \in Callers |-> IF waiting[c] = Head(posts).key THEN None ELSE waiting[c]]
       ELSE waiting
  /\ UNCHANGED <<inflight, gen, chan, net, caller, started, loaded, asked>>

\* ensureInit: subscribe, then read the table, then apply what was read.
Start ==
  /\ started # "yes"
  /\ started' = CASE started = "no" -> "subscribed" [] started = "subscribed" -> "loading"
                  [] OTHER -> "yes"
  /\ loaded' = IF started = "subscribed" THEN Busy ELSE loaded
  /\ IF started = "loading" THEN ApplyBusy(loaded) ELSE UNCHANGED shown
  /\ UNCHANGED <<inflight, gen, chan, net, caller, posts, waiting, asked>>

-----------------------------------------------------------------------------
JobsInit ==
  /\ inflight = {} /\ gen = 0 /\ chan = <<>> /\ asked = 0
  /\ net = [at |-> "idle", key |-> None, msg |-> NoMsg]
  /\ caller = [c \in Callers |-> [at |-> "idle", key |-> None, waits |-> FALSE, msg |-> NoMsg]]
  /\ started = "no" /\ loaded = [gen |-> 0, kinds |-> {}]
  /\ posts = <<>> /\ shown = [gen |-> 0, kinds |-> {}]
  /\ waiting = [c \in Callers |-> None]

NetThread == TakeJob \/ RunJob \/ Remove \/ Describe \/ Tell
Queueing(c) == Spawn(c) \/ Send(c) \/ Forward(c)

JobsNext ==
  \/ \E c \in Callers, k \in Keys, waits \in BOOLEAN : Ask(c, k, waits)
  \/ \E c \in Callers : Queueing(c) \/ GiveUp(c)
  \/ NetThread \/ HandlePost \/ Start

JobsSpec ==
  /\ JobsInit /\ [][JobsNext]_jobsVars
  /\ WF_jobsVars(NetThread) /\ \A c \in Callers : WF_jobsVars(Queueing(c))

-----------------------------------------------------------------------------
(* Properties.                                                             *)

TypeOK ==
  /\ inflight \subseteq Keys /\ gen \in Nat /\ chan \in Seq(Keys)
  /\ net.key \in Keys \cup {None}
  /\ loaded \in Snapshot /\ posts \in Seq(Message) /\ shown \in Snapshot
  /\ waiting \in [Callers -> Keys \cup {None}] /\ asked \in 0..MaxJobs

\* Jobs between the lock and the end of their run, wherever they are.
Underway ==
  [k \in Keys |->
     Cardinality({c \in Callers : caller[c].at = "send" /\ caller[c].key = k})
       + Cardinality({i \in DOMAIN chan : chan[i] = k})
       + (IF net.at \in {"run", "ran"} /\ net.key = k THEN 1 ELSE 0)]

\* The table is exact: a key is in it while its one job is queued or running,
\* so no two jobs of a key run and a key is never blocked by a job that is over.
TableExact ==
  \A k \in Keys : Underway[k] = IF k \in inflight THEN 1 ELSE 0

AtRest == posts = <<>> /\ net.at \in {"idle", "run", "ran"}
            /\ \A c \in Callers : caller[c].at \in {"idle", "spawn"}

\* When everything said has been heard, the spinner shows exactly the jobs in
\* flight, in whatever order the two threads posted.
BusyTruth == AtRest /\ started = "yes" => shown.kinds = KindsOf(inflight)

\* A thread whose job was accepted is never left waiting for an event that
\* has already gone by: the job is still to finish or its end is on its way.
WaiterCovered ==
  \A c \in Callers : waiting[c] # None /\ caller[c].at \in {"idle", "send", "forward"} =>
    \/ waiting[c] \in inflight
    \/ net.at \in {"gone", "tell"} /\ net.key = waiting[c]
    \/ \E i \in DOMAIN posts : posts[i].phase = "finished" /\ posts[i].key = waiting[c]

\* The table of jobs is exact, the spinner shows the jobs there are, and a
\* thread that waits for a job is not left waiting (net.rs, spawn and
\* remove_inflight; MailState.kt, applyBusy and awaitFinished).
JobsExact == TypeOK /\ TableExact /\ BusyTruth /\ WaiterCovered

\* A job that panics or fails does not block its key for ever.
KeyFreed == \A k \in Keys : k \in inflight ~> k \notin inflight
=============================================================================
