---------------------------- MODULE ThreadProofs ----------------------------
(***************************************************************************)
(* The threads of the app, for any number of keys, jobs and accounts: the  *)
(* inductive invariants behind JobsExact of NetJobs, the jobs of the       *)
(* Android app, PushHonest of PushMonitor, PasswordCurrent and             *)
(* RemovedStays of SessionPool, and DeskHonest of DesktopUi.               *)
(***************************************************************************)
EXTENDS NetJobs, PushMonitor, SessionPool, DesktopUi, SequenceTheorems, FiniteSetTheorems, TLAPS

-----------------------------------------------------------------------------
(* Jobs: the inductive invariant.                                          *)

Holds(c) == caller[c].at \in {"send", "forward"}      \* a message to forward
Said(c) == Head(caller[c].msg)
Telling == Head(net.msg)

Queueer == [at : {"idle", "spawn", "send", "forward"}, key : Keys \cup {None},
            waits : BOOLEAN, msg : Seq(Message)]

\* What the two kinds of threads hold at each of their places.
FormInv ==
  /\ net \in [at : {"idle", "run", "ran", "gone", "tell"}, key : Keys \cup {None},
              msg : Seq(Message)]
  /\ caller \in [Callers -> Queueer]
  /\ started \in {"no", "subscribed", "loading", "yes"}
  /\ net.at # "idle" => net.key \in Keys
  /\ net.at = "tell" => net.msg # NoMsg /\ Telling.phase = "finished" /\ Telling.key = net.key
  /\ \A c \in Callers : /\ caller[c].at # "idle" => caller[c].key \in Keys
                        /\ Holds(c) => caller[c].msg # NoMsg

\* A key in the table has one job, in one of three places.
Sends(c, k) == caller[c].at = "send" /\ caller[c].key = k
Lies(i, k)  == chan[i] = k
RunsNow(k)  == net.at \in {"run", "ran"} /\ net.key = k
TableInv ==
  \A k \in Keys :
    /\ k \in inflight <=> \/ \E c \in Callers : Sends(c, k)
                          \/ \E i \in DOMAIN chan : Lies(i, k)
                          \/ RunsNow(k)
    /\ \A c, d \in Callers : Sends(c, k) /\ Sends(d, k) => c = d
    /\ \A i, j \in DOMAIN chan : Lies(i, k) /\ Lies(j, k) => i = j
    /\ \A c \in Callers : Sends(c, k) => ~RunsNow(k) /\ \A i \in DOMAIN chan : ~Lies(i, k)
    /\ RunsNow(k) => \A i \in DOMAIN chan : ~Lies(i, k)

\* A snapshot is true of the table as long as it is of the last generation.
Current(b, g, keys) == b.gen <= g /\ (b.gen = g => b.kinds = KindsOf(keys))
SnapshotsInv ==
  /\ Current(shown, gen, inflight) /\ Current(loaded, gen, inflight)
  /\ \A i \in DOMAIN posts : Current(posts[i].busy, gen, inflight)
  /\ \A c \in Callers : Holds(c) => Current(Said(c).busy, gen, inflight)
  /\ net.at = "tell" => Current(Telling.busy, gen, inflight)

\* The screen has the last snapshot, or it is on its way.
LatestInv ==
  started \in {"loading", "yes"} =>
    \/ shown.gen = gen
    \/ started = "loading" /\ loaded.gen = gen
    \/ \E i \in DOMAIN posts : posts[i].busy.gen = gen
    \/ \E c \in Callers : Holds(c) /\ Said(c).busy.gen = gen
    \/ net.at = "gone"
    \/ net.at = "tell" /\ Telling.busy.gen = gen

\* Only a thread the screen hears of waits, and for no job but its own.
WaitInv ==
  /\ WaiterCovered
  /\ \A c \in Callers : /\ waiting[c] # None => Subscribed
                        /\ caller[c].at # "idle" => waiting[c] \in {None, caller[c].key}

JobsInv == TypeOK /\ FormInv /\ TableInv /\ SnapshotsInv /\ LatestInv /\ WaitInv

-----------------------------------------------------------------------------
(* Sequences.                                                              *)

LEMMA AppendWhere ==
  ASSUME NEW S, NEW s \in Seq(S), NEW e \in S
  PROVE  /\ Append(s, e) \in Seq(S)
         /\ \A i \in DOMAIN s : i \in DOMAIN Append(s, e) /\ Append(s, e)[i] = s[i]
         /\ \E i \in DOMAIN Append(s, e) : Append(s, e)[i] = e /\ i \notin DOMAIN s
         /\ \A i \in DOMAIN Append(s, e) :
              (i \in DOMAIN s /\ Append(s, e)[i] = s[i]) \/ (i = Len(s) + 1 /\ Append(s, e)[i] = e)
<1> DEFINE t == Append(s, e)
<1>1. /\ t \in Seq(S) /\ Len(t) = Len(s) + 1 /\ t[Len(s) + 1] = e
      /\ \A i \in 1..Len(s) : t[i] = s[i]
  BY AppendProperties
<1>2. Len(s) \in Nat /\ DOMAIN s = 1..Len(s) /\ DOMAIN t = 1..Len(t)
  BY <1>1, LenProperties
<1> HIDE DEF t
<1>3. /\ t \in Seq(S)
      /\ \A i \in DOMAIN s : i \in DOMAIN t /\ t[i] = s[i]
      /\ \E i \in DOMAIN t : t[i] = e /\ i \notin DOMAIN s
      /\ \A i \in DOMAIN t : (i \in DOMAIN s /\ t[i] = s[i]) \/ (i = Len(s) + 1 /\ t[i] = e)
  BY <1>1, <1>2
<1> QED
  BY <1>3 DEF t

LEMMA TailWhere ==
  ASSUME NEW S, NEW s \in Seq(S), s # <<>>
  PROVE  /\ Tail(s) \in Seq(S) /\ Head(s) \in S
         /\ 1 \in DOMAIN s /\ s[1] = Head(s)
         /\ \A i \in DOMAIN Tail(s) : i + 1 \in DOMAIN s /\ Tail(s)[i] = s[i + 1] /\ i \in Nat \ {0}
         /\ \A j \in DOMAIN s : j = 1 \/ (j - 1 \in DOMAIN Tail(s) /\ Tail(s)[j - 1] = s[j])
<1> DEFINE t == Tail(s)
<1>1. /\ t \in Seq(S) /\ Head(s) \in S /\ Len(t) = Len(s) - 1
      /\ \A i \in 1..Len(t) : t[i] = s[i + 1]
  BY HeadTailProperties
<1>2. /\ Len(s) \in Nat /\ Len(s) # 0 /\ Len(t) \in Nat
      /\ DOMAIN s = 1..Len(s) /\ DOMAIN t = 1..Len(t)
  BY <1>1, LenProperties, EmptySeq
<1>3. s[1] = Head(s)
  OBVIOUS
<1> HIDE DEF t
<1>4. /\ t \in Seq(S) /\ Head(s) \in S
      /\ 1 \in DOMAIN s /\ s[1] = Head(s)
      /\ \A i \in DOMAIN t : i + 1 \in DOMAIN s /\ t[i] = s[i + 1] /\ i \in Nat \ {0}
      /\ \A j \in DOMAIN s : j = 1 \/ (j - 1 \in DOMAIN t /\ t[j - 1] = s[j])
  BY <1>1, <1>2, <1>3
<1> QED
  BY <1>4 DEF t

LEMMA OneWord ==
  ASSUME NEW S, NEW m \in S
  PROVE  <<m>> \in Seq(S) /\ <<m>> # <<>> /\ Head(<<m>>) = m
OBVIOUS

LEMMA PostWhere ==
  ASSUME TypeOK, NEW m \in Message, Post(m)
  PROVE  /\ posts' \in Seq(Message)
         /\ \A i \in DOMAIN posts : i \in DOMAIN posts' /\ posts'[i] = posts[i]
         /\ \A i \in DOMAIN posts' : (i \in DOMAIN posts /\ posts'[i] = posts[i]) \/ posts'[i] = m
         /\ Subscribed => \E i \in DOMAIN posts' : posts'[i] = m
BY AppendWhere DEF Post, TypeOK

\* What the main thread takes from its queue of messages.
LEMMA HeardWhere ==
  ASSUME TypeOK, posts # <<>>, posts' = Tail(posts)
  PROVE  /\ posts' \in Seq(Message) /\ Head(posts) \in Message
         /\ \E i \in DOMAIN posts : posts[i] = Head(posts)
         /\ \A i \in DOMAIN posts' : \E j \in DOMAIN posts : posts'[i] = posts[j]
         /\ \A j \in DOMAIN posts :
              posts[j] = Head(posts) \/ \E i \in DOMAIN posts' : posts'[i] = posts[j]
<1>1. posts \in Seq(Message)
  BY DEF TypeOK
<1>2. /\ posts' \in Seq(Message) /\ Head(posts) \in Message
      /\ 1 \in DOMAIN posts /\ posts[1] = Head(posts)
      /\ \A i \in DOMAIN posts' : i + 1 \in DOMAIN posts /\ posts'[i] = posts[i + 1]
      /\ \A j \in DOMAIN posts : j = 1 \/ (j - 1 \in DOMAIN posts' /\ posts'[j - 1] = posts[j])
  BY <1>1, TailWhere
<1> QED
  BY <1>2

LEMMA SnapshotTypes ==
  ASSUME TypeOK
  PROVE  /\ Busy \in Snapshot
         /\ \A k \in Keys : [gen |-> gen + 1, kinds |-> KindsOf(inflight \cup {k})] \in Snapshot
         /\ \A k \in Keys, b \in Snapshot, p \in {"queued", "finished"} :
              [phase |-> p, key |-> k, busy |-> b] \in Message
<1>1. \A ks \in SUBSET Keys : KindsOf(ks) \in SUBSET Kinds
  BY DEF KindsOf, Kinds
<1>2. Busy \in Snapshot
  BY <1>1 DEF TypeOK, Busy, Snapshot
<1>3. ASSUME NEW k \in Keys
      PROVE  [gen |-> gen + 1, kinds |-> KindsOf(inflight \cup {k})] \in Snapshot
  <2>1. KindsOf(inflight \cup {k}) \in SUBSET Kinds /\ gen + 1 \in Nat
    BY <1>1 DEF TypeOK
  <2> HIDE DEF KindsOf
  <2> QED
    BY <2>1 DEF Snapshot
<1> QED
  BY <1>2, <1>3 DEF Message

-----------------------------------------------------------------------------
(* Types, and what the threads hold.                                       *)

\* The thread that queues changes its own place only.
LEMMA CallerForm ==
  ASSUME FormInv, NEW c \in Callers, NEW x \in Queueer,
         caller' = [caller EXCEPT ![c] = x],
         x.at # "idle" => x.key \in Keys, x.at \in {"send", "forward"} => x.msg # NoMsg,
         UNCHANGED <<net, started>>
  PROVE  /\ FormInv'
         /\ \A d \in Callers \ {c} : caller'[d] = caller[d]
         /\ caller'[c] = x
<1>1. /\ \A d \in Callers \ {c} : caller'[d] = caller[d]
      /\ caller'[c] = x /\ caller' \in [Callers -> Queueer]
  BY DEF FormInv
<1> QED
  BY <1>1 DEF FormInv, Holds, Telling

\* The net thread.
LEMMA NetForm ==
  ASSUME FormInv, NEW place \in {"idle", "run", "ran", "gone", "tell"},
         NEW k \in Keys \cup {None}, NEW msg \in Seq(Message),
         net' = [at |-> place, key |-> k, msg |-> msg],
         place # "idle" => k \in Keys,
         place = "tell" => msg # NoMsg /\ Head(msg).phase = "finished" /\ Head(msg).key = k,
         UNCHANGED <<caller, started>>
  PROVE  FormInv'
BY DEF FormInv, Holds, Telling

LEMMA AskForm ==
  ASSUME MaxJobs \in Nat, TypeOK, FormInv,
         NEW c \in Callers, NEW k \in Keys, NEW waits \in BOOLEAN, Ask(c, k, waits)
  PROVE  /\ TypeOK' /\ FormInv'
         /\ \A d \in Callers \ {c} : caller'[d] = caller[d]
         /\ caller[c].at = "idle" /\ caller'[c].at = "spawn" /\ caller'[c].key = k
         /\ waiting[c] = None
         /\ waiting' = IF waits THEN [waiting EXCEPT ![c] = k] ELSE waiting
<1> DEFINE x == [at |-> "spawn", key |-> k, waits |-> waits, msg |-> NoMsg]
<1>1. x \in Queueer /\ x.at = "spawn" /\ x.key = k
  BY DEF NoMsg, Queueer
<1>2. caller' = [caller EXCEPT ![c] = x] /\ UNCHANGED <<net, started>>
  BY DEF Ask
<1> HIDE DEF x
<1>3. FormInv' /\ caller'[c] = x /\ \A d \in Callers \ {c} : caller'[d] = caller[d]
  BY <1>1, <1>2, CallerForm
<1>4. waiting' = IF waits THEN [waiting EXCEPT ![c] = k] ELSE waiting
  BY DEF Ask, Registers
<1>5. TypeOK'
  BY <1>4 DEF Ask, TypeOK
<1> QED
  BY <1>1, <1>3, <1>4, <1>5 DEF Ask

LEMMA SpawnForm ==
  ASSUME TypeOK, FormInv, NEW c \in Callers, Spawn(c)
  PROVE  /\ TypeOK' /\ FormInv'
         /\ \A d \in Callers \ {c} : caller'[d] = caller[d]
         /\ caller[c].at = "spawn"
         /\ \/ /\ caller'[c].at = "idle" /\ UNCHANGED <<inflight, gen>>
               /\ waiting' = [waiting EXCEPT ![c] = None]
            \/ /\ caller[c].key \in Keys \ inflight
               /\ inflight' = inflight \cup {caller[c].key} /\ gen' = gen + 1
               /\ caller'[c].at = "send" /\ caller'[c].key = caller[c].key
               /\ Said(c)' = [phase |-> "queued", key |-> caller[c].key,
                              busy |-> [gen |-> gen', kinds |-> KindsOf(inflight')]]
               /\ waiting' = waiting
<1> DEFINE k == caller[c].key
<1>1. k \in Keys /\ caller[c].at = "spawn" /\ caller[c] \in Queueer
  BY DEF Spawn, FormInv
<1>0. UNCHANGED <<net, started>>
  BY DEF Spawn
<1>2. CASE k \in inflight
  <2> DEFINE x == [caller[c] EXCEPT !.at = "idle"]
  <2>1. caller' = [caller EXCEPT ![c] = x]
    BY <1>2 DEF Spawn, Refused
  <2>2. x \in Queueer /\ x.at = "idle"
    BY <1>1 DEF Queueer
  <2> HIDE DEF x
  <2>3. FormInv' /\ caller'[c].at = "idle" /\ \A d \in Callers \ {c} : caller'[d] = caller[d]
    BY <1>0, <2>1, <2>2, CallerForm
  <2>4. UNCHANGED <<inflight, gen>> /\ waiting' = [waiting EXCEPT ![c] = None]
    BY <1>2 DEF Spawn, Refused
  <2>5. TypeOK'
    BY <2>4 DEF Spawn, TypeOK
  <2> QED
    BY <1>1, <2>3, <2>4, <2>5
<1>3. CASE k \notin inflight
  <2>1. inflight' = inflight \cup {k} /\ gen' = gen + 1 /\ waiting' = waiting
    BY <1>3 DEF Spawn, Refused
  <2>2. PICK m \in Message : m = [phase |-> "queued", key |-> k,
                                  busy |-> [gen |-> gen', kinds |-> KindsOf(inflight')]]
    BY <1>1, <2>1, SnapshotTypes
  <2>3. <<m>> \in Seq(Message) /\ <<m>> # NoMsg /\ Head(<<m>>) = m
    BY <2>2, OneWord DEF NoMsg
  <2> DEFINE x == [caller[c] EXCEPT !.at = "send", !.msg = <<m>>]
  <2>4. caller' = [caller EXCEPT ![c] = x]
    BY <1>3, <2>2 DEF Spawn, Refused
  <2>5. x \in Queueer /\ x.at = "send" /\ x.key = k /\ x.msg = <<m>>
    BY <1>1, <2>3 DEF Queueer
  <2> HIDE DEF x
  <2>6. FormInv' /\ caller'[c] = x /\ \A d \in Callers \ {c} : caller'[d] = caller[d]
    BY <1>0, <1>1, <2>3, <2>4, <2>5, CallerForm
  <2>7. TypeOK'
    BY <1>1, <2>1 DEF Spawn, TypeOK
  <2>8. Said(c)' = m
    BY <2>3, <2>5, <2>6 DEF Said
  <2> QED
    BY <1>1, <1>3, <2>1, <2>2, <2>5, <2>6, <2>7, <2>8
<1> QED
  BY <1>2, <1>3

LEMMA SendForm ==
  ASSUME TypeOK, FormInv, NEW c \in Callers, Send(c)
  PROVE  /\ TypeOK' /\ FormInv'
         /\ \A d \in Callers \ {c} : caller'[d] = caller[d]
         /\ caller[c].at = "send" /\ caller[c].key \in Keys
         /\ caller'[c].at = "forward" /\ caller'[c].key = caller[c].key /\ Said(c)' = Said(c)
<1> DEFINE x == [caller[c] EXCEPT !.at = "forward"]
<1>1. /\ caller[c].key \in Keys /\ caller[c].at = "send" /\ caller[c] \in Queueer
      /\ caller[c].msg # NoMsg
  BY DEF Send, FormInv, Holds
<1>2. caller' = [caller EXCEPT ![c] = x] /\ UNCHANGED <<net, started>>
  BY DEF Send
<1>3. x \in Queueer /\ x.at = "forward" /\ x.key = caller[c].key /\ x.msg = caller[c].msg
  BY <1>1 DEF Queueer
<1> HIDE DEF x
<1>4. FormInv' /\ caller'[c] = x /\ \A d \in Callers \ {c} : caller'[d] = caller[d]
  BY <1>1, <1>2, <1>3, CallerForm
<1>5. TypeOK'
  BY <1>1, AppendWhere DEF Send, TypeOK
<1> QED
  BY <1>1, <1>3, <1>4, <1>5 DEF Said

LEMMA ForwardForm ==
  ASSUME TypeOK, FormInv, NEW c \in Callers, Forward(c)
  PROVE  /\ TypeOK' /\ FormInv'
         /\ \A d \in Callers \ {c} : caller'[d] = caller[d]
         /\ caller[c].at = "forward" /\ caller'[c].at = "idle"
         /\ Said(c) \in Message /\ waiting' = waiting
<1> DEFINE x == [caller[c] EXCEPT !.at = "idle", !.msg = NoMsg]
<1>1. /\ caller[c].at = "forward" /\ caller[c] \in Queueer /\ caller[c].msg # NoMsg
      /\ caller[c].msg \in Seq(Message)
  BY DEF Forward, FormInv, Holds, Queueer
<1>2. Said(c) \in Message
  BY <1>1, TailWhere DEF Said, NoMsg
<1>3. caller' = [caller EXCEPT ![c] = x] /\ UNCHANGED <<net, started>>
  BY DEF Forward
<1>9. NoMsg \in Seq(Message)
  BY DEF NoMsg
<1>4. x \in Queueer /\ x.at = "idle"
  BY <1>1, <1>9 DEF Queueer
<1> HIDE DEF x
<1>5. FormInv' /\ caller'[c] = x /\ \A d \in Callers \ {c} : caller'[d] = caller[d]
  BY <1>3, <1>4, CallerForm
<1>6. waiting' = waiting
  BY DEF Forward, Registers
<1>7. posts' \in Seq(Message)
  BY <1>2, PostWhere DEF Forward, Said
<1>8. TypeOK'
  BY <1>6, <1>7 DEF Forward, TypeOK
<1> QED
  BY <1>1, <1>2, <1>4, <1>5, <1>6, <1>8

LEMMA NetThreadForm ==
  ASSUME TypeOK, FormInv, NetThread
  PROVE  TypeOK' /\ FormInv'
<1>0. /\ net.key \in Keys \cup {None} /\ net.msg \in Seq(Message) /\ NoMsg \in Seq(Message)
      /\ net.at # "idle" => net.key \in Keys
  BY DEF FormInv, NoMsg
<1>1. CASE TakeJob
  <2>1. chan' \in Seq(Keys) /\ Head(chan) \in Keys
    BY <1>1, TailWhere DEF TakeJob, TypeOK
  <2>2. FormInv'
    BY <1>0, <1>1, <2>1, NetForm DEF TakeJob
  <2>3. net'.key = Head(chan)
    BY <1>1 DEF TakeJob
  <2> QED
    BY <1>1, <2>1, <2>2, <2>3 DEF TakeJob, TypeOK
<1>2. CASE RunJob
  <2>1. net' = [at |-> "ran", key |-> net.key, msg |-> net.msg] /\ net.key \in Keys
    BY <1>0, <1>2 DEF RunJob, AfterPanic, FormInv
  <2>2. FormInv'
    BY <1>0, <1>2, <2>1, NetForm DEF RunJob
  <2> QED
    BY <1>2, <2>1, <2>2 DEF RunJob, TypeOK
<1>3. CASE Remove
  <2>1. net' = [at |-> "gone", key |-> net.key, msg |-> net.msg] /\ net.key \in Keys
    BY <1>0, <1>3 DEF Remove, FormInv
  <2>2. FormInv'
    BY <1>0, <1>3, <2>1, NetForm DEF Remove
  <2> QED
    BY <1>3, <2>1, <2>2 DEF Remove, TypeOK
<1>4. CASE Describe
  <2> DEFINE m == [phase |-> "finished", key |-> net.key, busy |-> Busy]
  <2>1. net.key \in Keys
    BY <1>0, <1>4 DEF Describe
  <2>2. m \in Message /\ m.phase = "finished" /\ m.key = net.key
    BY <2>1, SnapshotTypes
  <2>3. net' = [net EXCEPT !.at = "tell", !.msg = <<m>>]
    BY <1>4 DEF Describe
  <2> HIDE DEF m
  <2>4. <<m>> \in Seq(Message) /\ <<m>> # NoMsg /\ Head(<<m>>) = m
    BY <2>2, OneWord DEF NoMsg
  <2>5. net' = [at |-> "tell", key |-> net.key, msg |-> <<m>>]
    BY <2>3 DEF FormInv
  <2>6. FormInv'
    BY <1>0, <1>4, <2>1, <2>2, <2>4, <2>5, NetForm DEF Describe
  <2> QED
    BY <1>4, <2>5, <2>6, <2>1 DEF Describe, TypeOK
<1>5. CASE Tell
  <2>1. Telling \in Message
    BY <1>5, TailWhere DEF Tell, FormInv, Telling, NoMsg
  <2>2. posts' \in Seq(Message)
    BY <1>5, <2>1, PostWhere DEF Tell, Telling
  <2>3. FormInv'
    BY <1>0, <1>5, NetForm DEF Tell
  <2>4. net'.key = None
    BY <1>5 DEF Tell
  <2> QED
    BY <1>5, <2>2, <2>3, <2>4 DEF Tell, TypeOK
<1> QED
  BY <1>1, <1>2, <1>3, <1>4, <1>5 DEF NetThread

LEMMA ScreenForm ==
  ASSUME TypeOK, FormInv, HandlePost \/ Start \/ \E c \in Callers : GiveUp(c)
  PROVE  TypeOK' /\ FormInv'
<1>1. CASE HandlePost
  <2>1. posts' \in Seq(Message) /\ Head(posts).busy \in Snapshot
    BY <1>1, HeardWhere DEF HandlePost, Message
  <2>2. waiting' \in [Callers -> Keys \cup {None}]
    BY <1>1 DEF HandlePost, TypeOK
  <2> QED
    BY <1>1, <2>1, <2>2 DEF HandlePost, ApplyBusy, TypeOK, FormInv, Holds, Telling
<1>2. CASE Start
  <2>1. started' \in {"subscribed", "loading", "yes"}
    BY <1>2 DEF Start, FormInv
  <2>2. loaded' \in Snapshot /\ shown' \in Snapshot
    BY <1>2, SnapshotTypes DEF Start, ApplyBusy, TypeOK
  <2> QED
    BY <1>2, <2>1, <2>2 DEF Start, TypeOK, FormInv, Holds, Telling
<1>3. CASE \E c \in Callers : GiveUp(c)
  BY <1>3 DEF GiveUp, TypeOK, FormInv, Holds, Telling
<1> QED
  BY <1>1, <1>2, <1>3

-----------------------------------------------------------------------------
(* The table.                                                              *)

LEMMA TableSame ==
  ASSUME TableInv, UNCHANGED <<inflight, chan>>,
         \A k \in Keys : RunsNow(k)' <=> RunsNow(k),
         \A c \in Callers, k \in Keys : Sends(c, k)' <=> Sends(c, k)
  PROVE  TableInv'
<1>1. \A i, k : Lies(i, k)' <=> Lies(i, k)
  BY DEF Lies
<1> HIDE DEF Lies
<1> QED
  BY <1>1 DEF TableInv

LEMMA SpawnTable ==
  ASSUME TypeOK, FormInv, TableInv, NEW c \in Callers, Spawn(c)
  PROVE  TableInv'
<1> DEFINE k0 == caller[c].key
<1>1. /\ \A d \in Callers \ {c} : \A k \in Keys : Sends(d, k)' <=> Sends(d, k)
      /\ \A k \in Keys : ~Sends(c, k)
  BY SpawnForm DEF Sends
<1>2. UNCHANGED chan /\ \A k \in Keys : RunsNow(k)' <=> RunsNow(k)
  BY DEF Spawn, RunsNow
<1>3. \A i, k : Lies(i, k)' <=> Lies(i, k)
  BY <1>2 DEF Lies
<1>4. CASE caller'[c].at = "idle" /\ UNCHANGED inflight
  <2>1. \A k \in Keys : ~Sends(c, k)'
    BY <1>4 DEF Sends
  <2> QED
    BY <1>1, <1>2, <1>4, <2>1, TableSame
<1>5. CASE /\ k0 \in Keys \ inflight /\ inflight' = inflight \cup {k0}
           /\ caller'[c].at = "send" /\ caller'[c].key = k0
  <2>1. \A k \in Keys : Sends(c, k)' <=> k = k0
    BY <1>5 DEF Sends
  <2>2. /\ \A d \in Callers : ~Sends(d, k0)
        /\ \A i \in DOMAIN chan : ~Lies(i, k0)
        /\ ~RunsNow(k0)
    BY <1>5 DEF TableInv
  <2> HIDE DEF k0
  <2>3. ASSUME NEW k \in Keys, k # k0
        PROVE  /\ k \in inflight' <=> k \in inflight
               /\ \A d \in Callers : Sends(d, k)' <=> Sends(d, k)
    BY <1>1, <1>5, <2>1, <2>3
  <2> QED
    BY <1>1, <1>2, <1>3, <1>5, <2>1, <2>2, <2>3 DEF TableInv
<1> QED
  BY <1>4, <1>5, SpawnForm

LEMMA SendTable ==
  ASSUME TypeOK, FormInv, TableInv, NEW c \in Callers, Send(c)
  PROVE  TableInv'
<1>1. PICK k0 \in Keys : k0 = caller[c].key
  BY SendForm
<1>2. /\ \A d \in Callers \ {c} : \A k \in Keys : Sends(d, k)' <=> Sends(d, k)
      /\ \A k \in Keys : ~Sends(c, k)' /\ (Sends(c, k) <=> k = k0)
  BY <1>1, SendForm DEF Sends
<1>3. UNCHANGED inflight /\ \A k \in Keys : RunsNow(k)' <=> RunsNow(k)
  BY DEF Send, RunsNow
<1>4. chan \in Seq(Keys) /\ chan' = Append(chan, k0)
  BY <1>1 DEF Send, TypeOK
<1>5. /\ \A i \in DOMAIN chan : i \in DOMAIN chan' /\ chan'[i] = chan[i]
      /\ \E i \in DOMAIN chan' : chan'[i] = k0 /\ i \notin DOMAIN chan
      /\ \A i \in DOMAIN chan' :
           (i \in DOMAIN chan /\ chan'[i] = chan[i]) \/ (i = Len(chan) + 1 /\ chan'[i] = k0)
  BY <1>4, AppendWhere
<1>6. ASSUME NEW k \in Keys, k # k0
      PROVE  /\ \A i \in DOMAIN chan' : Lies(i, k)' => i \in DOMAIN chan /\ Lies(i, k)
             /\ \A i \in DOMAIN chan : Lies(i, k) => i \in DOMAIN chan' /\ Lies(i, k)'
             /\ \A d \in Callers : Sends(d, k)' <=> Sends(d, k)
  BY <1>2, <1>5, <1>6 DEF Lies
<1>7. /\ k0 \in inflight /\ ~RunsNow(k0)
      /\ \A d \in Callers : ~Sends(d, k0)'
      /\ \A i \in DOMAIN chan : ~Lies(i, k0)
  BY <1>2 DEF TableInv
<1>8. /\ \E i \in DOMAIN chan' : Lies(i, k0)'
      /\ \A i \in DOMAIN chan' : Lies(i, k0)' => i = Len(chan) + 1
  BY <1>5, <1>7 DEF Lies
<1> QED
  BY <1>3, <1>6, <1>7, <1>8 DEF TableInv

LEMMA TakeTable ==
  ASSUME TypeOK, FormInv, TableInv, TakeJob
  PROVE  TableInv'
<1>1. chan \in Seq(Keys) /\ chan # <<>> /\ chan' = Tail(chan)
  BY DEF TakeJob, TypeOK
<1>2. PICK k0 \in Keys : k0 = Head(chan)
  BY <1>1, TailWhere
<1>3. /\ 1 \in DOMAIN chan /\ chan[1] = k0
      /\ \A i \in DOMAIN chan' : i + 1 \in DOMAIN chan /\ chan'[i] = chan[i + 1] /\ i \in Nat \ {0}
      /\ \A j \in DOMAIN chan : j = 1 \/ (j - 1 \in DOMAIN chan' /\ chan'[j - 1] = chan[j])
  BY <1>1, <1>2, TailWhere
<1>4. /\ UNCHANGED inflight
      /\ \A k \in Keys : ~RunsNow(k) /\ (RunsNow(k)' <=> k = k0)
      /\ \A d \in Callers, k \in Keys : Sends(d, k)' <=> Sends(d, k)
  BY <1>2 DEF TakeJob, RunsNow, Sends
<1>5. /\ \A i \in DOMAIN chan : Lies(i, k0) => i = 1
      /\ \A d \in Callers : ~Sends(d, k0)
      /\ k0 \in inflight
  BY <1>3 DEF TableInv, Lies
<1>6. \A i \in DOMAIN chan' : ~Lies(i, k0)'
  BY <1>3, <1>5 DEF Lies
<1>7. ASSUME NEW k \in Keys, k # k0
      PROVE  /\ \A i \in DOMAIN chan' : Lies(i, k)' => i + 1 \in DOMAIN chan /\ Lies(i + 1, k)
             /\ (\E i \in DOMAIN chan' : Lies(i, k)') <=> \E i \in DOMAIN chan : Lies(i, k)
             /\ \A i, j \in DOMAIN chan' : i + 1 = j + 1 => i = j
  <2>1. \A i \in DOMAIN chan : Lies(i, k) => i # 1
    BY <1>3, <1>7 DEF Lies
  <2> QED
    BY <1>3, <2>1 DEF Lies
<1> QED
  BY <1>4, <1>5, <1>6, <1>7 DEF TableInv

LEMMA RemoveTable ==
  ASSUME TypeOK, FormInv, TableInv, Remove
  PROVE  TableInv'
<1>1. PICK k0 \in Keys : k0 = net.key
  BY DEF Remove, FormInv
<1>2. /\ inflight' = inflight \ {k0} /\ UNCHANGED chan
      /\ \A k \in Keys : ~RunsNow(k)' /\ (RunsNow(k) <=> k = k0)
      /\ \A d \in Callers, k \in Keys : Sends(d, k)' <=> Sends(d, k)
      /\ \A i, k : Lies(i, k)' <=> Lies(i, k)
  BY <1>1 DEF Remove, RunsNow, Sends, Lies, FormInv
<1>3. /\ \A d \in Callers : ~Sends(d, k0)
      /\ \A i \in DOMAIN chan : ~Lies(i, k0)
  BY <1>2 DEF TableInv
<1> QED
  BY <1>2, <1>3 DEF TableInv

LEMMA OtherTable ==
  ASSUME TypeOK, FormInv, TableInv, MaxJobs \in Nat,
         \/ \E c \in Callers, k \in Keys, waits \in BOOLEAN : Ask(c, k, waits)
         \/ \E c \in Callers : Forward(c) \/ GiveUp(c)
         \/ RunJob \/ Describe \/ Tell \/ HandlePost \/ Start \/ UNCHANGED jobsVars
  PROVE  TableInv'
<1>1. ASSUME NEW c \in Callers, NEW k \in Keys, NEW waits \in BOOLEAN, Ask(c, k, waits)
      PROVE  TableInv'
  <2>1. \A d \in Callers, j \in Keys : Sends(d, j)' <=> Sends(d, j)
    BY <1>1, AskForm DEF Sends
  <2> QED
    BY <1>1, <2>1, TableSame DEF Ask, RunsNow
<1>2. ASSUME NEW c \in Callers, Forward(c)
      PROVE  TableInv'
  <2>1. \A d \in Callers, j \in Keys : Sends(d, j)' <=> Sends(d, j)
    BY <1>2, ForwardForm DEF Sends
  <2> QED
    BY <1>2, <2>1, TableSame DEF Forward, RunsNow
<1>3. CASE RunJob \/ Describe \/ Tell
  <2>1. CASE RunJob
    <3>1. net.at = "run" /\ net'.at = "ran" /\ net'.key = net.key
      BY <2>1 DEF RunJob, AfterPanic, FormInv
    <3> QED
      BY <2>1, <3>1, TableSame DEF RunJob, RunsNow, Sends
  <2>2. CASE Describe
    <3>1. net.at = "gone" /\ net'.at = "tell"
      BY <2>2 DEF Describe, FormInv
    <3> QED
      BY <2>2, <3>1, TableSame DEF Describe, RunsNow, Sends
  <2>3. CASE Tell
    <3>1. net.at = "tell" /\ net'.at = "idle"
      BY <2>3 DEF Tell
    <3> QED
      BY <2>3, <3>1, TableSame DEF Tell, RunsNow, Sends
  <2> QED
    BY <1>3, <2>1, <2>2, <2>3
<1>4. CASE HandlePost \/ Start \/ UNCHANGED jobsVars \/ \E c \in Callers : GiveUp(c)
  BY <1>4, TableSame DEF HandlePost, Start, jobsVars, GiveUp, Sends, RunsNow
<1> QED
  BY <1>1, <1>2, <1>3, <1>4

\* One job of a key, wherever it is.
LEMMA TableCounts ==
  ASSUME TypeOK, FormInv, TableInv
  PROVE  TableExact
<1> SUFFICES ASSUME NEW k \in Keys
             PROVE  Underway[k] = IF k \in inflight THEN 1 ELSE 0
  BY DEF TableExact
<1> DEFINE S == {c \in Callers : caller[c].at = "send" /\ caller[c].key = k}
           L == {i \in DOMAIN chan : chan[i] = k}
<1>1. Underway[k] = Cardinality(S) + Cardinality(L) + (IF RunsNow(k) THEN 1 ELSE 0)
  BY DEF Underway, RunsNow
<1>2. /\ k \in inflight <=> S # {} \/ L # {} \/ RunsNow(k)
      /\ \A c, d \in S : c = d
      /\ \A i, j \in L : i = j
      /\ S # {} => ~RunsNow(k) /\ L = {}
      /\ RunsNow(k) => L = {}
  BY DEF TableInv, Sends, Lies
<1> HIDE DEF S, L
<1>3. /\ S = {} \/ \E c : S = {c}
      /\ L = {} \/ \E i : L = {i}
  <2>1. ASSUME NEW c \in S PROVE S = {c}
    BY <1>2, <2>1
  <2>2. ASSUME NEW i \in L PROVE L = {i}
    BY <1>2, <2>2
  <2> QED
    BY <2>1, <2>2
<1>4. /\ Cardinality(S) = IF S = {} THEN 0 ELSE 1
      /\ Cardinality(L) = IF L = {} THEN 0 ELSE 1
  BY <1>3, FS_EmptySet, FS_Singleton
<1> QED
  BY <1>1, <1>2, <1>4
-----------------------------------------------------------------------------
(* The snapshots.                                                          *)

LEMMA StillCurrent ==
  ASSUME TypeOK, NEW b \in Snapshot, Current(b, gen, inflight),
         UNCHANGED <<inflight, gen>> \/ gen' = gen + 1
  PROVE  Current(b, gen', inflight')
BY DEF Current, TypeOK, Snapshot

LEMMA MessageTypes ==
  ASSUME TypeOK, FormInv
  PROVE  /\ \A i \in DOMAIN posts : posts[i].busy \in Snapshot
         /\ \A c \in Callers : Holds(c) => Said(c) \in Message /\ Said(c).busy \in Snapshot
         /\ net.at = "tell" => Telling \in Message /\ Telling.busy \in Snapshot
<1>1. \A m \in Message : m.busy \in Snapshot
  BY DEF Message
<1>2. \A i \in DOMAIN posts : posts[i] \in Message
  BY DEF TypeOK
<1>3. \A s \in Seq(Message) : s # NoMsg => Head(s) \in Message
  BY TailWhere DEF NoMsg
<1>4. \A c \in Callers : Holds(c) => Said(c) \in Message
  BY <1>3 DEF FormInv, Said, Queueer
<1>5. net.at = "tell" => Telling \in Message
  BY <1>3 DEF FormInv, Telling
<1> QED
  BY <1>1, <1>2, <1>4, <1>5

\* The snapshots in the hands of the screen and of the threads stay true.
LEMMA AllCurrent ==
  ASSUME TypeOK, FormInv, SnapshotsInv, UNCHANGED <<inflight, gen>> \/ gen' = gen + 1
  PROVE  /\ Current(shown, gen', inflight') /\ Current(loaded, gen', inflight')
         /\ \A i \in DOMAIN posts : Current(posts[i].busy, gen', inflight')
         /\ \A c \in Callers : Holds(c) => Current(Said(c).busy, gen', inflight')
         /\ net.at = "tell" => Current(Telling.busy, gen', inflight')
<1>1. \A b \in Snapshot : Current(b, gen, inflight) => Current(b, gen', inflight')
  BY StillCurrent
<1>2. shown \in Snapshot /\ loaded \in Snapshot
  BY DEF TypeOK
<1> QED
  BY <1>1, <1>2, MessageTypes DEF SnapshotsInv

LEMMA SpawnSnapshots ==
  ASSUME TypeOK, FormInv, SnapshotsInv, LatestInv, NEW c \in Callers, Spawn(c)
  PROVE  SnapshotsInv' /\ LatestInv'
<1>1. /\ UNCHANGED <<shown, loaded, posts, net, started>>
      /\ \A d \in Callers \ {c} : caller'[d] = caller[d]
      /\ ~Holds(c)
  BY SpawnForm DEF Spawn, Holds
<1>2. /\ UNCHANGED Telling
      /\ \A d \in Callers \ {c} : (Holds(d)' <=> Holds(d)) /\ Said(d)' = Said(d)
  BY <1>1 DEF Telling, Holds, Said
<1>3. CASE caller'[c].at = "idle" /\ UNCHANGED <<inflight, gen>>
  <2>1. ~Holds(c)'
    BY <1>3 DEF Holds
  <2>2. SnapshotsInv'
    BY <1>1, <1>2, <1>3, <2>1, AllCurrent DEF SnapshotsInv
  <2>3. LatestInv'
    BY <1>1, <1>2, <1>3, <2>1 DEF LatestInv
  <2> QED
    BY <2>2, <2>3
<1>4. CASE /\ gen' = gen + 1 /\ caller'[c].at = "send"
           /\ Said(c)'.busy = [gen |-> gen', kinds |-> KindsOf(inflight')]
  <2>1. Holds(c)' /\ Current(Said(c)'.busy, gen', inflight') /\ Said(c)'.busy.gen = gen'
    BY <1>4 DEF Holds, Current, TypeOK
  <2>2. SnapshotsInv'
    BY <1>1, <1>2, <1>4, <2>1, AllCurrent DEF SnapshotsInv
  <2>3. LatestInv'
    BY <2>1 DEF LatestInv
  <2> QED
    BY <2>2, <2>3
<1> QED
  BY <1>3, <1>4, SpawnForm

\* A message that goes from the thread that built it to the queue.
LEMMA ForwardSnapshots ==
  ASSUME TypeOK, FormInv, SnapshotsInv, LatestInv,
         NEW c \in Callers, Send(c) \/ Forward(c)
  PROVE  SnapshotsInv' /\ LatestInv'
<1>1. /\ UNCHANGED <<shown, loaded, net, started, inflight, gen>>
      /\ UNCHANGED Telling
      /\ Holds(c)
  BY DEF Send, Forward, Telling, Holds
<1>2. CASE Send(c)
  <2>1. /\ UNCHANGED posts
        /\ \A d \in Callers : (Holds(d)' <=> Holds(d)) /\ Said(d)' = Said(d)
    BY <1>2, SendForm DEF Send, Holds, Said
  <2> QED
    BY <1>1, <2>1 DEF SnapshotsInv, LatestInv
<1>3. CASE Forward(c)
  <2>1. /\ \A d \in Callers \ {c} : (Holds(d)' <=> Holds(d)) /\ Said(d)' = Said(d)
        /\ ~Holds(c)'
    BY <1>3, ForwardForm DEF Holds, Said
  <2>2. Said(c) \in Message /\ Post(Said(c))
    BY <1>3, ForwardForm DEF Forward, Said
  <2>3. PICK m \in Message : m = Said(c)
    BY <2>2
  <2>4. /\ \A i \in DOMAIN posts : i \in DOMAIN posts' /\ posts'[i] = posts[i]
        /\ \A i \in DOMAIN posts' : (i \in DOMAIN posts /\ posts'[i] = posts[i]) \/ posts'[i] = m
        /\ Subscribed => \E i \in DOMAIN posts' : posts'[i] = m
    BY <2>2, <2>3, PostWhere
  <2>5. Current(m.busy, gen, inflight)
    BY <1>1, <2>3 DEF SnapshotsInv
  <2>6. SnapshotsInv'
    BY <1>1, <2>1, <2>4, <2>5 DEF SnapshotsInv
  <2>7. started \in {"loading", "yes"} => Subscribed
    BY DEF Subscribed
  <2>8. LatestInv'
    BY <1>1, <2>1, <2>3, <2>4, <2>7 DEF LatestInv
  <2> QED
    BY <2>6, <2>8
<1> QED
  BY <1>2, <1>3

LEMMA NetSnapshots ==
  ASSUME TypeOK, FormInv, SnapshotsInv, LatestInv, NetThread
  PROVE  SnapshotsInv' /\ LatestInv'
<1>1. /\ UNCHANGED <<shown, loaded, started, caller>>
      /\ \A c \in Callers : (Holds(c)' <=> Holds(c)) /\ Said(c)' = Said(c)
  BY DEF NetThread, TakeJob, RunJob, Remove, Describe, Tell, Holds, Said
<1>2. CASE TakeJob \/ RunJob
  <2>1. /\ UNCHANGED <<inflight, gen, posts>>
        /\ net.at \notin {"gone", "tell"} /\ net'.at \notin {"gone", "tell"}
    BY <1>2 DEF TakeJob, RunJob, AfterPanic, FormInv
  <2> QED
    BY <1>1, <2>1 DEF SnapshotsInv, LatestInv
<1>3. CASE Remove
  <2>1. /\ UNCHANGED posts /\ gen' = gen + 1
        /\ net'.at = "gone"
    BY <1>3 DEF Remove, FormInv
  <2> QED
    BY <1>1, <2>1, AllCurrent DEF SnapshotsInv, LatestInv
<1>4. CASE Describe
  <2> DEFINE m == [phase |-> "finished", key |-> net.key, busy |-> Busy]
  <2>1. /\ UNCHANGED <<inflight, gen, posts>>
        /\ net.at = "gone" /\ net'.at = "tell" /\ net'.msg = <<m>>
    BY <1>4 DEF Describe, FormInv
  <2>2. Telling' = m
    BY <2>1 DEF Telling
  <2>3. Telling'.busy = Busy /\ Current(Busy, gen, inflight) /\ Busy.gen = gen
    BY <2>2 DEF Current, Busy, TypeOK
  <2> HIDE DEF m
  <2> QED
    BY <1>1, <2>1, <2>3 DEF SnapshotsInv, LatestInv
<1>5. CASE Tell
  <2>1. UNCHANGED <<inflight, gen>> /\ net.at = "tell" /\ net'.at = "idle" /\ Post(Telling)
    BY <1>5 DEF Tell, Telling
  <2>2. PICK m \in Message : m = Telling
    BY <2>1, MessageTypes
  <2>3. /\ \A i \in DOMAIN posts : i \in DOMAIN posts' /\ posts'[i] = posts[i]
        /\ \A i \in DOMAIN posts' : (i \in DOMAIN posts /\ posts'[i] = posts[i]) \/ posts'[i] = m
        /\ Subscribed => \E i \in DOMAIN posts' : posts'[i] = m
    BY <2>1, <2>2, PostWhere
  <2>4. Current(m.busy, gen, inflight)
    BY <2>1, <2>2 DEF SnapshotsInv
  <2>5. SnapshotsInv'
    BY <1>1, <2>1, <2>3, <2>4 DEF SnapshotsInv
  <2>6. started \in {"loading", "yes"} => Subscribed
    BY DEF Subscribed
  <2>7. LatestInv'
    BY <1>1, <2>1, <2>2, <2>3, <2>6 DEF LatestInv
  <2> QED
    BY <2>5, <2>7
<1> QED
  BY <1>2, <1>3, <1>4, <1>5 DEF NetThread

\* The main thread shows the newest of what it has heard and read.
LEMMA ScreenSnapshots ==
  ASSUME TypeOK, FormInv, SnapshotsInv, LatestInv, HandlePost \/ Start
  PROVE  SnapshotsInv' /\ LatestInv'
<1>1. /\ UNCHANGED <<inflight, gen, net, caller>>
      /\ UNCHANGED Telling
      /\ \A c \in Callers : (Holds(c)' <=> Holds(c)) /\ Said(c)' = Said(c)
  BY DEF HandlePost, Start, Telling, Holds, Said
<1>2. ASSUME NEW b \in Snapshot, Current(b, gen, inflight), ApplyBusy(b)
      PROVE  /\ Current(shown', gen, inflight)
             /\ shown.gen = gen \/ b.gen = gen => shown'.gen = gen
  <2>1. gen \in Nat /\ shown.gen \in Nat /\ b.gen \in Nat
    BY DEF TypeOK, Snapshot
  <2>2. Current(shown, gen, inflight)
    BY DEF SnapshotsInv
  <2> QED
    BY <1>2, <2>1, <2>2 DEF ApplyBusy, Newer, Current
<1>3. CASE HandlePost
  <2>1. /\ UNCHANGED <<started, loaded>> /\ posts # <<>> /\ posts' = Tail(posts)
        /\ ApplyBusy(Head(posts).busy)
    BY <1>3 DEF HandlePost
  <2>2. PICK m \in Message : m = Head(posts)
    BY <2>1, HeardWhere
  <2>3. /\ \E i \in DOMAIN posts : posts[i] = m
        /\ \A i \in DOMAIN posts' : \E j \in DOMAIN posts : posts'[i] = posts[j]
        /\ \A j \in DOMAIN posts : posts[j] = m \/ \E i \in DOMAIN posts' : posts'[i] = posts[j]
    BY <2>1, <2>2, HeardWhere
  <2>4. PICK b \in Snapshot : b = m.busy
    BY DEF Message
  <2>5. Current(b, gen, inflight) /\ ApplyBusy(b)
    BY <2>1, <2>2, <2>3, <2>4 DEF SnapshotsInv
  <2>6. Current(shown', gen, inflight) /\ (shown.gen = gen \/ b.gen = gen => shown'.gen = gen)
    BY <1>2, <2>5
  <2>7. SnapshotsInv'
    BY <1>1, <2>1, <2>3, <2>6 DEF SnapshotsInv
  <2>8. LatestInv'
    BY <1>1, <2>1, <2>3, <2>4, <2>6 DEF LatestInv
  <2> QED
    BY <2>7, <2>8
<1>4. CASE Start
  <2>1. UNCHANGED posts
    BY <1>4 DEF Start
  <2>2. CASE started = "no"
    <3>1. UNCHANGED <<shown, loaded>> /\ started' = "subscribed"
      BY <1>4, <2>2 DEF Start
    <3> QED
      BY <1>1, <2>1, <3>1 DEF SnapshotsInv, LatestInv
  <2>3. CASE started = "subscribed"
    <3>1. UNCHANGED shown /\ loaded' = Busy /\ started' = "loading"
      BY <1>4, <2>3 DEF Start
    <3>2. Current(Busy, gen, inflight) /\ Busy.gen = gen
      BY DEF Current, Busy, TypeOK
    <3> QED
      BY <1>1, <2>1, <3>1, <3>2 DEF SnapshotsInv, LatestInv
  <2>4. CASE started = "loading"
    <3>1. UNCHANGED loaded /\ ApplyBusy(loaded) /\ started' = "yes"
      BY <1>4, <2>4 DEF Start
    <3>2. PICK b \in Snapshot : b = loaded
      BY DEF TypeOK
    <3>3. Current(b, gen, inflight) /\ ApplyBusy(b)
      BY <3>1, <3>2 DEF SnapshotsInv
    <3>4. Current(shown', gen, inflight) /\ (shown.gen = gen \/ b.gen = gen => shown'.gen = gen)
      BY <1>2, <3>3
    <3>5. SnapshotsInv'
      BY <1>1, <2>1, <3>1, <3>4 DEF SnapshotsInv
    <3>6. LatestInv'
      BY <1>1, <2>1, <2>4, <3>1, <3>2, <3>4 DEF LatestInv
    <3> QED
      BY <3>5, <3>6
  <2> QED
    BY <1>4, <2>2, <2>3, <2>4 DEF Start, FormInv
<1> QED
  BY <1>3, <1>4

LEMMA OtherSnapshots ==
  ASSUME MaxJobs \in Nat, TypeOK, FormInv, SnapshotsInv, LatestInv,
         \/ \E c \in Callers, k \in Keys, waits \in BOOLEAN : Ask(c, k, waits)
         \/ \E c \in Callers : GiveUp(c)
         \/ UNCHANGED jobsVars
  PROVE  SnapshotsInv' /\ LatestInv'
<1>1. /\ UNCHANGED <<inflight, gen, net, started, loaded, posts, shown>>
      /\ UNCHANGED Telling
  BY DEF Ask, GiveUp, jobsVars, Telling
<1>2. \A c \in Callers : (Holds(c)' <=> Holds(c)) /\ (Holds(c) => Said(c)' = Said(c))
  <2>1. CASE \E c \in Callers, k \in Keys, waits \in BOOLEAN : Ask(c, k, waits)
    BY <2>1, AskForm DEF Holds, Said
  <2>2. CASE UNCHANGED caller
    BY <2>2 DEF Holds, Said
  <2> QED
    BY <2>1, <2>2 DEF GiveUp, jobsVars
<1> QED
  BY <1>1, <1>2 DEF SnapshotsInv, LatestInv
-----------------------------------------------------------------------------
(* The waiters.                                                            *)

LEMMA AskWaits ==
  ASSUME MaxJobs \in Nat, TypeOK, FormInv, WaitInv,
         NEW c \in Callers, NEW k \in Keys, NEW waits \in BOOLEAN, Ask(c, k, waits)
  PROVE  WaitInv'
<1>1. /\ \A d \in Callers \ {c} : caller'[d] = caller[d] /\ waiting'[d] = waiting[d]
      /\ caller'[c].at = "spawn" /\ caller'[c].key = k
      /\ waiting'[c] \in {None, k}
      /\ waiting'[c] # None => Subscribed
  BY AskForm DEF Ask, TypeOK
<1>2. UNCHANGED <<inflight, net, posts, started>>
  BY DEF Ask
<1>3. WaiterCovered'
  BY <1>1, <1>2 DEF WaitInv, WaiterCovered
<1> QED
  BY <1>1, <1>2, <1>3 DEF WaitInv, Subscribed

LEMMA SpawnWaits ==
  ASSUME TypeOK, FormInv, WaitInv, NEW c \in Callers, Spawn(c)
  PROVE  WaitInv'
<1> DEFINE k == caller[c].key
<1>1. /\ UNCHANGED <<net, posts, started>>
      /\ \A d \in Callers \ {c} : caller'[d] = caller[d]
      /\ inflight \subseteq inflight'
  BY SpawnForm DEF Spawn
<1>2. CASE caller'[c].at = "idle" /\ waiting' = [waiting EXCEPT ![c] = None]
  <2>1. waiting'[c] = None /\ \A d \in Callers \ {c} : waiting'[d] = waiting[d]
    BY <1>2 DEF TypeOK
  <2>2. WaiterCovered'
    BY <1>1, <2>1 DEF WaitInv, WaiterCovered
  <2> QED
    BY <1>1, <1>2, <2>1, <2>2 DEF WaitInv, Subscribed
<1>3. CASE /\ inflight' = inflight \cup {k} /\ caller'[c].key = k /\ waiting' = waiting
  <2>1. waiting[c] \in {None, k}
    BY SpawnForm DEF WaitInv
  <2>2. WaiterCovered'
    BY <1>1, <1>3, <2>1 DEF WaitInv, WaiterCovered
  <2> QED
    BY <1>1, <1>3, <2>1, <2>2 DEF WaitInv, Subscribed
<1> QED
  BY <1>2, <1>3, SpawnForm

LEMMA ForwardWaits ==
  ASSUME TypeOK, FormInv, WaitInv, NEW c \in Callers, Send(c) \/ Forward(c)
  PROVE  WaitInv'
<1>1. UNCHANGED <<net, inflight, started>>
  BY DEF Send, Forward
<1>2. /\ waiting' = waiting
      /\ \A d \in Callers \ {c} : caller'[d] = caller[d]
      /\ caller[c].at \in {"send", "forward"}
      /\ caller'[c].at # "idle" => caller'[c].key = caller[c].key
  BY SendForm, ForwardForm DEF Send
<1>3. \A j \in DOMAIN posts : \E i \in DOMAIN posts' : posts'[i] = posts[j]
  <2>1. CASE Send(c)
    BY <2>1 DEF Send
  <2>2. CASE Forward(c)
    <3>1. PICK m \in Message : m = Said(c)
      BY <2>2, ForwardForm
    <3>2. Post(m)
      BY <2>2, <3>1 DEF Forward, Said
    <3> QED
      BY <3>2, PostWhere
  <2> QED
    BY <2>1, <2>2
<1>4. WaiterCovered'
  BY <1>1, <1>2, <1>3 DEF WaitInv, WaiterCovered
<1> QED
  BY <1>1, <1>2, <1>4 DEF WaitInv, Subscribed

LEMMA NetWaits ==
  ASSUME TypeOK, FormInv, WaitInv, NetThread
  PROVE  WaitInv'
<1>1. UNCHANGED <<caller, waiting, started>>
  BY DEF NetThread, TakeJob, RunJob, Remove, Describe, Tell
<1>2. CASE TakeJob \/ RunJob
  <2>1. UNCHANGED <<inflight, posts>> /\ net.at \notin {"gone", "tell"}
    BY <1>2 DEF TakeJob, RunJob
  <2> QED
    BY <1>1, <2>1 DEF WaitInv, WaiterCovered, Subscribed
<1>3. CASE Remove
  <2>1. UNCHANGED posts /\ inflight' = inflight \ {net.key} /\ net.at = "ran"
    BY <1>3 DEF Remove
  <2>2. net'.at = "gone" /\ net'.key = net.key
    BY <1>3 DEF Remove, FormInv
  <2> QED
    BY <1>1, <2>1, <2>2 DEF WaitInv, WaiterCovered, Subscribed
<1>4. CASE Describe
  <2>1. UNCHANGED <<inflight, posts>> /\ net'.at = "tell" /\ net'.key = net.key
    BY <1>4 DEF Describe, FormInv
  <2> QED
    BY <1>1, <2>1 DEF WaitInv, WaiterCovered, Subscribed
<1>5. CASE Tell
  <2>1. UNCHANGED inflight /\ net.at = "tell" /\ Post(Telling)
    BY <1>5 DEF Tell, Telling
  <2>2. PICK m \in Message : m = Telling
    BY <2>1, MessageTypes
  <2>3. m.phase = "finished" /\ m.key = net.key
    BY <2>1, <2>2 DEF FormInv
  <2>4. /\ \A i \in DOMAIN posts : i \in DOMAIN posts' /\ posts'[i] = posts[i]
        /\ Subscribed => \E i \in DOMAIN posts' : posts'[i] = m
    BY <2>1, <2>2, PostWhere
  <2>5. ASSUME NEW c \in Callers, waiting[c] # None, caller[c].at \in {"idle", "send", "forward"}
        PROVE  \/ waiting[c] \in inflight
               \/ \E i \in DOMAIN posts' : posts'[i].phase = "finished" /\ posts'[i].key = waiting[c]
    <3>1. Subscribed
      BY <2>5 DEF WaitInv
    <3>2. \/ waiting[c] \in inflight
          \/ net.key = waiting[c]
          \/ \E i \in DOMAIN posts : posts[i].phase = "finished" /\ posts[i].key = waiting[c]
      BY <2>5 DEF WaitInv, WaiterCovered
    <3> QED
      BY <2>3, <2>4, <3>1, <3>2
  <2>6. WaiterCovered'
    BY <1>1, <2>1, <2>5 DEF WaiterCovered
  <2> QED
    BY <1>1, <2>6 DEF WaitInv, Subscribed
<1> QED
  BY <1>2, <1>3, <1>4, <1>5 DEF NetThread

LEMMA ScreenWaits ==
  ASSUME TypeOK, FormInv, WaitInv, HandlePost \/ Start \/ \E c \in Callers : GiveUp(c)
  PROVE  WaitInv'
<1>1. UNCHANGED <<inflight, net, caller>>
  BY DEF HandlePost, Start, GiveUp
<1>2. CASE HandlePost
  <2>1. UNCHANGED started /\ posts # <<>> /\ posts' = Tail(posts)
    BY <1>2 DEF HandlePost
  <2>2. PICK m \in Message : m = Head(posts)
    BY <2>1, HeardWhere
  <2>3. \A j \in DOMAIN posts : posts[j] = m \/ \E i \in DOMAIN posts' : posts'[i] = posts[j]
    BY <2>1, <2>2, HeardWhere
  <2>4. /\ \A c \in Callers : waiting'[c] \in {None, waiting[c]}
        /\ m.phase = "finished" => \A c \in Callers : waiting[c] = m.key => waiting'[c] = None
    BY <1>2, <2>2 DEF HandlePost
  <2>5. ASSUME NEW c \in Callers, waiting'[c] # None, caller[c].at \in {"idle", "send", "forward"}
        PROVE  \/ waiting[c] \in inflight
               \/ net.at \in {"gone", "tell"} /\ net.key = waiting[c]
               \/ \E i \in DOMAIN posts' : posts'[i].phase = "finished" /\ posts'[i].key = waiting[c]
    <3>1. waiting'[c] = waiting[c] /\ waiting[c] # None /\ ~(m.phase = "finished" /\ m.key = waiting[c])
      BY <2>4, <2>5
    <3>2. \/ waiting[c] \in inflight
          \/ net.at \in {"gone", "tell"} /\ net.key = waiting[c]
          \/ \E j \in DOMAIN posts : posts[j].phase = "finished" /\ posts[j].key = waiting[c]
      BY <2>5, <3>1 DEF WaitInv, WaiterCovered
    <3> QED
      BY <2>3, <3>1, <3>2
  <2>6. WaiterCovered'
    BY <1>1, <2>4, <2>5 DEF WaiterCovered
  <2> QED
    BY <1>1, <2>1, <2>4, <2>6 DEF WaitInv, Subscribed
<1>3. CASE Start
  <2>1. UNCHANGED <<posts, waiting>> /\ Subscribed'
    BY <1>3 DEF Start, Subscribed, FormInv
  <2> QED
    BY <1>1, <2>1 DEF WaitInv, WaiterCovered
<1>4. ASSUME NEW c \in Callers, GiveUp(c)
      PROVE  WaitInv'
  <2>1. /\ UNCHANGED <<posts, started>>
        /\ \A d \in Callers : waiting'[d] \in {None, waiting[d]}
    BY <1>4 DEF GiveUp, TypeOK
  <2> QED
    BY <1>1, <2>1 DEF WaitInv, WaiterCovered, Subscribed
<1> QED
  BY <1>2, <1>3, <1>4

-----------------------------------------------------------------------------
(* The invariant, and what it says.                                        *)

LEMMA JobsStart ==
  ASSUME MaxJobs \in Nat, JobsInit
  PROVE  JobsInv
<1>1. NoMsg \in Seq(Message)
  BY DEF NoMsg
<1>2. TypeOK /\ FormInv
  BY <1>1 DEF JobsInit, TypeOK, FormInv, Queueer, Snapshot, Holds
<1>3. TableInv
  BY DEF JobsInit, TableInv, Sends, Lies, RunsNow
<1>4. SnapshotsInv /\ LatestInv
  BY DEF JobsInit, SnapshotsInv, LatestInv, Current, KindsOf, Holds
<1>5. WaitInv
  BY DEF JobsInit, WaitInv, WaiterCovered
<1> QED
  BY <1>2, <1>3, <1>4, <1>5 DEF JobsInv

LEMMA JobsStep ==
  ASSUME MaxJobs \in Nat, JobsInv, [JobsNext]_jobsVars
  PROVE  JobsInv'
<1> USE DEF JobsInv
<1>1. ASSUME NEW c \in Callers, NEW k \in Keys, NEW waits \in BOOLEAN, Ask(c, k, waits)
      PROVE  JobsInv'
  BY <1>1, AskForm, OtherTable, OtherSnapshots, AskWaits
<1>2. ASSUME NEW c \in Callers, Spawn(c)
      PROVE  JobsInv'
  BY <1>2, SpawnForm, SpawnTable, SpawnSnapshots, SpawnWaits
<1>3. ASSUME NEW c \in Callers, Send(c)
      PROVE  JobsInv'
  BY <1>3, SendForm, SendTable, ForwardSnapshots, ForwardWaits
<1>4. ASSUME NEW c \in Callers, Forward(c)
      PROVE  JobsInv'
  BY <1>4, ForwardForm, OtherTable, ForwardSnapshots, ForwardWaits
<1>5. CASE NetThread
  <2>1. TableInv'
    BY <1>5, TakeTable, RemoveTable, OtherTable DEF NetThread
  <2> QED
    BY <1>5, <2>1, NetThreadForm, NetSnapshots, NetWaits
<1>6. CASE HandlePost \/ Start
  BY <1>6, ScreenForm, OtherTable, ScreenSnapshots, ScreenWaits
<1>7. ASSUME NEW c \in Callers, GiveUp(c)
      PROVE  JobsInv'
  BY <1>7, ScreenForm, OtherTable, OtherSnapshots, ScreenWaits
<1>8. CASE UNCHANGED jobsVars
  <2>1. TypeOK' /\ FormInv' /\ WaitInv'
    BY <1>8 DEF jobsVars, TypeOK, FormInv, Holds, Telling, WaitInv, WaiterCovered, Subscribed
  <2> QED
    BY <1>8, <2>1, OtherTable, OtherSnapshots
<1> QED
  BY <1>1, <1>2, <1>3, <1>4, <1>5, <1>6, <1>7, <1>8 DEF JobsNext, Queueing

LEMMA JobsSay ==
  ASSUME JobsInv
  PROVE  JobsExact
<1>1. TypeOK /\ TableExact /\ WaiterCovered
  BY TableCounts DEF JobsInv, WaitInv
<1>2. ASSUME AtRest, started = "yes"
      PROVE  shown.kinds = KindsOf(inflight)
  <2>1. /\ posts = <<>> /\ net.at \notin {"gone", "tell"}
        /\ \A c \in Callers : ~Holds(c)
    BY <1>2 DEF AtRest, Holds
  <2>2. shown.gen = gen
    BY <1>2, <2>1 DEF JobsInv, LatestInv
  <2> QED
    BY <2>2 DEF JobsInv, SnapshotsInv, Current
<1>3. BusyTruth
  BY <1>2 DEF BusyTruth
<1> QED
  BY <1>1, <1>3 DEF JobsExact

\* However the I/O threads that queue, the net thread and the main thread
\* interleave, and for any number of each: the table of jobs (net.rs, spawn
\* and remove_inflight) is exact, the spinner shows the jobs there are once
\* every message is heard (MailState.kt, applyBusy), and no waiter is left
\* behind (awaitFinished).
THEOREM JobsAreExact ==
  ASSUME MaxJobs \in Nat
  PROVE  JobsSpec => []JobsExact
<1>1. JobsInit => JobsInv
  BY JobsStart
<1>2. JobsInv /\ [JobsNext]_jobsVars => JobsInv'
  BY JobsStep
<1>3. JobsInv => JobsExact
  BY JobsSay
<1> QED
  BY <1>1, <1>2, <1>3, PTL DEF JobsSpec

-----------------------------------------------------------------------------
(* The push monitor.  The wake lock is the union of what the tasks say, and *)
(* an open session is behind only until its first check, or by a missed     *)
(* one.                                                                     *)

Places == Over \cup Waiting \cup Connected \cup {"start", "connect", "failed", "logout"}
Tasks == [at : Places, held : BOOLEAN, leave : BOOLEAN, unseen : BOOLEAN,
          diff : SUBSET {"keep", "net"}, missed : BOOLEAN,
          end : {"none", "start", "over", "changed"}]
Checked == Connected \ {"check"}

TasksInv ==
  /\ task \in [Accounts -> Tasks]
  /\ mail \in [Accounts -> {"none", "before", "new", "said"}]
  /\ \A a \in Accounts : task[a].at = "logout" => task[a].end \in {"start", "over"}
LockInv ==
  /\ \A a \in Accounts : task[a].held <=> task[a].at \notin Released
  /\ told = (Held(task) # {})
SessionInv ==
  \A a \in Accounts : task[a].at \in Checked => mail[a] # "before" \/ task[a].missed
PushInv == TasksInv /\ LockInv /\ SessionInv

\* A step of one task, and what becomes of its mail.
LEMMA TaskKeeps ==
  ASSUME PushInv, NEW a \in Accounts, NEW at \in Places, NEW fields \in Tasks,
         Step(a, at, fields),
         at = "logout" => fields.end \in {"start", "over"},
         mail' \in [Accounts -> {"none", "before", "new", "said"}],
         \A b \in Accounts \ {a} : mail'[b] = mail[b],
         at \in Checked => mail'[a] # "before" \/ fields.missed
  PROVE  PushInv'
<1>1. PICK x \in BOOLEAN : x = (at \notin Released)
  OBVIOUS
<1>2. PICK t \in Tasks : t = [fields EXCEPT !.at = at, !.held = x]
  BY <1>1 DEF Tasks
<1>3. task' = [task EXCEPT ![a] = t] /\ told' = (Held(task') # {})
  BY <1>1, <1>2 DEF Step, AnyBusy
<1>4. t.at = at /\ t.held = x /\ t.end = fields.end /\ t.missed = fields.missed
  BY <1>2 DEF Tasks
<1>5. task'[a] = t /\ \A b \in Accounts \ {a} : task'[b] = task[b]
  BY <1>3 DEF PushInv, TasksInv
<1>6. TasksInv'
  BY <1>3, <1>4, <1>5 DEF PushInv, TasksInv
<1>7. LockInv'
  BY <1>1, <1>3, <1>4, <1>5 DEF PushInv, LockInv
<1>8. SessionInv'
  BY <1>3, <1>4, <1>5 DEF PushInv, SessionInv
<1> QED
  BY <1>6, <1>7, <1>8 DEF PushInv

LEMMA TasksKeep ==
  ASSUME PushInv, NEW a \in Accounts,
         Work(a) \/ BreakOff(a) \/ SkipKeepalive(a)
  PROVE  PushInv'
<1> DEFINE t == task[a]
           Keep == mail' = mail
<1>1. /\ t \in Tasks /\ mail \in [Accounts -> {"none", "before", "new", "said"}]
      /\ t.at = "logout" => t.end \in {"start", "over"}
      /\ t.at \in Checked => mail[a] # "before" \/ t.missed
  BY DEF PushInv, TasksInv, SessionInv
<1> DEFINE Same(u) == u \in Tasks /\ u.missed = t.missed
<1>2. /\ Same(t) /\ Same(Rebased(t)) /\ Same(Heard(t))
      /\ \A e \in {"none", "start", "over", "changed"} :
           /\ Same([t EXCEPT !.end = e]) /\ [t EXCEPT !.end = e].end = e
           /\ Same([Rebased(t) EXCEPT !.end = e]) /\ [Rebased(t) EXCEPT !.end = e].end = e
           /\ Same([[t EXCEPT !.end = e] EXCEPT !.diff = {}])
           /\ Same(Heard([t EXCEPT !.end = e]))
      /\ [t EXCEPT !.end = "none", !.missed = FALSE, !.diff = {}] \in Tasks
  BY <1>1 DEF Tasks, Rebased, Heard
<1>3. ASSUME NEW at \in Places, NEW fields, Same(fields), Step(a, at, fields), Keep,
             at = "logout" => fields.end \in {"start", "over"},
             at \in Checked => t.at \in Checked
      PROVE  PushInv'
  BY <1>1, <1>3, TaskKeeps
<1>4. ASSUME NEW at \in Places, NEW fields \in Tasks, Step(a, at, fields),
             mail' = [mail EXCEPT ![a] = IF @ = "none" THEN "none" ELSE "before"],
             at \in {"start", "over", "failed"}
      PROVE  PushInv'
  BY <1>1, <1>4, TaskKeeps DEF Checked, Connected
<1> HIDE DEF t, Same
<1>5. CASE Top(a)
  BY <1>2, <1>3, <1>5 DEF Top, Places, Over, Waiting, Checked, Connected, t
<1>6. CASE WakeUp(a)
  BY <1>1, <1>2, <1>3, <1>6 DEF WakeUp, Goto, Places, Over, Waiting, Checked, Connected, t
<1>7. CASE serve(a) \/ record_failed_run(a)
  BY <1>1, <1>2, <1>3, <1>7
     DEF serve, record_failed_run, Goto, Places, Over, Waiting, Checked, Connected, t
<1>8. CASE Check(a)
  <2>1. CASE ReadInbox(a) /\ Step(a, "read", [t EXCEPT !.missed = FALSE])
    <3>1. [t EXCEPT !.missed = FALSE] \in Tasks
      BY <1>1 DEF Tasks
    <3> QED
      BY <1>1, <2>1, <3>1, TaskKeeps DEF ReadInbox, Places, Connected
  <2>2. CASE Missed(a)
    <3>1. PICK x \in BOOLEAN : x = (mail[a] = "before")
      OBVIOUS
    <3>2. PICK u : u = [t EXCEPT !.missed = x]
      OBVIOUS
    <3>3. u \in Tasks /\ u.missed = x
      BY <1>1, <3>2 DEF Tasks
    <3>4. Step(a, "top", u) /\ mail' = mail
      BY <2>2, <3>1, <3>2 DEF Missed, t
    <3> QED
      BY <1>1, <3>1, <3>3, <3>4, TaskKeeps DEF Places, Connected
  <2> QED
    BY <1>8, <2>1, <2>2 DEF Check, t
<1>9. CASE EndCheck(a) \/ Accepted(a) \/ Done(a)
  BY <1>1, <1>2, <1>3, <1>9 DEF EndCheck, Accepted, Done, Goto, Places, Checked, Connected, t
<1>10. CASE Listen(a)
  BY <1>2, <1>3, <1>10 DEF Listen, Places, Checked, Connected, t
<1>11. CASE Wake(a)
  BY <1>1, <1>2, <1>3, <1>11 DEF Wake, Woken, Places, Checked, Connected, t
<1>12. CASE SkipKeepalive(a)
  BY <1>2, <1>3, <1>12 DEF SkipKeepalive, Places, Checked, Connected, t
<1>13. CASE Announce(a)
  <2>1. /\ Step(a, "exit", [t EXCEPT !.end = "changed"])
        /\ mail' = [mail EXCEPT ![a] = "said"]
    BY <1>13 DEF Announce, t
  <2>2. [t EXCEPT !.end = "changed"] \in Tasks
    BY <1>2 DEF Same
  <2> QED
    BY <1>1, <2>1, <2>2, TaskKeeps DEF Places, Connected
<1>14. CASE After(a)
  BY <1>2, <1>3, <1>14 DEF After, Places, Checked, Connected, t
<1>15. CASE Logout(a)
  BY <1>1, <1>2, <1>4, <1>15 DEF Logout, Closed, Unread, Places, Over, t
<1>16. CASE BreakOff(a)
  BY <1>2, <1>4, <1>16 DEF BreakOff, Closed, Unread, Places, t
<1> QED
  BY <1>5, <1>6, <1>7, <1>8, <1>9, <1>10, <1>11, <1>12, <1>13, <1>14, <1>15, <1>16
     DEF Work, Busily

\* The supervisor, the host and the server.
LEMMA WorldKeeps ==
  ASSUME PushInv,
         \/ Supervise \/ GraceOver \/ Host
         \/ \E a \in Accounts : SaidElsewhere(a)
         \/ \E a \in Mailed : MailArrives(a)
         \/ UNCHANGED pushVars
  PROVE  PushInv'
<1> USE DEF PushInv
<1>1. NoTask \in Tasks /\ NoTask.at = "none" /\ ~NoTask.held /\ Over \subseteq Released
  BY DEF NoTask, Tasks, Places, Over, Released
<1>2. CASE Supervise
  <2>1. CASE stop
    BY <1>2, <2>1 DEF Supervise, TasksInv, LockInv, SessionInv
  <2>2. CASE ~stop
    <3> DEFINE New(a) ==
                 LET t == Finished(task[a]) IN
                 IF t.at = "none"
                   THEN IF a \in wanted THEN [NoTask EXCEPT !.at = "start", !.held = TRUE] ELSE t
                   ELSE [t EXCEPT !.leave = a \notin wanted]
    <3>1. /\ task' = [a \in Accounts |-> New(a)]
          /\ told' = (Held(task') # {}) /\ UNCHANGED mail
      BY <1>2, <2>2 DEF Supervise, AnyBusy
    <3>2. ASSUME NEW a \in Accounts
          PROVE  /\ New(a) \in Tasks /\ (New(a).held <=> New(a).at \notin Released)
                 /\ \/ New(a).at \in {"start", "none"}
                    \/ /\ New(a).at = task[a].at /\ New(a).end = task[a].end
                       /\ New(a).missed = task[a].missed
      <4>1. PICK t : t = Finished(task[a])
        OBVIOUS
      <4>2. /\ t \in Tasks /\ (t.held <=> t.at \notin Released)
            /\ t.at = "none" \/ t = task[a]
        BY <1>1, <4>1 DEF Finished, TasksInv, LockInv, Released, Over
      <4>3. PICK x \in BOOLEAN : x = (a \notin wanted)
        OBVIOUS
      <4>4. PICK u \in Tasks : u = [NoTask EXCEPT !.at = "start", !.held = TRUE]
        BY <1>1 DEF Tasks, Places
      <4>5. u.at = "start" /\ u.held /\ "start" \notin Released
        BY <1>1, <4>4 DEF Tasks, Released, Waiting, Over
      <4>6. PICK v \in Tasks : v = [t EXCEPT !.leave = x]
        BY <4>2 DEF Tasks
      <4>7. v.at = t.at /\ v.held = t.held /\ v.end = t.end /\ v.missed = t.missed
        BY <4>2, <4>6 DEF Tasks
      <4>8. New(a) = IF t.at = "none" THEN IF x THEN t ELSE u ELSE v
        BY <4>1, <4>3, <4>4, <4>6
      <4> HIDE DEF New
      <4> QED
        BY <4>2, <4>5, <4>7, <4>8
    <3> HIDE DEF New
    <3>3. TasksInv'
      BY <3>1, <3>2 DEF TasksInv
    <3>4. LockInv'
      BY <3>1, <3>2 DEF LockInv
    <3>5. SessionInv'
      BY <3>1, <3>2 DEF SessionInv, Checked, Connected
    <3> QED
      BY <3>3, <3>4, <3>5
  <2> QED
    BY <2>1, <2>2
<1>3. CASE GraceOver
  <2>1. /\ task' \in [Accounts -> Tasks] /\ \A a \in Accounts : task'[a] = NoTask
        /\ told' = FALSE
        /\ mail' \in [Accounts -> {"none", "before", "new", "said"}]
    BY <1>1, <1>3 DEF GraceOver, TasksInv
  <2>2. Held(task') = {}
    BY <1>1, <2>1 DEF Held
  <2> QED
    BY <1>1, <2>1, <2>2 DEF TasksInv, LockInv, SessionInv, Released, Over, Checked, Connected
<1>4. CASE Host
  <2>1. CASE \E as \in SUBSET Accounts : Replan(as)
    BY <2>1 DEF Replan, TasksInv, LockInv, SessionInv
  <2>2. ASSUME NEW kind \in {"keep", "net"}, Signalled(kind)
        PROVE  PushInv'
    <3> DEFINE New(a) ==
                 IF task[a].at \in Over THEN task[a]
                 ELSE [task[a] EXCEPT !.unseen = TRUE,
                         !.diff = IF task[a].at \in Compares THEN @ \cup {kind} ELSE {}]
    <3>1. task' = [a \in Accounts |-> New(a)] /\ UNCHANGED <<told, mail>>
      BY <2>2 DEF Signalled
    <3>2. ASSUME NEW a \in Accounts
          PROVE  /\ New(a) \in Tasks /\ New(a).at = task[a].at
                 /\ New(a).held = task[a].held /\ New(a).end = task[a].end
                 /\ New(a).missed = task[a].missed
      <4>1. task[a] \in Tasks
        BY DEF TasksInv
      <4> QED
        BY <4>1 DEF Tasks
    <3> HIDE DEF New
    <3>3. Held(task') = Held(task)
      BY <3>1, <3>2 DEF Held
    <3> QED
      BY <3>1, <3>2, <3>3 DEF TasksInv, LockInv, SessionInv
  <2> QED
    BY <1>4, <2>1, <2>2 DEF Host, keepalive, stop_monitor, network_changed
<1>5. CASE (\E a \in Accounts : SaidElsewhere(a)) \/ \E a \in Mailed : MailArrives(a)
  <2>1. /\ UNCHANGED <<task, told>>
        /\ mail' \in [Accounts -> {"none", "before", "new", "said"}]
        /\ \A a \in Accounts : mail'[a] = "before" =>
             mail[a] = "before" \/ task[a].at \notin Connected
    BY <1>5 DEF SaidElsewhere, MailArrives, TasksInv
  <2> QED
    BY <2>1 DEF TasksInv, LockInv, SessionInv, Checked
<1>6. CASE UNCHANGED pushVars
  BY <1>6 DEF pushVars, TasksInv, LockInv, SessionInv
<1> QED
  BY <1>2, <1>3, <1>4, <1>5, <1>6
\* For any accounts, whatever the network, the settings, the server and the
\* end of the monitor do to the tasks in between: the wake lock is held while,
\* and only while, a task works outside IDLE, and a session that listens has
\* caught up unless its last check was skipped or erred (push.rs, Busy::set and
\* serve_session).
THEOREM PushIsHonest == PushSpec => []PushHonest
<1>1. PushInit => PushInv
  <2> SUFFICES ASSUME PushInit PROVE PushInv
    OBVIOUS
  <2>1. NoTask \in Tasks /\ NoTask.at = "none" /\ ~NoTask.held /\ "none" \in Released
    BY DEF NoTask, Tasks, Places, Over, Released
  <2>2. task \in [Accounts -> Tasks] /\ \A a \in Accounts : task[a] = NoTask
    BY <2>1 DEF PushInit
  <2>3. Held(task) = {}
    BY <2>1, <2>2 DEF Held
  <2> QED
    BY <2>1, <2>2, <2>3 DEF PushInit, PushInv, TasksInv, LockInv, SessionInv, Checked, Connected
<1>2. PushInv /\ [PushNext]_pushVars => PushInv'
  BY TasksKeep, WorldKeeps DEF PushNext
<1>3. PushInv => PushHonest
  BY DEF PushInv, LockInv, SessionInv, PushHonest, LockForWork, CaughtUp, Held, Checked,
         Connected
<1> QED
  BY <1>1, <1>2, <1>3, PTL DEF PushSpec

-----------------------------------------------------------------------------
(* Sessions: a lease carries the generation it was checked out under, so   *)
(* after an eviction nothing the job holds counts as current; and a job of *)
(* the current generation has read the keyring after the last completed    *)
(* edit.                                                                   *)

USE BoundsOK

LEMMA PoolInit == Init => PoolInv
<1> SUFFICES ASSUME Init PROVE PoolInv
  OBVIOUS
<1>1. halfway \in BOOLEAN /\ ~halfway
  BY DEF Init
<1>2. PoolTypeOK
  BY <1>1 DEF Init, PoolTypeOK
<1> QED
  BY <1>1, <1>2 DEF Init, PoolInv, PasswordCurrent, CurrentJob

\* The first statement of an edit or a removal: no claim until its end.
LEMMA BeginKeeps ==
  ASSUME PoolInv, SaveSecret \/ DeleteSecrets
  PROVE  PoolInv'
BY DEF PoolInv, PoolTypeOK, PasswordCurrent, CurrentJob, Quiet, SaveSecret,
       DeleteSecrets, NewVersion, jobVars

LEMMA UpdateKeeps ==
  ASSUME PoolInv, UpdateConnection \/ UpdateFails \/ DeleteAccount
  PROVE  PoolInv'
<1>1. halfway \in BOOLEAN /\ ui \in {"update", "delete"} /\ row # 0
  BY DEF PoolInv, PoolTypeOK, UpdateConnection, UpdateFails, DeleteAccount
<1>2. halfway' \in BOOLEAN
  BY <1>1 DEF UpdateConnection, UpdateFails, DeleteAccount
<1>3. ui' = "idle" => halfway'
  BY <1>1 DEF UpdateConnection, UpdateFails, DeleteAccount
<1>4. PoolTypeOK'
  BY <1>2 DEF PoolInv, PoolTypeOK, UpdateConnection, UpdateFails, DeleteAccount, jobVars
<1>5. (row' = 0 => ui' = "evict") /\ ui' \in {"idle", "evict"}
  BY <1>1 DEF PoolInv, PoolTypeOK, UpdateConnection, UpdateFails, DeleteAccount
<1>6. leaseGen' <= generation' /\ (job' = "login" => secret' # 0)
  BY DEF PoolInv, UpdateConnection, UpdateFails, DeleteAccount, jobVars
<1> QED
  BY <1>3, <1>4, <1>5, <1>6 DEF PoolInv, PasswordCurrent, Quiet

\* An eviction leaves the job with a generation of the past.
LEMMA EvictKeeps ==
  ASSUME PoolInv, EvictSession \/ EvictSuspect
  PROVE  PoolInv'
<1>1. leaseGen' # generation'
  BY DEF PoolInv, PoolTypeOK, EvictSession, EvictSuspect, evict_session, jobVars
<1>h. halfway' \in BOOLEAN /\ ~halfway'
  BY DEF EvictSession, EvictSuspect, evict_session
<1>2. PoolTypeOK' /\ leaseGen' <= generation' /\ (job' = "login" => secret' # 0)
  BY <1>h DEF PoolInv, PoolTypeOK, EvictSession, EvictSuspect, evict_session, jobVars, uiVars
<1>3. (row = 0 => ui \in {"idle", "evict"} /\ (ui = "idle" => ~halfway))'
  BY <1>h DEF PoolInv, EvictSession, EvictSuspect, evict_session, jobVars, uiVars
<1>4. PasswordCurrent'
  BY DEF PasswordCurrent, EvictSession, EvictSuspect, evict_session
<1> QED
  BY <1>1, <1>2, <1>3, <1>4 DEF PoolInv, CurrentJob

LEMMA DropAllKeeps ==
  ASSUME PoolInv, DropAllSessions
  PROVE  PoolInv'
BY DEF PoolInv, PoolTypeOK, PasswordCurrent, CurrentJob, Quiet, DropAllSessions,
       uiVars, jobVars

\* A check-out takes a session that is current, or none.
LEMMA CheckoutKeeps ==
  ASSUME PoolInv, JobAccount \/ CheckoutSession \/ Probe
  PROVE  PoolInv'
BY DEF PoolInv, PoolTypeOK, PasswordCurrent, CurrentJob, Quiet, JobAccount,
       CheckoutSession, Probe, uiVars

LEMMA LoadKeeps ==
  ASSUME PoolInv, LoadSecrets
  PROVE  PoolInv'
BY DEF PoolInv, PoolTypeOK, PasswordCurrent, CurrentJob, Quiet, LoadSecrets, uiVars

LEMMA ConnectKeeps ==
  ASSUME PoolInv, Connect
  PROVE  PoolInv'
<1> DEFINE s == [row |-> acc, secret |-> secret, connected |-> TRUE]
<1>1. job = "login" /\ secret # 0 /\ acc \in Nat /\ secret \in Nat
  BY DEF PoolInv, PoolTypeOK, Connect
<1>2. s \in Session /\ s.secret = secret
  BY <1>1 DEF Session
<1>3. lease' \subseteq {s} /\ job' \in {"leased", "idle"}
  BY DEF Connect
<1> HIDE DEF s
<1> QED
  BY <1>1, <1>2, <1>3 DEF PoolInv, PoolTypeOK, PasswordCurrent, CurrentJob, Quiet,
     Connect, uiVars

LEMMA BreakKeeps ==
  ASSUME PoolInv, Break
  PROVE  PoolInv'
<1>1. \A t \in lease' : \E s \in lease :
        t \in Session /\ t.secret = s.secret
  BY DEF PoolInv, PoolTypeOK, Break, Session
<1>2. lease' \subseteq Session
  BY <1>1
<1> QED
  BY <1>1, <1>2 DEF PoolInv, PoolTypeOK, PasswordCurrent, CurrentJob, Quiet, Break, uiVars

\* What is checked in under the current generation is current.
LEMMA CheckinKeeps ==
  ASSUME PoolInv, Checkin \/ DropLease
  PROVE  PoolInv'
BY DEF PoolInv, PoolTypeOK, PasswordCurrent, CurrentJob, Quiet, Checkin, DropLease, uiVars

LEMMA PoolStep == PoolInv /\ [Next]_vars => PoolInv'
<1> SUFFICES ASSUME PoolInv, [Next]_vars PROVE PoolInv'
  OBVIOUS
<1>1. CASE Ui
  BY <1>1, BeginKeeps, UpdateKeeps, EvictKeeps, DropAllKeeps DEF Ui
<1>2. CASE Net
  BY <1>2, CheckoutKeeps, LoadKeeps, ConnectKeeps, BreakKeeps, CheckinKeeps, EvictKeeps
  DEF Net
<1>3. CASE UNCHANGED vars
  BY <1>3 DEF vars, uiVars, jobVars, PoolInv, PoolTypeOK, PasswordCurrent, CurrentJob, Quiet
<1> QED
  BY <1>1, <1>2, <1>3 DEF Next

(* Every session and password a job of the current generation holds is the  *)
(* one in the keyring (checkout_session, connect_fresh, evict_session).     *)
THEOREM LeasesCurrent == Spec => []PoolInv
BY PoolInit, PoolStep, PTL DEF Spec

(* No idle session is logged in with a password that an edit replaced       *)
(* (save_edit, evict_session, SessionLease::checkin).                       *)
THEOREM NoOldPassword == Spec => []PasswordCurrent
<1>1. PoolInv => PasswordCurrent
  BY DEF PoolInv
<1> QED
  BY <1>1, LeasesCurrent, PTL

(* No session of a removed account stays in the pool (delete_account).      *)
THEOREM NoSessionOfRemoved == Spec => []RemovedStays
<1>1. ASSUME PoolInv PROVE RemovedStays
  <2> SUFFICES ASSUME ui = "idle", row = 0, vault = 0 PROVE idle = {}
    BY DEF RemovedStays
  <2>1. \A s \in idle : s.secret = 0
    BY <1>1 DEF PoolInv, PasswordCurrent, Quiet
  <2>2. \A s \in idle : s.secret # 0
    BY <1>1 DEF PoolInv, PoolTypeOK, Session
  <2> QED
    BY <2>1, <2>2
<1> QED
  BY <1>1, LeasesCurrent, PTL

-----------------------------------------------------------------------------
(* The desktop bridge: the inductive invariant.                            *)

\* A job asks for no other folder than the one it started on, or for one of the
\* account it asks for.
Asks(refresh, from) ==
  refresh # NoRefresh =>
    refresh.folder = from.folder \/ AccountOf[refresh.folder] = refresh.account

DeskJob ==
  {j \in [kind : DeskKinds, started : Selection, wants : Selection \cup {NoRefresh},
          lists : BOOLEAN] : Asks(j.wants, j.started)}
DeskFeeds == [account : DOMAIN Inbox, folder : Folders, messages : Nat, counts : Nat]
DeskClosure ==
  [kind : DeskKinds, started : Selection, refresh : Selection \cup {NoRefresh},
   epoch : Nat, feeds : DeskFeeds]
DeskWorker ==
  [at : {"idle", "run", "ran", "half", "done"}, job : DeskJob \cup {NoRefresh},
   refresh : Selection \cup {NoRefresh}, epoch : Nat, feeds : DeskFeeds]

DeskChoice == [shown : Selection, otherFolder : BOOLEAN, otherAccount : BOOLEAN]

DeskTyped ==
  /\ local \in Nat /\ epoch \in Nat /\ feed \in DeskFeeds /\ stale \in BOOLEAN /\ busy \in BOOLEAN
  /\ gui \in [at : {"idle", "wrote"}, then : {"none", "patch", "rebuild", "purge"}]
  /\ latch \subseteq DeskKinds
  /\ work \in Seq(DeskJob) /\ closures \in Seq(DeskClosure)
  /\ worker \in DeskWorker /\ (worker.at # "idle" => worker.job \in DeskJob)
  /\ choice \in DeskChoice

\* Feeds built since epoch e was read are of now for as long as nothing was
\* shown since, and the GUI thread is not about to show a change.
Prebuilt(e, feeds, now, changes, rests) ==
  /\ e <= now
  /\ e = now /\ rests => feeds.counts = changes /\ feeds.messages = changes

\* What comes back to the GUI thread.
ReturnOk(c, now, changes, rests) ==
  /\ Asks(c.refresh, c.started)
  /\ c.refresh # NoRefresh => Prebuilt(c.epoch, c.feeds, now, changes, rests)

\* What the network thread is about to send back.
WorkerOk(w, now, changes, rests) ==
  /\ w.at \in {"ran", "half", "done"} => Asks(w.refresh, w.job.started)
  /\ w.at = "half" => w.refresh # NoRefresh /\ w.epoch <= now
  /\ w.at = "done" /\ w.refresh # NoRefresh => Prebuilt(w.epoch, w.feeds, now, changes, rests)

ReturnsOk ==
  /\ WorkerOk(worker, epoch, local, Idle)
  /\ \A i \in DOMAIN closures : ReturnOk(closures[i], epoch, local, Idle)

DeskInv == DeskTyped /\ ReturnsOk /\ ShownNotOlder /\ ChoiceKept /\ LatchExact

-----------------------------------------------------------------------------
(* How many jobs of a kind a sequence has.                                 *)

LEMMA CountedType ==
  ASSUME NEW S, NEW s \in Seq(S), NEW k
  PROVE  /\ IsFiniteSet({i \in DOMAIN s : s[i].kind = k})
         /\ Counted(s, k) \in Nat
         /\ \A i \in DOMAIN s : s[i].kind = k => Counted(s, k) # 0
<1> DEFINE C == {i \in DOMAIN s : s[i].kind = k}
<1>1. DOMAIN s = 1..Len(s) /\ Len(s) \in Int /\ 1 \in Int
  BY LenProperties
<1>2. IsFiniteSet(DOMAIN s)
  BY <1>1, FS_Interval
<1>3. IsFiniteSet(C)
  BY <1>2, FS_Subset
<1>4. Cardinality(C) \in Nat /\ (Cardinality(C) = 0 => C = {})
  BY <1>3, FS_CardinalityType, FS_EmptySet
<1> QED
  BY <1>3, <1>4 DEF Counted

LEMMA CountedEmpty ==
  ASSUME NEW k
  PROVE  Counted(<<>>, k) = 0
<1>1. {i \in DOMAIN <<>> : <<>>[i].kind = k} = {}
  OBVIOUS
<1> QED
  BY <1>1, FS_EmptySet DEF Counted

LEMMA CountedAppend ==
  ASSUME NEW S, NEW s \in Seq(S), NEW e \in S, NEW k
  PROVE  Counted(Append(s, e), k) = Counted(s, k) + (IF e.kind = k THEN 1 ELSE 0)
<1> DEFINE t == Append(s, e)
           C == {i \in DOMAIN s : s[i].kind = k}
           D == {i \in DOMAIN t : t[i].kind = k}
<1>1. /\ t \in Seq(S) /\ Len(t) = Len(s) + 1 /\ t[Len(s) + 1] = e
      /\ \A i \in 1..Len(s) : t[i] = s[i]
  BY AppendProperties
<1>2. Len(s) \in Nat /\ DOMAIN s = 1..Len(s) /\ DOMAIN t = 1..(Len(s) + 1)
  BY <1>1, LenProperties
<1>3. IsFiniteSet(C) /\ Cardinality(C) \in Nat
  BY CountedType DEF Counted
<1>4. Len(s) + 1 \notin C
  BY <1>2
<1> HIDE DEF t
<1>5. CASE e.kind = k
  <2>1. D = C \cup {Len(s) + 1}
    BY <1>1, <1>2, <1>5
  <2>2. Cardinality(D) = Cardinality(C) + 1
    BY <2>1, <1>3, <1>4, FS_AddElement
  <2> QED
    BY <2>2, <1>5 DEF t, Counted
<1>6. CASE e.kind # k
  <2>1. \A i \in D : i # Len(s) + 1 /\ i \in DOMAIN s /\ t[i] = s[i]
    BY <1>1, <1>2, <1>6
  <2>2. \A i \in C : i \in DOMAIN t /\ t[i] = s[i]
    BY <1>1, <1>2
  <2>3. D \subseteq C /\ C \subseteq D
    BY <2>1, <2>2, Zenon
  <2>4. D = C
    BY <2>3, Zenon
  <2>5. Counted(t, k) = Counted(s, k) /\ Counted(s, k) \in Nat
    BY <2>4, <1>3, Zenon DEF Counted
  <2> QED
    BY <2>5, <1>6 DEF t
<1> QED
  BY <1>5, <1>6

LEMMA CountedTail ==
  ASSUME NEW S, NEW s \in Seq(S), s # <<>>, NEW k
  PROVE  Counted(s, k) = Counted(Tail(s), k) + (IF Head(s).kind = k THEN 1 ELSE 0)
<1> DEFINE t == Tail(s)
           C == {i \in DOMAIN s : s[i].kind = k}
           D == {i \in DOMAIN t : t[i].kind = k}
           E == C \ {1}
           f == [i \in D |-> i + 1]
<1>1. /\ t \in Seq(S) /\ Head(s) \in S
      /\ 1 \in DOMAIN s /\ s[1] = Head(s)
      /\ \A i \in DOMAIN t : i + 1 \in DOMAIN s /\ t[i] = s[i + 1] /\ i \in Nat \ {0}
      /\ \A j \in DOMAIN s : j = 1 \/ (j - 1 \in DOMAIN t /\ t[j - 1] = s[j])
  BY TailWhere
<1>2. DOMAIN s \subseteq Nat
  BY LenProperties
<1> HIDE DEF t
<1>3. IsFiniteSet(C) /\ Cardinality(C) \in Nat /\ IsFiniteSet(D) /\ Cardinality(D) \in Nat
  <2>1. IsFiniteSet(C) /\ Cardinality(C) \in Nat
    BY CountedType DEF Counted
  <2>2. t \in Seq(S)
    BY <1>1
  <2>3. IsFiniteSet(D) /\ Cardinality(D) \in Nat
    BY <2>2, CountedType DEF Counted
  <2> QED
    BY <2>1, <2>3
<1>4. f \in Bijection(D, E)
  <2>1. \A i \in D : i + 1 \in E /\ i \in Nat
    BY <1>1
  <2>2. ASSUME NEW j \in E
        PROVE  j - 1 \in D /\ j \in Nat /\ (j - 1) + 1 = j
    <3>1. j \in DOMAIN s /\ s[j].kind = k /\ j # 1 /\ j \in Nat
      BY <1>2
    <3>2. j - 1 \in DOMAIN t /\ t[j - 1] = s[j]
      BY <1>1, <3>1
    <3> QED
      BY <3>1, <3>2
  <2>3. f \in [D -> E] /\ \A i \in D : f[i] = i + 1
    BY <2>1
  <2>4. \A i, j \in D : f[i] = f[j] => i = j
    BY <2>1, <2>3
  <2>5. \A j \in E : \E i \in D : f[i] = j
    BY <2>2, <2>3
  <2> QED
    BY <2>3, <2>4, <2>5 DEF Bijection, Injection, Surjection, IsInjective
<1>5. Cardinality(E) = Cardinality(D)
  BY <1>3, <1>4, FS_Bijection DEF ExistsBijection
<1>6. Cardinality(E) = IF 1 \in C THEN Cardinality(C) - 1 ELSE Cardinality(C)
  BY <1>3, FS_RemoveElement
<1>7. 1 \in C <=> Head(s).kind = k
  BY <1>1
<1> HIDE DEF C, D, E, f
<1>8. Cardinality(C) = Cardinality(D) + (IF Head(s).kind = k THEN 1 ELSE 0)
  BY <1>3, <1>5, <1>6, <1>7
<1> QED
  BY <1>8 DEF C, D, t, Counted

-----------------------------------------------------------------------------
(* The desktop bridge: every step keeps the invariant.                     *)

\* What is shown has not been older since, and no change waits to be shown.
Later(now, changes, rests, now2, changes2, rests2) ==
  now < now2 \/ (now = now2 /\ (rests2 => rests /\ changes = changes2))

LEMMA ReturnLater ==
  ASSUME NEW c \in DeskClosure, NEW now \in Nat, NEW now2 \in Nat, NEW changes, NEW changes2,
         NEW rests \in BOOLEAN, NEW rests2 \in BOOLEAN,
         Later(now, changes, rests, now2, changes2, rests2), ReturnOk(c, now, changes, rests)
  PROVE  ReturnOk(c, now2, changes2, rests2)
BY DEF ReturnOk, Prebuilt, Later, DeskClosure

LEMMA WorkerLater ==
  ASSUME NEW w \in DeskWorker, NEW now \in Nat, NEW now2 \in Nat, NEW changes, NEW changes2,
         NEW rests \in BOOLEAN, NEW rests2 \in BOOLEAN,
         Later(now, changes, rests, now2, changes2, rests2), WorkerOk(w, now, changes, rests)
  PROVE  WorkerOk(w, now2, changes2, rests2)
BY DEF WorkerOk, Prebuilt, Later, DeskWorker

\* What is on its way stays good while the GUI thread works.
LEMMA ReturnsLater ==
  ASSUME DeskInv, DeskTyped', UNCHANGED <<worker, closures>>,
         Later(epoch, local, Idle, epoch', local', Idle')
  PROVE  ReturnsOk'
<1>1. PICK r \in BOOLEAN : r = Idle
  BY DEF Idle
<1>2. PICK r2 \in BOOLEAN : r2 = Idle'
  BY DEF Idle
<1>3. /\ epoch \in Nat /\ epoch' \in Nat /\ worker \in DeskWorker
      /\ \A i \in DOMAIN closures : closures[i] \in DeskClosure
  <2>1. closures \in Seq(DeskClosure)
    BY DEF DeskInv, DeskTyped
  <2> QED
    BY <2>1, LenProperties, ElementOfSeq DEF DeskInv, DeskTyped
<1>4. Later(epoch, local, r, epoch', local', r2)
  BY <1>1, <1>2 DEF Later
<1>5. WorkerOk(worker, epoch, local, r)
  BY <1>1 DEF DeskInv, ReturnsOk
<1>6. \A i \in DOMAIN closures : ReturnOk(closures[i], epoch, local, r)
  BY <1>1 DEF DeskInv, ReturnsOk
<1>7. WorkerOk(worker, epoch', local', r2)
  BY <1>3, <1>4, <1>5, WorkerLater
<1>8. \A i \in DOMAIN closures : ReturnOk(closures[i], epoch', local', r2)
  BY <1>3, <1>4, <1>6, ReturnLater
<1> QED
  BY <1>2, <1>7, <1>8 DEF ReturnsOk

LEMMA DeskStart == DeskInit => DeskInv
<1> SUFFICES ASSUME DeskInit PROVE DeskInv
  OBVIOUS
<1> USE FoldersOK
<1>1. PICK a \in DOMAIN Inbox :
        feed = Build(Sel(a, Inbox[a])) /\ choice = Chosen(Sel(a, Inbox[a]))
  BY DEF DeskInit
<1>2. feed \in DeskFeeds /\ choice \in DeskChoice
  BY <1>1 DEF DeskInit, Build, DeskFeeds, Sel, Chosen, DeskChoice, Selection
<1>3. DeskTyped
  <2>1. worker \in DeskWorker /\ worker.at = "idle"
    BY <1>2 DEF DeskInit, DeskWorker
  <2>2. gui \in [at : {"idle", "wrote"}, then : {"none", "patch", "rebuild", "purge"}]
    BY DEF DeskInit, GuiAtRest
  <2>3. work \in Seq(DeskJob) /\ closures \in Seq(DeskClosure)
    BY DEF DeskInit
  <2>4. /\ local \in Nat /\ epoch \in Nat /\ stale \in BOOLEAN /\ busy \in BOOLEAN
        /\ latch \subseteq DeskKinds
    BY DEF DeskInit
  <2> QED
    BY <1>2, <2>1, <2>2, <2>3, <2>4 DEF DeskTyped
<1>4. ReturnsOk
  BY DEF DeskInit, ReturnsOk, WorkerOk
<1>5. ShownNotOlder /\ ChoiceKept
  BY <1>1 DEF DeskInit, ShownNotOlder, ChoiceKept, Build, Sel, Chosen
<1>6. LatchExact
  <2>1. latch = {} /\ busy = FALSE /\ worker.at = "idle" /\ work = <<>> /\ closures = <<>>
    BY DEF DeskInit
  <2>2. \A k \in DeskKinds : OnTheWay(k) = 0
    BY <2>1, CountedEmpty DEF OnTheWay
  <2> QED
    BY <2>1, <2>2 DEF LatchExact
<1> QED
  BY <1>3, <1>4, <1>5, <1>6 DEF DeskInv

LEMMA ShownIs ==
  ASSUME DeskInv
  PROVE  Shown \in Selection /\ Shown.account = feed.account /\ Shown.folder = feed.folder
BY DEF DeskInv, DeskTyped, DeskFeeds, Shown, Sel, Selection

\* A job is latched and queued: the kind was not on its way.
LEMMA SpawnLatches ==
  ASSUME DeskInv, NEW k \in DeskKinds, NEW w \in Selection \cup {NoRefresh}, NEW l \in BOOLEAN,
         Asks(w, Shown), SpawnJob(k, w, l)
  PROVE  /\ work' \in Seq(DeskJob) /\ latch' \subseteq DeskKinds /\ busy' \in BOOLEAN
         /\ LatchExact'
<1> DEFINE j == [kind |-> k, started |-> Shown, wants |-> w, lists |-> l]
<1>1. j \in DeskJob /\ j.kind = k
  BY ShownIs DEF DeskJob
<1>2. work \in Seq(DeskJob) /\ closures \in Seq(DeskClosure)
  BY DEF DeskInv, DeskTyped
<1>3. /\ k \notin latch /\ work' = Append(work, j) /\ latch' = latch \cup {k} /\ busy' = TRUE
      /\ worker' = worker /\ closures' = closures
  BY DEF SpawnJob, Gate
<1> HIDE DEF j
<1>4. work' \in Seq(DeskJob)
  BY <1>1, <1>2, <1>3, AppendWhere
<1>5. latch' \subseteq DeskKinds /\ busy' \in BOOLEAN
  BY <1>3 DEF DeskInv, DeskTyped
<1>6. ASSUME NEW q \in DeskKinds
      PROVE  OnTheWay(q)' = IF q \in latch' THEN 1 ELSE 0
  <2>1. PICK n : n = IF worker.at # "idle" /\ worker.job.kind = q THEN 1 ELSE 0
    OBVIOUS
  <2>2. n \in Nat
    BY <2>1
  <2>3. Counted(work, q) + Counted(closures, q) + n = IF q \in latch THEN 1 ELSE 0
    BY <2>1 DEF DeskInv, LatchExact, OnTheWay
  <2>4. OnTheWay(q)' = Counted(work', q) + Counted(closures, q) + n
    BY <1>3, <2>1 DEF OnTheWay
  <2>5. Counted(work', q) = Counted(work, q) + IF k = q THEN 1 ELSE 0
    BY <1>1, <1>2, <1>3, CountedAppend
  <2>6. Counted(work, q) \in Nat /\ Counted(closures, q) \in Nat
    BY <1>2, CountedType
  <2> QED
    BY <1>3, <2>2, <2>3, <2>4, <2>5, <2>6
<1>7. busy' = (latch' # {})
  BY <1>3
<1> QED
  BY <1>4, <1>5, <1>6, <1>7 DEF LatchExact

\* The latch and what is on its way, when neither moves.
LEMMA LatchStays ==
  ASSUME DeskInv, UNCHANGED <<latch, busy, work, closures>>,
         (worker.at # "idle") = (worker'.at # "idle"), worker'.job = worker.job
  PROVE  LatchExact'
<1>1. \A q \in DeskKinds : OnTheWay(q)' = OnTheWay(q)
  BY DEF OnTheWay
<1> QED
  BY <1>1 DEF DeskInv, LatchExact

LEMMA SpawnKeeps ==
  ASSUME DeskInv, NEW k \in DeskKinds, NEW w \in Selection \cup {NoRefresh}, NEW l \in BOOLEAN,
         Asks(w, Shown), SpawnClick(k, w, l)
  PROVE  DeskInv'
<1>1. /\ UNCHANGED <<folders, local, epoch, feed, stale, gui, choice>>
      /\ UNCHANGED <<worker, closures>> /\ SpawnJob(k, w, l)
  BY DEF SpawnClick, SpawnJob
<1>2. /\ work' \in Seq(DeskJob) /\ latch' \subseteq DeskKinds /\ busy' \in BOOLEAN
      /\ LatchExact'
  BY <1>1, SpawnLatches
<1>3. DeskTyped'
  BY <1>1, <1>2 DEF DeskInv, DeskTyped
<1>4. Later(epoch, local, Idle, epoch', local', Idle')
  BY <1>1 DEF Later, Idle
<1>5. ReturnsOk'
  BY <1>1, <1>3, <1>4, ReturnsLater
<1>6. ShownNotOlder' /\ ChoiceKept'
  BY <1>1 DEF DeskInv, ShownNotOlder, ChoiceKept, Idle
<1> QED
  BY <1>2, <1>3, <1>5, <1>6 DEF DeskInv

LEMMA WriteKeeps ==
  ASSUME DeskInv, NEW then \in {"patch", "rebuild", "purge"}, Write(then)
  PROVE  DeskInv'
<1>1. /\ UNCHANGED <<epoch, feed, stale, latch, busy, choice>>
      /\ UNCHANGED <<work, worker, closures>>
      /\ local' = local + 1 /\ gui' = [at |-> "wrote", then |-> then]
  BY DEF Write, jobThread
<1>2. DeskTyped' /\ ~Idle'
  BY <1>1 DEF DeskInv, DeskTyped, Idle, GuiAtRest
<1>3. Later(epoch, local, Idle, epoch', local', Idle')
  BY <1>1, <1>2 DEF Later
<1>4. ReturnsOk'
  BY <1>1, <1>2, <1>3, ReturnsLater
<1>5. ShownNotOlder' /\ ChoiceKept'
  BY <1>1, <1>2 DEF DeskInv, ShownNotOlder, ChoiceKept
<1>6. LatchExact'
  BY <1>1, LatchStays
<1> QED
  BY <1>2, <1>4, <1>5, <1>6 DEF DeskInv

\* The feeds of selection s as the database is.
LEMMA PushShows ==
  ASSUME DeskInv, NEW s \in Selection, push_feeds(s)
  PROVE  /\ feed' \in DeskFeeds /\ feed'.messages = local
         /\ feed'.account = s.account /\ feed'.folder = s.folder
         /\ feed'.counts = local /\ stale' = FALSE /\ epoch' = epoch + 1
         /\ epoch \in Nat /\ epoch' \in Nat /\ epoch < epoch'
BY DEF DeskInv, DeskTyped, push_feeds, Apply, Build, DeskFeeds, Selection

LEMMA ShowKeeps ==
  ASSUME DeskInv, Show
  PROVE  DeskInv'
<1>1. /\ UNCHANGED <<local, choice>> /\ UNCHANGED <<worker, closures>>
      /\ gui' = GuiAtRest
  BY DEF Show, SpawnJob, jobThread
<1>2. /\ feed' \in DeskFeeds /\ feed'.folder = feed.folder /\ feed'.account = feed.account
      /\ feed'.counts = local /\ stale' \in BOOLEAN /\ (feed'.messages < local => stale')
      /\ epoch' \in Nat /\ epoch < epoch'
  <2>1. CASE push_flag_change
    BY <2>1 DEF push_flag_change, DeskInv, DeskTyped, DeskFeeds
  <2>2. CASE push_feeds(Shown)
    <3>1. local \in Nat
      BY DEF DeskInv, DeskTyped
    <3>2. /\ feed' \in DeskFeeds /\ feed'.account = Shown.account
          /\ feed'.folder = Shown.folder /\ feed'.messages = local
          /\ feed'.counts = local /\ stale' = FALSE /\ epoch' \in Nat /\ epoch < epoch'
      BY <2>2, ShownIs, PushShows, Zenon
    <3>3. ~(feed'.messages < local)
      BY <3>1, <3>2
    <3>4. stale' \in BOOLEAN
      BY <3>2
    <3> QED
      BY <3>2, <3>3, <3>4, ShownIs, Zenon
  <2> QED
    BY <2>1, <2>2 DEF Show
<1>3. /\ work' \in Seq(DeskJob) /\ latch' \subseteq DeskKinds /\ busy' \in BOOLEAN
      /\ LatchExact'
  <2>1. CASE SpawnJob("Delete", Shown, FALSE)
    <3>1. Shown \in Selection /\ "Delete" \in DeskKinds
      BY ShownIs DEF DeskKinds
    <3>2. Asks(Shown, Shown)
      BY DEF Asks
    <3> QED
      BY <2>1, <3>1, <3>2, SpawnLatches
  <2>2. CASE UNCHANGED <<latch, busy, jobThread>>
    <3>1. UNCHANGED <<latch, busy, work, closures, worker>>
      BY <2>2 DEF jobThread
    <3> QED
      BY <3>1, LatchStays DEF DeskInv, DeskTyped
  <2> QED
    BY <2>1, <2>2 DEF Show
<1>4. DeskTyped'
  BY <1>1, <1>2, <1>3 DEF DeskInv, DeskTyped, GuiAtRest
<1>5. Later(epoch, local, Idle, epoch', local', Idle')
  BY <1>2 DEF Later
<1>6. ReturnsOk'
  BY <1>1, <1>4, <1>5, ReturnsLater
<1>7. ShownNotOlder' /\ ChoiceKept'
  BY <1>1, <1>2 DEF DeskInv, ShownNotOlder, ChoiceKept
<1> QED
  BY <1>3, <1>4, <1>6, <1>7 DEF DeskInv

\* The feeds are pushed while the GUI thread is idle.
LEMMA SelectKeeps ==
  ASSUME DeskInv, NEW s \in Selection, push_feeds(s),
         UNCHANGED <<local, gui, latch, busy, work, worker, closures>>,
         \/ choice' = Chosen(s) /\ AccountOf[s.folder] = s.account
         \/ choice' = choice /\ s = Shown
  PROVE  DeskInv'
<1>1. /\ feed' \in DeskFeeds /\ feed'.account = s.account /\ feed'.folder = s.folder
      /\ feed'.messages = local /\ feed'.counts = local /\ stale' = FALSE
      /\ epoch' \in Nat /\ epoch < epoch'
  BY DEF push_feeds, Apply, Build, DeskInv, DeskTyped, DeskFeeds, Selection
<1>2. choice' \in DeskChoice /\ ChoiceKept'
  <2>1. CASE choice' = Chosen(s) /\ AccountOf[s.folder] = s.account
    BY <2>1, <1>1 DEF Chosen, DeskChoice, ChoiceKept
  <2>2. CASE choice' = choice /\ s = Shown
    BY <2>2, <1>1, ShownIs DEF DeskInv, DeskTyped, ChoiceKept
  <2> QED
    BY <2>1, <2>2
<1>3. DeskTyped'
  <2>1. stale' \in BOOLEAN
    BY <1>1
  <2> QED
    BY <1>1, <1>2, <2>1 DEF DeskInv, DeskTyped
<1>4. Later(epoch, local, Idle, epoch', local', Idle')
  BY <1>1 DEF Later
<1>5. ReturnsOk'
  BY <1>3, <1>4, ReturnsLater
<1>6. ShownNotOlder'
  BY <1>1 DEF DeskInv, DeskTyped, ShownNotOlder
<1>7. LatchExact'
  BY LatchStays
<1> QED
  BY <1>2, <1>3, <1>5, <1>6, <1>7 DEF DeskInv

LEMMA TakeKeeps ==
  ASSUME DeskInv, TakeQueued
  PROVE  DeskInv'
<1> DEFINE j == Head(work)
           w == [worker EXCEPT !.at = "run", !.job = j]
<1>1. /\ UNCHANGED <<local, epoch, feed, stale, gui, latch, busy, closures, choice>>
      /\ worker.at = "idle" /\ work # <<>> /\ worker' = w /\ work' = Tail(work)
  BY DEF TakeQueued
<1>2. work \in Seq(DeskJob) /\ closures \in Seq(DeskClosure) /\ worker \in DeskWorker
  BY DEF DeskInv, DeskTyped
<1>3. work' \in Seq(DeskJob) /\ j \in DeskJob
  BY <1>1, <1>2, TailWhere
<1>4. w \in DeskWorker /\ w.at = "run" /\ w.job = j
  BY <1>2, <1>3 DEF DeskWorker
<1> HIDE DEF j, w
<1>5. DeskTyped'
  BY <1>1, <1>3, <1>4 DEF DeskInv, DeskTyped
<1>6. ReturnsOk'
  BY <1>1, <1>4 DEF DeskInv, ReturnsOk, WorkerOk, Idle
<1>7. ShownNotOlder' /\ ChoiceKept'
  BY <1>1 DEF DeskInv, ShownNotOlder, ChoiceKept, Idle
<1>8. ASSUME NEW q \in DeskKinds
      PROVE  OnTheWay(q)' = OnTheWay(q)
  <2>1. OnTheWay(q) = Counted(work, q) + Counted(closures, q) + 0
    BY <1>1 DEF OnTheWay
  <2>2. OnTheWay(q)' = Counted(work', q) + Counted(closures, q) + IF j.kind = q THEN 1 ELSE 0
    BY <1>1, <1>4 DEF OnTheWay
  <2>3. Counted(work, q) = Counted(work', q) + IF j.kind = q THEN 1 ELSE 0
    BY <1>1, <1>2, CountedTail DEF j
  <2>4. /\ Counted(work, q) \in Nat /\ Counted(work', q) \in Nat
        /\ Counted(closures, q) \in Nat
    BY <1>2, <1>3, CountedType
  <2> QED
    BY <2>1, <2>2, <2>3, <2>4
<1>9. LatchExact'
  BY <1>1, <1>8 DEF DeskInv, LatchExact
<1> QED
  BY <1>5, <1>6, <1>7, <1>9 DEF DeskInv

\* The network thread goes on with its job.
LEMMA WorkKeeps ==
  ASSUME DeskInv, worker' \in DeskWorker, worker.at # "idle", worker'.at # "idle",
         worker'.job = worker.job, WorkerOk(worker', epoch, local, Idle),
         UNCHANGED <<local, epoch, feed, stale, gui, latch, busy, work, closures, choice>>
  PROVE  DeskInv'
<1>1. DeskTyped'
  BY DEF DeskInv, DeskTyped
<1>2. ReturnsOk'
  BY DEF DeskInv, ReturnsOk, Idle
<1>3. ShownNotOlder' /\ ChoiceKept'
  BY DEF DeskInv, ShownNotOlder, ChoiceKept, Idle
<1>4. LatchExact'
  BY LatchStays
<1> QED
  BY <1>1, <1>2, <1>3, <1>4 DEF DeskInv

LEMMA RunKeeps ==
  ASSUME DeskInv, RunQueued
  PROVE  DeskInv'
<1> USE FoldersOK
<1> DEFINE its == worker.job
<1>1. worker \in DeskWorker /\ worker.at = "run" /\ its \in DeskJob
  BY DEF DeskInv, DeskTyped, RunQueued
<1>2. /\ its.started \in Selection /\ its.wants \in Selection \cup {NoRefresh}
      /\ Asks(its.wants, its.started)
  BY <1>1 DEF DeskJob
<1>3. PICK r : /\ r \in {NoRefresh, its.wants, SyncedFolder(its.started, folders')}
               /\ worker' = [worker EXCEPT !.at = "ran", !.refresh = r]
  BY DEF RunQueued
<1>4. r \in Selection \cup {NoRefresh} /\ Asks(r, its.started)
  <2>1. CASE r = SyncedFolder(its.started, folders')
    BY <2>1, <1>2 DEF SyncedFolder, Asks, Sel, Selection
  <2>2. CASE r = NoRefresh \/ r = its.wants
    BY <2>2, <1>2 DEF Asks
  <2> QED
    BY <1>3, <2>1, <2>2
<1>5. /\ worker' \in DeskWorker /\ worker'.at = "ran" /\ worker'.job = its
      /\ worker'.refresh = r
  BY <1>1, <1>3, <1>4 DEF DeskWorker
<1>6. WorkerOk(worker', epoch, local, Idle)
  BY <1>4, <1>5 DEF WorkerOk
<1>7. UNCHANGED <<local, epoch, feed, stale, gui, latch, busy, work, closures, choice>>
  BY DEF RunQueued
<1> QED
  BY <1>1, <1>5, <1>6, <1>7, WorkKeeps

LEMMA PrepareKeeps ==
  ASSUME DeskInv, PrepareFeeds
  PROVE  DeskInv'
<1>1. /\ worker \in DeskWorker /\ local \in Nat /\ epoch \in Nat
      /\ WorkerOk(worker, epoch, local, Idle)
  BY DEF DeskInv, DeskTyped, ReturnsOk
<1>2. UNCHANGED <<local, epoch, feed, stale, gui, latch, busy, work, closures, choice>>
  BY DEF PrepareFeeds, Prebuild
<1>3. /\ worker' \in DeskWorker /\ worker.at # "idle" /\ worker'.at # "idle"
      /\ worker'.job = worker.job /\ WorkerOk(worker', epoch, local, Idle)
  <2>1. CASE worker.at = "ran" /\ worker.refresh = NoRefresh
    <3>1. worker' = [worker EXCEPT !.at = "done"]
      BY <2>1 DEF PrepareFeeds, Prebuild
    <3> QED
      BY <3>1, <2>1, <1>1 DEF DeskWorker, WorkerOk, Asks
  <2>2. CASE worker.at = "ran" /\ worker.refresh # NoRefresh
    <3>1. worker' = [worker EXCEPT !.epoch = epoch, !.at = "half"]
      BY <2>2, <1>1 DEF PrepareFeeds, Prebuild, ReadEpoch, DeskWorker
    <3>2. /\ worker' \in DeskWorker /\ worker'.at = "half" /\ worker'.job = worker.job
          /\ worker'.refresh = worker.refresh /\ worker'.epoch = epoch
      BY <3>1, <1>1 DEF DeskWorker
    <3> QED
      BY <3>2, <2>2, <1>1 DEF WorkerOk
  <2>3. CASE worker.at = "half"
    <3>1. worker.refresh \in Selection
      BY <2>3, <1>1 DEF WorkerOk, DeskWorker
    <3>2. PICK b \in DeskFeeds : b = Build(worker.refresh)
      BY <3>1, <1>1 DEF Build, DeskFeeds, Selection
    <3>3. worker' = [worker EXCEPT !.feeds = b, !.at = "done"]
      BY <3>2, <2>3, <1>1 DEF PrepareFeeds, Prebuild, BuildFeeds, DeskWorker
    <3>4. /\ worker' \in DeskWorker /\ worker'.at = "done" /\ worker'.job = worker.job
          /\ worker'.refresh = worker.refresh /\ worker'.epoch = worker.epoch
          /\ worker'.feeds = b
      BY <3>2, <3>3, <1>1 DEF DeskWorker
    <3>5. b.counts = local /\ b.messages = local
      BY <3>2 DEF Build
    <3> QED
      BY <3>4, <3>5, <2>3, <1>1 DEF WorkerOk, Prebuilt
  <2> QED
    BY <2>1, <2>2, <2>3 DEF PrepareFeeds, Prebuild
<1> QED
  BY <1>2, <1>3, WorkKeeps

LEMMA DeliverKeeps ==
  ASSUME DeskInv, Deliver
  PROVE  DeskInv'
<1> DEFINE c == [kind |-> worker.job.kind, started |-> worker.job.started,
                 refresh |-> worker.refresh, epoch |-> worker.epoch, feeds |-> worker.feeds]
           w == [worker EXCEPT !.at = "idle"]
<1>1. /\ UNCHANGED <<local, epoch, feed, stale, gui, latch, busy, work, choice>>
      /\ worker.at = "done" /\ worker' = w /\ closures' = Append(closures, c)
  BY DEF Deliver, Report
<1>2. /\ work \in Seq(DeskJob) /\ closures \in Seq(DeskClosure) /\ worker \in DeskWorker
      /\ worker.job \in DeskJob /\ WorkerOk(worker, epoch, local, Idle)
  BY <1>1 DEF DeskInv, DeskTyped, ReturnsOk
<1>3. c \in DeskClosure /\ c.kind = worker.job.kind
  BY <1>2 DEF DeskClosure, DeskWorker, DeskJob
<1>4. ReturnOk(c, epoch, local, Idle)
  BY <1>1, <1>2 DEF WorkerOk, ReturnOk, Asks
<1>5. w \in DeskWorker /\ w.at = "idle"
  BY <1>2 DEF DeskWorker
<1> HIDE DEF c, w
<1>6. /\ closures' \in Seq(DeskClosure)
      /\ \A i \in DOMAIN closures' :
           (i \in DOMAIN closures /\ closures'[i] = closures[i]) \/ closures'[i] = c
  BY <1>1, <1>2, <1>3, AppendWhere
<1>7. DeskTyped'
  BY <1>1, <1>5, <1>6 DEF DeskInv, DeskTyped
<1>8. ReturnsOk'
  <2>1. \A i \in DOMAIN closures' : ReturnOk(closures'[i], epoch, local, Idle)
    BY <1>4, <1>6 DEF DeskInv, ReturnsOk
  <2>2. WorkerOk(worker', epoch, local, Idle)
    BY <1>1, <1>5 DEF WorkerOk
  <2> QED
    BY <1>1, <2>1, <2>2 DEF ReturnsOk, Idle
<1>9. ShownNotOlder' /\ ChoiceKept'
  BY <1>1 DEF DeskInv, ShownNotOlder, ChoiceKept, Idle
<1>10. ASSUME NEW q \in DeskKinds
       PROVE  OnTheWay(q)' = OnTheWay(q)
  <2>1. OnTheWay(q)
          = Counted(work, q) + Counted(closures, q) + IF c.kind = q THEN 1 ELSE 0
    BY <1>1, <1>3 DEF OnTheWay
  <2>2. OnTheWay(q)' = Counted(work, q) + Counted(closures', q) + 0
    BY <1>1, <1>5 DEF OnTheWay
  <2>3. Counted(closures', q) = Counted(closures, q) + IF c.kind = q THEN 1 ELSE 0
    BY <1>1, <1>2, <1>3, CountedAppend
  <2>4. Counted(work, q) \in Nat /\ Counted(closures, q) \in Nat
    BY <1>2, CountedType
  <2> QED
    BY <2>1, <2>2, <2>3, <2>4
<1>11. LatchExact'
  BY <1>1, <1>10 DEF DeskInv, LatchExact
<1> QED
  BY <1>7, <1>8, <1>9, <1>11 DEF DeskInv

\* What the closure of a job leaves on the screen.
LEMMA FinishShows ==
  ASSUME DeskInv, FinishJob
  PROVE  /\ feed' \in DeskFeeds /\ stale' \in BOOLEAN /\ epoch' \in Nat
         /\ choice' \in DeskChoice
         /\ Later(epoch, local, Idle, epoch', local', Idle')
         /\ ShownNotOlder' /\ ChoiceKept'
<1> DEFINE p == Head(closures)
           target == Resolve(p)
<1>1. /\ UNCHANGED <<local, gui>> /\ Idle /\ closures # <<>>
  BY DEF FinishJob
<1>2. /\ closures \in Seq(DeskClosure) /\ feed \in DeskFeeds /\ local \in Nat
      /\ epoch \in Nat /\ stale \in BOOLEAN
      /\ choice \in DeskChoice
  BY DEF DeskInv, DeskTyped
<1>3. /\ p \in DeskClosure /\ ReturnOk(p, epoch, local, Idle)
  <2>1. p \in DeskClosure /\ 1 \in DOMAIN closures /\ closures[1] = p
    BY <1>1, <1>2, TailWhere
  <2> QED
    BY <2>1 DEF DeskInv, ReturnsOk
<1>4. CASE p.refresh = NoRefresh
  <2>1. UNCHANGED <<epoch, feed, stale, choice>>
    BY <1>4 DEF FinishJob
  <2> QED
    BY <1>1, <1>2, <2>1 DEF Later, Idle, DeskInv, ShownNotOlder, ChoiceKept, Shown
<1>5. CASE p.refresh # NoRefresh
  <2>1. /\ Asks(p.refresh, p.started) /\ p.refresh \in Selection /\ p.started \in Selection
        /\ Prebuilt(p.epoch, p.feeds, epoch, local, Idle)
    BY <1>3, <1>5 DEF ReturnOk, DeskClosure
  <2>2. PICK ours \in BOOLEAN : ours = (feed.account = p.started.account)
    OBVIOUS
  <2>3. /\ target \in Selection
        /\ ~ours => target.account = feed.account /\ target.folder = feed.folder
        /\ ours => target.account = p.refresh.account
        /\ ours => target.folder = IF p.refresh.folder = p.started.folder THEN feed.folder
                                   ELSE p.refresh.folder
    <3>1. CASE ours
      <4>1. target = Sel(p.refresh.account, IF p.refresh.folder = p.started.folder
                                            THEN feed.folder ELSE p.refresh.folder)
        BY <3>1, <2>2 DEF Resolve
      <4> QED
        BY <3>1, <4>1, <2>1, <1>2 DEF Sel, Selection, DeskFeeds
    <3>2. CASE ~ours
      <4>1. target = Shown
        BY <3>2, <2>2 DEF Resolve
      <4> QED
        BY <3>2, <4>1, ShownIs
    <3> QED
      BY <3>1, <3>2
  <2>4. /\ IF Usable(p, target) THEN Apply(p.feeds) ELSE push_feeds(target)
        /\ choice' = Redirected(p)
    BY <1>5 DEF FinishJob
  <2> HIDE DEF target
  <2>5. /\ feed' \in DeskFeeds /\ feed'.account = target.account
        /\ feed'.folder = target.folder
        /\ feed'.counts = local /\ feed'.messages = local
        /\ stale' = FALSE /\ epoch' = epoch + 1
    <3>1. CASE Usable(p, target)
      <4>1. feed' = p.feeds /\ stale' = FALSE /\ epoch' = epoch + 1
        BY <2>4, <3>1 DEF Apply
      <4>2. /\ p.feeds.account = target.account /\ p.feeds.folder = target.folder
            /\ p.epoch = epoch
        BY <3>1 DEF Usable, Sel
      <4> QED
        BY <4>1, <4>2, <2>1, <1>1, <1>3 DEF Prebuilt, DeskClosure
    <3>2. CASE ~Usable(p, target)
      <4>1. feed' = Build(target) /\ stale' = FALSE /\ epoch' = epoch + 1
        BY <2>4, <3>2 DEF push_feeds, Apply
      <4> QED
        BY <4>1, <2>3, <1>2 DEF Build, DeskFeeds, Selection
    <3> QED
      BY <3>1, <3>2
  <2>6. PICK otherF \in BOOLEAN, otherA \in BOOLEAN :
          /\ otherF = (choice.otherFolder \/ (ours /\ p.refresh.folder # p.started.folder))
          /\ otherA = (choice.otherAccount \/ (ours /\ p.refresh.account # p.started.account))
    OBVIOUS
  <2>7. /\ choice' \in DeskChoice /\ choice'.shown = choice.shown
        /\ choice'.otherFolder = otherF /\ choice'.otherAccount = otherA
    <3>1. choice' = [choice EXCEPT !.otherFolder = otherF, !.otherAccount = otherA]
      BY <2>2, <2>4, <2>6, <1>2 DEF Redirected, DeskChoice
    <3> QED
      BY <3>1, <1>2 DEF DeskChoice
  <2>8. ChoiceKept'
    <3>1. target.folder # choice.shown.folder => otherF
      BY <2>3, <2>6 DEF DeskInv, ChoiceKept
    <3>2. target.account # choice.shown.account => otherA
      BY <2>2, <2>3, <2>6 DEF DeskInv, ChoiceKept
    <3>3. target.account # AccountOf[target.folder] => otherA
      BY <1>5, <2>1, <2>2, <2>3, <2>6 DEF DeskInv, ChoiceKept, Asks
    <3> QED
      BY <2>5, <2>7, <3>1, <3>2, <3>3 DEF ChoiceKept
  <2>9. ShownNotOlder'
    BY <1>1, <1>2, <2>5 DEF ShownNotOlder
  <2>10. epoch' \in Nat /\ Later(epoch, local, Idle, epoch', local', Idle')
    BY <1>2, <2>5 DEF Later
  <2> QED
    BY <2>5, <2>7, <2>8, <2>9, <2>10
<1> QED
  BY <1>4, <1>5

LEMMA FinishKeeps ==
  ASSUME DeskInv, FinishJob
  PROVE  DeskInv'
<1> DEFINE p == Head(closures)
<1>1. /\ UNCHANGED <<local, gui, work, worker>> /\ Idle /\ closures # <<>>
      /\ closures' = Tail(closures) /\ latch' = latch \ {p.kind} /\ busy' = (latch' # {})
  BY DEF FinishJob, StillBusy
<1>2. /\ closures \in Seq(DeskClosure) /\ work \in Seq(DeskJob) /\ worker \in DeskWorker
  BY DEF DeskInv, DeskTyped
<1>3. /\ feed' \in DeskFeeds /\ stale' \in BOOLEAN /\ epoch' \in Nat
      /\ choice' \in DeskChoice
      /\ Later(epoch, local, Idle, epoch', local', Idle')
      /\ ShownNotOlder' /\ ChoiceKept'
  BY FinishShows
<1>4. /\ closures' \in Seq(DeskClosure) /\ p \in DeskClosure
      /\ 1 \in DOMAIN closures /\ closures[1] = p
      /\ \A i \in DOMAIN closures' :
           i + 1 \in DOMAIN closures /\ closures'[i] = closures[i + 1]
  BY <1>1, <1>2, TailWhere
<1> HIDE DEF p
<1>5. busy' \in BOOLEAN /\ latch' \subseteq DeskKinds
  BY <1>1 DEF DeskInv, DeskTyped
<1>6. DeskTyped'
  BY <1>1, <1>3, <1>4, <1>5 DEF DeskInv, DeskTyped
<1>7. ReturnsOk'
  <2>1. PICK r \in BOOLEAN : r = Idle
    BY DEF Idle
  <2>2. PICK r2 \in BOOLEAN : r2 = Idle'
    BY DEF Idle
  <2>3. epoch \in Nat /\ Later(epoch, local, r, epoch', local', r2)
    BY <1>3, <2>1, <2>2 DEF Later, DeskInv, DeskTyped
  <2>4. WorkerOk(worker, epoch', local', r2)
    <3>1. WorkerOk(worker, epoch, local, r)
      BY <2>1 DEF DeskInv, ReturnsOk
    <3> QED
      BY <3>1, <2>3, <1>2, <1>3, WorkerLater
  <2>5. ASSUME NEW i \in DOMAIN closures'
        PROVE  ReturnOk(closures'[i], epoch', local', r2)
    <3>1. /\ closures'[i] = closures[i + 1]
          /\ ReturnOk(closures[i + 1], epoch, local, r)
      BY <1>4, <2>1 DEF DeskInv, ReturnsOk
    <3>2. closures'[i] \in DeskClosure
      BY <1>4, ElementOfSeq, LenProperties
    <3> QED
      BY <3>1, <3>2, <2>3, <1>3, ReturnLater
  <2> QED
    BY <1>1, <2>2, <2>4, <2>5 DEF ReturnsOk
<1>8. p.kind \in DeskKinds
  BY <1>4 DEF DeskClosure
<1>9. ASSUME NEW q \in DeskKinds
      PROVE  OnTheWay(q)' = IF q \in latch' THEN 1 ELSE 0
  <2>1. PICK n : n = IF worker.at # "idle" /\ worker.job.kind = q THEN 1 ELSE 0
    OBVIOUS
  <2>2. n \in Nat
    BY <2>1
  <2>3. Counted(work, q) + Counted(closures, q) + n = IF q \in latch THEN 1 ELSE 0
    BY <2>1 DEF DeskInv, LatchExact, OnTheWay
  <2>4. OnTheWay(q)' = Counted(work, q) + Counted(closures', q) + n
    BY <1>1, <2>1 DEF OnTheWay
  <2>5. Counted(closures, q) = Counted(closures', q) + IF p.kind = q THEN 1 ELSE 0
    BY <1>1, <1>2, CountedTail DEF p
  <2>6. /\ Counted(work, q) \in Nat /\ Counted(closures, q) \in Nat
        /\ Counted(closures', q) \in Nat
    BY <1>2, <1>4, CountedType
  <2> QED
    BY <1>1, <2>2, <2>3, <2>4, <2>5, <2>6, SMTT(20)
<1>10. LatchExact'
  BY <1>1, <1>9 DEF LatchExact
<1> QED
  BY <1>3, <1>6, <1>7, <1>10 DEF DeskInv

-----------------------------------------------------------------------------
(* The desktop bridge: the clicks, sorted by what they do.                 *)

LEMMA ClickKeeps ==
  ASSUME DeskInv,
         \/ SyncNow \/ LoadOlder \/ RefreshFolders \/ CreateFolder \/ SearchServer \/ PurgeUids
         \/ DeleteDraft \/ TrimCache \/ FlushDueSends \/ ReadSomething
         \/ \E f \in Folders : SyncFolderNow(f)
         \/ \E a \in DOMAIN Inbox : SendMail(a) \/ SaveDraft(a) \/ ScheduleMail(a)
  PROVE  DeskInv'
<1>1. /\ Shown \in Selection /\ Shown.folder = feed.folder
      /\ feed.folder \in Folders /\ feed.account \in DOMAIN Inbox
  BY ShownIs DEF DeskInv, DeskTyped, DeskFeeds
<1>2. PICK k \in DeskKinds, w \in Selection \cup {NoRefresh}, l \in BOOLEAN :
        Asks(w, Shown) /\ SpawnClick(k, w, l)
  <2>1. CASE \/ SyncNow \/ RefreshFolders \/ ReadSomething
    <3>1. \E k \in DeskKinds, l \in BOOLEAN : SpawnClick(k, NoRefresh, l)
      BY <2>1 DEF SyncNow, RefreshFolders, ReadSomething, OpenAttachment, SaveAttachment,
         SaveAllAttachments, DownloadInlineImages, ExportMessage, ResendFetch, ForwardFetch,
         DraftForm, RefreshServerCapabilities, EvictAttachments, List, Read, DeskKinds
    <3> QED
      BY <3>1 DEF Asks
  <2>2. CASE \/ CreateFolder \/ SearchServer \/ PurgeUids \/ DeleteDraft \/ TrimCache
             \/ FlushDueSends
    <3>1. \E k \in DeskKinds : SpawnClick(k, Shown, FALSE)
      BY <2>2 DEF CreateFolder, SearchServer, PurgeUids, DeleteDraft, TrimCache,
         FlushDueSends, Queue, DeskKinds
    <3>2. Asks(Shown, Shown)
      BY DEF Asks
    <3> QED
      BY <3>1, <3>2, <1>1
  <2>3. ASSUME NEW a \in DOMAIN Inbox, NEW f \in Folders, NEW k \in DeskKinds,
               SpawnClick(k, Sel(a, f), FALSE), f = feed.folder \/ AccountOf[f] = a
        PROVE  \E w \in Selection \cup {NoRefresh}, l \in BOOLEAN :
                 Asks(w, Shown) /\ SpawnClick(k, w, l)
    <3>1. Sel(a, f) \in Selection /\ Asks(Sel(a, f), Shown)
      BY <2>3, <1>1 DEF Sel, Selection, Asks
    <3> QED
      BY <2>3, <3>1
  <2>4. CASE LoadOlder
    BY <2>3, <2>4, <1>1, FoldersOK DEF LoadOlder, Queue, DeskKinds
  <2>5. CASE \E f \in Folders : SyncFolderNow(f)
    BY <2>3, <2>5, <1>1 DEF SyncFolderNow, Queue, DeskKinds
  <2>6. CASE \E a \in DOMAIN Inbox : SendMail(a) \/ SaveDraft(a) \/ ScheduleMail(a)
    BY <2>3, <2>6, <1>1 DEF SendMail, SaveDraft, ScheduleMail, Compose, Queue, DeskKinds
  <2> QED
    BY <2>1, <2>2, <2>4, <2>5, <2>6
<1> QED
  BY <1>2, SpawnKeeps

LEMMA ChangeKeeps ==
  ASSUME DeskInv,
         \/ FlagClick \/ FlagMany \/ FlagHits \/ QueueUndoable \/ QueueHits \/ UndoMove
         \/ SetSort \/ SetSubscribed
  PROVE  DeskInv'
<1>1. PICK then \in {"patch", "rebuild", "purge"} : Write(then)
  BY DEF FlagClick, FlagMany, FlagHits, QueueUndoable, QueueHits, UndoMove, SetSort, SetSubscribed
<1> QED
  BY <1>1, WriteKeeps

LEMMA LookKeeps ==
  ASSUME DeskInv,
         \/ \E f \in Folders : SelectFolder(f)
         \/ \E a \in DOMAIN Inbox : SelectAccount(a)
         \/ RefreshIfStale
  PROVE  DeskInv'
<1>1. ASSUME NEW s \in Selection, AccountOf[s.folder] = s.account, Select(s)
      PROVE  DeskInv'
  <2>1. /\ push_feeds(s) /\ choice' = Chosen(s)
        /\ UNCHANGED <<local, gui, latch, busy, work, worker, closures>>
    BY <1>1 DEF Select, jobThread
  <2> QED
    BY <2>1, <1>1, SelectKeeps
<1>2. CASE \E f \in Folders : SelectFolder(f)
  <2>1. PICK f \in Folders : AccountOf[f] = feed.account /\ Select(Sel(feed.account, f))
    BY <1>2 DEF SelectFolder
  <2>2. /\ Sel(feed.account, f) \in Selection
        /\ AccountOf[Sel(feed.account, f).folder] = Sel(feed.account, f).account
    BY <2>1 DEF Sel, Selection, DeskInv, DeskTyped, DeskFeeds
  <2> QED
    BY <2>1, <2>2, <1>1
<1>3. CASE \E a \in DOMAIN Inbox : SelectAccount(a)
  <2>1. PICK a \in DOMAIN Inbox : Select(Sel(a, Inbox[a]))
    BY <1>3 DEF SelectAccount
  <2>2. /\ Sel(a, Inbox[a]) \in Selection
        /\ AccountOf[Sel(a, Inbox[a]).folder] = Sel(a, Inbox[a]).account
    BY FoldersOK DEF Sel, Selection
  <2> QED
    BY <2>1, <2>2, <1>1
<1>4. CASE RefreshIfStale
  <2>1. /\ push_feeds(Shown) /\ choice' = choice
        /\ UNCHANGED <<local, gui, latch, busy, work, worker, closures>>
    BY <1>4 DEF RefreshIfStale, jobThread
  <2> QED
    BY <2>1, ShownIs, SelectKeeps
<1> QED
  BY <1>2, <1>3, <1>4

LEMMA DeskStep == DeskInv /\ [DeskNext]_deskVars => DeskInv'
<1> SUFFICES ASSUME DeskInv, [DeskNext]_deskVars PROVE DeskInv'
  OBVIOUS
<1>1. CASE DeskThread
  BY <1>1, TakeKeeps, RunKeeps, PrepareKeeps, DeliverKeeps DEF DeskThread
<1>2. CASE FinishJob \/ Show
  BY <1>2, FinishKeeps, ShowKeeps
<1>3. CASE UNCHANGED deskVars
  <2>1. UNCHANGED <<local, epoch, feed, stale, gui, latch, busy, work, worker, closures, choice>>
    BY <1>3 DEF deskVars
  <2> QED
    BY <2>1 DEF DeskInv, DeskTyped, ReturnsOk, ShownNotOlder, ChoiceKept, LatchExact, OnTheWay,
       Idle
<1> QED
  BY <1>1, <1>2, <1>3, ClickKeeps, ChangeKeeps, LookKeeps DEF DeskNext

(* Feeds built before a local change are never shown after it; the screen   *)
(* moves only where the user or a redirect put it; every kind is latched    *)
(* for exactly its one job (bridge.rs, FEED_EPOCH; worker.rs,               *)
(* JobRefresh::resolve and spawn_job).                                      *)
THEOREM DeskIsHonest == DeskSpec => []DeskHonest
<1>1. DeskInv => DeskHonest
  BY DEF DeskInv, DeskHonest
<1> QED
  BY <1>1, DeskStart, DeskStep, PTL DEF DeskSpec

=============================================================================
