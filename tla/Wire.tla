-------------------------------- MODULE Wire --------------------------------
(***************************************************************************)
(* One IMAP connection: its commands, their time limits, what a failure    *)
(* leaves of it, and the forms of SELECT and FETCH that need an extension  *)
(* (mailcore sync/imap/session.rs, session/mailbox.rs, engine/connect.rs). *)
(*                                                                         *)
(* A command is awaited reply by reply; each wait has a limit and so has   *)
(* the command.  The server answers in order, at its own pace: a command   *)
(* the client gave up is still answered later.                             *)
(***************************************************************************)
EXTENDS Naturals, Sequences, SequenceTheorems, TLAPS

CONSTANTS Folders, Timeout, Longest, MaxTags, MaxLinks, MaxNoise, NoFolder

ASSUME WireOK == Timeout \in Nat /\ Longest \in Nat /\ NoFolder \notin Folders

VARIABLES
  link,       \* "down", "up", "pooled"
  broken,     \* a failure left the session unusable
  forms,      \* the extension forms in use, of {"select", "fetch"}
  cmd,        \* the command awaited, or NoCmd
  tags,       \* tag_counter
  age, left,  \* time since the command was sent; what the current read may still wait
  collected,  \* the data received for it
  job,        \* the folder being synced and the step it is at
  inbox,      \* server: the commands not answered yet
  wire,       \* replies on their way
  taken,      \* history: [into, data] taken over
  refused,    \* history: the forms this session was refused
  lowered,    \* history: forms given up without a refusal
  again,      \* history: forms sent after they had been refused
  links, noise

wireVars == <<link, broken, forms, cmd, tags, age, left, collected, job, inbox, wire,
          taken, refused, lowered, again, links, noise>>

NoCmd == [kind |-> "none", ext |-> FALSE, folder |-> NoFolder, tag |-> 0]

\* Faulty: every read gets the full limit, however long the command runs.
read_budget_Fresh(spent) == Timeout

read_budget(spent) ==
    IF spent >= Longest THEN 0 ELSE IF Longest - spent < Timeout THEN Longest - spent ELSE Timeout

-----------------------------------------------------------------------------
(* The connection and its pool.                                            *)

\* A failed ENABLE is ignored: the session may be broken from the start.
connect ==
    /\ link = "down" /\ links < MaxLinks /\ links' = links + 1
    /\ link' = "up" /\ forms' = {"select", "fetch"} /\ broken' \in BOOLEAN
    /\ tags' = 0 /\ inbox' = <<>> /\ wire' = <<>> /\ refused' = {}
    /\ UNCHANGED <<cmd, age, left, collected, job, taken, lowered, again, noise>>

Gone == /\ link' = "down" /\ broken' = FALSE /\ forms' = {}
        /\ inbox' = <<>> /\ wire' = <<>> /\ refused' = {}

disconnect ==
    /\ link = "up" /\ job = NoFolder /\ cmd = NoCmd
    /\ Gone /\ UNCHANGED <<cmd, tags, age, left, collected, job, taken, lowered, again, links, noise>>

\* A session goes back to the pool unless its transport has failed.
is_connected ==
    /\ link = "up" /\ job = NoFolder /\ cmd = NoCmd /\ ~broken
    /\ link' = "pooled"
    /\ UNCHANGED <<broken, forms, cmd, tags, age, left, collected, job, inbox, wire,
                   taken, refused, lowered, again, links, noise>>

-----------------------------------------------------------------------------
(* execute                                                                 *)

Send(kind, ext, folder) ==
    LET c == [kind |-> kind, ext |-> ext, folder |-> folder, tag |-> tags + 1]
    IN  /\ tags < MaxTags /\ tags' = tags + 1
        /\ cmd' = c /\ inbox' = Append(inbox, c)
        /\ age' = 0 /\ left' = read_budget(0) /\ collected' = {}
        /\ again' = IF ext THEN again \cup ({kind} \cap refused) ELSE again

\* A command on a broken session is an error at once: nothing is sent.
Begin(kind, folder) ==
    IF broken THEN UNCHANGED <<cmd, tags, inbox, age, left, collected, again>>
    ELSE Send(kind, kind \in forms, folder)

is_healthy ==
    /\ link = "pooled" /\ cmd = NoCmd
    /\ Begin("noop", NoFolder)
    /\ UNCHANGED <<link, broken, forms, job, wire, taken, refused, lowered, links, noise>>

select(f) ==
    /\ link = "up" /\ job = NoFolder /\ cmd = NoCmd
    /\ Begin("select", f)
    /\ job' = IF broken THEN NoFolder ELSE f
    /\ UNCHANGED <<link, broken, forms, wire, taken, refused, lowered, links, noise>>

uid_fetch(f) ==
    /\ job = f /\ cmd = NoCmd
    /\ Begin("fetch", f)
    /\ UNCHANGED <<link, broken, forms, job, wire, taken, refused, lowered, links, noise>>

Over == cmd' = NoCmd /\ age' = 0 /\ left' = 0 /\ collected' = {}

\* Faulty: the error is reported, the session stays in use.
fail_Forgotten == broken' = broken

fail == broken' = TRUE

\* Faulty: any error of an extended form counts as a refusal.
FallsBack_Always(c, dead) == c.ext

FallsBack(c, dead) == c.ext /\ ~dead

\* SELECT gives up both forms, FETCH its own.
Lowered(kind) == IF kind = "select" THEN {} ELSE forms \ {kind}

\* The awaited command ended in an error; `dead` says that the session did too.
Failed(dead) ==
    /\ refused' = IF ~dead /\ cmd.ext THEN refused \cup {cmd.kind} ELSE refused
    /\ IF FallsBack(cmd, dead)
       THEN /\ forms' = Lowered(cmd.kind)
            /\ lowered' = IF dead THEN lowered \cup {cmd.kind} ELSE lowered
            /\ IF dead THEN Over /\ job' = NoFolder /\ UNCHANGED <<tags, inbox, again>>
               ELSE Send(cmd.kind, FALSE, cmd.folder) /\ UNCHANGED job
            /\ UNCHANGED link
       ELSE /\ Over /\ job' = NoFolder /\ UNCHANGED <<tags, inbox, again, forms, lowered>>
            /\ link' = IF cmd.kind = "noop" THEN "down" ELSE link

TimedOut ==
    /\ cmd # NoCmd /\ left = 0
    /\ fail /\ Failed(TRUE)
    /\ UNCHANGED <<wire, taken, links, noise>>

\* A dead socket.
StreamError ==
    /\ cmd # NoCmd
    /\ fail /\ Failed(TRUE)
    /\ UNCHANGED <<wire, taken, links, noise>>

\* What the command returns: a sync takes it over into its folder.
Completed ==
    /\ Over
    /\ taken' = taken \cup {[into |-> job, data |-> d] : d \in IF job = NoFolder THEN {} ELSE collected}
    /\ job' = IF cmd.kind = "fetch" THEN NoFolder ELSE job
    /\ link' = IF cmd.kind = "noop" THEN "up" ELSE link
    /\ UNCHANGED <<broken, forms, tags, inbox, refused, lowered, again>>

Waits == /\ left' = read_budget(age) /\ UNCHANGED <<broken, cmd, tags, age, job, inbox, link, forms, refused, lowered, again>>

Mine(reply) == reply.tag = cmd.tag

Read ==
    /\ cmd # NoCmd /\ left > 0 /\ wire # <<>>
    /\ LET r == Head(wire)
       IN  \/ /\ r.what = "data" /\ collected' = collected \cup {r}
              /\ Waits /\ UNCHANGED taken
           \/ /\ r.what \in {"ok", "no"} /\ ~Mine(r)
              /\ Waits /\ UNCHANGED <<collected, taken>>
           \/ r.what = "still here" /\ Waits /\ UNCHANGED <<collected, taken>>
           \/ r.what = "ok" /\ Mine(r) /\ Completed
           \/ r.what = "no" /\ Mine(r) /\ Failed(FALSE) /\ UNCHANGED <<broken, taken>>
           \/ r.what = "bye" /\ fail /\ Failed(TRUE) /\ UNCHANGED taken
    /\ wire' = Tail(wire)
    /\ UNCHANGED <<links, noise>>

-----------------------------------------------------------------------------
(* The server and time.                                                    *)

Replies(rs) == wire' = wire \o rs
Reply(what, c) == [what |-> what, tag |-> c.tag, from |-> c.folder]

\* It refuses an extended form, or answers with data and its completion.
Serve ==
    /\ inbox # <<>> /\ inbox' = Tail(inbox)
    /\ LET c == Head(inbox)
       IN  \/ Replies(<<Reply("data", c), Reply("ok", c)>>)
           \/ Replies(<<Reply("no", c)>>)
    /\ UNCHANGED <<link, broken, forms, cmd, tags, age, left, collected, job, taken, refused, lowered, again, links, noise>>

Noise ==
    /\ link # "down" /\ noise < MaxNoise /\ noise' = noise + 1
    /\ \E what \in {"still here", "bye"} : Replies(<<Reply(what, NoCmd)>>)
    /\ UNCHANGED <<link, broken, forms, cmd, tags, age, left, collected, job, inbox, taken, refused, lowered, again, links>>

Tick ==
    /\ cmd # NoCmd /\ left > 0
    /\ left' = left - 1 /\ age' = age + 1
    /\ UNCHANGED <<link, broken, forms, cmd, tags, collected, job, inbox, wire, taken, refused, lowered, again, links, noise>>

WireInit ==
    /\ link = "down" /\ broken = FALSE /\ forms = {} /\ cmd = NoCmd /\ tags = 0
    /\ age = 0 /\ left = 0 /\ collected = {} /\ job = NoFolder /\ inbox = <<>> /\ wire = <<>>
    /\ taken = {} /\ refused = {} /\ lowered = {} /\ again = {} /\ links = 0 /\ noise = 0

WireNext == \/ connect \/ disconnect \/ is_connected \/ is_healthy
        \/ \E f \in Folders : select(f) \/ uid_fetch(f)
        \/ TimedOut \/ StreamError \/ Read \/ Serve \/ Noise \/ Tick

WireSpec == WireInit /\ [][WireNext]_wireVars

-----------------------------------------------------------------------------
(* Properties.                                                             *)

\* Nothing a server sent for one folder, late replies to given-up commands
\* included, is taken over into another (session.rs, the `broken` field: a
\* late reply "would otherwise land in the next command's data").
OwnReplies == \A s \in taken : s.data.from = s.into

\* No command is awaited longer than COMMAND_MAX, whatever the server keeps
\* sending (types.rs, read_budget).
Bounded == age <= Longest

\* An extension is given up for a refusal only, never for a failed connection,
\* and then for the rest of the session (mailbox.rs, select and
\* uid_fetch_flags_changesince).
Downgrades == lowered = {} /\ again = {}

\* What a command stores is its own answer, no command waits past its limit, and
\* an extension is given up for a refusal only (session.rs, execute; mailbox.rs).
WireKept == OwnReplies /\ Bounded /\ Downgrades

-----------------------------------------------------------------------------
(* Why they hold.                                                          *)

Noisy == {"still here", "bye"}
Final == {"ok", "no"}
Commands == [kind : {"noop", "select", "fetch"}, ext : BOOLEAN, folder : Folders \cup {NoFolder}, tag : Nat]
Answers == [what : {"data"} \cup Noisy \cup Final, tag : Nat, from : Folders \cup {NoFolder}]

\* Nothing but noise; nothing but answers to c; nothing but noise after a completion.
Quiet(w)      == \A k \in 1..Len(w) : w[k].what \in Noisy
AnswerTo(r, c) == r.what \in Noisy \/ (r.tag = c.tag /\ r.from = c.folder)
Answering(w, c) == \A k \in 1..Len(w) : AnswerTo(w[k], c)
EndsOnce(w)   == \A k, l \in 1..Len(w) : k < l /\ w[k].what \in Final => w[l].what \in Noisy

WireTyped ==
  /\ link \in {"down", "up", "pooled"} /\ broken \in BOOLEAN /\ forms \subseteq {"select", "fetch"}
  /\ cmd \in Commands \cup {NoCmd} /\ tags \in Nat /\ age \in Nat /\ left \in Nat
  /\ job \in Folders \cup {NoFolder} /\ inbox \in Seq(Commands) /\ wire \in Seq(Answers)

\* The command awaited is one of the step the sync is at, on a sound session.
InStep ==
  /\ job # NoFolder => link = "up"
  /\ cmd # NoCmd =>
       /\ ~broken /\ link # "down"
       /\ cmd.kind = "noop" => job = NoFolder /\ ~cmd.ext
       /\ cmd.kind # "noop" => job # NoFolder /\ cmd.folder = job

OwnData == \A d \in collected : cmd # NoCmd /\ d.from = cmd.folder

\* On a sound session nothing is under way but the answer to the command awaited.
NothingLate ==
  ~broken /\ link # "down" =>
    /\ cmd = NoCmd => inbox = <<>> /\ Quiet(wire)
    /\ cmd # NoCmd => /\ Answering(wire, cmd) /\ EndsOnce(wire)
                      /\ inbox = <<>> \/ (inbox = <<cmd>> /\ Quiet(wire))

\* A form refused is not in use.
NotAgain == Downgrades /\ refused \cap forms = {}

WireInv == WireTyped /\ InStep /\ OwnData /\ NothingLate /\ NotAgain /\ age + left <= Longest /\ OwnReplies

-----------------------------------------------------------------------------
(* Lemmas about replies and limits.                                        *)

\* What stays of the replies when the first is read.
LEMMA TailOfWire ==
  ASSUME NEW w \in Seq(Answers), w # <<>>
  PROVE  /\ Head(w) \in Answers /\ Tail(w) \in Seq(Answers)
         /\ Quiet(w) => Head(w).what \in Noisy /\ Quiet(Tail(w))
         /\ EndsOnce(w) => EndsOnce(Tail(w))
         /\ EndsOnce(w) /\ Head(w).what \in Final => Quiet(Tail(w))
         /\ \A c : Answering(w, c) => AnswerTo(Head(w), c) /\ Answering(Tail(w), c)
<1>1. /\ Head(w) \in Answers /\ Tail(w) \in Seq(Answers) /\ Len(Tail(w)) = Len(w) - 1
      /\ \A k \in 1..Len(Tail(w)) : Tail(w)[k] = w[k + 1]
  BY HeadTailProperties
<1>2. Len(w) \in Nat /\ Len(w) > 0 /\ Head(w) = w[1]
  BY EmptySeq, LenProperties
<1>3. \A k \in 1..Len(Tail(w)) : k + 1 \in 1..Len(w) /\ 1 < k + 1
  BY <1>1, <1>2
<1>4. \A k, l \in 1..Len(Tail(w)) : k < l => k + 1 < l + 1
  BY <1>1, <1>2
<1> QED
  BY <1>1, <1>2, <1>3, <1>4 DEF Quiet, EndsOnce, Answering

\* Noise may come at any time.
LEMMA NoiseOnWire ==
  ASSUME NEW w \in Seq(Answers), NEW r \in Answers, r.what \in Noisy
  PROVE  /\ w \o <<r>> \in Seq(Answers)
         /\ Quiet(w) => Quiet(w \o <<r>>)
         /\ EndsOnce(w) => EndsOnce(w \o <<r>>)
         /\ \A c : Answering(w, c) => Answering(w \o <<r>>, c)
<1> DEFINE n == w \o <<r>>
<1>1. <<r>> \in Seq(Answers) /\ Len(<<r>>) = 1 /\ <<r>>[1] = r
  OBVIOUS
<1>2. /\ n \in Seq(Answers) /\ Len(n) = Len(w) + 1
      /\ \A k \in 1..(Len(w) + 1) : n[k] = IF k <= Len(w) THEN w[k] ELSE <<r>>[k - Len(w)]
  BY <1>1, ConcatProperties
<1>3. Len(w) \in Nat
  BY LenProperties
<1>4. \A k \in 1..Len(n) : \/ k \in 1..Len(w) /\ n[k] = w[k]
                           \/ k = Len(w) + 1 /\ n[k] = r
  <2> TAKE k \in 1..Len(n)
  <2>1. CASE k <= Len(w)
    BY <1>2, <1>3, <2>1
  <2>2. CASE ~(k <= Len(w))
    <3>1. k = Len(w) + 1
      BY <1>2, <1>3, <2>2
    <3>2. k - Len(w) = 1
      BY <1>3, <3>1
    <3> QED
      BY <1>1, <1>2, <2>2, <3>1, <3>2
  <2> QED
    BY <2>1, <2>2
<1> HIDE DEF n
<1>5. Quiet(w) => Quiet(n)
  BY <1>4 DEF Quiet
<1>6. EndsOnce(w) => EndsOnce(n)
  <2> SUFFICES ASSUME EndsOnce(w), NEW k \in 1..Len(n), NEW l \in 1..Len(n), k < l, n[k].what \in Final
               PROVE  n[l].what \in Noisy
    BY DEF EndsOnce
  <2>1. k \in 1..Len(w) /\ n[k] = w[k]
    BY <1>2, <1>3, <1>4
  <2> QED
    BY <1>4, <2>1 DEF EndsOnce
<1>7. \A c : Answering(w, c) => Answering(n, c)
  BY <1>4 DEF Answering, AnswerTo
<1> QED
  BY <1>2, <1>5, <1>6, <1>7 DEF n

\* The answer to c, on a wire with nothing but noise.
LEMMA AnswerOnWire ==
  ASSUME NEW w \in Seq(Answers), NEW c \in Commands
  PROVE  /\ w \o <<Reply("no", c)>> \in Seq(Answers)
         /\ w \o <<Reply("data", c), Reply("ok", c)>> \in Seq(Answers)
         /\ Quiet(w) => /\ Answering(w \o <<Reply("no", c)>>, c) /\ EndsOnce(w \o <<Reply("no", c)>>)
                        /\ Answering(w \o <<Reply("data", c), Reply("ok", c)>>, c)
                        /\ EndsOnce(w \o <<Reply("data", c), Reply("ok", c)>>)
<1> DEFINE no == Reply("no", c)
           data == Reply("data", c)
           ok == Reply("ok", c)
           one == w \o <<no>>
           two == w \o <<data, ok>>
<1>1. /\ no \in Answers /\ data \in Answers /\ ok \in Answers
      /\ AnswerTo(no, c) /\ AnswerTo(data, c) /\ AnswerTo(ok, c)
      /\ data.what \notin Final
  BY DEF Reply, Answers, Commands, AnswerTo, Noisy, Final
<1> HIDE DEF no, data, ok
<1>2. <<no>> \in Seq(Answers) /\ Len(<<no>>) = 1 /\ <<no>>[1] = no
  BY <1>1
<1>3. /\ <<data, ok>> \in Seq(Answers) /\ Len(<<data, ok>>) = 2
      /\ <<data, ok>>[1] = data /\ <<data, ok>>[2] = ok
  BY <1>1
<1>4. /\ one \in Seq(Answers) /\ Len(one) = Len(w) + 1
      /\ \A k \in 1..(Len(w) + 1) : one[k] = IF k <= Len(w) THEN w[k] ELSE <<no>>[k - Len(w)]
  BY <1>2, ConcatProperties
<1>5. /\ two \in Seq(Answers) /\ Len(two) = Len(w) + 2
      /\ \A k \in 1..(Len(w) + 2) : two[k] = IF k <= Len(w) THEN w[k] ELSE <<data, ok>>[k - Len(w)]
  BY <1>3, ConcatProperties
<1>6. Len(w) \in Nat
  BY LenProperties
<1>7. \A k \in 1..Len(one) : (k \in 1..Len(w) /\ one[k] = w[k]) \/ (k = Len(w) + 1 /\ one[k] = no)
  <2> TAKE k \in 1..Len(one)
  <2>1. CASE k <= Len(w)
    BY <1>4, <1>6, <2>1
  <2>2. CASE ~(k <= Len(w))
    <3>1. k = Len(w) + 1 /\ k - Len(w) = 1
      BY <1>4, <1>6, <2>2
    <3> QED
      BY <1>2, <1>4, <2>2, <3>1
  <2> QED
    BY <2>1, <2>2
<1>8. \A k \in 1..Len(two) : \/ k \in 1..Len(w) /\ two[k] = w[k]
                             \/ k = Len(w) + 1 /\ two[k] = data
                             \/ k = Len(w) + 2 /\ two[k] = ok
  <2> TAKE k \in 1..Len(two)
  <2>1. CASE k <= Len(w)
    BY <1>5, <1>6, <2>1
  <2>2. CASE ~(k <= Len(w)) /\ k = Len(w) + 1
    <3>1. k - Len(w) = 1
      BY <1>6, <2>2
    <3> QED
      BY <1>3, <1>5, <2>2, <3>1
  <2>3. CASE ~(k <= Len(w)) /\ k # Len(w) + 1
    <3>1. k = Len(w) + 2 /\ k - Len(w) = 2
      BY <1>5, <1>6, <2>3
    <3> QED
      BY <1>3, <1>5, <2>3, <3>1
  <2> QED
    BY <2>1, <2>2, <2>3
<1> HIDE DEF one, two
<1>9. Quiet(w) => Answering(one, c) /\ Answering(two, c)
  BY <1>1, <1>7, <1>8 DEF Quiet, Answering, AnswerTo
<1>10. ASSUME Quiet(w) PROVE EndsOnce(one) /\ EndsOnce(two)
  <2>1. \A k \in 1..Len(w) : w[k].what \notin Final
    BY <1>10 DEF Quiet, Noisy, Final
  <2>2. \A k, l \in 1..Len(one) : ~(k < l /\ one[k].what \in Final)
    BY <1>4, <1>6, <1>7, <2>1
  <2>3. \A k, l \in 1..Len(two) : ~(k < l /\ two[k].what \in Final)
    BY <1>1, <1>5, <1>6, <1>8, <2>1
  <2> QED
    BY <2>2, <2>3 DEF EndsOnce
<1> QED
  BY <1>4, <1>5, <1>9, <1>10 DEF one, two, no, data, ok

\* A read is given no more than is left of the command's time.
LEMMA BudgetFits ==
  ASSUME NEW spent \in Nat, spent <= Longest
  PROVE  read_budget(spent) \in Nat /\ spent + read_budget(spent) <= Longest
BY WireOK DEF read_budget

\* The same for the first read of a command.
LEMMA FullRead ==
  ASSUME NEW a, NEW b \in Nat, a = 0, b <= Longest
  PROVE  a + b <= Longest
BY WireOK

-----------------------------------------------------------------------------
(* Lemmas about the commands.                                              *)

\* A command sent on a sound, quiet session is the only one under way.
LEMMA SendKeeps ==
  ASSUME WireTyped, again = {}, NEW kind \in {"noop", "select", "fetch"}, NEW ext \in BOOLEAN,
         NEW folder \in Folders \cup {NoFolder}, ext => kind \notin refused, Send(kind, ext, folder)
  PROVE  /\ cmd' \in Commands /\ cmd' # NoCmd
         /\ cmd'.kind = kind /\ cmd'.ext = ext /\ cmd'.folder = folder
         /\ tags' \in Nat /\ age' = 0 /\ left' \in Nat /\ left' <= Longest /\ collected' = {} /\ again' = {}
         /\ inbox' \in Seq(Commands) /\ (inbox = <<>> => inbox' = <<cmd'>>)
<1>1. /\ cmd' = [kind |-> kind, ext |-> ext, folder |-> folder, tag |-> tags + 1]
      /\ inbox' = Append(inbox, cmd') /\ tags' = tags + 1
      /\ age' = 0 /\ left' = read_budget(0) /\ collected' = {}
      /\ again' = IF ext THEN again \cup ({kind} \cap refused) ELSE again
  BY DEF Send
<1>2. cmd' \in Commands /\ cmd'.kind = kind /\ cmd'.ext = ext /\ cmd'.folder = folder /\ tags' \in Nat
  BY <1>1 DEF WireTyped, Commands
<1>3. cmd' # NoCmd
  BY <1>2 DEF NoCmd
<1>4. left' \in Nat /\ left' <= Longest
  BY <1>1, BudgetFits, WireOK
<1>5. again' = {}
  BY <1>1
<1>6. inbox' \in Seq(Commands) /\ (inbox = <<>> => inbox' = <<cmd'>>)
  <2> DEFINE c == cmd'
  <2>1. inbox \in Seq(Commands) /\ c \in Commands /\ inbox' = Append(inbox, c)
    BY <1>1, <1>2 DEF WireTyped
  <2> HIDE DEF c
  <2>2. inbox' \in Seq(Commands)
    BY <2>1, AppendProperties
  <2>3. inbox = <<>> => inbox' = <<c>>
    BY <2>1
  <2> QED
    BY <2>2, <2>3 DEF c
<1> QED
  BY <1>1, <1>2, <1>3, <1>4, <1>5, <1>6

\* A command that failed with its session leaves nothing behind.
LEMMA FailedWithSession ==
  ASSUME Failed(TRUE)
  PROVE  /\ cmd' = NoCmd /\ age' = 0 /\ left' = 0 /\ collected' = {} /\ job' = NoFolder
         /\ UNCHANGED <<tags, inbox, again, forms, lowered, refused>> /\ link' \in {link, "down"}
BY DEF Failed, FallsBack, Over

\* A command that was refused is sent once more without the extension, or given up.
LEMMA Refused ==
  ASSUME WireInv, cmd # NoCmd, Failed(FALSE)
  PROVE  \/ /\ cmd.ext /\ Send(cmd.kind, FALSE, cmd.folder) /\ UNCHANGED <<job, link, lowered>>
            /\ refused' = refused \cup {cmd.kind} /\ forms' \subseteq forms /\ refused' \cap forms' = {}
         \/ /\ cmd' = NoCmd /\ age' = 0 /\ left' = 0 /\ collected' = {} /\ job' = NoFolder
            /\ UNCHANGED <<tags, inbox, again, forms, lowered, refused>> /\ link' \in {link, "down"}
<1>1. CASE cmd.ext
  <2>1. /\ refused' = refused \cup {cmd.kind} /\ forms' = Lowered(cmd.kind) /\ lowered' = lowered
        /\ Send(cmd.kind, FALSE, cmd.folder) /\ UNCHANGED <<job, link>>
    BY <1>1 DEF Failed, FallsBack
  <2>2. forms' \subseteq forms /\ cmd.kind \notin forms'
    BY <2>1 DEF Lowered
  <2>3. refused' \cap forms' = {}
    BY <2>1, <2>2 DEF WireInv, NotAgain
  <2> QED
    BY <1>1, <2>1, <2>2, <2>3
<1>2. CASE ~cmd.ext
  BY <1>2 DEF Failed, FallsBack, Over
<1> QED
  BY <1>1, <1>2

-----------------------------------------------------------------------------
(* One lemma per group of steps.                                           *)

\* Before the first connection there is nothing under way.
LEMMA WireStart == WireInit => WireInv
<1> SUFFICES ASSUME WireInit PROVE WireInv
  OBVIOUS
<1>1. inbox \in Seq(Commands) /\ wire \in Seq(Answers) /\ Len(wire) = 0
  BY DEF WireInit
<1>2. WireTyped
  BY <1>1 DEF WireInit, WireTyped
<1>3. age + left <= Longest
  BY WireOK DEF WireInit
<1> QED
  BY <1>2, <1>3 DEF WireInit, WireInv, InStep, OwnData, NothingLate, NotAgain, Downgrades, OwnReplies

\* A connection starts without a command, and is pooled or given up without one.
LEMMA ConnectKeeps == WireInv /\ (connect \/ disconnect \/ is_connected) => WireInv'
<1> SUFFICES ASSUME WireInv, connect \/ disconnect \/ is_connected PROVE WireInv'
  OBVIOUS
<1>1. CASE connect
  <2>1. wire' \in Seq(Answers) /\ inbox' \in Seq(Commands) /\ Len(wire') = 0 /\ 0 \in Nat
    BY <1>1 DEF connect
  <2>2. cmd = NoCmd
    BY <1>1 DEF WireInv, InStep, connect
  <2>3. WireTyped'
    BY <1>1, <2>1 DEF connect, WireInv, WireTyped
  <2>4. InStep' /\ OwnData' /\ OwnReplies'
    BY <1>1, <2>2 DEF connect, WireInv, InStep, OwnData, OwnReplies
  <2>5. NothingLate'
    BY <1>1, <2>1, <2>2 DEF connect, NothingLate, Quiet
  <2>6. NotAgain' /\ (age + left <= Longest)'
    BY <1>1 DEF connect, WireInv, NotAgain, Downgrades
  <2> QED
    BY <2>3, <2>4, <2>5, <2>6 DEF WireInv
<1>2. CASE disconnect
  <2>1. wire' \in Seq(Answers) /\ inbox' \in Seq(Commands)
    BY <1>2 DEF disconnect, Gone
  <2> QED
    BY <1>2, <2>1 DEF disconnect, Gone, WireInv, WireTyped, InStep, OwnData, NothingLate, NotAgain, Downgrades, OwnReplies
<1>3. CASE is_connected
  BY <1>3 DEF is_connected, WireInv, WireTyped, InStep, OwnData, NothingLate, NotAgain, Downgrades, OwnReplies
<1> QED
  BY <1>1, <1>2, <1>3

\* A command starts, for the step j the sync is at from then on.
LEMMA BeginKeeps ==
  ASSUME WireInv, NEW kind \in {"noop", "select", "fetch"}, NEW folder \in Folders \cup {NoFolder},
         link # "down", cmd = NoCmd, Begin(kind, folder),
         broken => job' \in {job, NoFolder},
         ~broken => /\ job' = folder /\ (folder = NoFolder <=> kind = "noop")
                    /\ folder # NoFolder => link = "up",
         UNCHANGED <<link, broken, forms, wire, taken, refused, lowered>>
  PROVE  WireInv'
<1>1. CASE broken
  <2>1. UNCHANGED <<cmd, tags, inbox, age, left, collected, again>>
    BY <1>1 DEF Begin
  <2> QED
    BY <1>1, <2>1 DEF WireInv, WireTyped, InStep, OwnData, NothingLate, NotAgain, Downgrades, OwnReplies
<1>2. CASE ~broken
  <2>1. Send(kind, kind \in forms, folder) /\ (kind \in forms) \in BOOLEAN
    BY <1>2 DEF Begin
  <2>2. WireTyped /\ again = {} /\ (kind \in forms => kind \notin refused)
    BY DEF WireInv, NotAgain, Downgrades
  <2>3. /\ cmd' \in Commands /\ cmd' # NoCmd
        /\ cmd'.kind = kind /\ cmd'.ext = (kind \in forms) /\ cmd'.folder = folder
        /\ tags' \in Nat /\ age' = 0 /\ left' \in Nat /\ left' <= Longest /\ collected' = {} /\ again' = {}
        /\ inbox' \in Seq(Commands) /\ (inbox = <<>> => inbox' = <<cmd'>>)
    BY <2>1, <2>2, SendKeeps
  <2>4. inbox = <<>> /\ Quiet(wire) /\ wire' = wire
    BY <1>2 DEF WireInv, NothingLate
  <2>5. WireTyped'
    BY <1>2, <2>3 DEF WireInv, WireTyped
  <2>6. kind = "noop" => ~(kind \in forms)
    BY DEF WireInv, WireTyped
  <2>7. InStep'
    BY <1>2, <2>3, <2>6 DEF WireInv, InStep
  <2>8. OwnData' /\ OwnReplies' /\ (age + left <= Longest)'
    <3>1. OwnData' /\ OwnReplies'
      BY <2>3 DEF WireInv, OwnData, OwnReplies
    <3>2. age' = 0 /\ left' \in Nat /\ left' <= Longest /\ Longest \in Nat
      BY <2>3, WireOK
    <3>3. age' + left' <= Longest
      BY <3>2, FullRead
    <3> QED
      BY <3>1, <3>3
  <2>9. NothingLate'
    <3>1. Quiet(wire') /\ inbox' = <<cmd'>>
      BY <2>3, <2>4
    <3>2. Answering(wire', cmd')
      BY <3>1 DEF Quiet, Answering, AnswerTo
    <3>3. EndsOnce(wire')
      BY <3>1 DEF Quiet, EndsOnce
    <3> QED
      BY <2>3, <3>1, <3>2, <3>3 DEF NothingLate
  <2>10. NotAgain'
    BY <2>3 DEF WireInv, NotAgain, Downgrades
  <2> QED
    BY <2>5, <2>7, <2>8, <2>9, <2>10 DEF WireInv
<1> QED
  BY <1>1, <1>2

\* The three commands, each started when none is awaited.
LEMMA CommandKeeps ==
  ASSUME WireInv, is_healthy \/ \E f \in Folders : select(f) \/ uid_fetch(f)
  PROVE  WireInv'
<1>1. CASE is_healthy
  <2>1. link # "down" /\ cmd = NoCmd /\ Begin("noop", NoFolder) /\ job' = job
        /\ UNCHANGED <<link, broken, forms, wire, taken, refused, lowered>>
    BY <1>1 DEF is_healthy
  <2>2. job = NoFolder
    BY <1>1 DEF is_healthy, WireInv, InStep
  <2> QED
    BY <2>1, <2>2, BeginKeeps
<1>2. ASSUME NEW f \in Folders, select(f) PROVE WireInv'
  <2>1. link = "up" /\ cmd = NoCmd /\ Begin("select", f) /\ job' = (IF broken THEN NoFolder ELSE f)
        /\ UNCHANGED <<link, broken, forms, wire, taken, refused, lowered>>
    BY <1>2 DEF select
  <2> QED
    BY <2>1, WireOK, BeginKeeps
<1>3. ASSUME NEW f \in Folders, uid_fetch(f) PROVE WireInv'
  <2>1. job = f /\ job' = job /\ cmd = NoCmd /\ Begin("fetch", f)
        /\ UNCHANGED <<link, broken, forms, wire, taken, refused, lowered>>
    BY <1>3 DEF uid_fetch
  <2>2. link = "up" /\ f # NoFolder
    BY <2>1, WireOK DEF WireInv, InStep
  <2> QED
    BY <2>1, <2>2, BeginKeeps
<1> QED
  BY <1>1, <1>2, <1>3

\* The session is lost with the command.
LEMMA FailKeeps ==
  ASSUME WireInv, fail, Failed(TRUE), wire' \in Seq(Answers), UNCHANGED taken
  PROVE  WireInv'
<1>1. /\ cmd' = NoCmd /\ age' = 0 /\ left' = 0 /\ collected' = {} /\ job' = NoFolder
      /\ UNCHANGED <<tags, inbox, again, forms, lowered, refused>> /\ link' \in {link, "down"}
  BY FailedWithSession
<1>2. broken' = TRUE
  BY DEF fail
<1>3. WireTyped'
  BY <1>1, <1>2 DEF WireInv, WireTyped
<1> QED
  BY <1>1, <1>2, <1>3, WireOK DEF WireInv, InStep, OwnData, NothingLate, NotAgain, Downgrades, OwnReplies

\* One reply is read: the answer to the command awaited, noise, or its failure.
LEMMA ReadKeeps == WireInv /\ Read => WireInv'
<1> SUFFICES ASSUME WireInv, Read PROVE WireInv'
  OBVIOUS
<1> DEFINE r == Head(wire)
<1>1. cmd # NoCmd /\ wire # <<>> /\ wire' = Tail(wire) /\ cmd \in Commands /\ wire \in Seq(Answers)
  BY DEF Read, WireInv, WireTyped
<1>2. ~broken /\ link # "down" /\ Answering(wire, cmd) /\ EndsOnce(wire)
      /\ (inbox = <<>> \/ (inbox = <<cmd>> /\ Quiet(wire)))
  BY <1>1 DEF WireInv, InStep, NothingLate
<1>3. /\ r \in Answers /\ wire' \in Seq(Answers) /\ (Quiet(wire) => r.what \in Noisy /\ Quiet(wire'))
      /\ EndsOnce(wire') /\ (r.what \in Final => Quiet(wire'))
      /\ AnswerTo(r, cmd) /\ Answering(wire', cmd)
  BY <1>1, <1>2, TailOfWire
<1>4. \/ /\ r.what = "data" /\ collected' = collected \cup {r} /\ Waits /\ UNCHANGED taken
      \/ /\ r.what \in {"ok", "no"} /\ ~Mine(r) /\ Waits /\ UNCHANGED <<collected, taken>>
      \/ r.what = "still here" /\ Waits /\ UNCHANGED <<collected, taken>>
      \/ r.what = "ok" /\ Mine(r) /\ Completed
      \/ r.what = "no" /\ Mine(r) /\ Failed(FALSE) /\ UNCHANGED <<broken, taken>>
      \/ r.what = "bye" /\ fail /\ Failed(TRUE) /\ UNCHANGED taken
  BY DEF Read
<1> HIDE DEF r
<1>5. r.what \in Final => inbox = <<>>
  BY <1>2, <1>3 DEF Final, Noisy
<1>6. CASE Waits /\ taken' = taken /\ \/ collected' = collected
                                      \/ r.what = "data" /\ collected' = collected \cup {r}
  <2>1. /\ left' = read_budget(age)
        /\ UNCHANGED <<broken, cmd, tags, age, job, inbox, link, forms, refused, lowered, again>>
    BY <1>6 DEF Waits
  <2>2. age \in Nat /\ age <= Longest
    BY WireOK DEF WireInv, WireTyped
  <2>3. left' \in Nat /\ age + left' <= Longest
    BY <2>1, <2>2, BudgetFits
  <2>4. WireTyped'
    BY <1>3, <2>1, <2>3 DEF WireInv, WireTyped
  <2>5. OwnData'
    <3>1. r.what = "data" => r.from = cmd.folder
      BY <1>3 DEF AnswerTo, Noisy
    <3> QED
      BY <1>1, <1>6, <2>1, <3>1 DEF WireInv, OwnData
  <2>6. NothingLate'
    BY <1>1, <1>2, <1>3, <2>1 DEF NothingLate
  <2> QED
    BY <1>6, <2>1, <2>3, <2>4, <2>5, <2>6 DEF WireInv, InStep, NotAgain, Downgrades, OwnReplies
<1>7. CASE r.what = "ok" /\ Mine(r) /\ Completed
  <2>1. /\ cmd' = NoCmd /\ age' = 0 /\ left' = 0 /\ collected' = {}
        /\ taken' = taken \cup {[into |-> job, data |-> d] : d \in IF job = NoFolder THEN {} ELSE collected}
        /\ job' = (IF cmd.kind = "fetch" THEN NoFolder ELSE job)
        /\ link' = (IF cmd.kind = "noop" THEN "up" ELSE link)
        /\ UNCHANGED <<broken, forms, tags, inbox, refused, lowered, again>>
    BY <1>7 DEF Completed, Over
  <2>2. Quiet(wire') /\ inbox' = <<>>
    BY <1>3, <1>5, <1>7, <2>1 DEF Final
  <2>3. WireTyped'
    BY <1>3, <2>1 DEF WireInv, WireTyped
  <2>4. OwnReplies'
    <3>1. ASSUME job # NoFolder, NEW d \in collected PROVE d.from = job
      BY <1>1, <3>1 DEF WireInv, InStep, OwnData
    <3> SUFFICES ASSUME NEW s \in taken' PROVE s.data.from = s.into
      BY DEF OwnReplies
    <3>2. CASE s \in taken
      BY <3>2 DEF WireInv, OwnReplies
    <3>3. CASE s \notin taken
      <4>1. job # NoFolder /\ \E d \in collected : s = [into |-> job, data |-> d]
        BY <2>1, <3>3
      <4> QED
        BY <3>1, <4>1
    <3> QED
      BY <3>2, <3>3
  <2>5. InStep' /\ OwnData' /\ NothingLate'
    BY <2>1, <2>2 DEF WireInv, InStep, OwnData, NothingLate
  <2> QED
    BY <2>1, <2>3, <2>4, <2>5, WireOK DEF WireInv, NotAgain, Downgrades
<1>8. CASE r.what = "no" /\ Failed(FALSE) /\ UNCHANGED <<broken, taken>>
  <2>1. Quiet(wire') /\ inbox = <<>>
    BY <1>3, <1>5, <1>8 DEF Final
  <2>2. CASE /\ cmd.ext /\ Send(cmd.kind, FALSE, cmd.folder) /\ UNCHANGED <<job, link, lowered>>
             /\ refused' = refused \cup {cmd.kind} /\ forms' \subseteq forms /\ refused' \cap forms' = {}
    <3>1. cmd.kind \in {"noop", "select", "fetch"} /\ cmd.folder \in Folders \cup {NoFolder}
      BY <1>1 DEF Commands
    <3>2. /\ cmd' \in Commands /\ cmd' # NoCmd
          /\ cmd'.kind = cmd.kind /\ cmd'.ext = FALSE /\ cmd'.folder = cmd.folder
          /\ tags' \in Nat /\ age' = 0 /\ left' \in Nat /\ left' <= Longest /\ collected' = {} /\ again' = {}
          /\ inbox' \in Seq(Commands) /\ (inbox = <<>> => inbox' = <<cmd'>>)
      BY <2>2, <3>1, SendKeeps DEF WireInv, NotAgain, Downgrades
    <3>3. WireTyped'
      BY <1>3, <1>8, <2>2, <3>2 DEF WireInv, WireTyped
    <3>4. InStep'
      BY <1>1, <1>8, <2>2, <3>2 DEF WireInv, InStep
    <3>5. NothingLate'
      BY <2>1, <3>2 DEF NothingLate, Quiet, Answering, AnswerTo, EndsOnce
    <3> QED
      <4>1. OwnData' /\ OwnReplies' /\ NotAgain'
        BY <1>8, <2>2, <3>2 DEF WireInv, OwnData, NotAgain, Downgrades, OwnReplies
      <4>2. age' = 0 /\ left' \in Nat /\ left' <= Longest /\ Longest \in Nat
        BY <3>2, WireOK
      <4>3. age' + left' <= Longest
        BY <4>2, FullRead
      <4> QED
        BY <3>3, <3>4, <3>5, <4>1, <4>3 DEF WireInv
  <2>3. CASE /\ cmd' = NoCmd /\ age' = 0 /\ left' = 0 /\ collected' = {} /\ job' = NoFolder
             /\ UNCHANGED <<tags, inbox, again, forms, lowered, refused>> /\ link' \in {link, "down"}
    <3>1. WireTyped'
      BY <1>3, <1>8, <2>3 DEF WireInv, WireTyped
    <3>2. NothingLate'
      BY <2>1, <2>3 DEF NothingLate
    <3> QED
      BY <1>8, <2>3, <3>1, <3>2, WireOK DEF WireInv, InStep, OwnData, NotAgain, Downgrades, OwnReplies
  <2> QED
    BY <1>1, <1>8, <2>2, <2>3, Refused
<1>9. CASE r.what = "bye" /\ fail /\ Failed(TRUE) /\ UNCHANGED taken
  BY <1>3, <1>9, FailKeeps
<1> QED
  BY <1>4, <1>6, <1>7, <1>8, <1>9

\* The server answers what was sent, or adds noise; time passes.
LEMMA ServeKeeps == WireInv /\ (Serve \/ Noise \/ Tick) => WireInv'
<1> SUFFICES ASSUME WireInv, Serve \/ Noise \/ Tick PROVE WireInv'
  OBVIOUS
<1>1. wire \in Seq(Answers) /\ inbox \in Seq(Commands)
  BY DEF WireInv, WireTyped
<1>2. CASE Serve
  <2> DEFINE c == Head(inbox)
  <2>1. /\ inbox # <<>> /\ inbox' = Tail(inbox)
        /\ UNCHANGED <<link, broken, forms, cmd, tags, age, left, collected, job, taken, refused, lowered, again>>
        /\ wire' = wire \o <<Reply("data", c), Reply("ok", c)>> \/ wire' = wire \o <<Reply("no", c)>>
    BY <1>2 DEF Serve, Replies
  <2>2. c \in Commands /\ inbox' \in Seq(Commands)
    BY <1>1, <2>1, HeadTailProperties
  <2>3. wire' \in Seq(Answers) /\ (Quiet(wire) => Answering(wire', c) /\ EndsOnce(wire'))
    BY <1>1, <2>1, <2>2, AnswerOnWire
  <2>4. WireTyped'
    BY <2>1, <2>2, <2>3 DEF WireInv, WireTyped
  <2>5. NothingLate'
    <3> SUFFICES ASSUME ~broken, link # "down"
                 PROVE  cmd # NoCmd /\ Answering(wire', cmd) /\ EndsOnce(wire') /\ inbox' = <<>>
      BY <2>1 DEF NothingLate
    <3>1. cmd # NoCmd /\ inbox = <<cmd>> /\ Quiet(wire)
      BY <2>1 DEF WireInv, NothingLate
    <3>2. c = cmd /\ inbox' = <<>>
      BY <2>1, <3>1
    <3> QED
      BY <2>3, <3>1, <3>2
  <2> QED
    BY <2>1, <2>4, <2>5 DEF WireInv, InStep, OwnData, NotAgain, Downgrades, OwnReplies
<1>3. CASE Noise
  <2>1. PICK what \in {"still here", "bye"} : wire' = wire \o <<Reply(what, NoCmd)>>
    BY <1>3 DEF Noise, Replies
  <2>2. UNCHANGED <<link, broken, forms, cmd, tags, age, left, collected, job, inbox, taken, refused, lowered, again>>
    BY <1>3 DEF Noise
  <2>3. Reply(what, NoCmd) \in Answers /\ Reply(what, NoCmd).what \in Noisy
    BY DEF Reply, NoCmd, Answers, Noisy
  <2>4. /\ wire' \in Seq(Answers) /\ (Quiet(wire) => Quiet(wire')) /\ (EndsOnce(wire) => EndsOnce(wire'))
        /\ (Answering(wire, cmd) => Answering(wire', cmd))
    BY <1>1, <2>1, <2>3, NoiseOnWire
  <2>5. WireTyped'
    BY <2>2, <2>4 DEF WireInv, WireTyped
  <2>6. NothingLate'
    BY <2>2, <2>4 DEF WireInv, NothingLate
  <2> QED
    BY <2>2, <2>5, <2>6 DEF WireInv, InStep, OwnData, NotAgain, Downgrades, OwnReplies
<1>4. CASE Tick
  <2>1. /\ left > 0 /\ left' = left - 1 /\ age' = age + 1
        /\ UNCHANGED <<link, broken, forms, cmd, tags, collected, job, inbox, wire, taken, refused, lowered, again>>
    BY <1>4 DEF Tick
  <2>2. left' \in Nat /\ age' \in Nat /\ age' + left' <= Longest
    BY <2>1, WireOK DEF WireInv, WireTyped
  <2> QED
    BY <2>1, <2>2 DEF WireInv, WireTyped, InStep, OwnData, NothingLate, NotAgain, Downgrades, OwnReplies
<1> QED
  BY <1>2, <1>3, <1>4

\* On any connection, with any folders, limits, refusals, noise and failures: no
\* reply reaches a command that did not ask for it, none waits past the limit, and
\* what the server refused is not asked again (session.rs, execute; mailbox.rs).
THEOREM WireIsKept == WireSpec => []WireKept
<1>1. ASSUME WireInv, [WireNext]_wireVars PROVE WireInv'
  <2>1. CASE connect \/ disconnect \/ is_connected
    BY <1>1, <2>1, ConnectKeeps
  <2>2. CASE is_healthy \/ \E f \in Folders : select(f) \/ uid_fetch(f)
    BY <1>1, <2>2, CommandKeeps
  <2>3. CASE TimedOut \/ StreamError
    BY <1>1, <2>3, FailKeeps DEF TimedOut, StreamError, WireInv, WireTyped
  <2>4. CASE Read
    BY <1>1, <2>4, ReadKeeps
  <2>5. CASE Serve \/ Noise \/ Tick
    BY <1>1, <2>5, ServeKeeps
  <2>6. CASE UNCHANGED wireVars
    BY <1>1, <2>6 DEF wireVars, WireInv, WireTyped, InStep, OwnData, NothingLate, NotAgain, Downgrades, OwnReplies
  <2> QED
    BY <1>1, <2>1, <2>2, <2>3, <2>4, <2>5, <2>6 DEF WireNext
<1>2. WireInv => WireKept
  BY WireOK DEF WireInv, WireTyped, WireKept, Bounded, NotAgain
<1> QED
  BY <1>1, <1>2, WireStart, PTL DEF WireSpec
=============================================================================
