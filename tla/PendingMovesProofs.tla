------------------------- MODULE PendingMovesProofs -------------------------
(***************************************************************************)
(* Undoable deletes and moves, for any messages, folders, runs, batches    *)
(* and crashes: the inductive invariants behind MovesKept and BulkHonest   *)
(* of PendingMoves, and behind TimerExact of GraceTimer.                   *)
(***************************************************************************)
EXTENDS PendingMoves, GraceTimer, FiniteSetTheorems, TLAPS

-----------------------------------------------------------------------------
(* What a step does to the run that takes it.                              *)

\* The items a run still holds.
Items(r) == run[r].todo \cup run[r].grp

\* A run goes on with what it has, or with less.
LEMMA GotoRun ==
  ASSUME run \in [Runs -> Run], NEW r \in Runs, NEW label \in Labels, NEW link \in BOOLEAN,
         Goto(r, label, link)
  PROVE  /\ run' \in [Runs -> Run]
         /\ \A q \in Runs \ {r} : run'[q] = run[q]
         /\ run'[r].pc = label
         /\ run'[r].todo \subseteq run[r].todo
         /\ label \notin {"idle", "group"} => /\ run'[r].todo = run[r].todo
                                              /\ run'[r].grp = run[r].grp
                                              /\ run'[r].dest = run[r].dest
         /\ label \in {"idle", "group"} => run'[r].grp = {}
         /\ label = "group" => run'[r].todo = run[r].todo
         /\ label = "idle" => run'[r].todo = {}
<1>1. run[r] \in Run
  OBVIOUS
<1>2. CASE label = "idle"
  <2>1. run' = [run EXCEPT ![r] = NoRun]
    BY <1>2 DEF Goto
  <2> QED
    BY <1>2, <2>1 DEF NoRun, Run, Labels
<1>3. CASE label = "group"
  <2>1. run' = [run EXCEPT ![r] = [@ EXCEPT !.pc = label, !.grp = {}, !.dest = "none", !.up = link]]
    BY <1>3 DEF Goto
  <2> QED
    BY <1>1, <1>3, <2>1 DEF Run
<1>4. CASE label \notin {"idle", "group"}
  <2>1. run' = [run EXCEPT ![r] = [@ EXCEPT !.pc = label, !.up = link]]
    BY <1>4 DEF Goto
  <2> QED
    BY <1>1, <1>4, <2>1 DEF Run
<1> QED
  BY <1>2, <1>3, <1>4

\* The commands, as steps of a run.
Command(r) ==
  \/ Move(r) \/ Copy(r) \/ Mark(r) \/ Expunge(r) \/ Search(r) \/ Wide(r) \/ Local(r)
  \/ Count(r)

\* What each command may lead to.
LEMMA CommandRun ==
  ASSUME TypeOK, NEW r \in Runs, Command(r)
  PROVE  \E label \in Labels, link \in BOOLEAN : Goto(r, label, link)
<1>1. run[r].up \in BOOLEAN
  BY DEF TypeOK, Run
<1> QED
  BY <1>1
     DEF Command, Count, Move, Copy, Mark, Expunge, Search, Wide, Local, GroupFailed, RemoveFailed,
         ExpungeFailed, Up, Labels

-----------------------------------------------------------------------------
(* Types.                                                                  *)

LEMMA PendTypes ==
  ASSUME ConstantsOK, pend \in [Uids -> Pending]
  PROVE  /\ NoRow \in Pending
         /\ \A us : record_failure(us) \in [Uids -> Pending]
         /\ \A us : Without(us) \in [Uids -> Pending]
<1>1. NoRow \in Pending
  BY DEF NoRow, Pending
<1>2. ASSUME NEW u \in Uids
      PROVE  [pend[u] EXCEPT !.tries = @ + 1] \in Pending
  BY DEF Pending
<1> QED
  BY <1>1, <1>2 DEF record_failure, Without

LEMMA ItemTypes ==
  ASSUME ConstantsOK, TypeOK
  PROVE  /\ DueItems \subseteq Item
         /\ \A r \in Runs : Items(r) \subseteq Item /\ GroupUids(r) \subseteq Uids
<1>1. ASSUME NEW u \in Uids, row[u] # NoMsg, pend[u].act # "none"
      PROVE  [uid |-> u, msg |-> row[u], act |-> pend[u].act, to |-> pend[u].to,
              tries |-> pend[u].tries, batch |-> pend[u].batch] \in Item
  BY <1>1 DEF TypeOK, Pending, Item
<1> QED
  BY <1>1 DEF DueItems, Items, GroupUids, UidsOf, TypeOK, Run, Item

\* Commands change the server, rows of the table and the run.
LEMMA CommandTypes ==
  ASSUME ConstantsOK, TypeOK, NEW r \in Runs, Command(r)
  PROVE  TypeOK'
<1>1. /\ run' \in [Runs -> Run] /\ run[r] \in Run /\ run[r].grp \subseteq Item
      /\ GroupUids(r) \subseteq Uids
  BY CommandRun, GotoRun, ItemTypes DEF TypeOK, Items
<1>2. pend' \in [Uids -> Pending]
  <2>1. \/ pend' = pend
        \/ \E us : pend' = record_failure(us)
        \/ \E us : pend' = Without(us)
    BY DEF Command, Count, Move, Copy, Mark, Expunge, Search, Wide, Local, GroupFailed, RemoveFailed,
           ExpungeFailed
  <2> QED
    BY <2>1, PendTypes DEF TypeOK
<1>3. /\ \A us : BoxWithout(us) \in [Uids -> Uids \cup {NoMsg}]
      /\ \A us : marked \ us \subseteq Uids
      /\ FolderMarks(r) \subseteq Uids
  BY DEF TypeOK, BoxWithout, FolderMarks
<1>4. /\ UNCHANGED <<known, due, bounds, asked, confirmed, handles, takenBack>>
      /\ row' \in [Uids -> Uids \cup {NoMsg}] /\ destroyed' \subseteq Uids
  <2>1. {i.msg : i \in Group(r)} \subseteq Uids
    BY <1>1 DEF Group, Item
  <2>2. [u \in Uids |-> IF u \in GroupUids(r) THEN NoMsg ELSE row[u]] \in [Uids -> Uids \cup {NoMsg}]
    BY DEF TypeOK
  <2>3. UNCHANGED <<row, destroyed>> \/ Local(r)
    BY DEF Command, Count, Move, Copy, Mark, Expunge, Search, Wide
  <2>4. Stay
    BY DEF Command, Count, Move, Copy, Mark, Expunge, Search, Wide, Local
  <2>5. CASE Local(r)
    BY <2>1, <2>2, <2>4, <2>5 DEF Local, Stay, TypeOK
  <2> QED
    BY <2>3, <2>4, <2>5 DEF Stay, TypeOK
<1>5. box' \in [Uids -> Uids \cup {NoMsg}] /\ marked' \subseteq Uids
  <2>1. \/ UNCHANGED box
        \/ \E us : box' = BoxWithout(us)
    BY DEF Command, Count, Move, Copy, Mark, Expunge, Search, Wide, Local, Expunged, serverVars
  <2>2. \/ UNCHANGED marked
        \/ \E us : marked' = marked \ us
        \/ marked' = marked \cup {u \in GroupUids(r) : box[u] # NoMsg}
    BY DEF Command, Count, Move, Copy, Mark, Expunge, Search, Wide, Local, Expunged, serverVars
  <2> QED
    BY <1>1, <1>3, <2>1, <2>2 DEF TypeOK
<1>6. filed' \in [Uids -> [Dests -> 0..2]] /\ carried' \subseteq Nat
  <2>1. FiledIn(GroupUids(r), run[r].dest) \in [Uids -> [Dests -> 0..2]]
    <3>1. ASSUME NEW m \in Uids
          PROVE  [filed[m] EXCEPT ![run[r].dest] = IF @ = 0 THEN 1 ELSE 2] \in [Dests -> 0..2]
      <4>1. filed[m] \in [Dests -> 0..2]
        BY DEF TypeOK
      <4> DEFINE d == run[r].dest
                 more == IF filed[m][d] = 0 THEN 1 ELSE 2
      <4>2. more \in 0..2
        OBVIOUS
      <4> HIDE DEF more, d
      <4>3. [filed[m] EXCEPT ![d] = more] \in [Dests -> 0..2]
        BY <4>1, <4>2
      <4> QED
        BY <4>3 DEF more, d
    <3> QED
      BY <3>1 DEF TypeOK, FiledIn
  <2>2. {i.batch : i \in {j \in Group(r) : box[j.uid] # NoMsg}} \subseteq Nat
    BY <1>1 DEF Group, Item
  <2>3. /\ filed' = filed \/ filed' = FiledIn(GroupUids(r), run[r].dest)
        /\ carried' = carried \/ CarriedFor(r)
    BY DEF Command, Count, Move, Copy, Mark, Expunge, Search, Wide, Local, serverVars
  <2> QED
    BY <2>1, <2>2, <2>3 DEF TypeOK, CarriedFor
<1> QED
  BY <1>1, <1>2, <1>4, <1>5, <1>6 DEF TypeOK, bounds

\* What queueing leaves behind: rows of a new batch for messages that are
\* cached, in a folder that takes them.
LEMMA QueueFacts ==
  ASSUME NEW sel \in SUBSET Uids, NEW target \in Dests, NEW atOnce \in BOOLEAN,
         QueueMove(sel, target, atOnce)
  PROVE  \E us \in SUBSET Uids :
           /\ \A u \in us : row[u] # NoMsg
           /\ us # {} /\ target = "Work" => "Work" \in known
           /\ pend' = [u \in Uids |->
                IF u \in us THEN [act |-> Action(target), to |-> DestId(target),
                                  batch |-> batch', tries |-> 0]
                ELSE pend[u]]
           /\ asked' = asked \cup {<<row[u], target>> : u \in us}
           /\ handles' \in {handles, handles \cup {batch'}}
<1> DEFINE shares == {sel \cap SameFolder(u) : u \in sel}
           verdict(us) == Share(HomeOf[CHOOSE u \in us : TRUE], us, target)
           failing == {us \in shares : verdict(us) = "error"}
           pendings == {us \in shares : verdict(us) = "pending"}
<1>1. PICK queued \in SUBSET pendings :
        LET us == {u \in UNION queued : row[u] # NoMsg} IN
          /\ pend' = [u \in Uids |->
               IF u \in us THEN [act |-> Action(target), to |-> DestId(target),
                                 batch |-> batch', tries |-> 0]
               ELSE pend[u]]
          /\ asked' = asked \cup {<<row[u], target>> : u \in us}
          /\ handles' = IF failing = {} /\ us # {} /\ ~atOnce
                          THEN handles \cup {batch'} ELSE handles
  BY DEF QueueMove, queue_rows
<1> DEFINE us == {u \in UNION queued : row[u] # NoMsg}
<1>2. us \in SUBSET Uids /\ \A u \in us : row[u] # NoMsg
  OBVIOUS
<1>3. ASSUME us # {}, target = "Work"
      PROVE  "Work" \in known
  <2>1. PICK share \in pendings : TRUE
    BY <1>3
  <2>2. verdict(share) = "pending"
    BY <2>1
  <2> QED
    BY <1>3, <2>2 DEF Share
<1> QED
  BY <1>1, <1>2, <1>3

\* Starting, ending and picking the next group.
LEMMA TakeFacts ==
  ASSUME ConstantsOK, TypeOK, NEW r \in Runs, TakeGroup(r)
  PROVE  \E g \in Groups(run[r].todo) :
           LET targets == pending_target(CHOOSE i \in g : TRUE)
               rest == run[r].todo \ g IN
           \/ /\ run' = [run EXCEPT ![r].todo = rest]
              /\ pend' = Without(UidsOf(g)) /\ known' = known
           \/ /\ run' = [run EXCEPT ![r] = [@ EXCEPT !.todo = rest, !.grp = g, !.pc = "count"]]
              /\ pend' = Without(GivenUp(g)) /\ known' = known
           \/ \E d \in targets :
                /\ known' = known \cup {d}
                /\ run' = [run EXCEPT ![r] =
                     [@ EXCEPT !.todo = rest, !.grp = g, !.dest = d, !.pc = FirstCommand]]
                /\ pend' = pend
BY DEF TakeGroup

LEMMA GroupFacts ==
  ASSUME TypeOK, NEW r \in Runs, NEW g \in Groups(run[r].todo)
  PROVE  /\ g \subseteq run[r].todo /\ g \subseteq Item /\ g # {}
         /\ (CHOOSE i \in g : TRUE) \in g
         /\ \A i, j \in g : i.act = j.act /\ i.to = j.to
         /\ pending_target(CHOOSE i \in g : TRUE) \subseteq Dests
<1>1. run[r].todo \subseteq Item
  BY DEF TypeOK, Run
<1>2. PICK i \in run[r].todo :
        g = {j \in run[r].todo : HomeOf[j.uid] = HomeOf[i.uid] /\ j.act = i.act /\ j.to = i.to}
  BY DEF Groups
<1>3. i \in g
  BY <1>2
<1> QED
  BY <1>1, <1>2, <1>3 DEF pending_target, TypeOK, Dests

LEMMA RunTypes ==
  ASSUME ConstantsOK, TypeOK, NEW r \in Runs, StartPush(r) \/ Finish(r) \/ TakeGroup(r) \/ Crash(r)
  PROVE  TypeOK'
<1>1. NoRun \in Run
  BY DEF NoRun, Run, Labels
<1>2. CASE StartPush(r)
  <2>1. [NoRun EXCEPT !.pc = "group", !.todo = DueItems] \in Run
    BY ItemTypes DEF NoRun, Run, Labels
  <2> QED
    BY <1>2, <2>1 DEF StartPush, Stay, TypeOK, serverVars, bounds
<1>3. CASE Finish(r) \/ Crash(r)
  <2>1. run' \in [Runs -> Run]
    BY <1>3, GotoRun DEF Finish, Crash, TypeOK, Labels
  <2> QED
    <3>1. CASE Finish(r)
      BY <2>1, <3>1 DEF Finish, Stay, TypeOK, serverVars, bounds
    <3>2. CASE Crash(r)
      BY <2>1, <3>2 DEF Crash, TypeOK, serverVars, ghosts
    <3> QED
      BY <1>3, <3>1, <3>2
<1>4. CASE TakeGroup(r)
  <2>1. PICK g \in Groups(run[r].todo) :
           LET targets == pending_target(CHOOSE i \in g : TRUE)
               rest == run[r].todo \ g IN
           \/ /\ run' = [run EXCEPT ![r].todo = rest]
              /\ pend' = Without(UidsOf(g)) /\ known' = known
           \/ /\ run' = [run EXCEPT ![r] = [@ EXCEPT !.todo = rest, !.grp = g, !.pc = "count"]]
              /\ pend' = Without(GivenUp(g)) /\ known' = known
           \/ \E d \in targets :
                /\ known' = known \cup {d}
                /\ run' = [run EXCEPT ![r] =
                     [@ EXCEPT !.todo = rest, !.grp = g, !.dest = d, !.pc = FirstCommand]]
                /\ pend' = pend
    BY <1>4, TakeFacts
  <2>2. run[r] \in Run /\ FirstCommand \in Labels
    BY DEF TypeOK, FirstCommand, Labels
  <2>3. g \in SUBSET Item /\ g \subseteq run[r].todo
        /\ pending_target(CHOOSE i \in g : TRUE) \subseteq Dests
    BY GroupFacts
  <2>4. pend' \in [Uids -> Pending]
    BY <2>1, PendTypes DEF TypeOK
  <2>5. known' \subseteq Dests
    BY <2>1, <2>3 DEF TypeOK
  <2>6. run' \in [Runs -> Run]
    <3>1. [run[r] EXCEPT !.todo = @ \ g] \in Run
      BY <2>2 DEF Run
    <3>2. ASSUME NEW d \in Dests
          PROVE  [run[r] EXCEPT !.todo = @ \ g, !.grp = g, !.dest = d, !.pc = FirstCommand] \in Run
      BY <2>2, <2>3 DEF Run
    <3>3. [run[r] EXCEPT !.todo = @ \ g, !.grp = g, !.pc = "count"] \in Run
      BY <2>2, <2>3 DEF Run, Labels
    <3>4. \/ run' = [run EXCEPT ![r] = [run[r] EXCEPT !.todo = run[r].todo \ g]]
          \/ run' = [run EXCEPT ![r] = [run[r] EXCEPT !.todo = run[r].todo \ g, !.grp = g, !.pc = "count"]]
          \/ \E d \in Dests : run' = [run EXCEPT ![r] =
               [run[r] EXCEPT !.todo = run[r].todo \ g, !.grp = g, !.dest = d, !.pc = FirstCommand]]
      BY <2>1, <2>3
    <3> QED
      BY <3>1, <3>2, <3>3, <3>4 DEF TypeOK
  <2> QED
    BY <1>4, <2>4, <2>5, <2>6 DEF TakeGroup, TypeOK, serverVars, bounds, ghosts
<1> QED
  BY <1>2, <1>3, <1>4

LEMMA UserTypes ==
  ASSUME ConstantsOK, TypeOK,
         \/ \E sel \in SUBSET Uids, target \in Dests, atOnce \in BOOLEAN : QueueMove(sel, target, atOnce)
         \/ \E b \in Batches : Lapse(b) \/ Undo(b)
         \/ \E r \in Runs, us \in SUBSET Uids : StartPurge(r, us)
  PROVE  TypeOK'
<1>1. ASSUME NEW sel \in SUBSET Uids, NEW target \in Dests, NEW atOnce \in BOOLEAN,
             QueueMove(sel, target, atOnce)
      PROVE  TypeOK'
  <2>1. batch' = batch + 1 /\ batch' \in Nat /\ due' \subseteq Nat
    BY <1>1 DEF QueueMove, queue_rows, TypeOK
  <2>2. PICK us \in SUBSET Uids :
           /\ \A u \in us : row[u] # NoMsg
           /\ pend' = [u \in Uids |->
                IF u \in us THEN [act |-> Action(target), to |-> DestId(target),
                                  batch |-> batch', tries |-> 0]
                ELSE pend[u]]
           /\ asked' = asked \cup {<<row[u], target>> : u \in us}
           /\ handles' \in {handles, handles \cup {batch'}}
    <3>1. PICK us \in SUBSET Uids :
             /\ \A u \in us : row[u] # NoMsg
             /\ us # {} /\ target = "Work" => "Work" \in known
             /\ pend' = [u \in Uids |->
                  IF u \in us THEN [act |-> Action(target), to |-> DestId(target),
                                    batch |-> batch', tries |-> 0]
                  ELSE pend[u]]
             /\ asked' = asked \cup {<<row[u], target>> : u \in us}
             /\ handles' \in {handles, handles \cup {batch'}}
      BY <1>1, QueueFacts
    <3> QED
      BY <3>1, Zenon
  <2>3. [act |-> Action(target), to |-> DestId(target), batch |-> batch', tries |-> 0] \in Pending
    BY <2>1 DEF Action, DestId, Pending
  <2>4. pend' \in [Uids -> Pending] /\ asked' \subseteq Uids \X Dests /\ handles' \subseteq Nat
    BY <2>1, <2>2, <2>3 DEF TypeOK
  <2> QED
    BY <1>1, <2>1, <2>4 DEF QueueMove, queue_rows, TypeOK, serverVars
<1>2. ASSUME NEW b \in Batches, Lapse(b) \/ Undo(b)
      PROVE  TypeOK'
  <2>1. b \in Nat
    BY DEF Batches
  <2>2. \A us : Without(us) \in [Uids -> Pending]
    BY PendTypes DEF TypeOK
  <2> QED
    <3>1. CASE Lapse(b)
      BY <2>1, <3>1 DEF Lapse, TypeOK, serverVars, bounds, ghosts
    <3>2. CASE Undo(b)
      <4>1. takenBack' \subseteq [batch : Nat, intime : BOOLEAN]
        <5>1. PICK x \in BOOLEAN : x = (b \notin due)
          OBVIOUS
        <5>2. [batch |-> b, intime |-> x] \in [batch : Nat, intime : BOOLEAN]
          BY <2>1
        <5> QED
          BY <3>2, <5>1, <5>2 DEF Undo, TypeOK
      <4> QED
        BY <2>2, <3>2, <4>1 DEF Undo, TypeOK, serverVars, bounds
    <3> QED
      BY <1>2, <3>1, <3>2
<1>3. ASSUME NEW r \in Runs, NEW us \in SUBSET Uids, StartPurge(r, us)
      PROVE  TypeOK'
  <2> DEFINE items == {[uid |-> u, msg |-> row[u], act |-> "purge", to |-> "none",
                        tries |-> 0, batch |-> 0] : u \in us}
  <2>1. \A u \in us : row[u] \in Uids
    BY <1>3 DEF StartPurge, Listed, TypeOK
  <2>2. items \subseteq Item
    <3>1. ASSUME NEW u \in us
          PROVE  [uid |-> u, msg |-> row[u], act |-> "purge", to |-> "none",
                  tries |-> 0, batch |-> 0] \in Item
      BY <2>1 DEF Item
    <3> QED
      BY <3>1
  <2>3. run' = [run EXCEPT ![r] = [NoRun EXCEPT !.pc = "mark", !.grp = items]]
    BY <1>3 DEF StartPurge
  <2> HIDE DEF items
  <2>4. run' \in [Runs -> Run]
    BY <2>2, <2>3 DEF TypeOK, NoRun, Run, Labels
  <2> QED
    <3>1. batch' = batch + 1 /\ confirmed' = confirmed \cup {row[u] : u \in us}
      BY <1>3 DEF StartPurge
    <3>2. batch' \in Nat /\ confirmed' \subseteq Uids
      <4>1. {row[u] : u \in us} \subseteq Uids
        BY <2>1
      <4>2. batch \in Nat /\ confirmed \subseteq Uids
        BY DEF TypeOK
      <4> QED
        <5> DEFINE S == {row[u] : u \in us}
        <5>1. S \subseteq Uids /\ batch' = batch + 1 /\ confirmed' = confirmed \cup S
          BY <3>1, <4>1
        <5> HIDE DEF S
        <5> QED
          BY <4>2, <5>1
    <3> QED
      BY <1>3, <2>4, <3>2 DEF StartPurge, TypeOK, serverVars
<1> QED
  BY <1>1, <1>2, <1>3

LEMMA OtherTypes ==
  ASSUME ConstantsOK, TypeOK,
         \/ \E u \in Uids : SyncFolder(u) \/ OtherMark(u)
         \/ \E u, v \in Uids : Rebuild(u, v)
         \/ LoseTrash
         \/ UNCHANGED vars
  PROVE  TypeOK'
<1>1. \A us : Without(us) \in [Uids -> Pending]
  BY PendTypes DEF TypeOK
<1>2. ASSUME NEW u \in Uids, SyncFolder(u)
      PROVE  row' \in [Uids -> Uids \cup {NoMsg}]
  BY <1>2 DEF SyncFolder, TypeOK
<1>3. ASSUME NEW u \in Uids, SyncFolder(u)
      PROVE  TypeOK'
  BY <1>1, <1>2, <1>3 DEF SyncFolder, TypeOK, serverVars, bounds, ghosts
<1>4. ASSUME NEW u \in Uids, OtherMark(u)
      PROVE  TypeOK'
  BY <1>4 DEF OtherMark, TypeOK, ghosts
<1>5. ASSUME NEW u \in Uids, NEW v \in Uids, Rebuild(u, v)
      PROVE  TypeOK'
  BY <1>5 DEF Rebuild, TypeOK, ghosts
<1>6. CASE LoseTrash
  BY <1>6 DEF LoseTrash, TypeOK, serverVars, bounds, ghosts
<1>7. CASE UNCHANGED vars
  BY <1>7 DEF TypeOK, vars, serverVars, bounds, ghosts
<1> QED
  BY <1>3, <1>4, <1>5, <1>6, <1>7

LEMMA Typing ==
  ConstantsOK /\ TypeOK /\ [Next]_vars => TypeOK'
<1> SUFFICES ASSUME ConstantsOK, TypeOK, [Next]_vars PROVE TypeOK'
  OBVIOUS
<1>1. ASSUME NEW r \in Runs, StartPush(r) \/ Step(r) \/ Crash(r)
      PROVE  TypeOK'
  BY <1>1, RunTypes, CommandTypes DEF Step, Command
<1> QED
  BY <1>1, UserTypes, OtherTypes DEF Next

-----------------------------------------------------------------------------
(* What MovesKept rests on.                                                *)

\* Batches are numbered as they are queued; what a run works on was due.
Batched ==
  /\ due \subseteq 1..batch /\ handles \subseteq 1..batch /\ carried \subseteq due
  /\ \A u \in Uids : pend[u].act # "none" => pend[u].batch \in 1..batch
  /\ \A r \in Runs :
       /\ \A i \in run[r].todo : i.act # "purge"
       /\ run[r].pc \in {"move", "copy"} => \A i \in run[r].grp : i.act # "purge"
       /\ \A i \in Items(r) : IF i.act = "purge" THEN i.batch = 0 ELSE i.batch \in due

\* Nothing is left of a batch that was taken back in time, in no run either.
LeftAlone(b) ==
  /\ b \notin carried
  /\ \A u \in Uids : pend[u].act # "none" => pend[u].batch # b
  /\ \A r \in Runs : \A i \in Items(r) : i.batch # b
TakenBackInv ==
  \A t \in takenBack : t.batch \in 1..batch /\ (t.intime => LeftAlone(t.batch))

UndoInv == Batched /\ TakenBackInv

\* With MOVE there is no COPY: a message is cached once or filed once.
PlaceInv ==
  /\ \A r \in Runs : run[r].pc # "copy"
  /\ \A u, v \in Uids : box[u] = box[v] /\ box[u] # NoMsg => u = v
  /\ \A m \in Uids, d \in Dests :
       /\ filed[m][d] <= 1
       /\ filed[m][d] > 0 => \A u \in Uids : box[u] # m
       /\ \A e \in Dests : filed[m][d] > 0 /\ filed[m][e] > 0 => d = e

-----------------------------------------------------------------------------
(* What BulkHonest rests on, where nobody else changes the mailbox.        *)

OnlyClient == MaxOther = 0 /\ MaxRebuilds = 0

\* A message is on the server for good, or the user gave it up.
Safe(u) == u \in confirmed \/ \E d \in Dests : filed[u][d] > 0
OwnUids ==
  /\ \A u \in Uids : box[u] \in {u, NoMsg} /\ row[u] \in {u, NoMsg}
  /\ \A r \in Runs : \A i \in Items(r) : i.msg = i.uid
SafeInv ==
  /\ \A u \in Uids : box[u] = NoMsg \/ u \in marked => Safe(u)
  /\ \A r \in Runs : run[r].pc \in {"mark", "expunge", "search", "wide"} =>
       \A i \in run[r].grp : Safe(i.uid)

\* What is queued, and what a run carries out, was asked for.
AskedFor(x, u) ==
  /\ x.act = "trash" => <<u, "Trash">> \in asked
  /\ x.act = "archive" => <<u, "Archive">> \in asked /\ x.to \in {"Archive", "none"}
  /\ x.act = "move" => <<u, x.to>> \in asked /\ x.to # "none"
AskedInv ==
  /\ \A u \in Uids : AskedFor(pend[u], u)
  /\ \A r \in Runs :
       /\ \A i \in Items(r) : AskedFor(i, i.uid)
       /\ run[r].pc \in {"move", "copy"} => \A i \in run[r].grp : <<i.uid, run[r].dest>> \in asked

\* A group is of one folder; what it expunges is marked, what it purged is gone.
PurgeInv ==
  /\ \A r \in Runs :
       /\ \A i, j \in run[r].grp : HomeOf[i.uid] = HomeOf[j.uid]
       /\ \A i \in run[r].todo : i.act # "purge"
       /\ run[r].pc \in {"move", "copy"} => \A i \in run[r].grp : i.act # "purge"
       /\ run[r].pc \in {"expunge", "search", "wide"} =>
            \A i \in run[r].grp : box[i.uid] = NoMsg \/ i.uid \in marked
       /\ run[r].pc = "local" /\ Purging(r) => \A i \in run[r].grp : box[i.uid] = NoMsg
  /\ \A m \in destroyed : box[m] = NoMsg

BulkInv == TypeOK /\ OwnUids /\ SafeInv /\ AskedInv /\ FiledAsAsked /\ PurgeInv
MovesInv == TypeOK /\ UndoInv /\ PlaceInv

-----------------------------------------------------------------------------
(* How a run begins, and how it takes its next group.                      *)

LEMMA StartFacts ==
  ASSUME ConstantsOK, TypeOK, NEW r \in Runs,
         StartPush(r) \/ \E us \in SUBSET Uids : StartPurge(r, us)
  PROVE  /\ \A q \in Runs \ {r} : run'[q] = run[q]
         /\ \/ /\ run'[r].pc = "group" /\ run'[r].todo = DueItems /\ run'[r].grp = {}
               /\ confirmed' = confirmed
            \/ /\ run'[r].pc = "mark" /\ run'[r].todo = {}
               /\ confirmed \subseteq confirmed'
               /\ \A i \in run'[r].grp :
                    /\ i.act = "purge" /\ i.batch = 0
                    /\ i.uid \in Uids /\ i.msg = row[i.uid] /\ row[i.uid] # NoMsg
                    /\ i.msg \in confirmed'
                    /\ \A j \in run'[r].grp : HomeOf[i.uid] = HomeOf[j.uid]
<1>1. CASE StartPush(r)
  <2>1. run' = [run EXCEPT ![r] = [NoRun EXCEPT !.pc = "group", !.todo = DueItems]]
    BY <1>1 DEF StartPush
  <2> QED
    BY <1>1, <2>1 DEF TypeOK, NoRun, StartPush, Stay
<1>2. ASSUME NEW us \in SUBSET Uids, StartPurge(r, us)
      PROVE  /\ \A q \in Runs \ {r} : run'[q] = run[q]
             /\ run'[r].pc = "mark" /\ run'[r].todo = {}
             /\ confirmed \subseteq confirmed'
             /\ \A i \in run'[r].grp :
                  /\ i.act = "purge" /\ i.batch = 0
                  /\ i.uid \in Uids /\ i.msg = row[i.uid] /\ row[i.uid] # NoMsg
                  /\ i.msg \in confirmed'
                  /\ \A j \in run'[r].grp : HomeOf[i.uid] = HomeOf[j.uid]
  <2> DEFINE items == {[uid |-> u, msg |-> row[u], act |-> "purge", to |-> "none",
                        tries |-> 0, batch |-> 0] : u \in us}
  <2>1. run' = [run EXCEPT ![r] = [NoRun EXCEPT !.pc = "mark", !.grp = items]]
    BY <1>2 DEF StartPurge
  <2>2. \A i \in items : i.uid \in us /\ i.msg = row[i.uid] /\ i.act = "purge" /\ i.batch = 0
    OBVIOUS
  <2>3. \A u \in us : row[u] # NoMsg /\ row[u] \in confirmed'
    BY <1>2 DEF StartPurge, Listed
  <2>4. confirmed \subseteq confirmed' /\ \A u, v \in us : HomeOf[u] = HomeOf[v]
    BY <1>2 DEF StartPurge
  <2> HIDE DEF items
  <2>5. /\ \A q \in Runs \ {r} : run'[q] = run[q]
        /\ run'[r].pc = "mark" /\ run'[r].todo = {} /\ run'[r].grp = items
    BY <2>1 DEF TypeOK, NoRun
  <2>6. \A i \in items :
          /\ i.act = "purge" /\ i.batch = 0
          /\ i.uid \in Uids /\ i.msg = row[i.uid] /\ row[i.uid] # NoMsg
          /\ i.msg \in confirmed'
    BY <2>2, <2>3
  <2>7. \A i, j \in items : HomeOf[i.uid] = HomeOf[j.uid]
    BY <2>2, <2>4
  <2> QED
    BY <2>4, <2>5, <2>6, <2>7
<1> QED
  BY <1>1, <1>2

LEMMA TakeRun ==
  ASSUME ConstantsOK, TypeOK, NEW r \in Runs, TakeGroup(r)
  PROVE  /\ \A q \in Runs \ {r} : run'[q] = run[q]
         /\ \E g \in Groups(run[r].todo) :
              /\ run'[r].todo = run[r].todo \ g
              /\ \/ /\ run'[r].grp = run[r].grp /\ run'[r].pc = "group"
                    /\ pend' = Without(UidsOf(g))
                 \/ /\ run'[r].grp = g /\ run'[r].pc = "count"
                    /\ pend' = Without(GivenUp(g))
                 \/ /\ run'[r].grp = g /\ run'[r].pc = FirstCommand
                    /\ run'[r].dest \in pending_target(CHOOSE i \in g : TRUE)
                    /\ pend' = pend
<1>1. PICK g \in Groups(run[r].todo) :
           LET targets == pending_target(CHOOSE i \in g : TRUE)
               rest == run[r].todo \ g IN
           \/ /\ run' = [run EXCEPT ![r].todo = rest]
              /\ pend' = Without(UidsOf(g)) /\ known' = known
           \/ /\ run' = [run EXCEPT ![r] = [@ EXCEPT !.todo = rest, !.grp = g, !.pc = "count"]]
              /\ pend' = Without(GivenUp(g)) /\ known' = known
           \/ \E d \in targets :
                /\ known' = known \cup {d}
                /\ run' = [run EXCEPT ![r] =
                     [@ EXCEPT !.todo = rest, !.grp = g, !.dest = d, !.pc = FirstCommand]]
                /\ pend' = pend
  BY TakeFacts
<1>2. run \in [Runs -> Run] /\ run[r] \in Run /\ run[r].pc = "group"
  BY DEF TypeOK, TakeGroup, At
<1>3. CASE /\ run' = [run EXCEPT ![r].todo = run[r].todo \ g]
           /\ pend' = Without(UidsOf(g))
  <2>1. /\ \A q \in Runs \ {r} : run'[q] = run[q]
        /\ run'[r].todo = run[r].todo \ g
        /\ run'[r].grp = run[r].grp /\ run'[r].pc = "group"
    BY <1>2, <1>3 DEF Run
  <2> QED
    BY <1>3, <2>1
<1>4. CASE /\ run' = [run EXCEPT ![r] =
                [run[r] EXCEPT !.todo = run[r].todo \ g, !.grp = g, !.pc = "count"]]
           /\ pend' = Without(GivenUp(g))
  <2>1. /\ \A q \in Runs \ {r} : run'[q] = run[q]
        /\ run'[r].todo = run[r].todo \ g
        /\ run'[r].grp = g /\ run'[r].pc = "count"
    BY <1>2, <1>4 DEF Run
  <2> QED
    BY <1>4, <2>1
<1>5. ASSUME NEW d \in pending_target(CHOOSE i \in g : TRUE), pend' = pend,
             run' = [run EXCEPT ![r] =
               [run[r] EXCEPT !.todo = run[r].todo \ g, !.grp = g, !.dest = d, !.pc = FirstCommand]]
      PROVE  /\ \A q \in Runs \ {r} : run'[q] = run[q]
             /\ run'[r].todo = run[r].todo \ g
             /\ run'[r].grp = g /\ run'[r].pc = FirstCommand
             /\ run'[r].dest \in pending_target(CHOOSE i \in g : TRUE)
  BY <1>2, <1>5 DEF Run
<1> DEFINE targets == pending_target(CHOOSE i \in g : TRUE)
<1>6. \/ /\ run' = [run EXCEPT ![r].todo = run[r].todo \ g]
         /\ pend' = Without(UidsOf(g))
      \/ /\ run' = [run EXCEPT ![r] =
              [run[r] EXCEPT !.todo = run[r].todo \ g, !.grp = g, !.pc = "count"]]
         /\ pend' = Without(GivenUp(g))
      \/ \E d \in targets :
           /\ pend' = pend
           /\ run' = [run EXCEPT ![r] =
                [run[r] EXCEPT !.todo = run[r].todo \ g, !.grp = g, !.dest = d, !.pc = FirstCommand]]
  BY <1>1
<1> QED
  BY <1>3, <1>4, <1>5, <1>6

-----------------------------------------------------------------------------
(* Undo: what a step leaves of the runs' items and of the table.           *)

\* Runs hold no more than before, and none starts to carry out a group.
FewerItems ==
  \A q \in Runs :
    /\ run'[q].todo \subseteq run[q].todo /\ run'[q].grp \subseteq run[q].grp
    /\ run'[q].pc \in {"move", "copy"} =>
         run[q].pc \in {"move", "copy"} /\ run'[q].dest = run[q].dest

\* Rows are only dropped, or counted.
FewerRows ==
  \A u \in Uids : pend'[u].act # "none" =>
    pend'[u].act = pend[u].act /\ pend'[u].to = pend[u].to /\ pend'[u].batch = pend[u].batch

LEMMA RowsDropped ==
  ASSUME TypeOK,
         \/ pend' = pend
         \/ \E us : pend' = record_failure(us)
         \/ \E us : pend' = Without(us)
  PROVE  FewerRows
<1>1. CASE \E us : pend' = record_failure(us)
  <2>1. PICK us : pend' = record_failure(us)
    BY <1>1
  <2>2. ASSUME NEW u \in Uids
        PROVE  pend'[u] \in {pend[u], [pend[u] EXCEPT !.tries = @ + 1]}
    BY <2>1 DEF record_failure
  <2>3. \A u \in Uids : pend[u] \in Pending
    BY DEF TypeOK
  <2> QED
    BY <2>2, <2>3 DEF FewerRows, Pending
<1>2. CASE \E us : pend' = Without(us)
  BY <1>2 DEF FewerRows, Without, NoRow
<1>3. CASE pend' = pend
  BY <1>3 DEF FewerRows
<1> QED
  BY <1>1, <1>2, <1>3

LEMMA GotoItems ==
  ASSUME TypeOK, NEW r \in Runs, NEW label \in Labels, NEW link \in BOOLEAN,
         Goto(r, label, link),
         label \in {"move", "copy"} => run[r].pc \in {"move", "copy"}
  PROVE  FewerItems
<1>1. /\ \A q \in Runs \ {r} : run'[q] = run[q]
      /\ run'[r].pc = label /\ run'[r].todo \subseteq run[r].todo
      /\ run'[r].grp \subseteq run[r].grp
      /\ label \in {"move", "copy"} => run'[r].dest = run[r].dest
  BY GotoRun DEF TypeOK
<1> QED
  BY <1>1 DEF FewerItems

\* A command leads to one that moves or copies only from a refused MOVE.
LEMMA CommandItems ==
  ASSUME TypeOK, NEW r \in Runs, Command(r)
  PROVE  FewerItems /\ FewerRows
<1>1. run[r].up \in BOOLEAN
  BY DEF TypeOK, Run
<1>2. \E label \in Labels, link \in BOOLEAN :
        /\ Goto(r, label, link)
        /\ label \in {"move", "copy"} => run[r].pc \in {"move", "copy"}
  BY <1>1
     DEF Command, Count, Move, Copy, Mark, Expunge, Search, Wide, Local, GroupFailed, RemoveFailed,
         ExpungeFailed, Up, At, Labels
<1>3. \/ pend' = pend
      \/ \E us : pend' = record_failure(us)
      \/ \E us : pend' = Without(us)
  BY DEF Command, Count, Move, Copy, Mark, Expunge, Search, Wide, Local, GroupFailed, RemoveFailed,
         ExpungeFailed
<1> QED
  BY <1>2, <1>3, GotoItems, RowsDropped

\* UndoInv outlives a step that starts nothing.
LEMMA UndoGoesOn ==
  ASSUME TypeOK, UndoInv, FewerItems, FewerRows, UNCHANGED <<batch, due, handles, takenBack>>,
         carried' = carried \/ \E r \in Runs : run[r].pc \in {"move", "copy"} /\ CarriedFor(r)
  PROVE  UndoInv'
<1>1. \A q \in Runs : Items(q)' \subseteq Items(q) /\ run[q].grp \subseteq Items(q)
  BY DEF FewerItems, Items
<1>2. \A b \in carried' \ carried : b \in due /\ \E q \in Runs : \E i \in Items(q) : i.batch = b
  <2> SUFFICES ASSUME NEW r \in Runs, run[r].pc \in {"move", "copy"}, CarriedFor(r),
                      NEW b \in carried' \ carried
               PROVE  b \in due /\ \E q \in Runs : \E i \in Items(q) : i.batch = b
    OBVIOUS
  <2>1. PICK i \in run[r].grp : i.batch = b
    BY DEF CarriedFor, Group
  <2>2. i.act # "purge" /\ i \in Items(r)
    BY <1>1 DEF UndoInv, Batched
  <2> QED
    BY <2>1, <2>2 DEF UndoInv, Batched
<1>3. Batched'
  <2>1. due' \subseteq 1..batch' /\ handles' \subseteq 1..batch' /\ carried' \subseteq due'
    BY <1>2 DEF UndoInv, Batched
  <2>2. \A u \in Uids : pend'[u].act # "none" => pend'[u].batch \in 1..batch'
    BY DEF UndoInv, Batched, FewerRows
  <2>3. \A r \in Runs :
          /\ \A i \in run'[r].todo : i.act # "purge"
          /\ run'[r].pc \in {"move", "copy"} => \A i \in run'[r].grp : i.act # "purge"
    BY DEF UndoInv, Batched, FewerItems
  <2>4. \A r \in Runs : \A i \in Items(r)' : IF i.act = "purge" THEN i.batch = 0 ELSE i.batch \in due'
    BY <1>1 DEF UndoInv, Batched
  <2> QED
    BY <2>1, <2>2, <2>3, <2>4 DEF Batched
<1>4. ASSUME NEW t \in takenBack, t.intime
      PROVE  LeftAlone(t.batch)'
  BY <1>1, <1>2, <1>4 DEF UndoInv, TakenBackInv, LeftAlone, FewerRows
<1> QED
  BY <1>3, <1>4 DEF UndoInv, TakenBackInv

\* The user queues, waits, or takes back.
LEMMA UserUndo ==
  ASSUME ConstantsOK, TypeOK, UndoInv,
         \/ \E sel \in SUBSET Uids, target \in Dests, atOnce \in BOOLEAN : QueueMove(sel, target, atOnce)
         \/ \E b \in Batches : Lapse(b) \/ Undo(b)
  PROVE  UndoInv'
<1> USE DEF UndoInv
<1>0. batch \in Nat
  BY DEF TypeOK
<1>1. ASSUME NEW sel \in SUBSET Uids, NEW target \in Dests, NEW atOnce \in BOOLEAN,
             QueueMove(sel, target, atOnce)
      PROVE  UndoInv'
  <2>1. PICK us \in SUBSET Uids :
           /\ \A u \in us : row[u] # NoMsg
           /\ us # {} /\ target = "Work" => "Work" \in known
           /\ pend' = [u \in Uids |->
                IF u \in us THEN [act |-> Action(target), to |-> DestId(target),
                                  batch |-> batch', tries |-> 0]
                ELSE pend[u]]
           /\ asked' = asked \cup {<<row[u], target>> : u \in us}
           /\ handles' \in {handles, handles \cup {batch'}}
    BY <1>1, QueueFacts
  <2>2. /\ batch' = batch + 1 /\ run' = run /\ carried' = carried /\ takenBack' = takenBack
        /\ due' \in {due, due \cup {batch'}}
    BY <1>1 DEF QueueMove, queue_rows
  <2>3. \A u \in Uids : pend'[u].act # "none" =>
          pend'[u].batch = batch' \/ (pend[u].act # "none" /\ pend'[u].batch = pend[u].batch)
    BY <2>1
  <2>4. Batched'
    <3>1. due' \subseteq 1..batch' /\ handles' \subseteq 1..batch' /\ carried' \subseteq due'
      BY <1>0, <2>1, <2>2 DEF Batched
    <3>2. \A u \in Uids : pend'[u].act # "none" => pend'[u].batch \in 1..batch'
      BY <1>0, <2>2, <2>3 DEF Batched
    <3>3. \A r \in Runs : Items(r)' = Items(r)
      BY <2>2 DEF Items
    <3> QED
      BY <2>2, <3>1, <3>2, <3>3 DEF Batched
  <2>5. ASSUME NEW t \in takenBack
        PROVE  t.batch \in 1..batch' /\ (t.intime => LeftAlone(t.batch)')
    BY <1>0, <2>2, <2>3 DEF TakenBackInv, LeftAlone, Items
  <2> QED
    BY <2>2, <2>4, <2>5 DEF TakenBackInv
<1>2. ASSUME NEW b \in Batches, Lapse(b)
      PROVE  UndoInv'
  BY <1>2 DEF Lapse, bounds, ghosts, serverVars, Batched, TakenBackInv, LeftAlone, Items
<1>3. ASSUME NEW b \in Batches, Undo(b)
      PROVE  UndoInv'
  <2>1. /\ b \in handles /\ run' = run /\ carried' = carried /\ due' = due /\ batch' = batch
        /\ handles' = handles /\ pend' = Without({u \in Uids : pend[u].batch = b})
    BY <1>3 DEF Undo, bounds
  <2>2. PICK x \in BOOLEAN : /\ x = (b \notin due)
                            /\ takenBack' = takenBack \cup {[batch |-> b, intime |-> x]}
    BY <1>3 DEF Undo
  <2>3. \A u \in Uids : pend'[u].act # "none" => pend'[u] = pend[u] /\ pend[u].batch # b
    BY <2>1 DEF Without, NoRow
  <2>4. Batched'
    BY <2>1, <2>3 DEF Batched, Items
  <2>5. ASSUME NEW t \in takenBack
        PROVE  t.batch \in 1..batch' /\ (t.intime => LeftAlone(t.batch)')
    BY <2>1, <2>3 DEF TakenBackInv, LeftAlone, Items
  <2>6. b \in 1..batch /\ b # 0
    BY <1>0, <2>1 DEF Batched
  <2>7. ASSUME b \notin due
        PROVE  LeftAlone(b)'
    <3>1. b \notin carried
      BY <2>7 DEF Batched
    <3>2. \A r \in Runs : \A i \in Items(r) : i.batch # b
      BY <2>6, <2>7 DEF Batched
    <3> QED
      BY <2>1, <2>3, <3>1, <3>2 DEF LeftAlone, Items
  <2>8. ASSUME NEW t \in takenBack'
        PROVE  t.batch \in 1..batch' /\ (t.intime => LeftAlone(t.batch)')
    <3>1. CASE t \in takenBack
      BY <2>5, <3>1
    <3>2. CASE t = [batch |-> b, intime |-> x]
      <4>1. t.batch = b /\ t.intime = x
        BY <3>2
      <4>2. t.intime => LeftAlone(b)'
        BY <2>2, <2>7, <4>1
      <4> QED
        BY <2>1, <2>6, <4>1, <4>2
    <3> QED
      BY <2>2, <3>1, <3>2
  <2> QED
    BY <2>4, <2>8 DEF TakenBackInv
<1> QED
  BY <1>1, <1>2, <1>3

\* A run starts to work on what is due, or on a purge.
LEMMA StartUndo ==
  ASSUME ConstantsOK, TypeOK, UndoInv, NEW r \in Runs,
         StartPush(r) \/ \E us \in SUBSET Uids : StartPurge(r, us)
  PROVE  UndoInv'
<1> USE DEF UndoInv
<1>0. batch \in Nat
  BY DEF TypeOK
<1>2. \A i \in DueItems : \E u \in Uids :
        pend[u].act # "none" /\ i.act = pend[u].act /\ i.batch = pend[u].batch /\ i.batch \in due
  BY DEF DueItems
<1>3. \A u \in Uids : pend[u].act \in {"none", "trash", "archive", "move"}
  BY DEF TypeOK, Pending
<1>1. UNCHANGED <<pend, due, handles, takenBack, carried>> /\ batch' \in {batch, batch + 1}
  BY DEF StartPush, StartPurge, Stay, bounds
<1>4. /\ \A q \in Runs \ {r} : run'[q] = run[q]
      /\ \/ run'[r].pc = "group" /\ run'[r].todo = DueItems /\ run'[r].grp = {}
         \/ /\ run'[r].pc = "mark" /\ run'[r].todo = {}
            /\ \A i \in run'[r].grp : i.act = "purge" /\ i.batch = 0
  BY StartFacts
<1>5. \A q \in Runs \ {r} : Items(q)' = Items(q)
  BY <1>4 DEF Items
<1>6. Batched'
  <2>1. \A i \in Items(r)' : IF i.act = "purge" THEN i.batch = 0 ELSE i.batch \in due
    BY <1>2, <1>3, <1>4 DEF Items
  <2>2. \A i \in run'[r].todo : i.act # "purge"
    BY <1>2, <1>3, <1>4
  <2> QED
    BY <1>0, <1>1, <1>4, <1>5, <2>1, <2>2 DEF Batched
<1>7. ASSUME NEW t \in takenBack
      PROVE  t.batch \in 1..batch' /\ (t.intime => LeftAlone(t.batch)')
  <2>1. t.intime => \A i \in Items(r)' : i.batch # t.batch
    BY <1>0, <1>2, <1>4 DEF TakenBackInv, LeftAlone, Items
  <2> QED
    BY <1>0, <1>1, <1>5, <2>1 DEF TakenBackInv, LeftAlone
<1> QED
  BY <1>1, <1>6, <1>7 DEF TakenBackInv

LEMMA TakeUndo ==
  ASSUME ConstantsOK, TypeOK, UndoInv, NEW r \in Runs, TakeGroup(r)
  PROVE  UndoInv'
<1> USE DEF UndoInv
<1>1. /\ \A q \in Runs \ {r} : run'[q] = run[q]
      /\ \E g \in Groups(run[r].todo) :
           /\ run'[r].todo = run[r].todo \ g
           /\ \/ /\ run'[r].grp = run[r].grp /\ run'[r].pc = "group"
                 /\ pend' = Without(UidsOf(g))
              \/ /\ run'[r].grp = g /\ run'[r].pc = "count"
                 /\ pend' = Without(GivenUp(g))
              \/ /\ run'[r].grp = g /\ run'[r].pc = FirstCommand
                 /\ run'[r].dest \in pending_target(CHOOSE i \in g : TRUE)
                 /\ pend' = pend
  BY TakeRun
<1>2. \A g \in Groups(run[r].todo) : g \subseteq run[r].todo
  BY GroupFacts
<1>3. FewerRows
  BY <1>1, RowsDropped
<1>4. /\ run'[r].todo \subseteq run[r].todo
      /\ \/ run'[r].grp = run[r].grp /\ run'[r].pc = "group"
         \/ run'[r].grp \subseteq run[r].todo
  BY <1>1, <1>2
<1>5. \A q \in Runs : Items(q)' \subseteq Items(q)
  BY <1>1, <1>4 DEF Items
<1>6. UNCHANGED <<batch, due, handles, takenBack, carried>>
  BY DEF TakeGroup, bounds, ghosts
<1>7. Batched'
  BY <1>1, <1>3, <1>4, <1>5, <1>6 DEF Batched, FewerRows
<1>8. ASSUME NEW t \in takenBack, t.intime
      PROVE  LeftAlone(t.batch)'
  BY <1>3, <1>5, <1>6, <1>8 DEF TakenBackInv, LeftAlone, FewerRows
<1> QED
  BY <1>6, <1>7, <1>8 DEF TakenBackInv

LEMMA UndoStep ==
  ASSUME ConstantsOK, TypeOK, UndoInv, [Next]_vars
  PROVE  UndoInv'
<1>1. ASSUME NEW r \in Runs, Command(r)
      PROVE  UndoInv'
  <2>1. UNCHANGED <<batch, due, handles, takenBack>>
    BY <1>1 DEF Command, Count, Move, Copy, Mark, Expunge, Search, Wide, Local, Stay, bounds
  <2>2. carried' = carried \/ (run[r].pc \in {"move", "copy"} /\ CarriedFor(r))
    BY <1>1 DEF Command, Count, Move, Copy, Mark, Expunge, Search, Wide, Local, At, serverVars
  <2> QED
    BY <1>1, <2>1, <2>2, CommandItems, UndoGoesOn
<1>2. ASSUME NEW r \in Runs, Finish(r) \/ Crash(r)
      PROVE  UndoInv'
  <2>1. UNCHANGED <<batch, due, handles, takenBack, carried, pend>>
    BY <1>2 DEF Finish, Crash, Stay, bounds, ghosts
  <2>2. FewerItems /\ FewerRows
    BY <1>2, <2>1, GotoItems, RowsDropped DEF Finish, Crash, Labels
  <2> QED
    BY <2>1, <2>2, UndoGoesOn
<1>3. CASE \/ \E u \in Uids : SyncFolder(u) \/ OtherMark(u)
           \/ \E u, v \in Uids : Rebuild(u, v)
           \/ LoseTrash
           \/ UNCHANGED vars
  <2>1. UNCHANGED <<batch, due, handles, takenBack, carried, run>>
    BY <1>3 DEF SyncFolder, OtherMark, Rebuild, LoseTrash, vars, bounds, ghosts
  <2>2. pend' = pend \/ \E us : pend' = Without(us)
    BY <1>3 DEF SyncFolder, OtherMark, Rebuild, LoseTrash, vars
  <2>3. FewerItems
    BY <2>1 DEF FewerItems
  <2> QED
    BY <2>1, <2>2, <2>3, RowsDropped, UndoGoesOn
<1> QED
  BY <1>1, <1>2, <1>3, UserUndo, StartUndo, TakeUndo DEF Next, Step, Command

-----------------------------------------------------------------------------
(* One place: on a server with MOVE that does not refuse it.               *)

\* No run ever falls back to a COPY.
LEMMA NeverCopies ==
  ASSUME ConstantsOK, TypeOK, HasMove, ~Refuses, \A r \in Runs : run[r].pc # "copy",
         [Next]_vars
  PROVE  \A r \in Runs : run'[r].pc # "copy"
<1>1. ASSUME NEW r \in Runs, Command(r)
      PROVE  \A q \in Runs : run'[q].pc # "copy"
  <2>1. run[r].up \in BOOLEAN
    BY DEF TypeOK, Run
  <2>2. \E label \in Labels \ {"copy"}, link \in BOOLEAN : Goto(r, label, link)
    BY <1>1, <2>1
       DEF Command, Count, Move, Copy, Mark, Expunge, Search, Wide, Local, GroupFailed, RemoveFailed,
           ExpungeFailed, Up, Labels
  <2> QED
    BY <2>2, GotoRun DEF TypeOK
<1>2. ASSUME NEW r \in Runs, Finish(r) \/ Crash(r)
      PROVE  \A q \in Runs : run'[q].pc # "copy"
  <2>1. \E label \in Labels \ {"copy"}, link \in BOOLEAN : Goto(r, label, link)
    BY <1>2 DEF Finish, Crash, Labels
  <2> QED
    BY <2>1, GotoRun DEF TypeOK
<1>3. ASSUME NEW r \in Runs, StartPush(r) \/ \E us \in SUBSET Uids : StartPurge(r, us)
      PROVE  \A q \in Runs : run'[q].pc # "copy"
  BY <1>3, StartFacts
<1>4. ASSUME NEW r \in Runs, TakeGroup(r)
      PROVE  \A q \in Runs : run'[q].pc # "copy"
  BY <1>4, TakeRun DEF FirstCommand
<1>5. ASSUME UNCHANGED run
      PROVE  \A q \in Runs : run'[q].pc # "copy"
  BY <1>5
<1>6. CASE \/ \E sel \in SUBSET Uids, target \in Dests, atOnce \in BOOLEAN : QueueMove(sel, target, atOnce)
           \/ \E b \in Batches : Lapse(b) \/ Undo(b)
           \/ \E u \in Uids : SyncFolder(u) \/ OtherMark(u)
           \/ \E u, v \in Uids : Rebuild(u, v)
           \/ LoseTrash
           \/ UNCHANGED vars
  BY <1>5, <1>6 DEF QueueMove, queue_rows, Lapse, Undo, SyncFolder, OtherMark, Rebuild, LoseTrash, vars
<1> QED
  BY <1>1, <1>2, <1>3, <1>4, <1>6 DEF Next, Step, Command

\* A message that leaves its folder is filed, and it was filed nowhere else.
LEMMA MovePlace ==
  ASSUME ConstantsOK, TypeOK, PlaceInv, NEW us \in SUBSET Uids, NEW d,
         box' = BoxWithout(us), filed' = FiledIn(us, d)
  PROVE  /\ \A u, v \in Uids : box'[u] = box'[v] /\ box'[u] # NoMsg => u = v
         /\ \A m \in Uids, e \in Dests :
              /\ filed'[m][e] <= 1
              /\ filed'[m][e] > 0 => \A u \in Uids : box'[u] # m
              /\ \A f \in Dests : filed'[m][e] > 0 /\ filed'[m][f] > 0 => e = f
<1>0. \A u \in Uids : box'[u] = IF u \in us THEN NoMsg ELSE box[u]
  BY DEF BoxWithout
<1>1. \A u, v \in Uids : box'[u] = box'[v] /\ box'[u] # NoMsg => u = v
  BY <1>0 DEF PlaceInv
<1>2. ASSUME NEW m \in Uids, m \notin There(us)
      PROVE  filed'[m] = filed[m] /\ \A u \in Uids : box[u] # m => box'[u] # m
  BY <1>0, <1>2, ConstantsOK DEF FiledIn, ConstantsOK, NoMsg
<1>3. ASSUME NEW m \in Uids, m \in There(us)
      PROVE  /\ \A u \in Uids : box'[u] # m
             /\ \A e \in Dests : filed'[m][e] = IF e = d THEN 1 ELSE 0
  <2>1. PICK u \in us : box[u] = m /\ m # NoMsg
    BY <1>3 DEF There
  <2>2. \A e \in Dests : filed[m][e] = 0
    BY <2>1 DEF PlaceInv, TypeOK
  <2>3. filed'[m] = [filed[m] EXCEPT ![d] = IF @ = 0 THEN 1 ELSE 2]
    BY <1>3 DEF FiledIn
  <2>4. \A v \in Uids : box'[v] # m
    BY <1>0, <2>1 DEF PlaceInv
  <2>5. filed[m] \in [Dests -> 0..2]
    BY DEF TypeOK
  <2> QED
    BY <2>2, <2>3, <2>4, <2>5
<1>4. ASSUME NEW m \in Uids
      PROVE  \A e \in Dests :
               /\ filed'[m][e] <= 1
               /\ filed'[m][e] > 0 => \A u \in Uids : box'[u] # m
               /\ \A f \in Dests : filed'[m][e] > 0 /\ filed'[m][f] > 0 => e = f
  <2>1. CASE m \in There(us)
    BY <1>3, <2>1
  <2>2. CASE m \notin There(us)
    BY <1>2, <2>2 DEF PlaceInv
  <2> QED
    BY <2>1, <2>2
<1> QED
  BY <1>1, <1>4

LEMMA PlaceStep ==
  ASSUME ConstantsOK, TypeOK, HasMove, ~Refuses, PlaceInv, [Next]_vars
  PROVE  PlaceInv'
<1>0. \A r \in Runs : run'[r].pc # "copy"
  BY NeverCopies DEF PlaceInv
<1>1. ASSUME NEW us, box' \in {box, BoxWithout(us)}, filed' = filed
      PROVE  PlaceInv'
  <2>1. \A u \in Uids : box'[u] \in {box[u], NoMsg}
    BY <1>1 DEF BoxWithout
  <2>2. \A m \in Uids : m # NoMsg
    BY DEF ConstantsOK, NoMsg
  <2> QED
    BY <1>0, <1>1, <2>1, <2>2 DEF PlaceInv
<1>2. ASSUME NEW r \in Runs, Command(r)
      PROVE  PlaceInv'
  <2>1. GroupUids(r) \in SUBSET Uids
    BY ItemTypes
  <2>2. ~Copy(r)
    BY DEF Copy, At, PlaceInv
  <2>3. \/ box' = BoxWithout(GroupUids(r)) /\ filed' = FiledIn(GroupUids(r), run[r].dest)
        \/ filed' = filed /\ \E us : box' \in {box, BoxWithout(us)}
    BY <1>2, <2>2
       DEF Command, Count, Move, Mark, Expunge, Search, Wide, Local, Expunged, serverVars
  <2>4. CASE box' = BoxWithout(GroupUids(r)) /\ filed' = FiledIn(GroupUids(r), run[r].dest)
    <3>1. /\ \A u, v \in Uids : box'[u] = box'[v] /\ box'[u] # NoMsg => u = v
          /\ \A m \in Uids, e \in Dests :
               /\ filed'[m][e] <= 1
               /\ filed'[m][e] > 0 => \A u \in Uids : box'[u] # m
               /\ \A f \in Dests : filed'[m][e] > 0 /\ filed'[m][f] > 0 => e = f
      BY <2>1, <2>4, MovePlace
    <3> QED
      BY <1>0, <3>1 DEF PlaceInv
  <2> QED
    BY <1>1, <2>3, <2>4
<1>3. ASSUME NEW u \in Uids, NEW v \in Uids, Rebuild(u, v)
      PROVE  PlaceInv'
  <2>1. /\ box' = [box EXCEPT ![u] = box[v], ![v] = box[u]] /\ filed' = filed /\ u # v
    BY <1>3 DEF Rebuild
  <2>2. /\ box'[u] = box[v] /\ box'[v] = box[u]
        /\ \A w \in Uids \ {u, v} : box'[w] = box[w]
    BY <2>1 DEF TypeOK
  <2>3. \A w, x \in Uids : box'[w] = box'[x] /\ box'[w] # NoMsg => w = x
    <3>1. \A w, x \in Uids : box[w] = box[x] /\ box[w] # NoMsg => w = x
      BY DEF PlaceInv
    <3>2. ASSUME NEW w \in Uids, NEW x \in Uids, box'[w] = box'[x], box'[w] # NoMsg
          PROVE  w = x
      <4>1. CASE w \notin {u, v}
        BY <2>2, <3>1, <3>2, <4>1
      <4>2. CASE x \notin {u, v}
        BY <2>2, <3>1, <3>2, <4>2
      <4>3. CASE w \in {u, v} /\ x \in {u, v}
        BY <2>2, <3>1, <3>2, <4>3
      <4> QED
        BY <4>1, <4>2, <4>3
    <3> QED
      BY <3>2
  <2>4. \A m \in Uids : (\A w \in Uids : box[w] # m) => \A w \in Uids : box'[w] # m
    BY <2>2
  <2> QED
    BY <1>0, <2>1, <2>3, <2>4 DEF PlaceInv
<1>4. CASE UNCHANGED <<box, filed>>
  BY <1>1, <1>4
<1> QED
  BY <1>2, <1>3, <1>4
     DEF Next, Step, Command, QueueMove, queue_rows, Lapse, Undo, StartPush, StartPurge, Finish, TakeGroup,
         Crash, SyncFolder, OtherMark, LoseTrash, serverVars, vars

-----------------------------------------------------------------------------
LEMMA MovesInit ==
  ASSUME ConstantsOK, Init
  PROVE  TypeOK /\ UndoInv /\ PlaceInv /\ OwnUids /\ SafeInv /\ AskedInv /\ FiledAsAsked /\ PurgeInv
<1>1. /\ \A u \in Uids : box[u] = u /\ row[u] = u /\ u # NoMsg /\ pend[u] = NoRow
      /\ \A r \in Runs : run[r] = NoRun /\ Items(r) = {}
      /\ \A m \in Uids, d \in Dests : filed[m][d] = 0
      /\ \A m \in Uids : InDests(m) = {}
  BY DEF Init, Items, NoRun, ConstantsOK, NoMsg, InDests
<1>2. TypeOK
  <2>1. NoRow \in Pending /\ NoRun \in Run
    BY DEF NoRow, Pending, NoRun, Run, Labels
  <2> QED
    BY <1>1, <2>1 DEF Init, TypeOK, Dests
<1>3. UndoInv
  BY <1>1 DEF Init, UndoInv, Batched, TakenBackInv, NoRow, NoRun
<1>4. PlaceInv
  BY <1>1 DEF PlaceInv, NoRun
<1>5. OwnUids /\ SafeInv
  BY <1>1 DEF Init, OwnUids, SafeInv, NoRun
<1>6. AskedInv /\ FiledAsAsked
  <2>1. \A u \in Uids : AskedFor(pend[u], u)
    BY <1>1 DEF AskedFor, NoRow
  <2> QED
    BY <1>1, <2>1 DEF AskedInv, FiledAsAsked, NoRun
<1>7. PurgeInv
  BY <1>1 DEF Init, PurgeInv, NoRun
<1> QED
  BY <1>2, <1>3, <1>4, <1>5, <1>6, <1>7

\* Undo within the grace period is final for any server, any number of runs,
\* batches, crashes and lost answers (store/pending_moves.rs, cancel_batch).
THEOREM UndoIsFinal == Spec => []UndoInTime
<1>1. Init => TypeOK /\ UndoInv
  BY MovesInit, ConstantsOK
<1>2. TypeOK /\ UndoInv /\ [Next]_vars => (TypeOK /\ UndoInv)'
  BY Typing, UndoStep, ConstantsOK
<1>3. TypeOK /\ UndoInv => UndoInTime
  BY DEF UndoInv, TakenBackInv, LeftAlone, UndoInTime
<1> QED
  BY <1>1, <1>2, <1>3, PTL DEF Spec

LEMMA PlaceSafe ==
  ASSUME TypeOK, PlaceInv
  PROVE  OnePlace
<1>1. ASSUME NEW m \in Uids
      PROVE  Cardinality(InDests(m)) <= 1
  <2>1. \A d, e \in InDests(m) : d = e
    BY DEF PlaceInv, InDests
  <2>2. CASE InDests(m) = {}
    BY <2>2, FS_EmptySet
  <2>3. ASSUME NEW d \in InDests(m)
        PROVE  Cardinality(InDests(m)) = 1
    <3>1. InDests(m) = {d}
      BY <2>1, <2>3
    <3> QED
      BY <3>1, FS_Singleton
  <2> QED
    BY <2>2, <2>3
<1> QED
  BY <1>1 DEF OnePlace, PlaceInv, InDests

\* On a server with MOVE the table stays well formed, an undo in time is
\* final and a message is in one place, whatever is lost, retried, taken over
\* or rebuilt (sync/imap/session/mutate.rs, uid_move).
THEOREM KeepsMoves ==
  ASSUME HasMove, ~Refuses
  PROVE  Spec => []MovesKept
<1>1. Init => MovesInv
  BY MovesInit, ConstantsOK DEF MovesInv
<1>2. MovesInv /\ [Next]_vars => MovesInv'
  BY Typing, UndoStep, PlaceStep, ConstantsOK DEF MovesInv
<1>3. MovesInv => MovesKept
  BY PlaceSafe DEF MovesInv, MovesKept, UndoInv, TakenBackInv, LeftAlone, UndoInTime
<1> QED
  BY <1>1, <1>2, <1>3, PTL DEF Spec

-----------------------------------------------------------------------------
(* Bulk: what the commands do to the server, and where they lead.          *)

\* The messages of a set of UIDs get the \Deleted flag.
MarkedOn(us) == marked' = marked \cup {u \in us : box[u] # NoMsg}

LEMMA CommandServer ==
  ASSUME TypeOK, NEW r \in Runs, Command(r)
  PROVE  \/ UNCHANGED <<box, marked, filed>>
         \/ /\ run[r].pc = "move"
            /\ box' = BoxWithout(GroupUids(r)) /\ marked' = marked \ GroupUids(r)
            /\ filed' = FiledIn(GroupUids(r), run[r].dest)
         \/ /\ run[r].pc = "copy" /\ UNCHANGED <<box, marked>>
            /\ filed' = FiledIn(GroupUids(r), run[r].dest)
         \/ run[r].pc = "mark" /\ MarkedOn(GroupUids(r)) /\ UNCHANGED <<box, filed>>
         \/ \E us : us \subseteq marked /\ Expunged(us) /\ UNCHANGED filed
<1>1. CASE Move(r) \/ Copy(r) \/ Mark(r)
  BY <1>1 DEF Move, Copy, Mark, At, serverVars, MarkedOn
<1>2. CASE Expunge(r)
  <2>1. GroupUids(r) \cap marked \subseteq marked
    OBVIOUS
  <2> QED
    BY <1>2, <2>1 DEF Expunge
<1>3. CASE Wide(r)
  <2>1. FolderMarks(r) \subseteq marked
    BY DEF FolderMarks
  <2> QED
    BY <1>3, <2>1 DEF Wide
<1>4. CASE Search(r) \/ Local(r) \/ Count(r)
  BY <1>4 DEF Search, Local, Count, serverVars
<1> QED
  BY <1>1, <1>2, <1>3, <1>4 DEF Command

\* Why a run is at a command.
Leads(r, label) ==
  /\ label # "move"
  /\ label = "copy" => run[r].pc = "move"
  /\ label = "mark" => /\ run[r].pc = "copy" /\ UNCHANGED box
                       /\ filed' = FiledIn(GroupUids(r), run[r].dest)
  /\ label = "expunge" => run[r].pc = "mark" /\ MarkedOn(GroupUids(r))
  /\ label = "search" => \/ run[r].pc = "expunge" /\ UNCHANGED <<box, marked>>
                         \/ run[r].pc = "mark" /\ MarkedOn(GroupUids(r))
  /\ label = "wide" => run[r].pc = "search" /\ UNCHANGED <<box, marked>>
  /\ label = "local" =>
       \/ run[r].pc = "move" \/ ~Purging(r)
       \/ run[r].pc = "expunge" /\ box' = BoxWithout(GroupUids(r) \cap marked)
       \/ run[r].pc = "wide" /\ box' = BoxWithout(FolderMarks(r))

LEMMA CommandLeads ==
  ASSUME TypeOK, NEW r \in Runs, Command(r)
  PROVE  \E label \in Labels, link \in BOOLEAN : Goto(r, label, link) /\ Leads(r, label)
<1>1. run[r].up \in BOOLEAN
  BY DEF TypeOK, Run
<1> USE DEF Labels, At
<1>2. CASE Move(r)
  BY <1>1, <1>2 DEF Move, Up, Leads, GroupFailed
<1>3. CASE Copy(r)
  BY <1>1, <1>3 DEF Copy, Up, Leads, GroupFailed
<1>4. CASE \E link \in BOOLEAN : Goto(r, IF Purging(r) THEN "idle" ELSE "local", link)
  <2>1. CASE Purging(r)
    BY <1>4, <2>1 DEF Leads
  <2>2. CASE ~Purging(r)
    BY <1>4, <2>2 DEF Leads
  <2> QED
    BY <2>1, <2>2
<1>5. CASE Mark(r)
  <2>1. \/ MarkedOn(GroupUids(r)) /\ Goto(r, IF HasUidPlus THEN "expunge" ELSE "search", TRUE)
        \/ \E link \in BOOLEAN : Goto(r, IF Purging(r) THEN "idle" ELSE "local", link)
    BY <1>1, <1>5 DEF Mark, MarkedOn, RemoveFailed, Up
  <2>2. CASE MarkedOn(GroupUids(r)) /\ Goto(r, IF HasUidPlus THEN "expunge" ELSE "search", TRUE)
    <3>1. CASE HasUidPlus
      BY <1>5, <2>2, <3>1 DEF Mark, Leads
    <3>2. CASE ~HasUidPlus
      BY <1>5, <2>2, <3>2 DEF Mark, Leads
    <3> QED
      BY <3>1, <3>2
  <2> QED
    BY <1>4, <2>1, <2>2
<1>6. CASE Expunge(r)
  <2>1. \/ Goto(r, "local", TRUE) /\ box' = BoxWithout(GroupUids(r) \cap marked)
        \/ \E link \in BOOLEAN : Goto(r, IF Purging(r) THEN "idle" ELSE "local", link)
        \/ Goto(r, "search", TRUE) /\ UNCHANGED <<box, marked>>
    BY <1>6 DEF Expunge, Expunged, ExpungeFailed, RemoveFailed
  <2>2. CASE Goto(r, "local", TRUE) /\ box' = BoxWithout(GroupUids(r) \cap marked)
    BY <1>6, <2>2 DEF Expunge, Leads
  <2>3. CASE Goto(r, "search", TRUE) /\ UNCHANGED <<box, marked>>
    BY <1>6, <2>3 DEF Expunge, Leads
  <2> QED
    BY <1>4, <2>1, <2>2, <2>3
<1>7. CASE Search(r)
  <2>1. \/ Goto(r, "wide", TRUE) /\ UNCHANGED <<box, marked>>
        \/ \E link \in BOOLEAN : Goto(r, IF Purging(r) THEN "idle" ELSE "local", link)
    BY <1>7 DEF Search, ExpungeFailed, RemoveFailed, serverVars
  <2>2. CASE Goto(r, "wide", TRUE) /\ UNCHANGED <<box, marked>>
    BY <1>7, <2>2 DEF Search, Leads
  <2> QED
    BY <1>4, <2>1, <2>2
<1>8. CASE Wide(r)
  <2>1. \/ Goto(r, "local", TRUE) /\ box' = BoxWithout(FolderMarks(r))
        \/ \E link \in BOOLEAN : Goto(r, IF Purging(r) THEN "idle" ELSE "local", link)
    BY <1>1, <1>8 DEF Wide, Expunged, ExpungeFailed, RemoveFailed, Up
  <2>2. CASE Goto(r, "local", TRUE) /\ box' = BoxWithout(FolderMarks(r))
    BY <1>8, <2>2 DEF Wide, Leads
  <2> QED
    BY <1>4, <2>1, <2>2
<1>9. CASE Local(r) \/ Count(r)
  BY <1>1, <1>9 DEF Local, Count, Up, Leads
<1> QED
  BY <1>2, <1>3, <1>5, <1>6, <1>7, <1>8, <1>9 DEF Command

\* What is filed stays filed.
LEMMA StaysFiled ==
  ASSUME ConstantsOK, TypeOK, NEW us \in SUBSET Uids, NEW d, filed' = FiledIn(us, d)
  PROVE  /\ \A m \in Uids, e \in Dests : filed[m][e] > 0 => filed'[m][e] > 0
         /\ \A m \in Uids, e \in Dests : filed'[m][e] > 0 =>
              filed[m][e] > 0 \/ (e = d /\ m \in There(us))
         /\ d \in Dests => \A m \in There(us) : m \in Uids => filed'[m][d] > 0
<1>1. ASSUME NEW m \in Uids
      PROVE  /\ \A e \in Dests : filed[m][e] > 0 => filed'[m][e] > 0
             /\ \A e \in Dests : filed'[m][e] > 0 =>
                  filed[m][e] > 0 \/ (e = d /\ m \in There(us))
             /\ d \in Dests /\ m \in There(us) => filed'[m][d] > 0
  <2>1. filed[m] \in [Dests -> 0..2]
    BY DEF TypeOK
  <2>2. CASE m \notin There(us)
    BY <2>2 DEF FiledIn
  <2>3. CASE m \in There(us)
    <3> DEFINE more == IF filed[m][d] = 0 THEN 1 ELSE 2
    <3>1. more > 0
      OBVIOUS
    <3>2. filed'[m] = [filed[m] EXCEPT ![d] = more]
      BY <2>3 DEF FiledIn
    <3> HIDE DEF more
    <3> QED
      BY <2>1, <2>3, <3>1, <3>2
  <2> QED
    BY <2>2, <2>3
<1> QED
  BY <1>1

\* No message comes back, none is unfiled, nothing asked for is forgotten.
Onward ==
  /\ \A u \in Uids : /\ box'[u] \in {box[u], NoMsg}
                     /\ u \in marked => u \in marked' \/ box'[u] = NoMsg
  /\ \A m \in Uids, d \in Dests : filed[m][d] > 0 => filed'[m][d] > 0
  /\ confirmed \subseteq confirmed' /\ asked \subseteq asked'

LEMMA StepOnward ==
  ASSUME ConstantsOK, TypeOK, OnlyClient, [Next]_vars
  PROVE  Onward
<1>1. ASSUME NEW us, box' = BoxWithout(us), marked' = marked \ us
      PROVE  \A u \in Uids : /\ box'[u] \in {box[u], NoMsg}
                             /\ u \in marked => u \in marked' \/ box'[u] = NoMsg
  BY <1>1 DEF BoxWithout
<1>2. ASSUME NEW r \in Runs, Command(r)
      PROVE  Onward
  <2>1. confirmed' = confirmed /\ asked' = asked
    BY <1>2 DEF Command, Count, Move, Copy, Mark, Expunge, Search, Wide, Local, Stay
  <2>2. GroupUids(r) \in SUBSET Uids
    BY ItemTypes
  <2>3. \A m \in Uids, d \in Dests : filed[m][d] > 0 => filed'[m][d] > 0
    <3>1. filed' = filed \/ filed' = FiledIn(GroupUids(r), run[r].dest)
      BY <1>2, CommandServer
    <3> QED
      BY <2>2, <3>1, StaysFiled
  <2>4. \A u \in Uids : /\ box'[u] \in {box[u], NoMsg}
                        /\ u \in marked => u \in marked' \/ box'[u] = NoMsg
    <3>1. \/ box' = box /\ marked \subseteq marked'
          \/ \E us : box' = BoxWithout(us) /\ marked' = marked \ us
      BY <1>2, CommandServer DEF Expunged, MarkedOn
    <3> QED
      BY <1>1, <3>1
  <2> QED
    BY <2>1, <2>3, <2>4 DEF Onward
<1>3. ~(\E u \in Uids : OtherMark(u)) /\ ~(\E u, v \in Uids : Rebuild(u, v))
  BY DEF OnlyClient, OtherMark, Rebuild, TypeOK
<1>4. ASSUME UNCHANGED <<box, marked, filed>>, confirmed \subseteq confirmed', asked \subseteq asked'
      PROVE  Onward
  BY <1>4 DEF Onward
<1>5. CASE \/ \E sel \in SUBSET Uids, target \in Dests, atOnce \in BOOLEAN : QueueMove(sel, target, atOnce)
           \/ \E r \in Runs, us \in SUBSET Uids : StartPurge(r, us)
  <2>1. ASSUME NEW sel \in SUBSET Uids, NEW target \in Dests, NEW atOnce \in BOOLEAN,
               QueueMove(sel, target, atOnce)
        PROVE  Onward
    <3>1. UNCHANGED <<box, marked, filed, confirmed>>
      BY <2>1 DEF QueueMove, serverVars
    <3>2. asked \subseteq asked'
      BY <2>1, QueueFacts
    <3> QED
      BY <1>4, <3>1, <3>2
  <2>2. ASSUME NEW r \in Runs, NEW us \in SUBSET Uids, StartPurge(r, us)
        PROVE  Onward
    BY <1>4, <2>2 DEF StartPurge, serverVars
  <2> QED
    BY <1>5, <2>1, <2>2
<1>6. CASE \/ \E b \in Batches : Lapse(b) \/ Undo(b)
           \/ \E r \in Runs : StartPush(r) \/ Finish(r) \/ TakeGroup(r) \/ Crash(r)
           \/ \E u \in Uids : SyncFolder(u)
           \/ LoseTrash
           \/ UNCHANGED vars
  BY <1>4, <1>6
     DEF Lapse, Undo, StartPush, Finish, TakeGroup, Crash, SyncFolder, LoseTrash, Stay, serverVars,
         ghosts, vars
<1> QED
  BY <1>2, <1>3, <1>5, <1>6 DEF Next, Step, Command

\* The steps at which no run begins, takes a group or sends a command.
LEMMA QuietStep ==
  ASSUME ConstantsOK, TypeOK, OnlyClient, [Next]_vars,
         \A r \in Runs : ~Command(r) /\ ~TakeGroup(r) /\ ~StartPush(r),
         \A r \in Runs : \A us \in SUBSET Uids : ~StartPurge(r, us)
  PROVE  /\ UNCHANGED <<box, marked, filed, destroyed, confirmed>>
         /\ \A q \in Runs : \/ run'[q] = run[q]
                            \/ run'[q].pc = "idle" /\ run'[q].todo = {} /\ run'[q].grp = {}
<1>1. ~(\E u \in Uids : OtherMark(u)) /\ ~(\E u, v \in Uids : Rebuild(u, v))
  BY DEF OnlyClient, OtherMark, Rebuild, TypeOK
<1>2. ASSUME NEW r \in Runs, Finish(r) \/ Crash(r)
      PROVE  /\ UNCHANGED <<box, marked, filed, destroyed, confirmed>>
             /\ \A q \in Runs : \/ run'[q] = run[q]
                                \/ run'[q].pc = "idle" /\ run'[q].todo = {} /\ run'[q].grp = {}
  <2>1. \E label \in Labels, link \in BOOLEAN : label = "idle" /\ Goto(r, label, link)
    BY <1>2 DEF Finish, Crash, Labels
  <2>2. /\ \A q \in Runs \ {r} : run'[q] = run[q]
        /\ run'[r].pc = "idle" /\ run'[r].todo = {} /\ run'[r].grp = {}
    BY <2>1, GotoRun DEF TypeOK
  <2> QED
    BY <1>2, <2>2 DEF Finish, Crash, Stay, serverVars, ghosts
<1>3. CASE \/ \E sel \in SUBSET Uids, target \in Dests, atOnce \in BOOLEAN : QueueMove(sel, target, atOnce)
           \/ \E b \in Batches : Lapse(b) \/ Undo(b)
           \/ \E u \in Uids : SyncFolder(u)
           \/ LoseTrash
           \/ UNCHANGED vars
  BY <1>3 DEF QueueMove, queue_rows, Lapse, Undo, SyncFolder, LoseTrash, serverVars, ghosts, vars
<1> QED
  BY <1>1, <1>2, <1>3 DEF Next, Step, Command

\* Every run but the one that moves is as it was; that one holds what it held
\* or takes it from the table or the user.
LEMMA ItemsFrom ==
  ASSUME ConstantsOK, TypeOK, OnlyClient, [Next]_vars, NEW q \in Runs, NEW i \in Items(q)'
  PROVE  \/ i \in Items(q)
         \/ i \in DueItems
         \/ i.act = "purge" /\ i.uid \in Uids /\ i.msg = row[i.uid] /\ row[i.uid] # NoMsg
<1>1. ASSUME NEW r \in Runs, Command(r)
      PROVE  i \in Items(q)
  BY <1>1, CommandItems DEF FewerItems, Items
<1>2. ASSUME NEW r \in Runs, StartPush(r) \/ \E us \in SUBSET Uids : StartPurge(r, us)
      PROVE  \/ i \in Items(q)
             \/ i \in DueItems
             \/ i.act = "purge" /\ i.uid \in Uids /\ i.msg = row[i.uid] /\ row[i.uid] # NoMsg
  BY <1>2, StartFacts DEF Items
<1>3. ASSUME NEW r \in Runs, TakeGroup(r)
      PROVE  i \in Items(q)
  <2>1. \A g \in Groups(run[r].todo) : g \subseteq run[r].todo
    BY GroupFacts
  <2> QED
    BY <1>3, <2>1, TakeRun DEF Items
<1>4. CASE /\ \A r \in Runs : ~Command(r) /\ ~TakeGroup(r) /\ ~StartPush(r)
           /\ \A r \in Runs : \A us \in SUBSET Uids : ~StartPurge(r, us)
  BY <1>4, QuietStep DEF Items
<1> QED
  BY <1>1, <1>2, <1>3, <1>4

LEMMA OwnStep ==
  ASSUME ConstantsOK, TypeOK, OnlyClient, OwnUids, [Next]_vars
  PROVE  OwnUids'
<1>1. \A u \in Uids : box'[u] \in {u, NoMsg}
  BY StepOnward DEF Onward, OwnUids
<1>2. \A u \in Uids : row'[u] \in {row[u], box[u], NoMsg}
  <2>1. CASE \E u \in Uids : SyncFolder(u)
    BY <2>1 DEF SyncFolder
  <2>2. CASE \E r \in Runs : Local(r)
    BY <2>2 DEF Local
  <2>3. CASE row' = row
    BY <2>3
  <2> QED
    BY <2>1, <2>2, <2>3
       DEF Next, Step, QueueMove, queue_rows, Lapse, Undo, StartPush, StartPurge, Finish, TakeGroup,
           Count, Move, Copy, Mark, Expunge, Search, Wide, Crash, LoseTrash, OtherMark, Rebuild, vars
<1>3. ASSUME NEW q \in Runs, NEW i \in Items(q)'
      PROVE  i.msg = i.uid
  <2>1. \A j \in DueItems : j.uid \in Uids /\ j.msg = row[j.uid] /\ row[j.uid] # NoMsg
    BY DEF DueItems
  <2> QED
    BY <2>1, ItemsFrom DEF OwnUids
<1> QED
  BY <1>1, <1>2, <1>3 DEF OwnUids

\* What a command that files a group does for the messages still there.
LEMMA GroupFiled ==
  ASSUME ConstantsOK, TypeOK, OwnUids, AskedInv, NEW r \in Runs, run[r].pc \in {"move", "copy"},
         filed' = FiledIn(GroupUids(r), run[r].dest)
  PROVE  /\ \A i \in run[r].grp : box[i.uid] = NoMsg \/ filed'[i.uid][run[r].dest] > 0
         /\ \A i \in run[r].grp : run[r].dest \in Dests
         /\ \A m \in There(GroupUids(r)) : <<m, run[r].dest>> \in asked
<1>1. GroupUids(r) \in SUBSET Uids /\ \A i \in run[r].grp : i.uid \in GroupUids(r)
  BY ItemTypes DEF GroupUids, UidsOf
<1>2. ASSUME NEW i \in run[r].grp
      PROVE  run[r].dest \in Dests
  <2>1. <<i.uid, run[r].dest>> \in Uids \X Dests
    BY DEF AskedInv, TypeOK
  <2> QED
    BY <2>1
<1>3. \A m \in There(GroupUids(r)) : m \in GroupUids(r)
  BY <1>1 DEF There, OwnUids
<1>4. \A m \in GroupUids(r) : <<m, run[r].dest>> \in asked
  BY DEF GroupUids, UidsOf, AskedInv
<1>5. ASSUME NEW i \in run[r].grp, box[i.uid] # NoMsg
      PROVE  filed'[i.uid][run[r].dest] > 0
  <2>1. i.uid \in There(GroupUids(r)) /\ i.uid \in Uids
    BY <1>1, <1>5 DEF There, OwnUids
  <2> QED
    BY <1>1, <1>2, <2>1, StaysFiled
<1> QED
  BY <1>2, <1>3, <1>4, <1>5

LEMMA SafeStep ==
  ASSUME ConstantsOK, TypeOK, OnlyClient, OwnUids, SafeInv, AskedInv, [Next]_vars
  PROVE  SafeInv'
<1>1. \A u \in Uids : Safe(u) => Safe(u)'
  BY StepOnward DEF Onward, Safe
<1>2. ASSUME NEW r \in Runs, Command(r)
      PROVE  SafeInv'
  <2>1. PICK label \in Labels, link \in BOOLEAN : Goto(r, label, link) /\ Leads(r, label)
    BY <1>2, CommandLeads
  <2>2. \A q \in Runs : \A i \in Items(q) : i.uid \in Uids
    BY ItemTypes DEF Item
  <2>3. GroupUids(r) \subseteq Uids /\ \A u \in GroupUids(r) : \E i \in run[r].grp : u = i.uid
    BY ItemTypes DEF GroupUids, UidsOf
  <2>4. ASSUME NEW u \in Uids, box'[u] = NoMsg \/ u \in marked'
        PROVE  Safe(u)'
    <3>1. CASE box[u] = NoMsg \/ u \in marked
      BY <1>1, <3>1 DEF SafeInv
    <3>2. CASE box[u] # NoMsg /\ u \notin marked
      <4>1. CASE /\ run[r].pc = "move"
                 /\ box' = BoxWithout(GroupUids(r)) /\ marked' = marked \ GroupUids(r)
                 /\ filed' = FiledIn(GroupUids(r), run[r].dest)
        <5>1. u \in GroupUids(r)
          BY <2>4, <3>2, <4>1 DEF BoxWithout
        <5> QED
          BY <2>3, <3>2, <4>1, <5>1, GroupFiled DEF Safe
      <4>2. CASE run[r].pc = "mark" /\ MarkedOn(GroupUids(r)) /\ UNCHANGED <<box, filed>>
        <5>1. u \in GroupUids(r)
          BY <2>4, <3>2, <4>2 DEF MarkedOn
        <5> QED
          BY <1>1, <2>3, <4>2, <5>1 DEF SafeInv
      <4>3. ASSUME NEW us, us \subseteq marked, Expunged(us)
            PROVE  FALSE
        BY <2>4, <3>2, <4>3 DEF Expunged, BoxWithout
      <4> QED
        BY <1>2, <2>4, <3>2, <4>1, <4>2, <4>3, CommandServer
    <3> QED
      BY <3>1, <3>2
  <2>5. ASSUME NEW q \in Runs, run'[q].pc \in {"mark", "expunge", "search", "wide"},
               NEW i \in run'[q].grp
        PROVE  Safe(i.uid)'
    <3>1. CASE q # r
      <4>1. run'[q] = run[q] /\ i \in Items(q)
        BY <2>1, <2>5, <3>1, GotoRun DEF TypeOK, Items
      <4> QED
        BY <1>1, <2>2, <2>5, <4>1 DEF SafeInv
    <3>2. CASE q = r
      <4>1. run'[r].pc = label /\ run'[r].grp = run[r].grp /\ label \notin {"idle", "group"}
        BY <2>1, <2>5, <3>2, GotoRun DEF TypeOK
      <4>2. i \in run[r].grp /\ i.uid \in Uids
        BY <2>2, <2>5, <3>2, <4>1 DEF Items
      <4>3. CASE run[r].pc \in {"mark", "expunge", "search", "wide"}
        BY <1>1, <4>2, <4>3 DEF SafeInv
      <4>4. CASE run[r].pc = "copy" /\ box' = box /\ filed' = FiledIn(GroupUids(r), run[r].dest)
        <5>1. box[i.uid] = NoMsg \/ (run[r].dest \in Dests /\ filed'[i.uid][run[r].dest] > 0)
          BY <4>2, <4>4, GroupFiled
        <5> QED
          BY <1>1, <4>2, <5>1 DEF Safe, SafeInv
      <4> QED
        BY <2>1, <2>5, <3>2, <4>1, <4>3, <4>4 DEF Leads
    <3> QED
      BY <3>1, <3>2
  <2> QED
    BY <2>4, <2>5 DEF SafeInv
<1>3. ASSUME UNCHANGED <<box, marked>>,
             \A q \in Runs : \A i \in run'[q].grp :
               run'[q].pc \in {"mark", "expunge", "search", "wide"} =>
                 \/ run'[q] = run[q]
                 \/ i.uid \in confirmed'
      PROVE  SafeInv'
  <2>1. \A q \in Runs : \A i \in run[q].grp : i.uid \in Uids
    BY ItemTypes DEF Item, Items
  <2> QED
    BY <1>1, <1>3, <2>1 DEF SafeInv, Safe
<1>4. ASSUME NEW r \in Runs, StartPush(r) \/ \E us \in SUBSET Uids : StartPurge(r, us)
      PROVE  SafeInv'
  <2>1. UNCHANGED <<box, marked>>
    BY <1>4 DEF StartPush, StartPurge, serverVars
  <2>2. \A u \in Uids : row[u] # NoMsg => row[u] = u
    BY DEF OwnUids
  <2> QED
    <3>1. \A q \in Runs \ {r} : run'[q] = run[q]
      BY <1>4, StartFacts
    <3>2. ASSUME run'[r].pc # "group", NEW i \in run'[r].grp
          PROVE  i.uid \in confirmed'
      <4>1. i.uid \in Uids /\ i.msg = row[i.uid] /\ row[i.uid] # NoMsg /\ i.msg \in confirmed'
        BY <1>4, <3>2, StartFacts
      <4> QED
        BY <2>2, <4>1
    <3> QED
      BY <1>3, <2>1, <3>1, <3>2
<1>5. ASSUME NEW r \in Runs, TakeGroup(r)
      PROVE  SafeInv'
  <2>1. UNCHANGED <<box, marked>>
    BY <1>5 DEF TakeGroup, serverVars
  <2>2. run'[r].pc \in {"group", "count", "move", "copy"} /\ \A q \in Runs \ {r} : run'[q] = run[q]
    BY <1>5, TakeRun DEF FirstCommand
  <2> QED
    BY <1>3, <2>1, <2>2
<1>6. CASE /\ \A r \in Runs : ~Command(r) /\ ~TakeGroup(r) /\ ~StartPush(r)
           /\ \A r \in Runs : \A us \in SUBSET Uids : ~StartPurge(r, us)
  BY <1>3, <1>6, QuietStep
<1> QED
  BY <1>2, <1>4, <1>5, <1>6

\* Where a group goes is where each of its messages was sent.
LEMMA TargetAsked ==
  ASSUME TypeOK, AskedInv, PurgeInv, NEW r \in Runs, NEW g \in Groups(run[r].todo),
         NEW d \in pending_target(CHOOSE i \in g : TRUE), NEW j \in g
  PROVE  <<j.uid, d>> \in asked
<1> DEFINE c == CHOOSE i \in g : TRUE
<1>1. c \in g /\ c.act = j.act /\ c.to = j.to /\ j \in run[r].todo /\ j \in Item
  BY GroupFacts
<1>2. AskedFor(j, j.uid) /\ j.act \in {"trash", "archive", "move"}
  BY <1>1 DEF AskedInv, PurgeInv, Items, Item
<1>3. d \in pending_target(c)
  OBVIOUS
<1> HIDE DEF c
<1>4. d = IF c.act = "trash" THEN "Trash" ELSE IF c.to # "none" THEN c.to ELSE "Archive"
  <2>1. CASE c.act = "trash"
    BY <1>3, <2>1 DEF pending_target
  <2>2. CASE c.act # "trash" /\ c.to # "none"
    BY <1>3, <2>2 DEF pending_target
  <2>3. CASE c.act # "trash" /\ c.to = "none"
    BY <1>3, <2>3 DEF pending_target
  <2> QED
    BY <2>1, <2>2, <2>3
<1>5. /\ j.act = "trash" => <<j.uid, "Trash">> \in asked
      /\ j.act = "archive" => <<j.uid, "Archive">> \in asked /\ j.to \in {"Archive", "none"}
      /\ j.act = "move" => <<j.uid, j.to>> \in asked /\ j.to # "none"
  BY <1>2 DEF AskedFor
<1> QED
  BY <1>1, <1>2, <1>4, <1>5

LEMMA AskedStep ==
  ASSUME ConstantsOK, TypeOK, OnlyClient, OwnUids, AskedInv, PurgeInv, [Next]_vars
  PROVE  AskedInv'
<1>1. asked \subseteq asked'
  BY StepOnward DEF Onward
<1>2. \A u \in Uids : AskedFor(pend[u], u)'
  <2>1. ASSUME FewerRows
        PROVE  \A u \in Uids : AskedFor(pend[u], u)'
    <3>1. ASSUME NEW u \in Uids
          PROVE  \/ pend'[u].act = "none"
                 \/ pend'[u].act = pend[u].act /\ pend'[u].to = pend[u].to
      BY <2>1 DEF FewerRows
    <3> QED
      BY <1>1, <3>1 DEF AskedFor, AskedInv
  <2>2. ASSUME NEW sel \in SUBSET Uids, NEW target \in Dests, NEW atOnce \in BOOLEAN,
               QueueMove(sel, target, atOnce)
        PROVE  \A u \in Uids : AskedFor(pend[u], u)'
    <3>1. PICK us \in SUBSET Uids :
           /\ \A u \in us : row[u] # NoMsg
           /\ us # {} /\ target = "Work" => "Work" \in known
           /\ pend' = [u \in Uids |->
                IF u \in us THEN [act |-> Action(target), to |-> DestId(target),
                                  batch |-> batch', tries |-> 0]
                ELSE pend[u]]
           /\ asked' = asked \cup {<<row[u], target>> : u \in us}
           /\ handles' \in {handles, handles \cup {batch'}}
      BY <2>2, QueueFacts
    <3>2. ASSUME NEW u \in us
          PROVE  AskedFor(pend[u], u)'
      <4>1. row[u] = u /\ u \in Uids
        BY <3>1 DEF OwnUids
      <4>2. <<u, target>> \in asked'
        BY <3>1, <4>1
      <4>3. pend'[u].act = Action(target) /\ pend'[u].to = DestId(target)
        BY <3>1, <4>1
      <4>4. target = "Work" => "Work" \in known
        BY <3>1
      <4> QED
        BY <4>2, <4>3, <4>4 DEF AskedFor, Action, DestId, Dests
    <3>3. ASSUME NEW u \in Uids \ us
          PROVE  AskedFor(pend[u], u)'
      <4>1. pend'[u] = pend[u]
        BY <3>1
      <4> QED
        BY <1>1, <4>1 DEF AskedFor, AskedInv
    <3> QED
      BY <3>2, <3>3
  <2>3. ASSUME NEW r \in Runs, Command(r)
        PROVE  FewerRows
    BY <2>3, CommandItems
  <2>4. ASSUME NEW r \in Runs, TakeGroup(r)
        PROVE  FewerRows
    BY <2>4, TakeRun, RowsDropped
  <2>5. CASE \/ \E b \in Batches : Undo(b)
             \/ \E u \in Uids : SyncFolder(u)
    BY <2>1, <2>5, RowsDropped DEF Undo, SyncFolder
  <2>6. CASE pend' = pend
    BY <2>1, <2>6, RowsDropped
  <2> QED
    BY <2>1, <2>2, <2>3, <2>4, <2>5, <2>6
       DEF Next, Step, Command, Lapse, StartPush, StartPurge, Finish, Crash, LoseTrash, OtherMark,
           Rebuild, vars
<1>3. ASSUME NEW q \in Runs, NEW i \in Items(q)'
      PROVE  AskedFor(i, i.uid)'
  <2>1. CASE i \in Items(q)
    BY <1>1, <2>1 DEF AskedFor, AskedInv
  <2>2. CASE i \in DueItems
    <3>1. PICK u \in Uids : i.uid = u /\ i.act = pend[u].act /\ i.to = pend[u].to
      BY <2>2 DEF DueItems
    <3> QED
      BY <1>1, <3>1 DEF AskedFor, AskedInv
  <2>3. CASE i.act = "purge"
    BY <2>3 DEF AskedFor
  <2> QED
    BY <2>1, <2>2, <2>3, ItemsFrom
<1>4. ASSUME NEW q \in Runs, run'[q].pc \in {"move", "copy"}, NEW i \in run'[q].grp
      PROVE  <<i.uid, run'[q].dest>> \in asked'
  <2>1. CASE FewerItems
    BY <1>1, <1>4, <2>1 DEF FewerItems, AskedInv
  <2>2. ASSUME NEW r \in Runs, Command(r)
        PROVE  FewerItems
    BY <2>2, CommandItems
  <2>3. ASSUME NEW r \in Runs, StartPush(r) \/ \E us \in SUBSET Uids : StartPurge(r, us)
        PROVE  <<i.uid, run'[q].dest>> \in asked'
    <3>1. run'[r].pc \in {"group", "mark"} /\ \A p \in Runs \ {r} : run'[p] = run[p]
      BY <2>3, StartFacts
    <3> QED
      BY <1>1, <1>4, <3>1 DEF AskedInv
  <2>4. ASSUME NEW r \in Runs, TakeGroup(r)
        PROVE  <<i.uid, run'[q].dest>> \in asked'
    <3>1. /\ \A p \in Runs \ {r} : run'[p] = run[p]
          /\ \E g \in Groups(run[r].todo) :
               \/ run'[r].pc \in {"group", "count"}
               \/ run'[r].grp = g /\ run'[r].dest \in pending_target(CHOOSE j \in g : TRUE)
      BY <2>4, TakeRun
    <3>2. CASE q # r
      BY <1>1, <1>4, <3>1, <3>2 DEF AskedInv
    <3>3. CASE q = r
      BY <1>1, <1>4, <3>1, <3>3, TargetAsked
    <3> QED
      BY <3>2, <3>3
  <2>5. CASE /\ \A r \in Runs : ~Command(r) /\ ~TakeGroup(r) /\ ~StartPush(r)
             /\ \A r \in Runs : \A us \in SUBSET Uids : ~StartPurge(r, us)
    <3>1. run'[q] = run[q]
      BY <1>4, <2>5, QuietStep
    <3> QED
      BY <1>1, <1>4, <3>1 DEF AskedInv
  <2> QED
    BY <2>1, <2>2, <2>3, <2>4, <2>5
<1> QED
  BY <1>2, <1>3, <1>4 DEF AskedInv

LEMMA FiledStep ==
  ASSUME ConstantsOK, TypeOK, OnlyClient, OwnUids, AskedInv, FiledAsAsked, [Next]_vars
  PROVE  FiledAsAsked'
<1>1. asked \subseteq asked'
  BY StepOnward DEF Onward
<1>2. ASSUME NEW m \in Uids, NEW d \in Dests, filed'[m][d] > 0
      PROVE  <<m, d>> \in asked'
  <2>1. CASE filed' = filed
    BY <1>1, <1>2, <2>1 DEF FiledAsAsked, InDests
  <2>2. ASSUME NEW r \in Runs, run[r].pc \in {"move", "copy"},
               filed' = FiledIn(GroupUids(r), run[r].dest)
        PROVE  <<m, d>> \in asked'
    <3>1. GroupUids(r) \in SUBSET Uids
      BY ItemTypes
    <3>2. filed[m][d] > 0 \/ (d = run[r].dest /\ m \in There(GroupUids(r)))
      BY <1>2, <2>2, <3>1, StaysFiled
    <3> QED
      BY <1>1, <2>2, <3>2, GroupFiled DEF FiledAsAsked, InDests
  <2>3. \/ filed' = filed
        \/ \E r \in Runs : run[r].pc \in {"move", "copy"} /\ filed' = FiledIn(GroupUids(r), run[r].dest)
    <3>1. ASSUME NEW r \in Runs, Command(r)
          PROVE  filed' = filed \/ (run[r].pc \in {"move", "copy"}
                                      /\ filed' = FiledIn(GroupUids(r), run[r].dest))
      BY <3>1, CommandServer
    <3>2. CASE \/ \E r \in Runs : StartPush(r) \/ TakeGroup(r)
               \/ \E r \in Runs, us \in SUBSET Uids : StartPurge(r, us)
      BY <3>2 DEF StartPush, TakeGroup, StartPurge, serverVars
    <3>3. CASE /\ \A r \in Runs : ~Command(r) /\ ~TakeGroup(r) /\ ~StartPush(r)
               /\ \A r \in Runs : \A us \in SUBSET Uids : ~StartPurge(r, us)
      BY <3>3, QuietStep
    <3> QED
      BY <3>1, <3>2, <3>3
  <2> QED
    BY <2>1, <2>2, <2>3
<1> QED
  BY <1>2 DEF FiledAsAsked, InDests

\* What a run's place says of its group, once the run has moved on.
LEMMA PurgeCommand ==
  ASSUME ConstantsOK, TypeOK, OnlyClient, PurgeInv, [Next]_vars, NEW r \in Runs, Command(r),
         NEW i \in run'[r].grp
  PROVE  /\ i \in run[r].grp
         /\ run'[r].pc \in {"expunge", "search", "wide"} => box'[i.uid] = NoMsg \/ i.uid \in marked'
         /\ run'[r].pc = "local" /\ (\E j \in run'[r].grp : j.act = "purge") => box'[i.uid] = NoMsg
<1>1. PICK label \in Labels, link \in BOOLEAN : Goto(r, label, link) /\ Leads(r, label)
  BY CommandLeads
<1>2. run'[r].pc = label /\ label \notin {"idle", "group"} /\ run'[r].grp = run[r].grp
  BY <1>1, GotoRun DEF TypeOK
<1>3. i \in run[r].grp /\ i.uid \in GroupUids(r) /\ i.uid \in Uids
  BY <1>2, ItemTypes DEF GroupUids, UidsOf
<1>4. Onward
  BY StepOnward
<1>5. ASSUME box[i.uid] = NoMsg \/ i.uid \in marked
      PROVE  box'[i.uid] = NoMsg \/ i.uid \in marked'
  BY <1>3, <1>4, <1>5 DEF Onward
<1>6. CASE label = "expunge" \/ (label = "search" /\ run[r].pc = "mark")
  <2>1. run[r].pc = "mark" /\ MarkedOn(GroupUids(r))
    BY <1>1, <1>6 DEF Leads
  <2>2. box[i.uid] # NoMsg => i.uid \in marked'
    BY <1>3, <2>1 DEF MarkedOn
  <2>3. box[i.uid] = NoMsg => box'[i.uid] = NoMsg
    BY <1>3, <1>4 DEF Onward
  <2> QED
    BY <1>2, <1>3, <1>6, <2>2, <2>3
<1>7. CASE label = "wide" \/ (label = "search" /\ run[r].pc # "mark")
  <2>1. run[r].pc \in {"expunge", "search"}
    BY <1>1, <1>7 DEF Leads
  <2> QED
    BY <1>2, <1>3, <1>5, <1>7, <2>1 DEF PurgeInv
<1>8. CASE label = "local"
  <2>1. CASE ~Purging(r)
    BY <1>2, <1>3, <1>8, <2>1 DEF Purging, Group
  <2>2. CASE run[r].pc = "move"
    BY <1>2, <1>3, <1>8, <2>2 DEF PurgeInv
  <2>3. CASE run[r].pc = "expunge" /\ box' = BoxWithout(GroupUids(r) \cap marked)
    BY <1>2, <1>3, <1>8, <2>3 DEF PurgeInv, BoxWithout
  <2>4. CASE run[r].pc = "wide" /\ box' = BoxWithout(FolderMarks(r))
    <3>1. box[i.uid] = NoMsg \/ i.uid \in marked
      BY <1>3, <2>4 DEF PurgeInv
    <3> DEFINE c == CHOOSE u \in GroupUids(r) : TRUE
    <3>2. HomeOf[i.uid] = HomeOf[c]
      <4>1. c \in GroupUids(r)
        BY <1>3
      <4> HIDE DEF c
      <4>2. PICK j \in run[r].grp : c = j.uid
        BY <4>1 DEF GroupUids, UidsOf
      <4> QED
        BY <1>3, <4>2 DEF PurgeInv
    <3>3. i.uid \in marked => i.uid \in FolderMarks(r)
      BY <1>3, <3>2 DEF FolderMarks, SameFolder
    <3> QED
      BY <1>2, <1>3, <1>8, <2>4, <3>1, <3>3 DEF BoxWithout
  <2> QED
    BY <1>1, <1>8, <2>1, <2>2, <2>3, <2>4 DEF Leads
<1> QED
  BY <1>2, <1>3, <1>6, <1>7, <1>8

LEMMA PurgeStep ==
  ASSUME ConstantsOK, TypeOK, OnlyClient, OwnUids, PurgeInv, [Next]_vars
  PROVE  PurgeInv'
<1>1. Onward
  BY StepOnward
<1>2. \A q \in Runs : \A i \in Items(q) : i \in Item /\ i.uid \in Uids
  BY ItemTypes DEF Item
<1>3. \A i \in DueItems : i.act # "purge"
  <2>1. \A u \in Uids : pend[u].act # "purge"
    BY DEF TypeOK, Pending
  <2>2. SUFFICES ASSUME NEW i \in DueItems PROVE i.act # "purge"
    OBVIOUS
  <2>3. PICK u \in Uids :
          i = [uid |-> u, msg |-> row[u], act |-> pend[u].act, to |-> pend[u].to,
               tries |-> pend[u].tries, batch |-> pend[u].batch]
    BY DEF DueItems
  <2> QED
    BY <2>1, <2>3
<1> DEFINE Fine(q) ==
      /\ \A i, j \in run'[q].grp : HomeOf[i.uid] = HomeOf[j.uid]
      /\ \A i \in run'[q].todo : i.act # "purge"
      /\ run'[q].pc \in {"move", "copy"} => \A i \in run'[q].grp : i.act # "purge"
      /\ run'[q].pc \in {"expunge", "search", "wide"} =>
           \A i \in run'[q].grp : box'[i.uid] = NoMsg \/ i.uid \in marked'
      /\ run'[q].pc = "local" /\ (\E j \in run'[q].grp : j.act = "purge") =>
           \A i \in run'[q].grp : box'[i.uid] = NoMsg
<1>4. ASSUME NEW q \in Runs, run'[q] = run[q]
      PROVE  Fine(q)
  <2>1. \A i \in run[q].grp : i.uid \in Uids
    BY <1>2 DEF Items
  <2>2. \A i \in run[q].grp :
          /\ box[i.uid] = NoMsg => box'[i.uid] = NoMsg
          /\ i.uid \in marked => box'[i.uid] = NoMsg \/ i.uid \in marked'
    BY <1>1, <2>1 DEF Onward
  <2> QED
    BY <1>4, <2>2 DEF PurgeInv, Purging, Group
<1>5. ASSUME NEW r \in Runs, Command(r)
      PROVE  Fine(r)
  <2>1. FewerItems
    BY <1>5, CommandItems
  <2>2. /\ \A i, j \in run'[r].grp : HomeOf[i.uid] = HomeOf[j.uid]
        /\ \A i \in run'[r].todo : i.act # "purge"
        /\ run'[r].pc \in {"move", "copy"} => \A i \in run'[r].grp : i.act # "purge"
    BY <2>1 DEF FewerItems, PurgeInv
  <2>3. \A i \in run'[r].grp :
         /\ run'[r].pc \in {"expunge", "search", "wide"} => box'[i.uid] = NoMsg \/ i.uid \in marked'
         /\ run'[r].pc = "local" /\ (\E j \in run'[r].grp : j.act = "purge") => box'[i.uid] = NoMsg
    BY <1>5, PurgeCommand
  <2> QED
    BY <2>2, <2>3
<1>6. ASSUME NEW r \in Runs, StartPush(r) \/ \E us \in SUBSET Uids : StartPurge(r, us)
      PROVE  Fine(r)
  <2>1. CASE run'[r].pc = "group" /\ run'[r].todo = DueItems /\ run'[r].grp = {}
    BY <1>3, <2>1
  <2>2. CASE /\ run'[r].pc = "mark" /\ run'[r].todo = {}
             /\ \A i, j \in run'[r].grp : HomeOf[i.uid] = HomeOf[j.uid]
    BY <2>2
  <2> QED
    BY <1>6, <2>1, <2>2, StartFacts
<1>7. ASSUME NEW r \in Runs, TakeGroup(r)
      PROVE  Fine(r)
  <2>1. PICK g \in Groups(run[r].todo) :
          /\ run'[r].todo = run[r].todo \ g
          /\ \/ run'[r].grp = run[r].grp /\ run'[r].pc = "group"
             \/ run'[r].grp = g /\ run'[r].pc \in {"count", FirstCommand}
    BY <1>7, TakeRun
  <2>2. g \subseteq run[r].todo /\ \A i, j \in g : HomeOf[i.uid] = HomeOf[j.uid]
    BY GroupFacts DEF Groups
  <2>3. run'[r].pc \in {"group", "count", "move", "copy"}
    BY <2>1 DEF FirstCommand
  <2> QED
    BY <2>1, <2>2, <2>3 DEF PurgeInv
<1>8. \A q \in Runs : Fine(q)
  <2>1. ASSUME NEW r \in Runs, Command(r) PROVE \A q \in Runs : Fine(q)
    <3>1. \A q \in Runs \ {r} : run'[q] = run[q]
      BY <2>1, CommandRun, GotoRun DEF TypeOK
    <3> QED
      BY <1>4, <1>5, <2>1, <3>1
  <2>2. ASSUME NEW r \in Runs, StartPush(r) \/ \E us \in SUBSET Uids : StartPurge(r, us)
        PROVE  \A q \in Runs : Fine(q)
    <3>1. \A q \in Runs \ {r} : run'[q] = run[q]
      BY <2>2, StartFacts
    <3> QED
      BY <1>4, <1>6, <2>2, <3>1
  <2>3. ASSUME NEW r \in Runs, TakeGroup(r) PROVE \A q \in Runs : Fine(q)
    <3>1. \A q \in Runs \ {r} : run'[q] = run[q]
      BY <2>3, TakeRun
    <3> QED
      BY <1>4, <1>7, <2>3, <3>1
  <2>4. CASE /\ \A r \in Runs : ~Command(r) /\ ~TakeGroup(r) /\ ~StartPush(r)
             /\ \A r \in Runs : \A us \in SUBSET Uids : ~StartPurge(r, us)
    <3>1. ASSUME NEW q \in Runs
          PROVE  Fine(q)
      <4>1. CASE run'[q].pc = "idle" /\ run'[q].todo = {} /\ run'[q].grp = {}
        BY <4>1
      <4> QED
        BY <1>4, <2>4, <4>1, QuietStep
    <3> QED
      BY <3>1
  <2> QED
    BY <2>1, <2>2, <2>3, <2>4
<1>9. \A m \in destroyed' : box'[m] = NoMsg
  <2>1. ASSUME NEW r \in Runs, Local(r), Purging(r)
        PROVE  \A m \in destroyed' : box'[m] = NoMsg
    <3>1. box' = box /\ destroyed' = destroyed \cup {i.msg : i \in Group(r)}
      BY <2>1 DEF Local, serverVars
    <3>2. \A i \in Group(r) : i.msg = i.uid /\ box[i.uid] = NoMsg
      BY <2>1 DEF Local, At, OwnUids, Items, PurgeInv, Group
    <3> QED
      BY <3>1, <3>2 DEF PurgeInv
  <2>2. CASE destroyed' = destroyed
    <3>1. destroyed \subseteq Uids
      BY DEF TypeOK
    <3> QED
      BY <1>1, <2>2, <3>1 DEF PurgeInv, Onward
  <2>3. ASSUME NEW r \in Runs, Command(r)
        PROVE  destroyed' = destroyed \/ (Local(r) /\ Purging(r))
    BY <2>3 DEF Command, Count, Move, Copy, Mark, Expunge, Search, Wide, Local
  <2>4. CASE \/ \E r \in Runs : StartPush(r) \/ TakeGroup(r)
             \/ \E r \in Runs, us \in SUBSET Uids : StartPurge(r, us)
    BY <2>2, <2>4 DEF StartPush, TakeGroup, StartPurge, ghosts
  <2>5. CASE /\ \A r \in Runs : ~Command(r) /\ ~TakeGroup(r) /\ ~StartPush(r)
             /\ \A r \in Runs : \A us \in SUBSET Uids : ~StartPurge(r, us)
    BY <2>2, <2>5, QuietStep
  <2> QED
    BY <2>1, <2>2, <2>3, <2>4, <2>5
<1> QED
  BY <1>8, <1>9 DEF PurgeInv, Purging, Group

\* Where no other client touches the mailbox, nothing disappears that the user
\* did not purge, nothing is filed where the user did not send it, and what a
\* purge reported is gone, whatever the server offers, refuses or loses, and
\* however many runs push at a time (sync/imap/session/mutate.rs,
\* copy_then_remove and expunge_only; sync/imap/engine/mutate.rs).
THEOREM BulkIsSafe ==
  ASSUME OnlyClient
  PROVE  Spec => []BulkHonest
<1>1. Init => BulkInv
  BY MovesInit, ConstantsOK DEF BulkInv
<1>2. BulkInv /\ [Next]_vars => BulkInv'
  BY Typing, OwnStep, SafeStep, AskedStep, FiledStep, PurgeStep, ConstantsOK DEF BulkInv
<1>3. BulkInv => BulkHonest
  <2> SUFFICES ASSUME BulkInv PROVE BulkHonest
    OBVIOUS
  <2>1. NothingDestroyed
    <3>1. ASSUME NEW m \in Uids
          PROVE  OnServer(m) \/ m \in confirmed
      <4>1. box[m] = m \/ Safe(m)
        BY DEF BulkInv, OwnUids, SafeInv
      <4> QED
        BY <4>1 DEF OnServer, Safe
    <3> QED
      BY <3>1 DEF NothingDestroyed
  <2>2. PurgeHonest
    <3>1. ASSUME NEW m \in destroyed, NEW u \in Uids
          PROVE  box[u] # m
      <4>1. m \in Uids /\ m # NoMsg /\ box[m] = NoMsg /\ box[u] \in {u, NoMsg}
        BY ConstantsOK DEF BulkInv, TypeOK, PurgeInv, OwnUids, ConstantsOK, NoMsg
      <4> QED
        BY <4>1
    <3> QED
      BY <3>1 DEF PurgeHonest
  <2> QED
    BY <2>1, <2>2 DEF BulkInv, BulkHonest
<1> QED
  BY <1>1, <1>2, <1>3, PTL DEF Spec
-----------------------------------------------------------------------------
(* TimerExact for any accounts, any delays and any number of actions.        *)

\* 8 and 2 seconds: an action's own deadline does not fall into a burst that
\* was pushed before it was made.
DelaysOK == GRACE \in Nat /\ COALESCE \in Nat /\ COALESCE <= GRACE

\* A push does not run ahead of the clock, and the deadlines that are left are
\* none of those it took along.
HeapInv ==
  /\ \A a \in Accounts : fired[a] <= now
  /\ \A h \in heap : h.at > 0 /\ (fired[h.acc] = 0 \/ h.at > fired[h.acc] + COALESCE)

\* OnlyLateRidersLeft by deadlines: what covers a row is its own deadline or a
\* later one, so that it is not lost when an earlier one goes.
PendInv ==
  \A p \in waiting :
    /\ p.deadline = p.due + 1 /\ p.due >= GRACE
    /\ \/ \E h \in heap : h.acc = p.acc /\ h.at >= p.deadline
       \/ p.acc \in jobs /\ p.due <= now
       \/ LeftBehind(p)

TimerInv == TimerTypeOK /\ HeapInv /\ PendInv

(* A deadline that fires takes along only deadlines within COALESCE of it:   *)
(* a row that loses its own goes with this push if it is due, and is left    *)
(* behind if not; one left behind earlier is due by now (GraceTimer::run).   *)
LEMMA FireKeeps ==
  ASSUME DelaysOK, TimerInv, Fire
  PROVE  TimerInv'
<1> USE DEF DelaysOK
<1>1. PICK h \in heap :
        /\ h.at <= now
        /\ heap' = heap \ RideAlong(h)
        /\ jobs' = jobs \cup {h.acc}
        /\ fired' = [fired EXCEPT ![h.acc] = h.at]
        /\ UNCHANGED <<now, waiting, n>>
  BY DEF Fire
<1>2. /\ h \in Deadline /\ heap \subseteq Deadline /\ waiting \subseteq Row
      /\ fired \in [Accounts -> Nat] /\ now \in Nat
  BY DEF TimerInv, TimerTypeOK
<1>3. TimerTypeOK'
  BY <1>1, <1>2 DEF TimerInv, TimerTypeOK, Deadline
<1>4. \A k \in heap' : k \in heap /\ (k.acc = h.acc => k.at > h.at + COALESCE)
  BY <1>1, <1>2 DEF RideAlong, Deadline
<1>5. HeapInv'
  <2>1. \A a \in Accounts : fired'[a] <= now'
    BY <1>1, <1>2 DEF TimerInv, HeapInv, Deadline
  <2>2. ASSUME NEW k \in heap'
        PROVE  k.at > 0 /\ (fired'[k.acc] = 0 \/ k.at > fired'[k.acc] + COALESCE)
    <3>1. k \in heap /\ k.acc \in Accounts /\ h.acc \in Accounts
      BY <1>2, <1>4 DEF Deadline
    <3>2. CASE k.acc = h.acc
      BY <1>1, <1>2, <1>4, <3>1, <3>2 DEF TimerInv, HeapInv
    <3>3. CASE k.acc # h.acc
      BY <1>1, <1>2, <3>1, <3>3 DEF TimerInv, HeapInv
    <3> QED
      BY <3>2, <3>3
  <2> QED
    BY <2>1, <2>2 DEF HeapInv
<1>6. PendInv'
  <2> SUFFICES ASSUME NEW p \in waiting
               PROVE  /\ p.deadline = p.due + 1 /\ p.due >= GRACE
                      /\ \/ \E k \in heap' : k.acc = p.acc /\ k.at >= p.deadline
                         \/ p.acc \in jobs' /\ p.due <= now'
                         \/ LeftBehind(p)'
    BY <1>1 DEF PendInv
  <2>1. /\ p.acc \in Accounts /\ p.due \in Nat /\ p.due >= GRACE /\ p.deadline = p.due + 1
        /\ h.acc \in Accounts /\ h.at \in Nat /\ h.at <= now
    BY <1>1, <1>2 DEF TimerInv, PendInv, Row, Deadline
  <2>2. ASSUME p.acc = h.acc, p.due <= h.at
        PROVE  p.acc \in jobs' /\ p.due <= now'
    BY <1>1, <1>2, <2>1, <2>2
  <2>3. ASSUME p.acc = h.acc, p.due > h.at, p.deadline <= h.at + COALESCE
        PROVE  LeftBehind(p)'
    <3>1. fired'[p.acc] = h.at
      BY <1>1, <1>2, <2>1, <2>3
    <3> QED
      BY <2>3, <3>1 DEF LeftBehind
  <2>4. ASSUME NEW k \in heap, k.acc = p.acc, k.at >= p.deadline
        PROVE  \/ \E g \in heap' : g.acc = p.acc /\ g.at >= p.deadline
               \/ p.acc \in jobs' /\ p.due <= now'
               \/ LeftBehind(p)'
    <3>1. CASE k \in heap'
      BY <2>4, <3>1
    <3>2. CASE k \notin heap'
      <4>1. k.acc = h.acc /\ k.at <= h.at + COALESCE /\ k.at \in Nat
        BY <1>1, <1>2, <3>2 DEF RideAlong, Deadline
      <4>2. p.deadline <= h.at + COALESCE
        BY <2>1, <2>4, <4>1
      <4> QED
        BY <2>1, <2>2, <2>3, <2>4, <4>1, <4>2
    <3> QED
      BY <3>1, <3>2
  <2>5. ASSUME LeftBehind(p)
        PROVE  (p.acc \in jobs' /\ p.due <= now') \/ LeftBehind(p)'
    <3>1. CASE p.acc # h.acc
      BY <1>1, <1>2, <2>1, <2>5, <3>1 DEF LeftBehind
    <3>2. CASE p.acc = h.acc
      <4>1. fired[p.acc] # 0 /\ fired[p.acc] \in Nat
        BY <1>2, <2>1, <2>5 DEF LeftBehind
      <4>2. h.at > fired[p.acc] + COALESCE
        BY <1>1, <3>2, <4>1 DEF TimerInv, HeapInv
      <4>3. p.due <= h.at
        BY <2>1, <2>5, <4>1, <4>2 DEF LeftBehind
      <4> QED
        BY <2>2, <3>2, <4>3
    <3> QED
      BY <3>1, <3>2
  <2>6. p.acc \in jobs => p.acc \in jobs' /\ now' = now
    BY <1>1
  <2>7. \/ \E k \in heap : k.acc = p.acc /\ k.at >= p.deadline
        \/ p.acc \in jobs /\ p.due <= now
        \/ LeftBehind(p)
    BY DEF TimerInv, PendInv
  <2> QED
    BY <2>1, <2>4, <2>5, <2>6, <2>7
<1> QED
  BY <1>3, <1>5, <1>6 DEF TimerInv

\* A new action's own deadline is past every burst that was pushed.
LEMMA ScheduleKeeps ==
  ASSUME DelaysOK, TimerInv, NEW a \in Accounts, Schedule(a)
  PROVE  TimerInv'
<1> DEFINE p == [acc |-> a, due |-> DueAt(now), deadline |-> now + DELAY]
           h == [at |-> now + DELAY, acc |-> a, n |-> n]
<1>1. /\ waiting' = waiting \cup {p} /\ heap' = heap \cup {h} /\ n' = n + 1
      /\ UNCHANGED <<now, jobs, fired>>
  BY DEF Schedule
<1>2. /\ now \in Nat /\ n \in Nat /\ fired[a] \in Nat /\ fired[a] <= now
      /\ DELAY = GRACE + 1 /\ DueAt(now) = now + GRACE
  BY DEF TimerInv, TimerTypeOK, HeapInv, DELAY, DueAt
<1>3. /\ p \in Row /\ h \in Deadline /\ h.acc = p.acc /\ h.at = p.deadline
      /\ p.deadline = p.due + 1 /\ p.due >= GRACE /\ h.at > 0 /\ h.at > fired[h.acc] + COALESCE
  BY <1>2 DEF Row, Deadline, DelaysOK
<1> HIDE DEF p, h
<1>4. p.deadline \in Nat /\ h.at >= p.deadline
  BY <1>3 DEF Row
<1>5. TimerTypeOK' /\ HeapInv'
  BY <1>1, <1>2, <1>3 DEF TimerInv, TimerTypeOK, HeapInv
<1>6. PendInv'
  BY <1>1, <1>3, <1>4 DEF TimerInv, PendInv, LeftBehind
<1> QED
  BY <1>5, <1>6 DEF TimerInv

(* Exactness of the timer, for any accounts, delays and number of actions:   *)
(* which rows it pushes, and which late riders of a burst it leaves to the   *)
(* next sync (GraceTimer::run, list_due).                                    *)
THEOREM TimerIsExact ==
  ASSUME DelaysOK
  PROVE  TimerSpec => TimerExact
<1>1. TimerInit => TimerInv
  BY DEF TimerInit, TimerInv, TimerTypeOK, HeapInv, PendInv
<1>2. TimerInv /\ [TimerNext]_timerVars => TimerInv'
  <2> SUFFICES ASSUME TimerInv, [TimerNext]_timerVars PROVE TimerInv'
    OBVIOUS
  <2>1. ASSUME NEW a \in Accounts, Schedule(a) PROVE TimerInv'
    BY <2>1, ScheduleKeeps
  <2>2. CASE Fire
    BY <2>2, FireKeeps
  <2>3. ASSUME NEW a \in Accounts, Push(a) PROVE TimerInv'
    BY <2>3 DEF Push, TimerInv, TimerTypeOK, HeapInv, PendInv, LeftBehind, Row
  <2>4. ASSUME NEW a \in Accounts, Sync(a) PROVE TimerInv'
    BY <2>4 DEF Sync, TimerInv, TimerTypeOK, HeapInv, PendInv, LeftBehind
  <2>5. ASSUME NEW p \in waiting, TakeBack(p) PROVE TimerInv'
    BY <2>5 DEF TakeBack, TimerInv, TimerTypeOK, HeapInv, PendInv, LeftBehind
  <2>6. CASE Tick
    BY <2>6 DEF Tick, TimerInv, TimerTypeOK, HeapInv, PendInv, LeftBehind, Row
  <2>7. CASE UNCHANGED timerVars
    BY <2>7 DEF timerVars, TimerInv, TimerTypeOK, HeapInv, PendInv, LeftBehind
  <2> QED
    BY <2>1, <2>2, <2>3, <2>4, <2>5, <2>6, <2>7 DEF TimerNext
<1>3. DelaysOK /\ TimerInv => TimerTypeOK /\ OnlyLateRidersLeft
  <2> SUFFICES ASSUME DelaysOK, TimerInv, NEW p \in waiting
               PROVE  Covered(p) \/ LeftBehind(p)
    BY DEF TimerInv, OnlyLateRidersLeft
  <2>1. p.due \in Nat /\ p.deadline = p.due + 1 /\ heap \subseteq Deadline
    BY DEF TimerInv, TimerTypeOK, PendInv, Row
  <2> QED
    BY <2>1 DEF TimerInv, PendInv, Covered, Deadline
<1>4. TimerInv /\ [TimerNext]_timerVars
        => [\A a \in Accounts :
              fired'[a] # fired[a] /\ fired[a] # 0 => fired'[a] > fired[a] + COALESCE]_timerVars
  <2> SUFFICES ASSUME TimerInv, TimerNext, NEW a \in Accounts, fired'[a] # fired[a], fired[a] # 0
               PROVE  fired'[a] > fired[a] + COALESCE
    OBVIOUS
  <2>1. Fire
    BY DEF TimerNext, Schedule, Push, Sync, TakeBack, Tick
  <2>2. PICK h \in heap : fired' = [fired EXCEPT ![h.acc] = h.at]
    BY <2>1 DEF Fire
  <2> QED
    BY <2>2 DEF TimerInv, TimerTypeOK, HeapInv
<1> QED
  BY <1>1, <1>2, <1>3, <1>4, PTL DEF TimerSpec, TimerExact, OnePushPerBurst
=============================================================================
