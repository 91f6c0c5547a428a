--------------------------- MODULE FlagPushProofs ---------------------------
(***************************************************************************)
(* FlagsKept of FlagPush for any messages, clicks and other clients, while *)
(* a single session works on the folder.                                   *)
(***************************************************************************)
EXTENDS FlagPush, TLAPS

-----------------------------------------------------------------------------
(* The inductive invariant.                                                *)

\* What a run pushes, from list_flags_dirty to clear_flags_dirty, and what it
\* reads back, from SELECT to set_sync_state.
Pushing == {"push", "seen", "star", "clear"}
Reading == {"fetch", "apply", "sweep", "swept", "record"}

\* One session at a time.
OneSession == \A r, q \in Sessions : r = q

\* Without CONDSTORE nothing is ever recorded; with it every change moves on.
SeqInv ==
  /\ \A m \in Msgs : 1 <= srv[m].seq /\ srv[m].seq <= hi
  /\ IF condstore THEN modseq >= 1 ELSE modseq = 0

\* What the user chose is in the row, and on the server once it is clean.
WantInv ==
  others = 0 =>
    /\ \A m \in Msgs : /\ flagged[m].star = want[m].star
                       /\ trash \/ flagged[m].read = want[m].read
    /\ ToggleKept

\* The rows being pushed stay dirty, one snapshot each.
PushInv(r) ==
  LET x == session[r] IN
  x.pc \in Pushing =>
    /\ \A s \in x.todo \cup x.cur : flagged[s.m].dirty
    /\ \A s, t \in x.todo \cup x.cur : s.m = t.m => s = t
    /\ x.cur \cap x.todo = {}
    /\ IF x.pc = "push" THEN x.cur = {} ELSE \E s \in Snapshot : x.cur = {s}

\* The server has what was stored, or has moved on.
StoredInv(r) ==
  LET x == session[r] IN
  \A s \in x.cur : others = 0 \/ srv[s.m].seq <= modseq =>
    /\ x.pc \in {"star", "clear"} => srv[s.m].read = s.read
    /\ x.pc = "clear" => srv[s.m].star = s.star

\* What the SELECT said lies between what is recorded and what is.
SelectInv(r) ==
  LET x == session[r] IN
  /\ x.pc \in Reading =>
       /\ x.since = modseq /\ x.sel <= hi
       /\ IF condstore THEN modseq <= x.sel ELSE x.sel = 0
  /\ x.pc \in {"sweep", "swept"} => trash

\* A clean row the SELECT covers is the server's, or about to become it.
RefreshInv(r) ==
  LET x == session[r] IN
  /\ x.pc = "apply" =>
       /\ \A s \in x.todo : others = 0 \/ srv[s.m].seq <= x.sel =>
            s.read = srv[s.m].read /\ s.star = srv[s.m].star
       /\ \A m \in Msgs : ~flagged[m].dirty /\ srv[m].seq <= x.sel =>
            AsServer(m) \/ \E s \in x.todo : s.m = m
  /\ x.pc \in {"sweep", "swept", "record"} =>
       \A m \in Msgs : ~flagged[m].dirty /\ srv[m].seq <= x.sel => AsServer(m)

RunInv(r) == PushInv(r) /\ StoredInv(r) /\ SelectInv(r) /\ RefreshInv(r)
FlagInv ==
  /\ FlagTypeOK /\ SeqInv /\ WantInv /\ AccurateFlags
  /\ \A r \in Sessions : RunInv(r)

-----------------------------------------------------------------------------
(* Steps.                                                                  *)

\* What a STORE does to the server, whoever sends it.
Served ==
  /\ hi' \in Nat /\ hi <= hi'
  /\ srv' \in [Msgs -> [read : BOOLEAN, star : BOOLEAN, seq : Nat]]
  /\ \A m \in Msgs : 1 <= srv'[m].seq /\ srv'[m].seq <= hi'
  /\ \A m \in Msgs : srv'[m] = srv[m] \/ ~condstore \/ srv'[m].seq > hi

LEMMA StoreServes ==
  ASSUME FlagTypeOK, SeqInv, NEW us, us \subseteq Msgs, NEW to \in [Msgs -> Flags],
         StoreOn(us, to)
  PROVE  /\ Served
         /\ \A m \in us : srv'[m].read = to[m].read /\ srv'[m].star = to[m].star
         /\ \A m \in Msgs \ us : srv'[m] = srv[m]
<1> DEFINE changed == {m \in us : FlagsOf(srv[m]) # to[m]}
<1>1. /\ hi' = IF changed = {} \/ ~condstore THEN hi ELSE hi + 1
      /\ srv' = [m \in Msgs |-> IF m \in changed
           THEN [read |-> to[m].read, star |-> to[m].star, seq |-> hi'] ELSE srv[m]]
  BY DEF StoreOn
<1>2. /\ \A m \in changed : m \in us
      /\ \A m \in us \ changed : FlagsOf(srv[m]) = to[m]
      /\ \A m \in us : m \in Msgs
  OBVIOUS
<1> HIDE DEF changed
<1>3. hi \in Nat /\ hi' \in Nat /\ hi <= hi'
  BY <1>1 DEF FlagTypeOK
<1>4. ASSUME NEW m \in Msgs
      PROVE  /\ srv'[m] \in [read : BOOLEAN, star : BOOLEAN, seq : Nat]
             /\ 1 <= srv'[m].seq /\ srv'[m].seq <= hi'
             /\ srv'[m] = srv[m] \/ ~condstore \/ srv'[m].seq > hi
             /\ m \in us => srv'[m].read = to[m].read /\ srv'[m].star = to[m].star
             /\ m \notin us => srv'[m] = srv[m]
  <2>1. srv[m] \in [read : BOOLEAN, star : BOOLEAN, seq : Nat] /\ to[m] \in Flags
    BY DEF FlagTypeOK
  <2>2. 1 <= srv[m].seq /\ srv[m].seq <= hi
    BY DEF SeqInv
  <2>3. CASE m \in changed
    <3>1. srv'[m] = [read |-> to[m].read, star |-> to[m].star, seq |-> hi']
      BY <1>1, <2>3
    <3>2. condstore => hi' = hi + 1
      BY <1>1, <2>3
    <3>3. m \in us
      BY <1>2, <2>3
    <3> QED
      BY <1>3, <2>1, <2>2, <3>1, <3>2, <3>3 DEF Flags
  <2>4. CASE m \notin changed
    <3>1. srv'[m] = srv[m]
      BY <1>1, <2>4
    <3>2. m \in us => FlagsOf(srv[m]) = to[m]
      BY <1>2, <2>4
    <3> QED
      BY <1>3, <2>1, <2>2, <3>1, <3>2 DEF FlagsOf
  <2> QED
    BY <2>3, <2>4
<1>5. srv' = [m \in Msgs |-> srv'[m]]
  BY <1>1
<1> QED
  BY <1>2, <1>3, <1>4, <1>5 DEF Served

\* A change of the server is one the recorded modseq does not cover.
LEMMA Moved ==
  ASSUME FlagTypeOK, SeqInv, Served, NEW k \in Nat, k <= hi, condstore \/ k = 0,
         NEW m \in Msgs, srv'[m].seq <= k
  PROVE  srv'[m] = srv[m] /\ srv[m].seq <= k
<1>1. srv'[m].seq \in Nat /\ hi \in Nat
  BY DEF FlagTypeOK, Served
<1>2. srv'[m] = srv[m]
  BY <1>1 DEF Served
<1> QED
  BY <1>2

\* The fields of a run.
LEMMA RunTypes ==
  ASSUME FlagTypeOK, NEW r \in Sessions
  PROVE  /\ session[r] \in Session
         /\ session[r].pc \in Steps
         /\ session[r].todo \subseteq Snapshot /\ session[r].cur \subseteq Snapshot
         /\ session[r].since \in Nat /\ session[r].sel \in Nat
BY DEF FlagTypeOK, Session

\* A step of the only session.
LEMMA OnlyRun ==
  ASSUME OneSession, FlagTypeOK, NEW r \in Sessions, NEW x \in Session,
         session' = [session EXCEPT ![r] = x]
  PROVE  /\ session' \in [Sessions -> Session] /\ session'[r] = x
         /\ (RunInv(r))' => \A q \in Sessions : (RunInv(q))'
<1>1. session' \in [Sessions -> Session] /\ session'[r] = x
  BY DEF FlagTypeOK
<1>2. ASSUME (RunInv(r))', NEW q \in Sessions PROVE (RunInv(q))'
  <2>1. q = r
    BY DEF OneSession
  <2> QED
    BY <1>2, <2>1
<1> QED
  BY <1>1, <1>2
-----------------------------------------------------------------------------
(* The user and other clients.                                             *)

LEMMA InitKeeps ==
  ASSUME FlagConstantsOK, FlagInit
  PROVE  FlagInv
<1>1. FlagTypeOK /\ SeqInv
  <2>1. ASSUME NEW m \in Msgs
        PROVE  /\ srv[m] \in [read : BOOLEAN, star : BOOLEAN, seq : Nat] /\ srv[m].seq = 1
               /\ flagged[m] \in [read : BOOLEAN, star : BOOLEAN, dirty : BOOLEAN]
               /\ want[m] \in Flags
    <3>1. srv[m] \in [read : {trash}, star : {FALSE}, seq : {1}]
      BY DEF FlagInit
    <3>2. flagged[m] = [read |-> trash, star |-> FALSE, dirty |-> FALSE]
      BY DEF FlagInit
    <3>3. want[m] = FlagsOf(flagged[m])
      BY DEF FlagInit
    <3>4. PICK t \in BOOLEAN : t = trash
      BY DEF FlagInit
    <3>5. srv[m] = [read |-> t, star |-> FALSE, seq |-> 1]
      BY <3>1, <3>4
    <3>6. want[m] = [read |-> t, star |-> FALSE]
      BY <3>2, <3>3, <3>4 DEF FlagsOf
    <3> QED
      BY <3>2, <3>4, <3>5, <3>6 DEF Flags
  <2>2. /\ srv = [m \in Msgs |-> srv[m]] /\ flagged = [m \in Msgs |-> flagged[m]]
        /\ want = [m \in Msgs |-> want[m]]
    BY DEF FlagInit
  <2>3. NoSession \in Session
    BY DEF NoSession, Session, Steps
  <2>4. session \in [Sessions -> Session]
    BY <2>3 DEF FlagInit
  <2>5. /\ flagged \in [Msgs -> [read : BOOLEAN, star : BOOLEAN, dirty : BOOLEAN]]
        /\ srv \in [Msgs -> [read : BOOLEAN, star : BOOLEAN, seq : Nat]]
        /\ want \in [Msgs -> Flags]
    BY <2>1, <2>2
  <2>6. FlagTypeOK
    <3>1. modseq \in Nat /\ hi \in Nat /\ modseq <= hi
      BY DEF FlagInit
    <3> QED
      BY <2>4, <2>5, <3>1 DEF FlagInit, FlagTypeOK
  <2>7. SeqInv
    BY <2>1 DEF FlagInit, SeqInv
  <2> QED
    BY <2>6, <2>7
<1>2. WantInv /\ AccurateFlags
  BY DEF FlagInit, WantInv, ToggleKept, AccurateFlags, AsServer, FlagsOf
<1>3. ASSUME NEW r \in Sessions PROVE RunInv(r)
  <2>1. session[r] = NoSession
    BY DEF FlagInit
  <2> QED
    BY <2>1 DEF RunInv, PushInv, StoredInv, SelectInv, RefreshInv, NoSession, Pushing, Reading
<1> QED
  BY <1>1, <1>2, <1>3 DEF FlagInv

\* A click makes rows dirty and changes nothing else a run looks at.
LEMMA ToggleKeeps ==
  ASSUME FlagConstantsOK, FlagInv, NEW us \in SUBSET Msgs,
         NEW read \in {"keep", "on", "off"}, NEW star \in {"keep", "on", "off"},
         Toggle(us, read, star)
  PROVE  FlagInv'
<1> USE DEF FlagInv
<1>1. /\ UNCHANGED <<trash, condstore, srv, hi, modseq, session, others>>
      /\ toggles' = toggles + 1
      /\ \A m \in us : /\ flagged'[m].dirty /\ flagged'[m].read \in BOOLEAN
                       /\ flagged'[m].star \in BOOLEAN
                       /\ want'[m].read = flagged'[m].read
                       /\ want'[m].star = flagged'[m].star
      /\ \A m \in Msgs \ us : flagged'[m] = flagged[m] /\ want'[m] = want[m]
      /\ flagged' \in [Msgs -> [read : BOOLEAN, star : BOOLEAN, dirty : BOOLEAN]]
      /\ want' \in [Msgs -> Flags]
  <2>1. /\ flagged' = [m \in Msgs |-> IF m \in us
             THEN [read |-> Chosen(flagged[m].read, read), star |-> Chosen(flagged[m].star, star),
                   dirty |-> TRUE]
             ELSE flagged[m]]
        /\ want' = [m \in Msgs |-> IF m \in us THEN FlagsOf(flagged'[m]) ELSE want[m]]
        /\ UNCHANGED <<trash, condstore, srv, hi, modseq, session, others>>
        /\ toggles' = toggles + 1
    BY DEF Toggle
  <2>2. ASSUME NEW f \in BOOLEAN, NEW c PROVE Chosen(f, c) \in BOOLEAN
    BY DEF Chosen
  <2>3. ASSUME NEW m \in Msgs
        PROVE  /\ flagged'[m] \in [read : BOOLEAN, star : BOOLEAN, dirty : BOOLEAN]
               /\ want'[m] \in Flags
               /\ m \in us => /\ flagged'[m].dirty
                              /\ want'[m].read = flagged'[m].read
                              /\ want'[m].star = flagged'[m].star
               /\ m \notin us => flagged'[m] = flagged[m] /\ want'[m] = want[m]
    <3>1. flagged[m] \in [read : BOOLEAN, star : BOOLEAN, dirty : BOOLEAN] /\ want[m] \in Flags
      BY DEF FlagTypeOK
    <3>2. CASE m \in us
      <4>1. PICK a \in BOOLEAN, b \in BOOLEAN :
              a = Chosen(flagged[m].read, read) /\ b = Chosen(flagged[m].star, star)
        BY <2>2, <3>1
      <4>2. flagged'[m] = [read |-> a, star |-> b, dirty |-> TRUE]
        BY <2>1, <3>2, <4>1
      <4>3. want'[m] = FlagsOf(flagged'[m])
        BY <2>1, <3>2
      <4> QED
        BY <3>2, <4>2, <4>3 DEF FlagsOf, Flags
    <3>3. CASE m \notin us
      BY <2>1, <3>1, <3>3
    <3> QED
      BY <3>2, <3>3
  <2>4. flagged' = [m \in Msgs |-> flagged'[m]] /\ want' = [m \in Msgs |-> want'[m]]
    BY <2>1
  <2>5. \A m \in us : m \in Msgs
    OBVIOUS
  <2> QED
    BY <2>1, <2>3, <2>4, <2>5
<1>2. FlagTypeOK' /\ SeqInv'
  BY <1>1 DEF FlagTypeOK, SeqInv
<1>3. WantInv'
  <2>1. ASSUME NEW m \in Msgs, others = 0
        PROVE  /\ flagged'[m].star = want'[m].star
               /\ trash \/ flagged'[m].read = want'[m].read
    <3>1. CASE m \in us
      BY <1>1, <3>1
    <3>2. CASE m \notin us
      BY <1>1, <2>1, <3>2 DEF WantInv
    <3> QED
      BY <3>1, <3>2
  <2>2. ASSUME NEW m \in Msgs, others = 0, ~flagged'[m].dirty
        PROVE  flagged'[m] = flagged[m] /\ want'[m] = want[m]
    BY <1>1, <2>2
  <2> QED
    BY <1>1, <2>1, <2>2 DEF WantInv, ToggleKept
<1>4. AccurateFlags'
  BY <1>1 DEF AccurateFlags, AsServer
<1>5. ASSUME NEW r \in Sessions PROVE (RunInv(r))'
  <2>1. RunInv(r) /\ session'[r] = session[r] /\ session[r].todo \cup session[r].cur \subseteq Snapshot
    BY <1>1, RunTypes
  <2>2. (PushInv(r))'
    <3>1. \A s \in Snapshot : s.m \in Msgs
      BY DEF Snapshot
    <3> QED
      BY <1>1, <2>1, <3>1 DEF RunInv, PushInv
  <2>3. (StoredInv(r))' /\ (SelectInv(r))'
    BY <1>1, <2>1 DEF RunInv, StoredInv, SelectInv
  <2>4. (RefreshInv(r))'
    BY <1>1, <2>1 DEF RunInv, RefreshInv, AsServer
  <2> QED
    BY <2>2, <2>3, <2>4 DEF RunInv
<1> QED
  BY <1>2, <1>3, <1>4, <1>5

\* Another client's change is newer than anything a run relies on.
LEMMA OtherKeeps ==
  ASSUME FlagConstantsOK, FlagInv, NEW m \in Msgs, NEW f \in Flags, OtherClient(m, f)
  PROVE  FlagInv'
<1> USE DEF FlagInv
<1>1. /\ StoreOn({m}, [x \in Msgs |-> f]) /\ others' = others + 1
      /\ UNCHANGED <<trash, condstore, flagged, modseq, session, toggles, want>>
  BY DEF OtherClient
<1>2. Served
  BY <1>1, StoreServes
<1>3. FlagTypeOK' /\ SeqInv'
  BY <1>1, <1>2 DEF FlagTypeOK, SeqInv, Served
<1>4. WantInv'
  BY <1>1 DEF WantInv, FlagTypeOK
<1>5. modseq \in Nat /\ modseq <= hi /\ (condstore \/ modseq = 0) /\ others' # 0
  BY <1>1 DEF FlagTypeOK, SeqInv
<1>6. AccurateFlags'
  <2>1. \A x \in Msgs : srv'[x].seq <= modseq => srv'[x] = srv[x] /\ srv[x].seq <= modseq
    BY <1>2, <1>5, Moved
  <2> QED
    BY <1>1, <2>1 DEF AccurateFlags, AsServer
<1>7. ASSUME NEW r \in Sessions PROVE (RunInv(r))'
  <2>1. /\ RunInv(r) /\ session'[r] = session[r] /\ session[r].sel \in Nat
        /\ session[r].todo \cup session[r].cur \subseteq Snapshot
    BY <1>1, RunTypes
  <2>2. (PushInv(r))'
    BY <1>1, <2>1 DEF RunInv, PushInv
  <2>3. \A s \in Snapshot : s.m \in Msgs
    BY DEF Snapshot
  <2>4. (StoredInv(r))'
    <3>1. ASSUME NEW s \in session[r].cur, srv'[s.m].seq <= modseq
          PROVE  srv'[s.m] = srv[s.m] /\ srv[s.m].seq <= modseq
      BY <1>2, <1>5, <2>1, <2>3, <3>1, Moved
    <3> QED
      BY <1>1, <1>5, <2>1, <3>1 DEF RunInv, StoredInv
  <2>5. (SelectInv(r))'
    <3>1. hi' \in Nat /\ hi \in Nat /\ hi <= hi' /\ session[r].sel \in Nat
      BY <1>2, <2>1 DEF Served, FlagTypeOK
    <3> QED
      BY <1>1, <2>1, <3>1 DEF RunInv, SelectInv
  <2>6. (RefreshInv(r))'
    <3>1. CASE session[r].pc \in Reading
      <4>1. ASSUME NEW x \in Msgs, srv'[x].seq <= session[r].sel
            PROVE  srv'[x] = srv[x] /\ srv[x].seq <= session[r].sel
        <5>1. session[r].sel <= hi /\ (condstore \/ session[r].sel = 0)
          BY <2>1, <3>1 DEF RunInv, SelectInv
        <5> QED
          BY <1>2, <2>1, <4>1, <5>1, Moved
      <4> QED
        BY <1>1, <1>5, <2>1, <2>3, <4>1 DEF RunInv, RefreshInv, AsServer
    <3>2. CASE session[r].pc \notin Reading
      BY <2>1, <3>2 DEF RefreshInv, Reading
    <3> QED
      BY <3>1, <3>2
  <2> QED
    BY <2>2, <2>4, <2>5, <2>6 DEF RunInv
<1> QED
  BY <1>3, <1>4, <1>6, <1>7
-----------------------------------------------------------------------------
(* The push.                                                               *)

\* A step that only moves the session.
LEMMA QuietKeeps ==
  ASSUME OneSession, FlagInv, NEW r \in Sessions, NEW x \in Session,
         session' = [session EXCEPT ![r] = x],
         UNCHANGED <<flagged, srv, hi, modseq>>, NoClicks
  PROVE  session'[r] = x /\ ((RunInv(r))' => FlagInv')
<1>1. FlagTypeOK /\ SeqInv /\ WantInv /\ AccurateFlags
  BY DEF FlagInv
<1>2. /\ session' \in [Sessions -> Session] /\ session'[r] = x
      /\ (RunInv(r))' => \A q \in Sessions : (RunInv(q))'
  BY <1>1, OnlyRun
<1>3. FlagTypeOK' /\ SeqInv' /\ WantInv' /\ AccurateFlags'
  BY <1>1, <1>2 DEF FlagTypeOK, SeqInv, WantInv, ToggleKept, AccurateFlags, AsServer, NoClicks
<1> QED
  BY <1>2, <1>3 DEF FlagInv

\* A session that is over, or about to start or to read, promises nothing.
LEMMA RestInv ==
  ASSUME NEW r \in Sessions, session'[r].cur = {},
         session'[r].pc \in {"idle", "select"}
  PROVE  (RunInv(r))'
BY DEF RunInv, PushInv, StoredInv, SelectInv, RefreshInv, Pushing, Reading

LEMMA StartKeeps ==
  ASSUME OneSession, FlagInv, NEW r \in Sessions, StartRun(r)
  PROVE  FlagInv'
<1> DEFINE x == [NoSession EXCEPT !.pc = "push", !.todo = Dirty]
<1>1. /\ session' = [session EXCEPT ![r] = x]
      /\ UNCHANGED <<flagged, srv, hi, modseq>> /\ NoClicks
  BY DEF StartRun
<1>2. ASSUME NEW s \in Dirty
      PROVE  /\ s \in Snapshot /\ flagged[s.m].dirty
             /\ s.read = flagged[s.m].read /\ s.star = flagged[s.m].star
  <2>1. PICK m \in {y \in Msgs : flagged[y].dirty} :
          s = [m |-> m, read |-> flagged[m].read, star |-> flagged[m].star]
    BY DEF Dirty
  <2>2. flagged[m] \in [read : BOOLEAN, star : BOOLEAN, dirty : BOOLEAN]
    BY DEF FlagInv, FlagTypeOK
  <2> QED
    BY <2>1, <2>2 DEF Snapshot
<1>3. /\ x \in Session /\ x.pc = "push" /\ x.todo = Dirty /\ x.cur = {}
  BY <1>2 DEF Session, NoSession, Steps
<1> HIDE DEF x
<1>4. session'[r] = x /\ ((RunInv(r))' => FlagInv')
  BY <1>1, <1>3, QuietKeeps
<1>5. (PushInv(r))'
  <2>1. \A s, t \in Dirty : s.m = t.m => s = t
    BY <1>2 DEF Snapshot
  <2> QED
    BY <1>1, <1>2, <1>3, <1>4, <2>1 DEF PushInv
<1>6. (StoredInv(r))' /\ (SelectInv(r))' /\ (RefreshInv(r))'
  BY <1>3, <1>4 DEF StoredInv, SelectInv, RefreshInv, Reading
<1> QED
  BY <1>4, <1>5, <1>6 DEF RunInv

LEMMA PushNextKeeps ==
  ASSUME OneSession, FlagInv, NEW r \in Sessions, PushNext(r)
  PROVE  FlagInv'
<1>1. /\ UNCHANGED <<flagged, srv, hi, modseq>> /\ NoClicks /\ session[r].pc = "push"
  BY DEF PushNext, AtStep
<1>2. /\ RunInv(r) /\ session[r] \in Session /\ session[r].todo \subseteq Snapshot
  BY RunTypes DEF FlagInv
<1>3. ASSUME NEW s \in session[r].todo,
             session' = [session EXCEPT ![r] =
               [@ EXCEPT !.pc = "seen", !.cur = {s}, !.todo = session[r].todo \ {s}]]
      PROVE  FlagInv'
  <2> DEFINE x == [session[r] EXCEPT !.pc = "seen", !.cur = {s},
                              !.todo = session[r].todo \ {s}]
  <2>1. session' = [session EXCEPT ![r] = x]
    BY <1>3
  <2>2. /\ x \in Session /\ x.pc = "seen" /\ x.cur = {s} /\ x.todo = session[r].todo \ {s}
    BY <1>2, <1>3 DEF Session, Steps
  <2> HIDE DEF x
  <2>3. session'[r] = x /\ ((RunInv(r))' => FlagInv')
    BY <1>1, <2>1, <2>2, QuietKeeps
  <2>4. (PushInv(r))'
    <3>1. /\ \A u \in session[r].todo : flagged[u.m].dirty
          /\ \A u, v \in session[r].todo : u.m = v.m => u = v
      BY <1>1, <1>2 DEF RunInv, PushInv, Pushing
    <3>2. x.todo \cup x.cur = session[r].todo /\ s \in Snapshot /\ x.cur \cap x.todo = {}
      BY <1>2, <2>2
    <3> QED
      BY <1>1, <2>2, <2>3, <3>1, <3>2 DEF PushInv
  <2>5. (StoredInv(r))' /\ (SelectInv(r))' /\ (RefreshInv(r))'
    BY <2>2, <2>3 DEF StoredInv, SelectInv, RefreshInv, Reading
  <2> QED
    BY <2>3, <2>4, <2>5 DEF RunInv
<1>4. ASSUME NEW label \in {"idle", "select"},
             session' = [session EXCEPT ![r] = [NoSession EXCEPT !.pc = label]]
      PROVE  FlagInv'
  <2>1. [NoSession EXCEPT !.pc = label] \in Session
    BY DEF NoSession, Session, Steps
  <2>2. /\ session'[r] = [NoSession EXCEPT !.pc = label] /\ ((RunInv(r))' => FlagInv')
    BY <1>1, <1>4, <2>1, QuietKeeps
  <2> QED
    BY <2>2, RestInv DEF NoSession
<1> QED
  BY <1>3, <1>4 DEF PushNext

\* The row a run is pushing.
LEMMA CurIs ==
  ASSUME FlagInv, NEW r \in Sessions, session[r].pc \in {"seen", "star", "clear"}
  PROVE  /\ Cur(r) \in Snapshot /\ Cur(r).m \in Msgs /\ session[r].cur = {Cur(r)}
         /\ flagged[Cur(r).m].dirty
         /\ \A s \in session[r].todo : flagged[s.m].dirty /\ s.m # Cur(r).m
<1>1. PushInv(r)
  BY DEF FlagInv, RunInv
<1>2. PICK s \in Snapshot : session[r].cur = {s}
  BY <1>1 DEF PushInv, Pushing
<1>3. Cur(r) = s
  BY <1>2 DEF Cur
<1> QED
  BY <1>1, <1>2, <1>3 DEF PushInv, Pushing, Snapshot

\* A STORE of the dirty row that is being pushed.
LEMMA StoreKeeps ==
  ASSUME OneSession, FlagInv, NEW r \in Sessions, NEW x \in Session,
         session[r].pc \in {"seen", "star"},
         session' = [session EXCEPT ![r] = x],
         UNCHANGED <<flagged, modseq>>, NoClicks, Served,
         \A m \in Msgs \ {Cur(r).m} : srv'[m] = srv[m]
  PROVE  session'[r] = x /\ ((RunInv(r))' => FlagInv')
<1>1. FlagTypeOK /\ SeqInv /\ WantInv /\ AccurateFlags
  BY DEF FlagInv
<1>2. /\ session' \in [Sessions -> Session] /\ session'[r] = x
      /\ (RunInv(r))' => \A q \in Sessions : (RunInv(q))'
  BY <1>1, OnlyRun
<1>3. UNCHANGED <<trash, condstore, toggles, others, want>>
  BY DEF NoClicks
<1>4. FlagTypeOK' /\ SeqInv'
  BY <1>1, <1>2, <1>3 DEF FlagTypeOK, SeqInv, Served
<1>5. WantInv'
  <2>1. \A m \in Msgs : ~flagged[m].dirty => srv'[m] = srv[m]
    BY CurIs
  <2> QED
    BY <1>1, <1>3, <2>1 DEF WantInv, ToggleKept
<1>6. AccurateFlags'
  <2>1. modseq \in Nat /\ modseq <= hi /\ (condstore \/ modseq = 0)
    BY <1>1 DEF FlagTypeOK, SeqInv
  <2>2. \A m \in Msgs : srv'[m].seq <= modseq => srv'[m] = srv[m] /\ srv[m].seq <= modseq
    BY <1>1, <2>1, Moved
  <2> QED
    BY <1>1, <1>3, <2>2 DEF AccurateFlags, AsServer
<1> QED
  BY <1>2, <1>4, <1>5, <1>6 DEF FlagInv

\* Not answered: the row stays dirty and the run takes the next one.
LEMMA PutBackInv ==
  ASSUME FlagInv, NEW r \in Sessions, session[r].pc \in {"seen", "star", "clear"},
         session'[r].pc = "push", session'[r].cur = {},
         session'[r].todo = session[r].todo,
         \A s \in session[r].todo : flagged'[s.m].dirty
  PROVE  (RunInv(r))'
<1>1. \A s, t \in session[r].todo : s.m = t.m => s = t
  BY DEF FlagInv, RunInv, PushInv, Pushing
<1>2. (PushInv(r))'
  BY <1>1 DEF PushInv
<1> QED
  BY <1>2 DEF RunInv, StoredInv, SelectInv, RefreshInv, Reading

LEMMA PushSeenKeeps ==
  ASSUME OneSession, FlagInv, NEW r \in Sessions, PushSeen(r)
  PROVE  FlagInv'
<1> DEFINE to == [m \in Msgs |-> [FlagsOf(srv[m]) EXCEPT !.read = Cur(r).read]]
<1>1. /\ session[r].pc = "seen" /\ UNCHANGED <<flagged, modseq>> /\ NoClicks
  BY DEF PushSeen, StoreFlag, AtStep
<1>2. /\ Cur(r) \in Snapshot /\ Cur(r).m \in Msgs /\ session[r].cur = {Cur(r)}
      /\ \A s \in session[r].todo : flagged[s.m].dirty /\ s.m # Cur(r).m
      /\ session[r] \in Session /\ FlagTypeOK /\ SeqInv /\ PushInv(r)
  BY <1>1, CurIs, RunTypes DEF FlagInv, RunInv
<1>3. to \in [Msgs -> Flags] /\ \A m \in Msgs : to[m].read = Cur(r).read
  <2>1. ASSUME NEW m \in Msgs
        PROVE [FlagsOf(srv[m]) EXCEPT !.read = Cur(r).read] = [read |-> Cur(r).read, star |-> srv[m].star]
    BY DEF FlagsOf
  <2>2. ASSUME NEW m \in Msgs PROVE srv[m].star \in BOOLEAN /\ Cur(r).read \in BOOLEAN
    BY <1>2 DEF FlagTypeOK, Snapshot
  <2> QED
    BY <2>1, <2>2 DEF Flags
<1> HIDE DEF to
<1>4. ASSUME StoreOn({Cur(r).m}, to)
      PROVE  /\ Served /\ srv'[Cur(r).m].read = Cur(r).read
             /\ \A m \in Msgs \ {Cur(r).m} : srv'[m] = srv[m]
  BY <1>2, <1>3, <1>4, StoreServes
<1>5. CASE StoreOn({Cur(r).m}, to) /\ session' = [session EXCEPT ![r].pc = "star"]
  <2> DEFINE x == [session[r] EXCEPT !.pc = "star"]
  <2>1. session' = [session EXCEPT ![r] = x] /\ x \in Session /\ x.pc = "star"
        /\ x.cur = session[r].cur /\ x.todo = session[r].todo
    BY <1>2, <1>5 DEF Session, Steps
  <2> HIDE DEF x
  <2>2. session'[r] = x /\ ((RunInv(r))' => FlagInv')
    BY <1>1, <1>4, <1>5, <2>1, StoreKeeps
  <2>3. (PushInv(r))'
    BY <1>1, <1>2, <2>1, <2>2 DEF PushInv, Pushing
  <2>4. (StoredInv(r))'
    BY <1>2, <1>4, <1>5, <2>1, <2>2 DEF StoredInv
  <2>5. (SelectInv(r))' /\ (RefreshInv(r))'
    BY <2>1, <2>2 DEF SelectInv, RefreshInv, Reading
  <2> QED
    BY <2>2, <2>3, <2>4, <2>5 DEF RunInv
<1>6. CASE /\ StoreOn({Cur(r).m}, to) \/ UNCHANGED <<srv, hi>>
           /\ session' = [session EXCEPT ![r] = [@ EXCEPT !.pc = "push", !.cur = {}]]
  <2> DEFINE x == [session[r] EXCEPT !.pc = "push", !.cur = {}]
  <2>1. session' = [session EXCEPT ![r] = x] /\ x \in Session /\ x.pc = "push"
        /\ x.cur = {} /\ x.todo = session[r].todo
    BY <1>2, <1>6 DEF Session, Steps
  <2> HIDE DEF x
  <2>2. Served /\ \A m \in Msgs \ {Cur(r).m} : srv'[m] = srv[m]
    <3>1. CASE UNCHANGED <<srv, hi>>
      BY <1>2, <3>1 DEF Served, FlagTypeOK, SeqInv
    <3> QED
      BY <1>4, <1>6, <3>1
  <2>3. session'[r] = x /\ ((RunInv(r))' => FlagInv')
    BY <1>1, <2>1, <2>2, StoreKeeps
  <2> QED
    BY <1>1, <1>2, <2>1, <2>3, PutBackInv
<1> QED
  BY <1>5, <1>6 DEF PushSeen, StoreFlag, to

LEMMA PushStarKeeps ==
  ASSUME OneSession, FlagInv, NEW r \in Sessions, PushStar(r)
  PROVE  FlagInv'
<1> DEFINE to == [m \in Msgs |-> [FlagsOf(srv[m]) EXCEPT !.star = Cur(r).star]]
<1>1. /\ session[r].pc = "star" /\ UNCHANGED <<flagged, modseq>> /\ NoClicks
  BY DEF PushStar, StoreFlag, AtStep
<1>2. /\ Cur(r) \in Snapshot /\ Cur(r).m \in Msgs /\ session[r].cur = {Cur(r)}
      /\ \A s \in session[r].todo : flagged[s.m].dirty /\ s.m # Cur(r).m
      /\ session[r] \in Session /\ FlagTypeOK /\ SeqInv /\ PushInv(r) /\ StoredInv(r)
  BY <1>1, CurIs, RunTypes DEF FlagInv, RunInv
<1>3. /\ to \in [Msgs -> Flags]
      /\ \A m \in Msgs : to[m].star = Cur(r).star /\ to[m].read = srv[m].read
  <2>1. ASSUME NEW m \in Msgs
        PROVE [FlagsOf(srv[m]) EXCEPT !.star = Cur(r).star] = [read |-> srv[m].read, star |-> Cur(r).star]
    BY DEF FlagsOf
  <2>2. ASSUME NEW m \in Msgs PROVE srv[m].read \in BOOLEAN /\ Cur(r).star \in BOOLEAN
    BY <1>2 DEF FlagTypeOK, Snapshot
  <2> QED
    BY <2>1, <2>2 DEF Flags
<1> HIDE DEF to
<1>4. ASSUME StoreOn({Cur(r).m}, to)
      PROVE  /\ Served /\ srv'[Cur(r).m].star = Cur(r).star
             /\ srv'[Cur(r).m].read = srv[Cur(r).m].read
             /\ \A m \in Msgs \ {Cur(r).m} : srv'[m] = srv[m]
  <2> DEFINE us == {Cur(r).m}
  <2>1. us \subseteq Msgs /\ Cur(r).m \in us /\ StoreOn(us, to)
    BY <1>2, <1>4
  <2> HIDE DEF us
  <2>2. /\ Served /\ \A m \in Msgs \ us : srv'[m] = srv[m]
        /\ \A m \in us : srv'[m].read = to[m].read /\ srv'[m].star = to[m].star
    BY <1>2, <1>3, <2>1, StoreServes
  <2> QED
    BY <1>2, <1>3, <2>1, <2>2 DEF us
<1>5. CASE StoreOn({Cur(r).m}, to) /\ session' = [session EXCEPT ![r].pc = "clear"]
  <2> DEFINE x == [session[r] EXCEPT !.pc = "clear"]
  <2>1. session' = [session EXCEPT ![r] = x] /\ x \in Session /\ x.pc = "clear"
        /\ x.cur = session[r].cur /\ x.todo = session[r].todo
    BY <1>2, <1>5 DEF Session, Steps
  <2> HIDE DEF x
  <2>2. session'[r] = x /\ ((RunInv(r))' => FlagInv')
    BY <1>1, <1>4, <1>5, <2>1, StoreKeeps
  <2>3. (PushInv(r))'
    BY <1>1, <1>2, <2>1, <2>2 DEF PushInv, Pushing
  <2>4. (StoredInv(r))'
    <3>1. modseq \in Nat /\ modseq <= hi /\ (condstore \/ modseq = 0)
      BY <1>2 DEF FlagTypeOK, SeqInv
    <3>2. srv'[Cur(r).m].seq <= modseq => srv[Cur(r).m].seq <= modseq
      BY <1>2, <1>4, <1>5, <3>1, Moved
    <3>3. others' = others /\ modseq' = modseq
      BY <1>1 DEF NoClicks
    <3>4. others = 0 \/ srv'[Cur(r).m].seq <= modseq => srv'[Cur(r).m].read = Cur(r).read
      BY <1>1, <1>2, <1>4, <1>5, <3>2 DEF StoredInv
    <3> QED
      BY <1>2, <1>4, <1>5, <2>1, <2>2, <3>3, <3>4 DEF StoredInv
  <2>5. (SelectInv(r))' /\ (RefreshInv(r))'
    BY <2>1, <2>2 DEF SelectInv, RefreshInv, Reading
  <2> QED
    BY <2>2, <2>3, <2>4, <2>5 DEF RunInv
<1>6. CASE /\ StoreOn({Cur(r).m}, to) \/ UNCHANGED <<srv, hi>>
           /\ session' = [session EXCEPT ![r] = [@ EXCEPT !.pc = "push", !.cur = {}]]
  <2> DEFINE x == [session[r] EXCEPT !.pc = "push", !.cur = {}]
  <2>1. session' = [session EXCEPT ![r] = x] /\ x \in Session /\ x.pc = "push"
        /\ x.cur = {} /\ x.todo = session[r].todo
    BY <1>2, <1>6 DEF Session, Steps
  <2> HIDE DEF x
  <2>2. Served /\ \A m \in Msgs \ {Cur(r).m} : srv'[m] = srv[m]
    <3>1. CASE UNCHANGED <<srv, hi>>
      BY <1>2, <3>1 DEF Served, FlagTypeOK, SeqInv
    <3> QED
      BY <1>4, <1>6, <3>1
  <2>3. session'[r] = x /\ ((RunInv(r))' => FlagInv')
    BY <1>1, <2>1, <2>2, StoreKeeps
  <2> QED
    BY <1>1, <1>2, <2>1, <2>3, PutBackInv
<1> QED
  BY <1>5, <1>6 DEF PushStar, StoreFlag, to

\* The row is clean only with the flags the server was given.
LEMMA ClearKeeps ==
  ASSUME OneSession, FlagInv, NEW r \in Sessions, Clear(r)
  PROVE  FlagInv'
<1> DEFINE x == [session[r] EXCEPT !.pc = "push", !.cur = {}]
           c == Cur(r)
<1>1. /\ session[r].pc = "clear" /\ UNCHANGED <<srv, hi, modseq>> /\ NoClicks
      /\ session' = [session EXCEPT ![r] = x]
      /\ IF Pushed(c) THEN RowAs(c.m, flagged[c.m], FALSE) ELSE UNCHANGED flagged
  BY DEF Clear, AtStep
<1>2. /\ c \in Snapshot /\ c.m \in Msgs /\ session[r].cur = {c}
      /\ \A s \in session[r].todo : flagged[s.m].dirty /\ s.m # c.m
      /\ session[r] \in Session /\ session[r].todo \subseteq Snapshot
      /\ FlagTypeOK /\ SeqInv /\ WantInv /\ AccurateFlags /\ StoredInv(r)
  BY <1>1, CurIs, RunTypes DEF FlagInv, RunInv
<1>3. x \in Session /\ x.pc = "push" /\ x.cur = {} /\ x.todo = session[r].todo
  BY <1>2 DEF Session, Steps
<1> HIDE DEF x
<1>4. CASE ~Pushed(c)
  <2>1. UNCHANGED <<flagged, srv, hi, modseq>>
    BY <1>1, <1>4
  <2>2. session'[r] = x /\ ((RunInv(r))' => FlagInv')
    BY <1>1, <1>3, <2>1, QuietKeeps
  <2> QED
    BY <1>1, <1>2, <1>3, <2>1, <2>2, PutBackInv
<1>5. CASE Pushed(c)
  <2>1. /\ \A m \in Msgs \ {c.m} : flagged'[m] = flagged[m]
        /\ flagged'[c.m].read = flagged[c.m].read /\ flagged'[c.m].star = flagged[c.m].star
        /\ flagged' \in [Msgs -> [read : BOOLEAN, star : BOOLEAN, dirty : BOOLEAN]]
    <3> DEFINE y == [read |-> flagged[c.m].read, star |-> flagged[c.m].star, dirty |-> FALSE]
    <3>1. flagged' = [flagged EXCEPT ![c.m] = y]
      BY <1>1, <1>5 DEF RowAs
    <3>2. flagged[c.m] \in [read : BOOLEAN, star : BOOLEAN, dirty : BOOLEAN]
      BY <1>2 DEF FlagTypeOK
    <3>3. /\ y \in [read : BOOLEAN, star : BOOLEAN, dirty : BOOLEAN]
          /\ y.read = flagged[c.m].read /\ y.star = flagged[c.m].star
      BY <3>2
    <3> HIDE DEF y
    <3> QED
      BY <1>2, <3>1, <3>3 DEF FlagTypeOK
  <2>2. flagged[c.m].read = c.read /\ flagged[c.m].star = c.star
    BY <1>5 DEF Pushed, FlagsOf
  <2>3. others = 0 \/ srv[c.m].seq <= modseq => srv[c.m].read = c.read /\ srv[c.m].star = c.star
    BY <1>1, <1>2 DEF StoredInv
  <2>4. /\ session' \in [Sessions -> Session] /\ session'[r] = x
        /\ (RunInv(r))' => \A q \in Sessions : (RunInv(q))'
    BY <1>1, <1>2, <1>3, OnlyRun
  <2>5. UNCHANGED <<trash, condstore, toggles, others, want>>
    BY <1>1 DEF NoClicks
  <2>6. FlagTypeOK' /\ SeqInv'
    BY <1>1, <1>2, <2>1, <2>4, <2>5 DEF FlagTypeOK, SeqInv
  <2>7. WantInv'
    <3>1. ASSUME NEW m \in Msgs, others = 0
          PROVE  /\ flagged'[m].star = want[m].star
                 /\ trash \/ flagged'[m].read = want[m].read
                 /\ ~flagged'[m].dirty =>
                      srv[m].star = want[m].star /\ (trash \/ srv[m].read = want[m].read)
      <4>0. flagged[m].star = want[m].star /\ (trash \/ flagged[m].read = want[m].read)
        BY <1>2, <3>1 DEF WantInv
      <4>1. CASE m = c.m
        BY <2>1, <2>2, <2>3, <3>1, <4>0, <4>1
      <4>2. CASE m # c.m
        BY <1>2, <2>1, <3>1, <4>0, <4>2 DEF WantInv, ToggleKept
      <4> QED
        BY <4>1, <4>2
    <3> QED
      BY <1>1, <2>5, <3>1 DEF WantInv, ToggleKept
  <2>8. AccurateFlags'
    <3>1. ASSUME NEW m \in Msgs, ~flagged'[m].dirty, srv[m].seq <= modseq
          PROVE  flagged'[m].star = srv[m].star /\ (trash \/ flagged'[m].read = srv[m].read)
      <4>1. CASE m = c.m
        BY <2>1, <2>2, <2>3, <3>1, <4>1
      <4>2. CASE m # c.m
        BY <1>2, <2>1, <3>1, <4>2 DEF AccurateFlags, AsServer
      <4> QED
        BY <4>1, <4>2
    <3> QED
      BY <1>1, <2>5, <3>1 DEF AccurateFlags, AsServer
  <2>9. \A s \in session[r].todo : flagged'[s.m].dirty
    <3>1. \A s \in session[r].todo : s.m \in Msgs
      BY <1>2 DEF Snapshot
    <3> QED
      BY <1>2, <2>1, <3>1
  <2>10. (RunInv(r))'
    BY <1>1, <1>3, <2>4, <2>9, PutBackInv
  <2> QED
    BY <2>4, <2>6, <2>7, <2>8, <2>10 DEF FlagInv
<1> QED
  BY <1>4, <1>5

-----------------------------------------------------------------------------
(* The refresh.                                                            *)

LEMMA SelectKeeps ==
  ASSUME OneSession, FlagInv, NEW r \in Sessions, Select(r)
  PROVE  FlagInv'
<1> DEFINE pc == IF ~Unchanged THEN "fetch" ELSE IF trash THEN "sweep" ELSE "record"
           x == [session[r] EXCEPT !.since = modseq, !.sel = Reported, !.pc = pc]
<1>1. /\ session[r].pc = "select" /\ UNCHANGED <<flagged, srv, hi, modseq>> /\ NoClicks
      /\ session' = [session EXCEPT ![r] = x]
  BY DEF Select, AtStep
<1>2. /\ session[r] \in Session /\ FlagTypeOK /\ SeqInv /\ AccurateFlags
      /\ hi \in Nat /\ modseq \in Nat /\ modseq <= hi
  BY RunTypes DEF FlagInv, FlagTypeOK
<1>3. /\ pc \in {"fetch", "sweep", "record"} /\ (pc = "sweep" => trash)
      /\ pc # "fetch" => Unchanged
  OBVIOUS
<1> HIDE DEF pc
<1>4. Reported \in Nat /\ Reported <= hi /\ (IF condstore THEN Reported = hi ELSE Reported = 0)
  BY <1>2 DEF Reported
<1>5. x \in Session /\ x.pc = pc /\ x.since = modseq /\ x.sel = Reported /\ x.cur = session[r].cur
  BY <1>2, <1>3, <1>4 DEF Session, Steps
<1> HIDE DEF x
<1>6. session'[r] = x /\ ((RunInv(r))' => FlagInv')
  BY <1>1, <1>5, QuietKeeps
<1>7. UNCHANGED <<trash, condstore, others>>
  BY <1>1 DEF NoClicks
<1>8. (PushInv(r))' /\ (StoredInv(r))'
  BY <1>3, <1>5, <1>6 DEF PushInv, StoredInv, Pushing
<1>9. (SelectInv(r))'
  BY <1>1, <1>2, <1>3, <1>4, <1>5, <1>6, <1>7 DEF SelectInv
<1>10. (RefreshInv(r))'
  <2>1. Unchanged => Reported = modseq
    BY <1>2, <1>4 DEF Unchanged, SeqInv
  <2>2. pc # "fetch" => \A m \in Msgs : ~flagged[m].dirty /\ srv[m].seq <= Reported => AsServer(m)
    BY <1>2, <1>3, <2>1 DEF AccurateFlags
  <2> QED
    BY <1>1, <1>3, <1>5, <1>6, <1>7, <2>2 DEF RefreshInv, AsServer
<1> QED
  BY <1>6, <1>8, <1>9, <1>10 DEF RunInv

\* CHANGEDSINCE leaves out only rows that are as the server has them.
LEMMA FetchKeeps ==
  ASSUME FlagConstantsOK, OneSession, FlagInv, NEW r \in Sessions, Fetch(r)
  PROVE  FlagInv'
<1> DEFINE items == {[m |-> m, read |-> srv[m].read, star |-> srv[m].star] : m \in Changed(r)}
           x == [session[r] EXCEPT !.pc = "apply", !.todo = items]
<1>1. /\ session[r].pc = "fetch" /\ UNCHANGED <<flagged, srv, hi, modseq>> /\ NoClicks
      /\ session' = [session EXCEPT ![r] = x]
  BY DEF Fetch, AtStep
<1>2. /\ session[r] \in Session /\ FlagTypeOK /\ SeqInv /\ AccurateFlags /\ SelectInv(r)
      /\ session[r].since \in Nat /\ session[r].sel \in Nat /\ modseq \in Nat
  BY RunTypes DEF FlagInv, FlagTypeOK, RunInv
<1>3. ASSUME NEW s \in items
      PROVE  s \in Snapshot /\ s.read = srv[s.m].read /\ s.star = srv[s.m].star
  <2>1. PICK m \in Changed(r) : s = [m |-> m, read |-> srv[m].read, star |-> srv[m].star]
    OBVIOUS
  <2>2. m \in Msgs
    BY DEF Changed, FlagConstantsOK
  <2>3. srv[m] \in [read : BOOLEAN, star : BOOLEAN, seq : Nat]
    BY <1>2, <2>2 DEF FlagTypeOK
  <2> QED
    BY <2>1, <2>2, <2>3 DEF Snapshot
<1>4. ASSUME NEW m \in Changed(r) PROVE \E s \in items : s.m = m
  <2>1. [m |-> m, read |-> srv[m].read, star |-> srv[m].star] \in items
    OBVIOUS
  <2> QED
    BY <2>1
<1>5. /\ x \in Session /\ x.pc = "apply" /\ x.todo = items /\ x.cur = session[r].cur
      /\ x.since = session[r].since /\ x.sel = session[r].sel
  <2>1. items \subseteq Snapshot
    BY <1>3
  <2> HIDE DEF items
  <2> QED
    BY <1>2, <2>1 DEF Session, Steps
<1> HIDE DEF x, items
<1>6. session'[r] = x /\ ((RunInv(r))' => FlagInv')
  BY <1>1, <1>5, QuietKeeps
<1>7. UNCHANGED <<trash, condstore, others>>
  BY <1>1 DEF NoClicks
<1>8. (PushInv(r))' /\ (StoredInv(r))'
  BY <1>5, <1>6 DEF PushInv, StoredInv, Pushing
<1>9. (SelectInv(r))'
  BY <1>1, <1>2, <1>5, <1>6, <1>7 DEF SelectInv, Reading
<1>10. ASSUME NEW m \in Msgs, ~flagged[m].dirty, srv[m].seq <= session[r].sel
       PROVE  AsServer(m) \/ \E s \in items : s.m = m
  <2>1. /\ session[r].since = modseq /\ srv[m].seq \in Nat /\ srv[m].seq >= 1
        /\ IF condstore THEN modseq <= session[r].sel /\ modseq >= 1 ELSE session[r].sel = 0
    BY <1>1, <1>2 DEF SelectInv, Reading, SeqInv, FlagTypeOK
  <2>2. condstore
    BY <1>2, <1>10, <2>1
  <2>3. CASE srv[m].seq <= modseq
    BY <1>2, <1>10, <2>3 DEF AccurateFlags
  <2>4. CASE srv[m].seq > modseq
    <3>1. m \in Changed(r)
      BY <1>2, <2>1, <2>2, <2>4 DEF Changed, FlagsSince
    <3> QED
      BY <1>4, <3>1
  <2> QED
    BY <1>2, <2>1, <2>3, <2>4
<1>11. (RefreshInv(r))'
  BY <1>1, <1>3, <1>5, <1>6, <1>7, <1>10 DEF RefreshInv, AsServer
<1> QED
  BY <1>6, <1>8, <1>9, <1>11 DEF RunInv

LEMMA ApplyKeeps ==
  ASSUME OneSession, FlagInv, NEW r \in Sessions, Apply(r)
  PROVE  FlagInv'
<1>1. session[r].pc = "apply" /\ UNCHANGED <<srv, hi, modseq>> /\ NoClicks
  BY DEF Apply, AtStep
<1>2. /\ session[r] \in Session /\ session[r].todo \subseteq Snapshot
      /\ session[r].sel \in Nat /\ modseq \in Nat
      /\ FlagTypeOK /\ SeqInv /\ WantInv /\ AccurateFlags
      /\ SelectInv(r) /\ RefreshInv(r)
  BY RunTypes DEF FlagInv, FlagTypeOK, RunInv
<1>3. UNCHANGED <<trash, condstore, toggles, others, want>>
  BY <1>1 DEF NoClicks
<1>4. ASSUME NEW s \in session[r].todo,
             session' = [session EXCEPT ![r].todo = @ \ {s}],
             IF Applies(s.m)
               THEN RowAs(s.m, [read |-> s.read \/ trash, star |-> s.star], flagged[s.m].dirty)
               ELSE UNCHANGED flagged
      PROVE  FlagInv'
  <2> DEFINE x == [session[r] EXCEPT !.todo = session[r].todo \ {s}]
  <2>1. /\ session' = [session EXCEPT ![r] = x] /\ x \in Session /\ x.pc = "apply"
        /\ x.todo = session[r].todo \ {s} /\ x.cur = session[r].cur
        /\ x.since = session[r].since /\ x.sel = session[r].sel
    BY <1>1, <1>2, <1>4 DEF Session
  <2> HIDE DEF x
  <2>2. /\ session' \in [Sessions -> Session] /\ session'[r] = x
        /\ (RunInv(r))' => \A q \in Sessions : (RunInv(q))'
    BY <1>2, <2>1, OnlyRun
  <2>3. s \in Snapshot /\ s.m \in Msgs /\ s.read \in BOOLEAN /\ s.star \in BOOLEAN
    BY <1>2, <1>4 DEF Snapshot
  <2>4. /\ \A m \in Msgs \ {s.m} : flagged'[m] = flagged[m]
        /\ flagged'[s.m].dirty = flagged[s.m].dirty
        /\ IF flagged[s.m].dirty THEN flagged'[s.m] = flagged[s.m]
             ELSE flagged'[s.m].star = s.star /\ (trash \/ flagged'[s.m].read = s.read)
        /\ flagged' \in [Msgs -> [read : BOOLEAN, star : BOOLEAN, dirty : BOOLEAN]]
    <3>1. CASE flagged[s.m].dirty
      BY <1>2, <1>4, <3>1 DEF Applies, FlagTypeOK
    <3>2. CASE ~flagged[s.m].dirty
      <4>1. PICK a \in BOOLEAN : a = (s.read \/ trash)
        OBVIOUS
      <4>2. flagged[s.m].dirty \in BOOLEAN
        BY <1>2, <2>3 DEF FlagTypeOK
      <4> DEFINE y == [read |-> a, star |-> s.star, dirty |-> flagged[s.m].dirty]
      <4>3. flagged' = [flagged EXCEPT ![s.m] = y]
        BY <1>4, <3>2, <4>1 DEF Applies, RowAs
      <4>4. /\ y \in [read : BOOLEAN, star : BOOLEAN, dirty : BOOLEAN]
            /\ y.read = a /\ y.star = s.star /\ y.dirty = flagged[s.m].dirty
        BY <2>3, <4>2
      <4> HIDE DEF y
      <4>5. /\ flagged'[s.m] = y /\ \A m \in Msgs \ {s.m} : flagged'[m] = flagged[m]
            /\ flagged' \in [Msgs -> [read : BOOLEAN, star : BOOLEAN, dirty : BOOLEAN]]
        BY <1>2, <2>3, <4>3, <4>4 DEF FlagTypeOK
      <4>6. trash \/ a = s.read
        BY <2>3, <4>1
      <4> QED
        BY <3>2, <4>4, <4>5, <4>6
    <3> QED
      BY <3>1, <3>2
  <2>5. others = 0 \/ srv[s.m].seq <= session[r].sel =>
          s.read = srv[s.m].read /\ s.star = srv[s.m].star
    BY <1>1, <1>2, <1>4 DEF RefreshInv
  <2>6. FlagTypeOK' /\ SeqInv'
    BY <1>1, <1>2, <1>3, <2>2, <2>4 DEF FlagTypeOK, SeqInv
  <2>7. WantInv'
    <3>1. ASSUME NEW m \in Msgs, others = 0
          PROVE  /\ flagged'[m].star = want[m].star
                 /\ trash \/ flagged'[m].read = want[m].read
                 /\ ~flagged'[m].dirty =>
                      srv[m].star = want[m].star /\ (trash \/ srv[m].read = want[m].read)
      <4>1. /\ flagged[m].star = want[m].star /\ (trash \/ flagged[m].read = want[m].read)
            /\ ~flagged[m].dirty =>
                 srv[m].star = want[m].star /\ (trash \/ srv[m].read = want[m].read)
        BY <1>2, <3>1 DEF WantInv, ToggleKept
      <4>2. CASE m = s.m
        <5>1. CASE flagged[m].dirty
          BY <2>4, <4>1, <4>2, <5>1
        <5>2. CASE ~flagged[m].dirty
          BY <2>4, <2>5, <3>1, <4>1, <4>2, <5>2
        <5> QED
          BY <5>1, <5>2
      <4>3. CASE m # s.m
        BY <2>4, <4>1, <4>3
      <4> QED
        BY <4>2, <4>3
    <3> QED
      BY <1>1, <1>3, <3>1 DEF WantInv, ToggleKept
  <2>8. ASSUME NEW m \in Msgs, ~flagged'[m].dirty, srv[m].seq <= session[r].sel
        PROVE  \/ flagged'[m].star = srv[m].star /\ (trash \/ flagged'[m].read = srv[m].read)
               \/ m # s.m /\ \E t \in session[r].todo : t.m = m
    <3>1. CASE m = s.m
      BY <2>4, <2>5, <2>8, <3>1
    <3>2. CASE m # s.m
      BY <1>1, <1>2, <2>4, <2>8, <3>2 DEF RefreshInv, AsServer
    <3> QED
      BY <3>1, <3>2
  <2>9. AccurateFlags'
    <3>1. ASSUME NEW m \in Msgs, ~flagged'[m].dirty, srv[m].seq <= modseq
          PROVE  flagged'[m].star = srv[m].star /\ (trash \/ flagged'[m].read = srv[m].read)
      <4>1. CASE m = s.m
        <5>1. srv[m].seq \in Nat /\ srv[m].seq >= 1
          BY <1>2 DEF SeqInv, FlagTypeOK
        <5>2. srv[m].seq <= session[r].sel
          BY <1>1, <1>2, <3>1, <5>1 DEF SelectInv, Reading, SeqInv
        <5> QED
          BY <2>8, <3>1, <4>1, <5>2
      <4>2. CASE m # s.m
        BY <1>2, <2>4, <3>1, <4>2 DEF AccurateFlags, AsServer
      <4> QED
        BY <4>1, <4>2
    <3> QED
      BY <1>1, <1>3, <3>1 DEF AccurateFlags, AsServer
  <2>10. (PushInv(r))' /\ (StoredInv(r))'
    BY <2>1, <2>2 DEF PushInv, StoredInv, Pushing
  <2>11. (SelectInv(r))'
    BY <1>1, <1>2, <1>3, <2>1, <2>2 DEF SelectInv, Reading
  <2>12. (RefreshInv(r))'
    <3>1. \A t \in x.todo : others = 0 \/ srv[t.m].seq <= x.sel =>
            t.read = srv[t.m].read /\ t.star = srv[t.m].star
      BY <1>1, <1>2, <2>1 DEF RefreshInv
    <3>2. \A m \in Msgs : ~flagged'[m].dirty /\ srv[m].seq <= x.sel =>
            \/ flagged'[m].star = srv[m].star /\ (trash \/ flagged'[m].read = srv[m].read)
            \/ \E t \in x.todo : t.m = m
      BY <2>1, <2>8
    <3> QED
      BY <1>1, <1>3, <2>1, <2>2, <3>1, <3>2 DEF RefreshInv, AsServer
  <2> QED
    BY <2>2, <2>6, <2>7, <2>9, <2>10, <2>11, <2>12 DEF FlagInv, RunInv
<1>5. ASSUME session[r].todo = {}, UNCHANGED flagged,
             session' = [session EXCEPT ![r].pc = IF trash THEN "sweep" ELSE "record"]
      PROVE  FlagInv'
  <2> DEFINE pc == IF trash THEN "sweep" ELSE "record"
             x == [session[r] EXCEPT !.pc = pc]
  <2>1. pc \in {"sweep", "record"} /\ (pc = "sweep" => trash)
    OBVIOUS
  <2>2. session' = [session EXCEPT ![r] = x]
    BY <1>5
  <2> HIDE DEF pc
  <2>3. /\ x \in Session /\ x.pc = pc /\ x.todo = {} /\ x.cur = session[r].cur
        /\ x.since = session[r].since /\ x.sel = session[r].sel
    BY <1>2, <1>5, <2>1 DEF Session, Steps
  <2> HIDE DEF x
  <2>4. session'[r] = x /\ ((RunInv(r))' => FlagInv')
    BY <1>1, <1>5, <2>2, <2>3, QuietKeeps
  <2>5. (PushInv(r))' /\ (StoredInv(r))'
    BY <2>1, <2>3, <2>4 DEF PushInv, StoredInv, Pushing
  <2>6. (SelectInv(r))'
    BY <1>1, <1>2, <1>3, <2>1, <2>3, <2>4 DEF SelectInv, Reading
  <2>7. \A m \in Msgs : ~flagged[m].dirty /\ srv[m].seq <= x.sel => AsServer(m)
    BY <1>1, <1>2, <1>5, <2>3 DEF RefreshInv
  <2>8. (RefreshInv(r))'
    BY <1>1, <1>3, <1>5, <2>1, <2>3, <2>4, <2>7 DEF RefreshInv, AsServer
  <2> QED
    BY <2>4, <2>5, <2>6, <2>8 DEF RunInv
<1> QED
  BY <1>4, <1>5 DEF Apply

-----------------------------------------------------------------------------
(* The sweep of the Trash, and the end of a run.                           *)

\* The \Seen of the sweep changes no star, and no message the SELECT covered
\* without a new modseq.
LEMMA SweepKeeps ==
  ASSUME OneSession, FlagInv, NEW r \in Sessions, Sweep(r)
  PROVE  FlagInv'
<1> DEFINE to == [m \in Msgs |-> [FlagsOf(srv[m]) EXCEPT !.read = TRUE]]
           items == {[m |-> m, read |-> TRUE, star |-> flagged[m].star] : m \in Unread}
<1>1. session[r].pc = "sweep" /\ UNCHANGED <<flagged, modseq>> /\ NoClicks
  BY DEF Sweep, AtStep
<1>2. PICK ok \in BOOLEAN :
        /\ IF ok THEN StoreOn(Unread, to) ELSE UNCHANGED <<srv, hi>>
        /\ session' = [session EXCEPT ![r] =
             [@ EXCEPT !.pc = "swept", !.ok = ok, !.todo = items]]
  BY DEF Sweep
<1>3. /\ session[r] \in Session /\ session[r].sel \in Nat /\ modseq \in Nat
      /\ FlagTypeOK /\ SeqInv /\ WantInv /\ AccurateFlags
      /\ SelectInv(r) /\ RefreshInv(r)
  BY RunTypes DEF FlagInv, FlagTypeOK, RunInv
<1>4. UNCHANGED <<trash, condstore, toggles, others, want>> /\ trash
  BY <1>1, <1>3 DEF NoClicks, SelectInv
<1>5. Unread \subseteq Msgs
  BY DEF Unread
<1>6. items \subseteq Snapshot
  <2>1. ASSUME NEW s \in items PROVE s \in Snapshot
    <3>1. PICK m \in Unread : s = [m |-> m, read |-> TRUE, star |-> flagged[m].star]
      OBVIOUS
    <3>2. flagged[m].star \in BOOLEAN /\ m \in Msgs
      BY <1>3, <1>5 DEF FlagTypeOK
    <3> QED
      BY <3>1, <3>2 DEF Snapshot
  <2> QED
    BY <2>1
<1> HIDE DEF items
<1>7. to \in [Msgs -> Flags] /\ \A m \in Msgs : to[m].star = srv[m].star
  <2>1. ASSUME NEW m \in Msgs
        PROVE  to[m] \in Flags /\ to[m].star = srv[m].star
    <3>1. srv[m] \in [read : BOOLEAN, star : BOOLEAN, seq : Nat]
      BY <1>3 DEF FlagTypeOK
    <3>2. FlagsOf(srv[m]) \in Flags /\ FlagsOf(srv[m]).star = srv[m].star
      BY <3>1 DEF FlagsOf, Flags
    <3> QED
      BY <3>2 DEF Flags
  <2> QED
    BY <2>1
<1> HIDE DEF to
<1>8. Served /\ \A m \in Msgs : srv'[m].star = srv[m].star
  <2>1. CASE ok
    <3>1. /\ Served
          /\ \A m \in Unread : srv'[m].read = to[m].read /\ srv'[m].star = to[m].star
          /\ \A m \in Msgs \ Unread : srv'[m] = srv[m]
      BY <1>2, <1>3, <1>5, <1>7, <2>1, StoreServes
    <3> QED
      BY <1>5, <1>7, <3>1
  <2>2. CASE ~ok
    BY <1>2, <1>3, <2>2 DEF Served, FlagTypeOK, SeqInv
  <2> QED
    BY <2>1, <2>2
<1> DEFINE x == [session[r] EXCEPT !.pc = "swept", !.ok = ok, !.todo = items]
<1>9. /\ session' = [session EXCEPT ![r] = x]
      /\ x \in Session /\ x.pc = "swept" /\ x.cur = session[r].cur
      /\ x.since = session[r].since /\ x.sel = session[r].sel
  BY <1>2, <1>3, <1>6 DEF Session, Steps
<1> HIDE DEF x
<1>10. /\ session' \in [Sessions -> Session] /\ session'[r] = x
       /\ (RunInv(r))' => \A q \in Sessions : (RunInv(q))'
  BY <1>3, <1>9, OnlyRun
<1>11. FlagTypeOK' /\ SeqInv'
  BY <1>1, <1>3, <1>4, <1>8, <1>10 DEF FlagTypeOK, SeqInv, Served
<1>12. WantInv'
  BY <1>1, <1>3, <1>4, <1>8 DEF WantInv, ToggleKept
<1>13. ASSUME NEW k \in Nat, k <= hi, condstore \/ k = 0, NEW m \in Msgs, srv'[m].seq <= k
       PROVE  srv[m].seq <= k
  BY <1>3, <1>8, <1>13, Moved
<1>14. AccurateFlags'
  <2>1. modseq <= hi /\ (condstore \/ modseq = 0)
    BY <1>3 DEF FlagTypeOK, SeqInv
  <2>2. \A m \in Msgs : srv'[m].seq <= modseq => srv[m].seq <= modseq
    BY <1>3, <1>13, <2>1
  <2> QED
    BY <1>1, <1>3, <1>4, <1>8, <2>2 DEF AccurateFlags, AsServer
<1>15. session[r].sel <= hi /\ (condstore \/ session[r].sel = 0)
  BY <1>1, <1>3 DEF SelectInv, Reading
<1>16. (PushInv(r))' /\ (StoredInv(r))'
  BY <1>9, <1>10 DEF PushInv, StoredInv, Pushing
<1>17. (SelectInv(r))'
  <2>1. hi \in Nat /\ hi' \in Nat /\ hi <= hi'
    BY <1>3, <1>8 DEF Served, FlagTypeOK
  <2> QED
    BY <1>1, <1>3, <1>4, <1>9, <1>10, <1>15, <2>1 DEF SelectInv, Reading
<1>18. (RefreshInv(r))'
  <2>1. \A m \in Msgs : srv'[m].seq <= session[r].sel => srv[m].seq <= session[r].sel
    BY <1>3, <1>13, <1>15
  <2> QED
    BY <1>1, <1>3, <1>4, <1>8, <1>9, <1>10, <2>1 DEF RefreshInv, AsServer
<1> QED
  BY <1>10, <1>11, <1>12, <1>14, <1>16, <1>17, <1>18 DEF FlagInv, RunInv

\* It writes the read flag alone, and never a row that waits for its push.
LEMMA SweptKeeps ==
  ASSUME OneSession, FlagInv, NEW r \in Sessions, Swept(r)
  PROVE  FlagInv'
<1> DEFINE x == [session[r] EXCEPT !.pc = "record", !.todo = {}]
<1>1. /\ session[r].pc = "swept" /\ UNCHANGED <<srv, hi, modseq>> /\ NoClicks
      /\ session' = [session EXCEPT ![r] = x]
  BY DEF Swept, AtStep
<1>2. /\ session[r] \in Session
      /\ FlagTypeOK /\ SeqInv /\ WantInv /\ AccurateFlags /\ SelectInv(r) /\ RefreshInv(r)
  BY RunTypes DEF FlagInv, RunInv
<1>3. UNCHANGED <<trash, condstore, toggles, others, want>> /\ trash
  BY <1>1, <1>2 DEF NoClicks, SelectInv
<1>4. /\ x \in Session /\ x.pc = "record" /\ x.cur = session[r].cur
      /\ x.since = session[r].since /\ x.sel = session[r].sel
  BY <1>2 DEF Session, Steps
<1> HIDE DEF x
<1>5. /\ session' \in [Sessions -> Session] /\ session'[r] = x
      /\ (RunInv(r))' => \A q \in Sessions : (RunInv(q))'
  BY <1>1, <1>2, <1>4, OnlyRun
<1>6. ASSUME NEW m \in Msgs
      PROVE  /\ flagged'[m] \in [read : BOOLEAN, star : BOOLEAN, dirty : BOOLEAN]
             /\ flagged'[m].star = flagged[m].star
             /\ flagged[m].dirty => flagged'[m].dirty
  <2> DEFINE hit == m \in {s.m : s \in session[r].todo} /\ ~flagged[m].read /\ ~flagged[m].dirty
  <2>1. flagged'[m] = IF hit THEN SweptRow(r, m) ELSE flagged[m]
    BY DEF Swept
  <2>2. hit => ~flagged[m].dirty
    OBVIOUS
  <2> HIDE DEF hit
  <2>3. flagged[m] \in [read : BOOLEAN, star : BOOLEAN, dirty : BOOLEAN]
    BY <1>2 DEF FlagTypeOK
  <2>4. session[r].ok \in BOOLEAN
    BY <1>2 DEF Session
  <2>5. CASE hit
    <3>1. PICK d \in BOOLEAN : d = ~session[r].ok
      BY <2>4
    <3>2. flagged'[m] = [flagged[m] EXCEPT !.read = TRUE, !.dirty = d]
      BY <2>1, <2>5, <3>1 DEF SweptRow
    <3> QED
      BY <2>2, <2>3, <2>5, <3>2
  <2>6. CASE ~hit
    BY <2>1, <2>3, <2>6
  <2> QED
    BY <2>5, <2>6
<1>7. flagged' = [m \in Msgs |-> flagged'[m]]
  BY DEF Swept
<1>8. FlagTypeOK' /\ SeqInv'
  <2>1. flagged' \in [Msgs -> [read : BOOLEAN, star : BOOLEAN, dirty : BOOLEAN]]
    BY <1>6, <1>7
  <2> QED
    BY <1>1, <1>2, <1>3, <1>5, <2>1 DEF FlagTypeOK, SeqInv
<1>9. WantInv'
  BY <1>1, <1>2, <1>3, <1>6 DEF WantInv, ToggleKept
<1>10. AccurateFlags'
  BY <1>1, <1>2, <1>3, <1>6 DEF AccurateFlags, AsServer
<1>11. (PushInv(r))' /\ (StoredInv(r))'
  BY <1>4, <1>5 DEF PushInv, StoredInv, Pushing
<1>12. (SelectInv(r))'
  BY <1>1, <1>2, <1>3, <1>4, <1>5 DEF SelectInv, Reading
<1>13. (RefreshInv(r))'
  BY <1>1, <1>2, <1>3, <1>4, <1>5, <1>6 DEF RefreshInv, AsServer
<1> QED
  BY <1>5, <1>8, <1>9, <1>10, <1>11, <1>12, <1>13 DEF FlagInv, RunInv

\* What set_sync_state records is what the refresh has brought up to date.
LEMMA RecordKeeps ==
  ASSUME OneSession, FlagInv, NEW r \in Sessions, Record(r)
  PROVE  FlagInv'
<1>1. /\ session[r].pc = "record" /\ UNCHANGED <<flagged, srv, hi>> /\ NoClicks
      /\ modseq' = IF session[r].sel # 0 THEN session[r].sel ELSE modseq
      /\ session' = [session EXCEPT ![r] = NoSession]
  BY DEF Record, AtStep
<1>2. /\ session[r].sel \in Nat /\ modseq \in Nat /\ hi \in Nat /\ modseq <= hi
      /\ FlagTypeOK /\ SeqInv /\ WantInv /\ AccurateFlags /\ SelectInv(r) /\ RefreshInv(r)
  BY RunTypes DEF FlagInv, FlagTypeOK, RunInv
<1>3. UNCHANGED <<trash, condstore, toggles, others, want>>
  BY <1>1 DEF NoClicks
<1>4. NoSession \in Session /\ NoSession.pc = "idle" /\ NoSession.cur = {}
  BY DEF NoSession, Session, Steps
<1>5. /\ session' \in [Sessions -> Session] /\ session'[r] = NoSession
      /\ (RunInv(r))' => \A q \in Sessions : (RunInv(q))'
  BY <1>1, <1>2, <1>4, OnlyRun
<1>6. modseq' \in Nat /\ modseq' <= hi /\ (IF condstore THEN modseq' >= 1 ELSE modseq' = 0)
  BY <1>1, <1>2 DEF SelectInv, Reading, SeqInv
<1>7. FlagTypeOK' /\ SeqInv'
  BY <1>1, <1>2, <1>3, <1>5, <1>6 DEF FlagTypeOK, SeqInv
<1>8. WantInv'
  BY <1>1, <1>2, <1>3 DEF WantInv, ToggleKept
<1>9. AccurateFlags'
  BY <1>1, <1>2, <1>3 DEF AccurateFlags, AsServer, RefreshInv
<1> QED
  BY <1>4, <1>5, <1>7, <1>8, <1>9, RestInv DEF FlagInv

LEMMA AbortKeeps ==
  ASSUME OneSession, FlagInv, NEW r \in Sessions, Abort(r)
  PROVE  FlagInv'
<1>1. /\ UNCHANGED <<flagged, srv, hi, modseq>> /\ NoClicks
      /\ session' = [session EXCEPT ![r] = NoSession]
  BY DEF Abort
<1>2. NoSession \in Session /\ NoSession.pc = "idle" /\ NoSession.cur = {}
  BY DEF NoSession, Session, Steps
<1>3. session'[r] = NoSession /\ ((RunInv(r))' => FlagInv')
  BY <1>1, <1>2, QuietKeeps
<1> QED
  BY <1>2, <1>3, RestInv

-----------------------------------------------------------------------------
(* The theorem.                                                            *)

LEMMA NextKeeps ==
  ASSUME FlagConstantsOK, OneSession, FlagInv, [FlagNext]_flagVars
  PROVE  FlagInv'
<1>1. CASE UNCHANGED flagVars
  <2>1. /\ UNCHANGED <<trash, condstore, flagged, srv, hi, modseq>>
        /\ UNCHANGED <<session, toggles, others, want>>
    BY <1>1 DEF flagVars
  <2> QED
    BY <2>1 DEF FlagInv, FlagTypeOK, SeqInv, WantInv, ToggleKept, AccurateFlags, AsServer,
      RunInv, PushInv, StoredInv, SelectInv, RefreshInv
<1>2. ASSUME NEW us \in SUBSET Msgs, NEW read \in {"keep", "on", "off"},
             NEW star \in {"keep", "on", "off"}, Toggle(us, read, star)
      PROVE  FlagInv'
  BY <1>2, ToggleKeeps
<1>3. ASSUME NEW m \in Msgs, NEW f \in Flags, OtherClient(m, f)
      PROVE  FlagInv'
  BY <1>3, OtherKeeps
<1>4. ASSUME NEW r \in Sessions, StartRun(r) \/ Work(r) \/ Abort(r)
      PROVE  FlagInv'
  BY <1>4, StartKeeps, PushNextKeeps, PushSeenKeeps, PushStarKeeps, ClearKeeps, SelectKeeps,
     FetchKeeps, ApplyKeeps, SweepKeeps, SweptKeeps, RecordKeeps, AbortKeeps DEF Work
<1> QED
  BY <1>1, <1>2, <1>3, <1>4 DEF FlagNext

\* With a single session the cached flags are what the user chose and what the
\* server has, once both are settled, whatever is cut short or lost
\* (engine.rs, push_dirty_flags; engine/sync.rs, sync_folder_window).
THEOREM FlagsStay ==
  ASSUME OneSession PROVE FlagSpec => []FlagsKept
<1>1. FlagInit => FlagInv
  BY InitKeeps, FlagConstantsOK
<1>2. FlagInv /\ [FlagNext]_flagVars => FlagInv'
  BY NextKeeps, FlagConstantsOK
<1>3. FlagInv => FlagsKept
  BY DEF FlagInv, WantInv, FlagsKept
<1> QED
  BY <1>1, <1>2, <1>3, PTL DEF FlagSpec
=============================================================================
