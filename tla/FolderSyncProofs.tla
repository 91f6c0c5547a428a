-------------------------- MODULE FolderSyncProofs --------------------------
(***************************************************************************)
(* What FolderSync promises of a folder's cache, for any windows, UIDs and *)
(* mails: of a rebuilt folder with any number of runs on it, and of one    *)
(* that is not rebuilt with one run at a time.                             *)
(***************************************************************************)
EXTENDS FolderSync, FiniteSetTheorems, WellFoundedInduction, TLAPS

\* Sizes are numbers, there are finitely many windows and none of them is empty.
FolderOK ==
  /\ MaxUid \in Nat \ {0} /\ MaxMail \in Nat
  /\ SpanFactor \in Nat \ {0} /\ SEARCH_PAGES \in Nat \ {0}
  /\ Windows # {} /\ \E n \in Nat : Windows \subseteq 1..n
  /\ "window" \in Kinds /\ Kinds \subseteq {"window", "older", "search"}

\* One run at a time.
OneRun == \A r, s \in Runs : r = s

\* The pages of a search go down to the first UID.
PagesReach == \A w \in Windows : MaxUid <= (SpanFactor * w) * SEARCH_PAGES

-----------------------------------------------------------------------------
(* The inductive invariants.                                               *)

Selected == {"vanish", "list", "search", "fetch", "drop", "record"}

\* Which operation is where.
Placed(r) ==
  /\ Does(r, "window") => run[r].win \in Windows
  /\ run[r].pc \in {"vanish", "list", "drop"} => Does(r, "window")
  /\ At(r, "record") => run[r].kind \in {"window", "older"}
  /\ At(r, "drop") => run[r].todo = {}
  /\ run[r].pc \in {"fetch", "drop"} /\ Does(r, "window") => \A u \in run[r].found : u < uidnext

\* UIDs are given one after the other.
FolderTyped ==
  /\ TypeOK /\ validity >= 1 /\ hi >= 1
  /\ \A u \in UidRange : box[u] # 0 => u < uidnext
  /\ \A r \in Runs : Placed(r)

\* The rows but those of `others` are of mails the server has or had.
RowsRight(others) ==
  \A u \in UidRange \ others : row[u] # 0 => u < uidnext /\ (box[u] = 0 \/ row[u] = box[u])

\* A window sync that found another UIDVALIDITY than the one it had read.
Renewing(r) == Does(r, "window") /\ run[r].pc \in Selected /\ run[r].folder.val # validity

\* The old rows it knows of; those the window names wait for their turn.
Renewed(r) ==
  /\ run[r].pc # "vanish" /\ RowsRight(run[r].old)
  /\ At(r, "search") => run[r].local \cap run[r].old = {}
  /\ At(r, "fetch") \/ At(r, "drop") =>
       \A u \in run[r].old \cap Newest(run[r].found, run[r].win) :
         u \in run[r].todo \/ box[u] = 0 \/ row[u] \in {0, box[u]}

RunRenewed(r) ==
  /\ run[r].folder.val \in 1..rec.val
  /\ run[r].pc \in Selected =>
       /\ run[r].sel.val = validity
       /\ Does(r, "older") => run[r].folder.val = validity
  /\ Renewing(r) => IF At(r, "record") THEN RowsRight(overlooked) ELSE Renewed(r)

\* What is recorded of a rebuilt folder holds for its rows.
RebuildInv ==
  /\ rec.val \in 1..validity
  /\ rec.val = validity => RowsRight(overlooked)
  /\ \A r \in Runs : ~At(r, "idle") => RunRenewed(r)

\* A mail of the window that is not to be fetched is cached.
InPlace(r) ==
  /\ run[r].old # {} => Renewing(r)
  /\ At(r, "search") /\ Does(r, "window") =>
       \A u \in run[r].local : row[u] # 0 \/ (u < uidnext /\ box[u] = 0)
  /\ (At(r, "fetch") \/ At(r, "drop")) /\ Does(r, "window") =>
       \A u \in Newest(run[r].found, run[r].win) :
         u \in run[r].todo \/ row[u] # 0 \/ box[u] = 0

WindowInv == \A r \in Runs : InPlace(r)

\* What SettledIsAccurate says of the rows.
Accurate ==
  LET window == Newest(On(box), Min(Windows)) IN
  /\ \A u \in window : row[u] = box[u]
  /\ \A u \in UidRange : u >= Min(window \cup {MaxUid}) /\ row[u] # 0 => box[u] # 0

\* The modseq tells states apart, and a window sync that took the server's
\* state leaves the rows as it says.
Synced(s) == s.val \in {0, 1} /\ s.seq <= hi /\ (s.seq = hi => s = ServerState)

\* Between the search and its end: what was cached below `lo` was not asked
\* about; from there on the search has found what there is.
Found(r) ==
  /\ \A u \in run[r].local : u < run[r].sel.next /\ (u >= run[r].lo => u \in run[r].found \/ box[u] = 0)
  /\ On(row) \subseteq run[r].local \cup run[r].found
  /\ run[r].todo \subseteq run[r].found
  /\ run[r].sel = ServerState =>
       /\ run[r].found = {u \in On(box) : u >= run[r].lo}
       /\ run[r].lo <= 1 \/ Cardinality(run[r].found) >= run[r].win

RunSynced(r) ==
  /\ Synced(run[r].folder) /\ (run[r].folder = ServerState => Accurate) /\ run[r].old = {}
  /\ run[r].pc \in Selected =>
       /\ Synced(run[r].sel) /\ run[r].folder.seq <= run[r].sel.seq
       /\ run[r].sel.val = 1 /\ run[r].sel.next <= uidnext
       /\ run[r].pc \in {"vanish", "list"} => \A u \in On(row) : u < run[r].sel.next
       /\ At(r, "search") /\ Does(r, "window") =>
            /\ On(row) \subseteq run[r].local
            /\ \A u \in run[r].local : u < run[r].sel.next
       /\ (At(r, "fetch") \/ At(r, "drop")) /\ Does(r, "window") => Found(r)
       /\ At(r, "record") /\ Does(r, "window") => (run[r].sel = ServerState => Accurate)

SyncedInv ==
  /\ validity = 1 /\ RowsRight({})
  /\ Synced(rec) /\ (rec = ServerState => Accurate)
  /\ \A r \in Runs : ~At(r, "idle") => RunSynced(r)

-----------------------------------------------------------------------------
(* The operators.                                                          *)

\* A set of numbers with an upper bound has a least one.
LEMMA LeastExists ==
  ASSUME NEW n \in Nat, NEW S \in SUBSET (0..n), S # {}
  PROVE  \E x \in S : \A y \in S : x <= y
<1> DEFINE U == 0..n
           R == StrictSubsetOrdering(U)
           T == {0..y : y \in S}
<1>1. IsFiniteSet(U)
  BY FS_Interval
<1>2. IsWellFoundedOn(R, SUBSET U)
  BY <1>1, FS_StrictSubsetOrderingWellFounded, FS_FiniteSubsetsOfFinite
<1>3. T \subseteq SUBSET U /\ T # {}
  <2>1. \A y \in S : y \in Nat /\ 0..y \subseteq U
    OBVIOUS
  <2> QED
    BY <2>1
<1>4. \E x \in T : \A y \in T : ~(<<y, x>> \in R)
  <2> HIDE DEF T, R, U
  <2> QED
    BY <1>2, <1>3, WFMin
<1>5. PICK x \in S : \A y \in S : ~(<<0..y, 0..x>> \in R)
  BY <1>4
<1>6. ASSUME NEW y \in S, ~(x <= y) PROVE FALSE
  <2>1. 0..y \in SUBSET U /\ 0..x \in SUBSET U
    OBVIOUS
  <2>2. 0..y \subseteq 0..x /\ x \in 0..x /\ x \notin 0..y
    BY <1>6
  <2>3. <<0..y, 0..x>> \in R
    BY <2>1, <2>2 DEF StrictSubsetOrdering
  <2> QED
    BY <1>5, <2>3
<1> QED
  BY <1>6

\* Min and Max of FiniteSetsExt.
LEMMA Extremes ==
  ASSUME NEW n \in Nat, NEW S \in SUBSET (0..n), S # {}
  PROVE  /\ Min(S) \in S /\ \A y \in S : Min(S) <= y
         /\ Max(S) \in S /\ \A y \in S : y <= Max(S)
<1>1. \E x \in S : \A y \in S : x <= y
  BY LeastExists
<1>2. \E x \in S : \A y \in S : y <= x
  <2> DEFINE T == {n - y : y \in S}
  <2>1. T \in SUBSET (0..n) /\ T # {}
    <3>1. \A y \in S : n - y \in 0..n
      OBVIOUS
    <3> QED
      BY <3>1
  <2>2. PICK x \in T : \A y \in T : x <= y
    <3> HIDE DEF T
    <3> QED
      BY <2>1, LeastExists
  <2>3. PICK z \in S : x = n - z
    OBVIOUS
  <2>4. \A y \in S : y <= z
    BY <2>2, <2>3
  <2> QED
    BY <2>4
<1> QED
  BY <1>1, <1>2 DEF Min, Max

LEMMA WindowsOK ==
  ASSUME FolderOK
  PROVE  /\ Min(Windows) \in Windows /\ Max(Windows) \in Windows
         /\ \A w \in Windows : w \in Nat /\ w >= 1 /\ Min(Windows) <= w
<1>1. PICK n \in Nat : Windows \subseteq 1..n
  BY DEF FolderOK
<1>2. Windows \in SUBSET (0..n) /\ Windows # {}
  BY <1>1 DEF FolderOK
<1>3. /\ Min(Windows) \in Windows /\ Max(Windows) \in Windows
      /\ \A w \in Windows : Min(Windows) <= w
  BY <1>2, Extremes
<1> QED
  BY <1>1, <1>3

\* Sets of UIDs are finite, and have a first one.
LEMMA UidSets ==
  ASSUME FolderOK, NEW S \in SUBSET UidRange
  PROVE  /\ IsFiniteSet(S) /\ Cardinality(S) \in Nat /\ Cardinality(S) <= MaxUid
         /\ \A T \in SUBSET S : Cardinality(T) <= Cardinality(S)
         /\ S # {} => Min(S) \in S /\ \A u \in S : Min(S) <= u
<1>1. IsFiniteSet(UidRange) /\ Cardinality(UidRange) = MaxUid
  BY FS_Interval DEF FolderOK, UidRange
<1>2. IsFiniteSet(S) /\ Cardinality(S) \in Nat /\ Cardinality(S) <= MaxUid
  BY <1>1, FS_Subset, FS_CardinalityType
<1>3. \A T \in SUBSET S : Cardinality(T) <= Cardinality(S)
  BY <1>2, FS_Subset
<1>4. S # {} => Min(S) \in S /\ \A u \in S : Min(S) <= u
  <2>1. S \in SUBSET (0..MaxUid) /\ MaxUid \in Nat
    BY DEF FolderOK, UidRange
  <2> QED
    BY <2>1, Extremes
<1> QED
  BY <1>2, <1>3, <1>4 DEF FolderOK

\* A search of whole pages names what there is from the UID it got to.
LEMMA PagedFinds ==
  ASSUME FolderOK, NEW top \in Nat, NEW want \in Nat, NEW span \in Nat
  PROVE  \E lo \in Nat :
           /\ search_paged(top, want, span) = <<{u \in On(box) : u >= lo /\ u <= top}, lo>>
           /\ top <= span * SEARCH_PAGES =>
                lo <= 1 \/ Cardinality({u \in On(box) : u >= lo /\ u <= top}) >= want
<1> DEFINE hits(k) == {u \in On(box) : u >= PageLo(top, span, k) /\ u <= top}
           Enough == {k \in 1..SEARCH_PAGES :
             k = SEARCH_PAGES \/ Cardinality(hits(k)) >= want \/ PageLo(top, span, k) <= 1}
           pages == Min(Enough)
           lo == PageLo(top, span, pages)
<1>1. Enough \in SUBSET (0..SEARCH_PAGES) /\ Enough # {} /\ SEARCH_PAGES \in Nat
  <2>1. SEARCH_PAGES \in Nat /\ SEARCH_PAGES \in 1..SEARCH_PAGES
    BY DEF FolderOK
  <2>2. SEARCH_PAGES \in Enough
    BY <2>1
  <2> QED
    BY <2>1, <2>2
<1>2. pages \in Enough
  <2> HIDE DEF Enough
  <2> QED
    BY <1>1, Extremes
<1>3. \A k \in Nat : span * k \in Nat
  OBVIOUS
<1>4. lo \in Nat
  <2>1. pages \in Nat
    BY <1>1, <1>2
  <2> HIDE DEF pages
  <2> QED
    BY <2>1, <1>3 DEF PageLo
<1>5. search_paged(top, want, span) = <<hits(pages), lo>>
  BY DEF search_paged
<1>6. top <= span * SEARCH_PAGES => lo <= 1 \/ Cardinality(hits(pages)) >= want
  <2>1. CASE pages = SEARCH_PAGES
    <3>1. top <= span * SEARCH_PAGES => lo = 1
      <4> HIDE DEF pages
      <4> QED
        BY <2>1, <1>1, <1>3 DEF PageLo
    <3> QED
      BY <3>1
  <2>2. CASE pages # SEARCH_PAGES
    BY <2>2, <1>2
  <2> QED
    BY <2>1, <2>2
<1> QED
  <2> HIDE DEF pages
  <2> QED
    BY <1>4, <1>5, <1>6

\* What sync_folder_window's search says.
LEMMA SearchFinds ==
  ASSUME FolderOK, TypeOK, NEW next \in Nat, NEW win \in Windows
  PROVE  \E found \in SUBSET On(box), lo \in Nat :
           /\ search_recent_uids(next, win) = <<found, lo>>
           /\ \A u \in found : u >= lo
           /\ \A u \in On(box) : u >= lo => u \in found \/ (next > 1 /\ u >= next)
           /\ PagesReach /\ next <= MaxUid + 1 => lo <= 1 \/ Cardinality(found) >= win
<1>1. CASE next <= 1
  <2>1. search_recent_uids(next, win) = <<On(box), 1>> /\ \A u \in On(box) : u >= 1
    BY <1>1 DEF search_recent_uids, On, UidRange
  <2> QED
    BY <2>1, <1>1
<1>2. CASE next > 1
  <2>1. win \in Nat /\ SpanFactor * win \in Nat /\ next - 1 \in Nat
    BY <1>2, WindowsOK DEF FolderOK
  <2>2. PICK lo \in Nat :
          /\ search_paged(next - 1, win, SpanFactor * win) = <<{u \in On(box) : u >= lo /\ u <= next - 1}, lo>>
          /\ next - 1 <= (SpanFactor * win) * SEARCH_PAGES =>
               lo <= 1 \/ Cardinality({u \in On(box) : u >= lo /\ u <= next - 1}) >= win
    BY <2>1, PagedFinds
  <2>3. PagesReach /\ next <= MaxUid + 1 => next - 1 <= (SpanFactor * win) * SEARCH_PAGES
    <3>1. (SpanFactor * win) * SEARCH_PAGES \in Nat
      BY <2>1 DEF FolderOK
    <3> QED
      BY <3>1, <2>1 DEF PagesReach, FolderOK
  <2>4. search_recent_uids(next, win) = <<{u \in On(box) : u >= lo /\ u <= next - 1}, lo>>
    BY <1>2, <2>2 DEF search_recent_uids
  <2>5. \A u \in On(box) : u \in Nat
    BY DEF On, UidRange
  <2> DEFINE found == {u \in On(box) : u >= lo /\ u <= next - 1}
  <2>6. found \in SUBSET On(box) /\ \A u \in found : u >= lo
    OBVIOUS
  <2>7. \A u \in On(box) : u >= lo => u \in found \/ (next > 1 /\ u >= next)
    BY <1>2, <2>5
  <2>8. PagesReach /\ next <= MaxUid + 1 => lo <= 1 \/ Cardinality(found) >= win
    BY <2>2, <2>3
  <2> HIDE DEF found
  <2> QED
    BY <2>4, <2>6, <2>7, <2>8 DEF found
<1> QED
  BY <1>1, <1>2

-----------------------------------------------------------------------------
(* The types.                                                              *)

LEMMA Typed ==
  ASSUME FolderTyped
  PROVE  /\ box \in [UidRange -> 0..MaxMail] /\ row \in [UidRange -> 0..MaxMail]
         /\ gone \in [UidRange -> Nat] /\ uidnext \in 1..(MaxUid + 1)
         /\ validity \in Nat /\ validity >= 1 /\ hi \in Nat /\ hi >= 1
         /\ rec \in State /\ run \in [Runs -> Run]
         /\ overlooked \subseteq UidRange /\ mail \in 0..MaxMail
BY DEF FolderTyped, TypeOK

LEMMA ServerTyped ==
  ASSUME FolderOK, FolderTyped
  PROVE  ServerState \in State
<1>1. On(box) \in SUBSET UidRange
  BY DEF On
<1>2. Cardinality(On(box)) \in Nat
  BY <1>1, UidSets DEF FolderOK
<1> QED
  BY <1>2, Typed DEF ServerState, State

LEMMA TypedInit ==
  ASSUME FolderOK, Init
  PROVE  FolderTyped
<1>1. mail \in Nat /\ mail <= MaxMail /\ mail <= MaxUid
  BY DEF Init, FolderOK
<1>2. /\ box \in [UidRange -> 0..MaxMail] /\ Nothing \in [UidRange -> 0..MaxMail]
      /\ Nothing \in [UidRange -> Nat] /\ uidnext \in 1..(MaxUid + 1)
  BY <1>1 DEF Init, Nothing, UidRange, FolderOK
<1>3. On(box) \in SUBSET UidRange
  BY DEF On
<1>4. NoState \in State /\ ServerState \in State
  <2>1. Cardinality(On(box)) \in Nat
    BY <1>3, UidSets DEF FolderOK
  <2> QED
    BY <1>1, <1>2, <2>1 DEF Init, NoState, ServerState, State
<1>5. NoRun \in Run
  BY <1>4 DEF NoRun, Run, Labels
<1>6. TypeOK
  BY <1>1, <1>2, <1>4, <1>5 DEF Init, TypeOK
<1>7. \A r \in Runs : Placed(r)
  BY DEF Init, Placed, At, Does, NoRun
<1>8. \A u \in UidRange : box[u] # 0 => u < uidnext
  BY <1>1 DEF Init, UidRange, FolderOK
<1> QED
  BY <1>6, <1>7, <1>8 DEF Init, FolderTyped

\* A step of r sets its record, and no other run's.
LEMMA RunSet ==
  ASSUME FolderTyped, NEW r \in Runs, NEW x \in Run, run' = [run EXCEPT ![r] = x]
  PROVE  run' \in [Runs -> Run] /\ run'[r] = x /\ \A s \in Runs : s # r => run'[s] = run[s]
BY Typed

\* The fields of a run.
LEMMA Fields ==
  ASSUME FolderTyped, NEW r \in Runs
  PROVE  /\ run[r] \in Run /\ run[r].pc \in Labels /\ run[r].kind \in {"none"} \cup Kinds
         /\ run[r].win \in Nat /\ run[r].folder \in State /\ run[r].sel \in State
         /\ run[r].van \subseteq UidRange /\ run[r].old \subseteq UidRange
         /\ run[r].local \subseteq UidRange /\ run[r].found \subseteq UidRange
         /\ run[r].lo \in Nat /\ run[r].todo \subseteq UidRange /\ run[r].fast \in BOOLEAN
BY Typed DEF Run

LEMMA NoRunTyped == NoRun \in Run
BY DEF NoRun, Run, Labels, NoState, State

\* What a step of one run leaves to prove of the types.
LEMMA RunStep ==
  ASSUME FolderTyped, NEW r \in Runs, UNCHANGED <<server, mail>>,
         NEW x \in Run, run' = [run EXCEPT ![r] = x],
         x.kind = "window" => x.win \in Windows,
         x.pc \in {"vanish", "list", "drop"} => x.kind = "window",
         x.pc = "record" => x.kind \in {"window", "older"},
         x.pc = "drop" => x.todo = {},
         x.pc \in {"fetch", "drop"} /\ x.kind = "window" => \A u \in x.found : u < uidnext,
         row' \in [UidRange -> 0..MaxMail], rec' \in State, overlooked' \subseteq UidRange
  PROVE  FolderTyped'
<1>1. run' \in [Runs -> Run] /\ run'[r] = x /\ \A s \in Runs : s # r => run'[s] = run[s]
  BY RunSet
<1>2. TypeOK'
  BY <1>1, Typed DEF TypeOK, server
<1>3. \A s \in Runs : Placed(s)'
  BY <1>1 DEF FolderTyped, Placed, At, Does, server
<1> QED
  BY <1>2, <1>3, Typed DEF FolderTyped, server

-----------------------------------------------------------------------------
(* The steps of a run: what its record says after each.                    *)

LEMMA SelectSets ==
  ASSUME FolderOK, FolderTyped, NEW r \in Runs, Select(r)
  PROVE  \E x \in Run :
           /\ run' = [run EXCEPT ![r] = x]
           /\ x.folder = run[r].folder /\ x.sel = ServerState
           /\ x.local = run[r].local /\ x.found = run[r].found /\ x.todo = run[r].todo
           /\ \/ /\ run[r].kind = "older" /\ x.kind = "window" /\ x.win \in Windows
                 /\ x.pc = "select" /\ x.old = {}
              \/ /\ x.kind = run[r].kind /\ x.win = run[r].win
                 /\ x.old = IF /\ run[r].kind = "window"
                               /\ run[r].folder.val \notin {0, validity} THEN On(row) ELSE {}
                 /\ IF run[r].kind = "window"
                      THEN \/ x.pc = "list"
                           \/ x.pc = "vanish" /\ run[r].folder.val = validity
                      ELSE x.pc = "search"
                 /\ run[r].kind = "older" => run[r].folder.val \in {0, validity}
<1> DEFINE changed == run[r].folder.val \notin {0, validity}
           renewed == changed /\ Does(r, "older")
           old == IF changed /\ Does(r, "window") THEN On(row) ELSE {}
           kind == IF renewed THEN "window" ELSE run[r].kind
           win == IF renewed THEN Max(Windows) ELSE run[r].win
           pc(van) == IF renewed THEN "select" ELSE IF van # {} THEN "vanish"
                      ELSE IF Does(r, "window") THEN "list" ELSE "search"
<1>1. PICK van \in IF Does(r, "window") THEN Vanished(run[r].folder) ELSE {{}} :
        run' = [run EXCEPT ![r] = [@ EXCEPT !.sel = ServerState, !.van = van, !.old = old,
                                           !.kind = kind, !.win = win, !.pc = pc(van)]]
  BY DEF Select
<1>2. van \subseteq UidRange
  <2>1. 1..(uidnext - 1) \subseteq UidRange
    BY Typed DEF UidRange, FolderOK
  <2>2. \A s \in Vanished(run[r].folder) : s \subseteq UidRange
    BY <2>1 DEF Vanished
  <2> QED
    BY <1>1, <2>2
<1>3. van # {} => run[r].kind = "window" /\ run[r].folder.val = validity
  BY <1>1 DEF Vanished, Does
<1>4. Max(Windows) \in Windows /\ Max(Windows) \in Nat
  BY WindowsOK
<1>5. ServerState \in State /\ On(row) \subseteq UidRange
  BY ServerTyped DEF On
<1>6. /\ old \subseteq UidRange /\ kind \in {"none"} \cup Kinds /\ win \in Nat
      /\ pc(van) \in Labels
  BY <1>4, <1>5, Fields DEF Labels, FolderOK
<1>7. PICK o \in SUBSET UidRange, k \in {"none"} \cup Kinds, w \in Nat, p \in Labels :
        o = old /\ k = kind /\ w = win /\ p = pc(van)
  BY <1>6
<1> DEFINE x == [run[r] EXCEPT !.sel = ServerState, !.van = van, !.old = o, !.kind = k,
                               !.win = w, !.pc = p]
<1>8. run' = [run EXCEPT ![r] = x]
  BY <1>1, <1>7
<1>9. x \in Run
  BY <1>2, <1>5, Fields DEF Run
<1>10. /\ x.folder = run[r].folder /\ x.sel = ServerState
       /\ x.local = run[r].local /\ x.found = run[r].found /\ x.todo = run[r].todo
       /\ x.old = o /\ x.kind = k /\ x.win = w /\ x.pc = p
  BY Fields DEF Run
<1> HIDE DEF x
<1> QED
  BY <1>3, <1>4, <1>7, <1>8, <1>9, <1>10 DEF Does

LEMMA SelectTyped ==
  ASSUME FolderOK, FolderTyped, NEW r \in Runs, Select(r)
  PROVE  FolderTyped'
<1>1. PICK x \in Run :
           /\ run' = [run EXCEPT ![r] = x]
           /\ x.kind = "window" => x.win \in Windows
           /\ x.pc \in {"vanish", "list", "search", "select"}
           /\ x.pc \in {"vanish", "list"} => x.kind = "window"
  BY SelectSets DEF FolderTyped, Placed, Does
<1> QED
  BY <1>1, RunStep, Typed DEF Select

LEMMA ListSets ==
  ASSUME FolderOK, FolderTyped, NEW r \in Runs, List(r)
  PROVE  \E x \in Run :
           /\ run' = [run EXCEPT ![r] = x]
           /\ x.kind = "window" /\ x.win = run[r].win
           /\ x.folder = run[r].folder /\ x.sel = run[r].sel /\ x.old = run[r].old
           /\ x.found = run[r].found /\ x.todo = run[r].todo
           /\ x.local = IF validity_changed(r) THEN On(row) \ run[r].old ELSE On(row)
           /\ \/ x.pc = "search"
              \/ x.pc = "record" /\ ~validity_changed(r) /\ run[r].sel = run[r].folder
<1> DEFINE local == IF validity_changed(r) THEN On(row) \ run[r].old ELSE On(row)
<1>1. PICK fast \in BOOLEAN :
        /\ fast => ~validity_changed(r) /\ run[r].sel = run[r].folder
        /\ run' = [run EXCEPT ![r] = [@ EXCEPT !.local = local, !.fast = fast,
               !.pc = IF fast THEN "record" ELSE "search"]]
  BY DEF List, folder_unchanged
<1> DEFINE x == [run[r] EXCEPT !.local = local, !.fast = fast,
               !.pc = IF fast THEN "record" ELSE "search"]
<1>2. local \subseteq UidRange
  BY DEF On
<1>3. x \in Run
  <2>1. \A s \in SUBSET UidRange, l \in Labels :
          [run[r] EXCEPT !.local = s, !.fast = fast, !.pc = l] \in Run
    BY Fields DEF Run
  <2>2. (IF fast THEN "record" ELSE "search") \in Labels
    BY DEF Labels
  <2> QED
    BY <1>2, <2>1, <2>2
<1>4. /\ x.kind = run[r].kind /\ x.win = run[r].win
      /\ x.folder = run[r].folder /\ x.sel = run[r].sel /\ x.old = run[r].old
      /\ x.found = run[r].found /\ x.todo = run[r].todo
      /\ x.local = local
      /\ x.pc = IF fast THEN "record" ELSE "search"
  BY Fields DEF Run
<1>5. run[r].kind = "window"
  BY DEF List, FolderTyped, Placed, At, Does
<1> HIDE DEF x
<1> QED
  BY <1>1, <1>3, <1>4, <1>5 DEF x

LEMMA ListTyped ==
  ASSUME FolderOK, FolderTyped, NEW r \in Runs, List(r)
  PROVE  FolderTyped'
<1>1. PICK x \in Run :
           /\ run' = [run EXCEPT ![r] = x]
           /\ x.kind = "window" /\ x.win = run[r].win
           /\ x.pc \in {"search", "record"}
  BY ListSets
<1>2. run[r].win \in Windows
  BY DEF List, FolderTyped, Placed, At, Does
<1> QED
  BY <1>1, <1>2, RunStep, Typed DEF List

LEMMA SearchSets ==
  ASSUME FolderOK, FolderTyped, NEW r \in Runs, Search(r)
  PROVE  \E x \in Run :
           /\ run' = [run EXCEPT ![r] = x]
           /\ x.pc = "fetch" /\ x.kind = "window" /\ x.win = run[r].win /\ x.win \in Windows
           /\ x.folder = run[r].folder /\ x.sel = run[r].sel /\ x.old = run[r].old
           /\ x.local = run[r].local
           /\ x.found \subseteq On(box) /\ x.todo = Newest(x.found, x.win) \ x.local
           /\ \A u \in x.found : u >= x.lo
           /\ \A u \in On(box) : u >= x.lo => u \in x.found \/ (x.sel.next > 1 /\ u >= x.sel.next)
           /\ PagesReach /\ x.sel.next <= MaxUid + 1 =>
                x.lo <= 1 \/ Cardinality(x.found) >= x.win
<1>1. run[r].win \in Windows /\ run[r].sel.next \in Nat
  BY Fields DEF Search, FolderTyped, Placed, State
<1>2. PICK found \in SUBSET On(box), lo \in Nat :
           /\ search_recent_uids(run[r].sel.next, run[r].win) = <<found, lo>>
           /\ \A u \in found : u >= lo
           /\ \A u \in On(box) : u >= lo => u \in found \/ (run[r].sel.next > 1 /\ u >= run[r].sel.next)
           /\ PagesReach /\ run[r].sel.next <= MaxUid + 1 =>
                lo <= 1 \/ Cardinality(found) >= run[r].win
  BY <1>1, SearchFinds DEF FolderTyped
<1> DEFINE todo == Newest(found, run[r].win) \ run[r].local
           x == [run[r] EXCEPT !.pc = "fetch", !.found = found, !.lo = lo, !.todo = todo]
<1>3. run' = [run EXCEPT ![r] = x]
  BY <1>2 DEF Search
<1>4. found \subseteq UidRange /\ todo \subseteq UidRange
  BY <1>2 DEF On, Newest
<1>5. x \in Run
  BY <1>4, Fields DEF Run, Labels
<1>6. /\ x.pc = "fetch" /\ x.kind = run[r].kind /\ x.win = run[r].win
      /\ x.folder = run[r].folder /\ x.sel = run[r].sel /\ x.old = run[r].old
      /\ x.local = run[r].local /\ x.found = found /\ x.todo = todo /\ x.lo = lo
  BY Fields DEF Run
<1>7. run[r].kind = "window"
  BY DEF Search, Does
<1> HIDE DEF x
<1> QED
  BY <1>1, <1>2, <1>3, <1>5, <1>6, <1>7

LEMMA SearchTyped ==
  ASSUME FolderOK, FolderTyped, NEW r \in Runs, Search(r)
  PROVE  FolderTyped'
<1>1. PICK x \in Run :
        /\ run' = [run EXCEPT ![r] = x] /\ x.pc = "fetch" /\ x.win \in Windows
        /\ x.found \subseteq On(box)
  BY SearchSets
<1>2. \A u \in x.found : u < uidnext
  BY <1>1 DEF On, FolderTyped
<1> QED
  BY <1>1, <1>2, RunStep, Typed DEF Search

LEMMA VanishSets ==
  ASSUME FolderOK, FolderTyped, NEW r \in Runs, Vanish(r)
  PROVE  /\ FolderTyped'
         /\ \E x \in Run :
              /\ run' = [run EXCEPT ![r] = x]
              /\ x.pc = "list" /\ x.kind = "window" /\ x.win = run[r].win
              /\ x.folder = run[r].folder /\ x.sel = run[r].sel /\ x.old = run[r].old
              /\ x.local = run[r].local /\ x.found = run[r].found /\ x.todo = run[r].todo
         /\ \A u \in UidRange : row'[u] = row[u] \/ (row'[u] = 0 /\ box[u] = 0)
<1> DEFINE x == [run[r] EXCEPT !.pc = "list"]
<1>1. x \in Run /\ run' = [run EXCEPT ![r] = x]
  BY Fields DEF Run, Labels, Vanish
<1>2. /\ x.pc = "list" /\ x.kind = run[r].kind /\ x.win = run[r].win
      /\ x.folder = run[r].folder /\ x.sel = run[r].sel /\ x.old = run[r].old
      /\ x.local = run[r].local /\ x.found = run[r].found /\ x.todo = run[r].todo
  BY Fields DEF Run
<1> HIDE DEF x
<1>3. run[r].kind = "window" /\ run[r].win \in Windows
  BY DEF Vanish, FolderTyped, Placed, At, Does
<1>4. /\ row' \in [UidRange -> 0..MaxMail]
      /\ \A u \in UidRange : row'[u] = row[u] \/ (row'[u] = 0 /\ box[u] = 0)
  BY Typed DEF Vanish, NotFound, FolderOK
<1>5. FolderTyped'
  BY <1>1, <1>2, <1>3, <1>4, RunStep, Typed DEF Vanish
<1> QED
  BY <1>1, <1>2, <1>3, <1>4, <1>5

LEMMA FetchSets ==
  ASSUME FolderOK, FolderTyped, NEW r \in Runs, Fetch(r)
  PROVE  /\ FolderTyped'
         /\ \E x \in Run, u \in run[r].todo :
              /\ run' = [run EXCEPT ![r] = x]
              /\ x.pc = "fetch" /\ x.kind = run[r].kind /\ x.win = run[r].win
              /\ x.folder = run[r].folder /\ x.sel = run[r].sel /\ x.old = run[r].old
              /\ x.local = run[r].local /\ x.found = run[r].found /\ x.lo = run[r].lo
              /\ x.todo = run[r].todo \ {u}
              /\ row' = IF box[u] # 0 THEN [row EXCEPT ![u] = box[u]] ELSE row
              /\ overlooked' = IF box[u] # 0 THEN overlooked \ {u} ELSE overlooked
<1> DEFINE u == Min(run[r].todo)
           x == [run[r] EXCEPT !.todo = run[r].todo \ {u}]
<1>1. u \in run[r].todo /\ u \in UidRange
  BY Fields, UidSets DEF Fetch
<1>2. /\ row' = IF box[u] # 0 THEN [row EXCEPT ![u] = box[u]] ELSE row
      /\ overlooked' = IF box[u] # 0 THEN overlooked \ {u} ELSE overlooked
      /\ run' = [run EXCEPT ![r] = x]
  BY Typed DEF Fetch, upsert
<1>3. x \in Run
  BY Fields DEF Run
<1>4. /\ x.pc = run[r].pc /\ x.kind = run[r].kind /\ x.win = run[r].win
      /\ x.folder = run[r].folder /\ x.sel = run[r].sel /\ x.old = run[r].old
      /\ x.local = run[r].local /\ x.found = run[r].found /\ x.lo = run[r].lo
      /\ x.todo = run[r].todo \ {u}
  BY Fields DEF Run
<1> HIDE DEF x, u
<1>5. row' \in [UidRange -> 0..MaxMail] /\ overlooked' \subseteq UidRange
  BY <1>1, <1>2, Typed
<1>6. /\ run[r].pc = "fetch"
      /\ run[r].kind = "window" =>
           run[r].win \in Windows /\ \A v \in run[r].found : v < uidnext
  BY DEF Fetch, FolderTyped, Placed, At, Does
<1>7. FolderTyped'
  BY <1>2, <1>3, <1>4, <1>5, <1>6, RunStep, Typed DEF Fetch
<1> QED
  BY <1>1, <1>2, <1>3, <1>4, <1>6, <1>7

LEMMA FetchedSets ==
  ASSUME FolderOK, FolderTyped, NEW r \in Runs, Fetched(r)
  PROVE  /\ FolderTyped' /\ run[r].todo = {}
         /\ \E x \in Run :
              /\ run' = [run EXCEPT ![r] = x]
              /\ \/ x = NoRun
                 \/ /\ x.pc = IF run[r].kind = "window" THEN "drop" ELSE "record"
                    /\ x.kind = run[r].kind /\ x.kind \in {"window", "older"}
                    /\ x.win = run[r].win /\ x.folder = run[r].folder /\ x.sel = run[r].sel
                    /\ x.old = run[r].old /\ x.local = run[r].local /\ x.found = run[r].found
                    /\ x.lo = run[r].lo /\ x.todo = {}
<1> DEFINE y(label) == [run[r] EXCEPT !.pc = label]
           x == CASE Does(r, "window") -> y("drop")
                  [] Does(r, "older")  -> y("record")
                  [] OTHER             -> NoRun
<1>1. run' = [run EXCEPT ![r] = x] /\ run[r].todo = {}
  BY DEF Fetched
<1>2. \A label \in Labels :
        /\ y(label) \in Run
        /\ y(label).pc = label /\ y(label).kind = run[r].kind /\ y(label).win = run[r].win
        /\ y(label).folder = run[r].folder /\ y(label).sel = run[r].sel
        /\ y(label).old = run[r].old /\ y(label).local = run[r].local
        /\ y(label).found = run[r].found /\ y(label).lo = run[r].lo
        /\ y(label).todo = run[r].todo
  BY Fields DEF Run
<1>3. x = IF Does(r, "window") THEN y("drop") ELSE IF Does(r, "older") THEN y("record") ELSE NoRun
  BY DEF Does
<1>4. "drop" \in Labels /\ "record" \in Labels
  BY DEF Labels
<1> HIDE DEF x, y
<1>5. x \in Run /\ (\/ x = NoRun
                 \/ /\ x.pc = IF run[r].kind = "window" THEN "drop" ELSE "record"
                    /\ x.kind = run[r].kind /\ x.kind \in {"window", "older"}
                    /\ x.win = run[r].win /\ x.folder = run[r].folder /\ x.sel = run[r].sel
                    /\ x.old = run[r].old /\ x.local = run[r].local /\ x.found = run[r].found
                    /\ x.lo = run[r].lo /\ x.todo = {})
  BY <1>1, <1>2, <1>3, <1>4, NoRunTyped DEF Does
<1>6. NoRun.pc = "idle" /\ NoRun.kind = "none"
  BY DEF NoRun
<1>7. run[r].kind = "window" =>
        run[r].win \in Windows /\ \A u \in run[r].found : u < uidnext
  BY DEF Fetched, FolderTyped, Placed, At, Does
<1>8. FolderTyped'
  BY <1>1, <1>5, <1>6, <1>7, RunStep, Typed DEF Fetched
<1> QED
  BY <1>1, <1>5, <1>8

\* The same of the fields alone.
LEMMA FetchedFields ==
  ASSUME FolderOK, FolderTyped, NEW r \in Runs, Fetched(r)
  PROVE  \E x \in Run :
           /\ run' = [run EXCEPT ![r] = x]
           /\ \/ x = NoRun
              \/ /\ x.pc = IF run[r].kind = "window" THEN "drop" ELSE "record"
                 /\ x.kind = run[r].kind
                 /\ x.win = run[r].win /\ x.folder = run[r].folder /\ x.sel = run[r].sel
                 /\ x.old = run[r].old /\ x.local = run[r].local /\ x.found = run[r].found
                 /\ x.lo = run[r].lo /\ x.todo = run[r].todo
<1>1. run[r].todo = {}
  BY DEF Fetched
<1>2. PICK x \in Run :
        /\ run' = [run EXCEPT ![r] = x]
        /\ \/ x = NoRun
           \/ /\ x.pc = IF run[r].kind = "window" THEN "drop" ELSE "record"
              /\ x.kind = run[r].kind /\ x.kind \in {"window", "older"}
              /\ x.win = run[r].win /\ x.folder = run[r].folder /\ x.sel = run[r].sel
              /\ x.old = run[r].old /\ x.local = run[r].local /\ x.found = run[r].found
              /\ x.lo = run[r].lo /\ x.todo = {}
  BY FetchedSets
<1> QED
  BY <1>1, <1>2

LEMMA DropSets ==
  ASSUME FolderOK, FolderTyped, NEW r \in Runs, Drop(r)
  PROVE  /\ FolderTyped' /\ run[r].kind = "window" /\ run[r].todo = {}
         /\ \E x \in Run :
              /\ run' = [run EXCEPT ![r] = x]
              /\ x.pc = "record" /\ x.kind = "window" /\ x.win = run[r].win
              /\ x.folder = run[r].folder /\ x.sel = run[r].sel /\ x.old = run[r].old
         /\ \A u \in UidRange : row'[u] = IF u \in Stale(r) THEN 0 ELSE row[u]
<1> DEFINE x == [run[r] EXCEPT !.pc = "record"]
<1>1. x \in Run /\ run' = [run EXCEPT ![r] = x]
  BY Fields DEF Run, Labels, Drop
<1>2. /\ x.pc = "record" /\ x.kind = run[r].kind /\ x.win = run[r].win
      /\ x.folder = run[r].folder /\ x.sel = run[r].sel /\ x.old = run[r].old
  BY Fields DEF Run
<1> HIDE DEF x
<1>3. run[r].kind = "window" /\ run[r].win \in Windows /\ run[r].todo = {}
  BY DEF Drop, FolderTyped, Placed, At, Does
<1>4. /\ row' \in [UidRange -> 0..MaxMail] /\ overlooked' \subseteq UidRange
      /\ \A u \in UidRange : row'[u] = IF u \in Stale(r) THEN 0 ELSE row[u]
  BY Typed, Fields DEF Drop, Overlooked, FolderOK
<1>5. FolderTyped'
  <2>1. UNCHANGED <<server, mail>> /\ rec' \in State
    BY Typed DEF Drop
  <2> QED
    BY <1>1, <1>2, <1>3, <1>4, <2>1, RunStep
<1> QED
  BY <1>1, <1>2, <1>3, <1>4, <1>5

LEMMA RecordTyped ==
  ASSUME FolderOK, FolderTyped, NEW r \in Runs, Record(r)
  PROVE  FolderTyped' /\ run' = [run EXCEPT ![r] = NoRun]
<1>1. Recorded(r) \in State
  BY Fields DEF Recorded, State
<1>2. NoRun.pc = "idle" /\ NoRun.kind = "none"
  BY DEF NoRun
<1> QED
  BY <1>1, <1>2, NoRunTyped, RunStep, Typed DEF Record

LEMMA SearchOlderSets ==
  ASSUME FolderOK, FolderTyped, NEW r \in Runs, SearchOlder(r)
  PROVE  /\ FolderTyped'
         /\ \E x \in Run :
              /\ run' = [run EXCEPT ![r] = x]
              /\ x.folder = run[r].folder /\ x.sel = run[r].sel /\ x.old = run[r].old
              /\ \/ x.kind = "window" /\ x.pc = "select"
                 \/ x.kind = "older" /\ x.pc = "fetch"
<1> DEFINE todo == Newest({u \in On(box) : u <= Max(On(row))} \ On(row), OLDER_BATCH)
           x1 == [run[r] EXCEPT !.kind = "window", !.win = Max(Windows), !.pc = "select"]
           x2 == [run[r] EXCEPT !.pc = "fetch", !.todo = todo]
<1>1. run' = [run EXCEPT ![r] = IF On(row) = {} THEN x1 ELSE x2]
  BY DEF SearchOlder
<1>2. todo \subseteq UidRange /\ Max(Windows) \in Nat /\ Max(Windows) \in Windows
  BY WindowsOK DEF Newest, On
<1> HIDE DEF todo
<1>3. /\ x1 \in Run /\ x1.folder = run[r].folder /\ x1.sel = run[r].sel /\ x1.old = run[r].old
      /\ x1.kind = "window" /\ x1.pc = "select" /\ x1.win \in Windows
  BY <1>2, Fields DEF Run, Labels, FolderOK
<1>4. /\ x2 \in Run /\ x2.folder = run[r].folder /\ x2.sel = run[r].sel /\ x2.old = run[r].old
      /\ x2.kind = "older" /\ x2.pc = "fetch"
  BY <1>2, Fields DEF Run, Labels, SearchOlder, Does
<1> HIDE DEF x1, x2
<1>5. PICK x \in Run :
        /\ run' = [run EXCEPT ![r] = x]
        /\ x = x1 \/ x = x2
  BY <1>1, <1>3, <1>4
<1>6. FolderTyped'
  BY <1>3, <1>4, <1>5, RunStep, Typed DEF SearchOlder
<1> QED
  BY <1>3, <1>4, <1>5, <1>6

LEMMA SearchHitsSets ==
  ASSUME FolderOK, FolderTyped, NEW r \in Runs, SearchHits(r)
  PROVE  /\ FolderTyped'
         /\ \E x \in Run :
              /\ run' = [run EXCEPT ![r] = x]
              /\ x.folder = run[r].folder /\ x.sel = run[r].sel /\ x.old = run[r].old
              /\ x.kind = "search" /\ x.pc = "fetch"
<1>1. PICK hits \in SUBSET On(box) :
        run' = [run EXCEPT ![r] = [@ EXCEPT !.pc = "fetch",
                 !.todo = Newest(hits \ On(row), PER_FOLDER_CAP)]]
  BY DEF SearchHits
<1> DEFINE todo == Newest(hits \ On(row), PER_FOLDER_CAP)
           x == [run[r] EXCEPT !.pc = "fetch", !.todo = todo]
<1>2. todo \subseteq UidRange
  BY DEF Newest, On
<1> HIDE DEF todo
<1>3. /\ x \in Run /\ x.folder = run[r].folder /\ x.sel = run[r].sel /\ x.old = run[r].old
      /\ x.kind = "search" /\ x.pc = "fetch" /\ run' = [run EXCEPT ![r] = x]
  BY <1>1, <1>2, Fields DEF Run, Labels, SearchHits, Does, todo
<1> HIDE DEF x
<1>4. FolderTyped'
  BY <1>3, RunStep, Typed DEF SearchHits
<1> QED
  BY <1>3, <1>4

LEMMA AbortTyped ==
  ASSUME FolderOK, FolderTyped, NEW r \in Runs, Abort(r)
  PROVE  FolderTyped'
<1>1. NoRun.pc = "idle" /\ NoRun.kind = "none"
  BY DEF NoRun
<1> QED
  BY <1>1, NoRunTyped, RunStep, Typed DEF Abort

LEMMA StartSets ==
  ASSUME FolderOK, FolderTyped, NEW r \in Runs, NEW kind \in Kinds, NEW win \in Windows,
         Start(r, kind, win)
  PROVE  /\ FolderTyped'
         /\ \E x \in Run :
              /\ run' = [run EXCEPT ![r] = x]
              /\ x.pc = "select" /\ x.kind = kind /\ x.folder = rec /\ x.old = {}
<1> DEFINE x == [NoRun EXCEPT !.pc = "select", !.kind = kind, !.win = win, !.folder = rec]
<1>1. x \in Run
  BY NoRunTyped, Typed, WindowsOK DEF Run, Labels
<1>2. x.pc = "select" /\ x.kind = kind /\ x.folder = rec /\ x.old = {} /\ x.win = win
  BY NoRunTyped DEF Run, NoRun
<1>3. run' = [run EXCEPT ![r] = x]
  BY DEF Start
<1> HIDE DEF x
<1>4. FolderTyped'
  BY <1>1, <1>2, <1>3, RunStep, Typed DEF Start
<1> QED
  BY <1>1, <1>2, <1>3, <1>4

LEMMA ArriveTyped ==
  ASSUME FolderOK, FolderTyped, Arrive
  PROVE  FolderTyped'
<1>1. mail' \in 0..MaxMail /\ uidnext \in UidRange /\ uidnext' \in 1..(MaxUid + 1)
  <2>1. mail \in 0..MaxMail /\ uidnext \in 1..(MaxUid + 1) /\ MaxMail \in Nat /\ MaxUid \in Nat
    BY Typed DEF FolderOK
  <2>2. mail < MaxMail /\ uidnext <= MaxUid /\ mail' = mail + 1 /\ uidnext' = uidnext + 1
    BY DEF Arrive
  <2> QED
    BY <2>1, <2>2 DEF UidRange
<1>2. box' \in [UidRange -> 0..MaxMail] /\ hi' \in Nat /\ hi' >= 1
  BY <1>1, Typed DEF Arrive
<1>3. TypeOK'
  BY <1>1, <1>2, Typed DEF Arrive, TypeOK
<1>4. \A u \in UidRange : box'[u] # 0 => u < uidnext'
  <2>1. \A u \in UidRange : u \in Nat /\ (u # uidnext => box'[u] = box[u])
    BY Typed DEF Arrive, UidRange
  <2>2. uidnext \in Nat /\ uidnext' = uidnext + 1
    BY <1>1 DEF Arrive, UidRange
  <2>3. \A u \in UidRange : box[u] # 0 => u < uidnext
    BY DEF FolderTyped
  <2> QED
    BY <2>1, <2>2, <2>3
<1>5. \A r \in Runs : Placed(r)'
  <2>1. \A r \in Runs : \A u \in run[r].found : u \in Nat
    BY Fields DEF UidRange
  <2>2. uidnext \in Nat /\ uidnext' = uidnext + 1 /\ run' = run
    BY <1>1 DEF Arrive, UidRange
  <2> QED
    BY <2>1, <2>2 DEF FolderTyped, Placed, At, Does
<1> QED
  BY <1>2, <1>3, <1>4, <1>5, Typed DEF FolderTyped, Arrive

\* What both kinds of removal do on the server.
LEMMA RemoveTyped ==
  ASSUME FolderOK, FolderTyped, NEW u \in UidRange,
         hi' = hi + 1, box' = [box EXCEPT ![u] = 0], gone' = [gone EXCEPT ![u] = hi'],
         row' \in [UidRange -> 0..MaxMail], rec' \in State,
         UNCHANGED <<uidnext, validity, run, overlooked, mail>>
  PROVE  FolderTyped'
<1>1. box' \in [UidRange -> 0..MaxMail] /\ gone' \in [UidRange -> Nat] /\ hi' \in Nat /\ hi' >= 1
  BY Typed DEF FolderOK
<1>2. TypeOK'
  BY <1>1, Typed DEF TypeOK
<1>3. \A v \in UidRange : box'[v] # 0 => v < uidnext'
  BY Typed DEF FolderTyped
<1>4. \A r \in Runs : Placed(r)'
  BY DEF FolderTyped, Placed, At, Does
<1> QED
  BY <1>1, <1>2, <1>3, <1>4, Typed DEF FolderTyped

LEMMA RemoveOwnTyped ==
  ASSUME FolderOK, FolderTyped, NEW u \in UidRange, RemoveOwn(u)
  PROVE  FolderTyped'
<1>1. note_removed_on_server \in State
  BY Typed DEF note_removed_on_server, State
<1>2. row' \in [UidRange -> 0..MaxMail]
  BY Typed DEF RemoveOwn, FolderOK
<1> QED
  BY <1>1, <1>2, RemoveTyped DEF RemoveOwn

\* The mails of a rebuilt folder have the UIDs from 1 to their number.
LEMMA RebuildTyped ==
  ASSUME FolderOK, FolderTyped, Rebuild
  PROVE  FolderTyped'
<1> DEFINE rank(u) == Cardinality({v \in On(box) : v <= u})
<1>1. On(box) \in SUBSET UidRange
  BY DEF On
<1>2. /\ Cardinality(On(box)) \in Nat /\ Cardinality(On(box)) <= MaxUid
      /\ \A u \in UidRange : rank(u) <= Cardinality(On(box))
  <2>1. \A u \in UidRange : {v \in On(box) : v <= u} \in SUBSET On(box)
    OBVIOUS
  <2> QED
    BY <1>1, <2>1, UidSets
<1>3. box' = [k \in UidRange |-> IF \E u \in On(box) : rank(u) = k
                                   THEN box[CHOOSE u \in On(box) : rank(u) = k] ELSE 0]
  BY DEF Rebuild
<1>4. \A k \in UidRange : box'[k] \in 0..MaxMail /\ (box'[k] # 0 => \E u \in On(box) : rank(u) = k)
  <2> SUFFICES ASSUME NEW k \in UidRange
               PROVE  box'[k] \in 0..MaxMail /\ (box'[k] # 0 => \E u \in On(box) : rank(u) = k)
    OBVIOUS
  <2> HIDE DEF rank
  <2>1. CASE \E u \in On(box) : rank(u) = k
    <3>1. (CHOOSE u \in On(box) : rank(u) = k) \in On(box)
      BY <2>1
    <3> QED
      BY <2>1, <3>1, <1>1, <1>3, Typed
  <2>2. CASE ~\E u \in On(box) : rank(u) = k
    BY <2>2, <1>3 DEF FolderOK
  <2> QED
    BY <2>1, <2>2
<1>5. box' \in [UidRange -> 0..MaxMail]
  BY <1>3, <1>4
<1>6. uidnext' = Cardinality(On(box)) + 1
  BY DEF Rebuild
<1>7. \A k \in UidRange : box'[k] # 0 => k < uidnext'
  <2> HIDE DEF rank
  <2> QED
    BY <1>1, <1>2, <1>4, <1>6 DEF UidRange
<1>8. run' \in [Runs -> Run] /\ \A r \in Runs : run'[r].pc = "idle" /\ run'[r].kind = "none"
  BY NoRunTyped DEF Rebuild, NoRun
<1>9. validity' \in Nat /\ validity' >= 1 /\ hi' \in Nat /\ hi' >= 1
  BY Typed DEF Rebuild
<1>10. TypeOK'
  <2>1. uidnext' \in 1..(MaxUid + 1)
    BY <1>2, <1>6 DEF FolderOK
  <2>2. gone' \in [UidRange -> Nat]
    BY DEF Rebuild, Nothing
  <2> QED
    BY <1>5, <1>8, <1>9, <2>1, <2>2, Typed DEF TypeOK, Rebuild
<1>11. \A r \in Runs : Placed(r)'
  BY <1>8 DEF Placed, At, Does
<1> QED
  BY <1>7, <1>9, <1>10, <1>11 DEF FolderTyped

\* Every step keeps the types.
LEMMA TypedNext ==
  ASSUME FolderOK, FolderTyped, [Next]_vars
  PROVE  FolderTyped'
<1>1. CASE UNCHANGED vars
  BY <1>1 DEF vars, server, FolderTyped, TypeOK, Placed, At, Does
<1>2. CASE Arrive
  BY <1>2, ArriveTyped
<1>3. CASE Rebuild
  BY <1>3, RebuildTyped
<1>4. ASSUME NEW u \in UidRange, Remove(u) PROVE FolderTyped'
  BY <1>4, RemoveTyped, Typed DEF Remove
<1>5. ASSUME NEW u \in UidRange, RemoveOwn(u) PROVE FolderTyped'
  BY <1>5, RemoveOwnTyped
<1>6. ASSUME NEW r \in Runs, Work(r) PROVE FolderTyped'
  BY <1>6, SelectTyped, VanishSets, ListTyped, SearchTyped, SearchOlderSets, SearchHitsSets,
     FetchSets, FetchedSets, DropSets, RecordTyped DEF Work
<1>7. ASSUME NEW r \in Runs, Abort(r) PROVE FolderTyped'
  BY <1>7, AbortTyped
<1>8. ASSUME NEW r \in Runs, NEW kind \in Kinds, NEW win \in Windows, Start(r, kind, win)
      PROVE  FolderTyped'
  BY <1>8, StartSets
<1> QED
  BY <1>1, <1>2, <1>3, <1>4, <1>5, <1>6, <1>7, <1>8 DEF Next

-----------------------------------------------------------------------------
(* A rebuilt folder: RebuildInv is inductive.                              *)

\* A run's step changes rows in these ways: it drops them, or a row becomes the
\* mail that has its UID.
RowsMove ==
  \A u \in UidRange : row'[u] = row[u] \/ row'[u] = 0 \/ (box[u] # 0 /\ row'[u] = box[u])

\* Right rows stay right.
LEMMA RightStays ==
  ASSUME FolderTyped, UNCHANGED server, RowsMove, NEW others, RowsRight(others)
  PROVE  RowsRight(others)'
BY DEF RowsRight, RowsMove, FolderTyped, server

\* What another run knows of the old rows stays true.
LEMMA OtherRenewed ==
  ASSUME FolderTyped, UNCHANGED server, RowsMove, rec.val <= rec'.val, rec.val \in Nat, rec'.val \in Nat,
         RowsRight(overlooked) => RowsRight(overlooked)',
         NEW s \in Runs, run'[s] = run[s], RunRenewed(s)
  PROVE  RunRenewed(s)'
<1>1. run'[s].folder.val \in 1..rec'.val
  BY DEF RunRenewed
<1>2. Renewing(s)' = Renewing(s)
  BY DEF Renewing, Does, server
<1>3. Renewed(s) => Renewed(s)'
  <2> SUFFICES ASSUME Renewed(s) PROVE Renewed(s)'
    OBVIOUS
  <2>1. PICK o : o = run[s].old
    OBVIOUS
  <2>2. RowsRight(o)'
    BY <2>1, RightStays DEF Renewed
  <2>3. RowsRight(run[s].old)'
    BY <2>1, <2>2 DEF RowsRight
  <2>4. \A u \in run[s].old \cap Newest(run[s].found, run[s].win) :
          box[u] = 0 \/ row[u] \in {0, box[u]} => box'[u] = 0 \/ row'[u] \in {0, box'[u]}
    <3>1. run[s].old \subseteq UidRange
      BY Fields
    <3> QED
      BY <3>1 DEF RowsMove, server
  <2> QED
    BY <2>3, <2>4 DEF Renewed, At
<1> QED
  BY <1>1, <1>2, <1>3 DEF RunRenewed, At, Does, server

\* What a run's step leaves to prove of RebuildInv.
LEMMA StepRenewed ==
  ASSUME FolderTyped, RebuildInv, UNCHANGED server, RowsMove,
         NEW r \in Runs, NEW x \in Run, run' = [run EXCEPT ![r] = x],
         rec'.val \in rec.val..validity,
         rec'.val = validity => RowsRight(overlooked)',
         RowsRight(overlooked) => RowsRight(overlooked)',
         x.pc # "idle" => RunRenewed(r)'
  PROVE  RebuildInv'
<1>1. run'[r] = x /\ \A s \in Runs : s # r => run'[s] = run[s]
  BY RunSet
<1>2. rec'.val \in 1..validity' /\ rec.val <= rec'.val /\ rec.val \in Nat /\ rec'.val \in Nat
  BY Typed DEF RebuildInv, server
<1>3. ASSUME NEW s \in Runs, s # r, ~At(s, "idle")' PROVE RunRenewed(s)'
  <2>1. run'[s] = run[s] /\ ~At(s, "idle")
    BY <1>1, <1>3 DEF At
  <2>2. RunRenewed(s)
    BY <2>1 DEF RebuildInv
  <2> QED
    BY <1>2, <2>1, <2>2, OtherRenewed
<1>4. At(r, "idle")' \/ RunRenewed(r)'
  BY <1>1 DEF At
<1>5. \A s \in Runs : ~At(s, "idle")' => RunRenewed(s)'
  BY <1>3, <1>4
<1>6. rec'.val = validity' => RowsRight(overlooked)'
  BY DEF server
<1> QED
  BY <1>2, <1>5, <1>6 DEF RebuildInv

\* Nor does a step that only sets the run's record need more.
LEMMA QuietRenewed ==
  ASSUME FolderTyped, RebuildInv, UNCHANGED <<server, row, rec, overlooked>>,
         NEW r \in Runs, NEW x \in Run, run' = [run EXCEPT ![r] = x],
         x.pc # "idle" => RunRenewed(r)'
  PROVE  RebuildInv'
<1>1. RowsMove
  BY DEF RowsMove
<1>2. RowsRight(overlooked) => RowsRight(overlooked)'
  BY DEF RowsRight, server
<1>3. rec'.val \in rec.val..validity /\ (rec'.val = validity => RowsRight(overlooked)')
  BY <1>2, Typed DEF RebuildInv
<1> QED
  BY <1>1, <1>2, <1>3, StepRenewed

LEMMA NoRunIdle == NoRun.pc = "idle"
BY DEF NoRun

LEMMA SelectRenewed ==
  ASSUME FolderOK, FolderTyped, RebuildInv, NEW r \in Runs, Select(r)
  PROVE  RebuildInv'
<1>1. PICK x \in Run :
           /\ run' = [run EXCEPT ![r] = x]
           /\ x.folder = run[r].folder /\ x.sel = ServerState
           /\ \/ x.kind = "window" /\ x.pc = "select"
              \/ /\ x.kind = run[r].kind
                 /\ x.old = IF /\ run[r].kind = "window"
                               /\ run[r].folder.val \notin {0, validity} THEN On(row) ELSE {}
                 /\ IF run[r].kind = "window"
                      THEN \/ x.pc = "list"
                           \/ x.pc = "vanish" /\ run[r].folder.val = validity
                      ELSE x.pc = "search"
                 /\ run[r].kind = "older" => run[r].folder.val \in {0, validity}
  BY SelectSets
<1>2. RunRenewed(r) /\ UNCHANGED <<server, row, rec, overlooked>>
  BY DEF RebuildInv, Select, At
<1>3. run'[r] = x
  BY <1>1, RunSet
<1>4. x.sel.val = validity'
  BY <1>1, <1>2 DEF ServerState, server
<1>5. x.folder.val \in 1..rec'.val
  BY <1>1, <1>2 DEF RunRenewed
<1>6. Renewing(r)' => Renewed(r)' /\ x.pc # "record"
  <2> SUFFICES ASSUME Renewing(r)' PROVE Renewed(r)' /\ x.pc # "record"
    OBVIOUS
  <2>1. x.pc \in Selected /\ x.kind = "window" /\ x.folder.val # validity
    BY <1>2, <1>3 DEF Renewing, Does, server
  <2>2. x.pc = "list" /\ x.old = On(row)
    BY <1>1, <1>5, <2>1, Typed DEF Selected
  <2> QED
    BY <1>2, <1>3, <2>2 DEF Renewed, At, RowsRight, On
<1>7. x.pc \in Selected /\ x.kind = "older" => x.folder.val = validity'
  BY <1>1, <1>2, <1>5 DEF server, Selected
<1>8. RunRenewed(r)'
  BY <1>3, <1>4, <1>5, <1>6, <1>7 DEF RunRenewed, At, Does
<1> QED
  BY <1>1, <1>2, <1>8, QuietRenewed

LEMMA VanishRenewed ==
  ASSUME FolderOK, FolderTyped, RebuildInv, NEW r \in Runs, Vanish(r)
  PROVE  RebuildInv'
<1>1. PICK x \in Run :
           /\ run' = [run EXCEPT ![r] = x]
           /\ x.pc = "list" /\ x.kind = "window"
           /\ x.folder = run[r].folder /\ x.sel = run[r].sel
  BY VanishSets
<1>2. RowsMove
  BY VanishSets DEF RowsMove
<1>3. UNCHANGED <<server, rec, overlooked>> /\ RunRenewed(r) /\ At(r, "vanish") /\ Does(r, "window")
  BY DEF Vanish, RebuildInv, At, FolderTyped, Placed
<1>4. run'[r] = x
  BY <1>1, RunSet
<1>5. ~Renewing(r) /\ run[r].sel.val = validity
  BY <1>3 DEF RunRenewed, Renewed, At, Selected
<1>6. run[r].folder.val = validity
  BY <1>3, <1>5 DEF Renewing, At, Selected
<1>7. RunRenewed(r)'
  BY <1>1, <1>3, <1>4, <1>5, <1>6 DEF RunRenewed, Renewing, Does, server
<1>8. RowsRight(overlooked) => RowsRight(overlooked)'
  <2>1. PICK o : o = overlooked
    OBVIOUS
  <2>2. RowsRight(o) => RowsRight(o)'
    BY <1>2, <1>3, RightStays
  <2> QED
    BY <2>1, <2>2, <1>3 DEF RowsRight
<1>9. rec'.val \in rec.val..validity /\ (rec'.val = validity => RowsRight(overlooked)')
  BY <1>3, <1>8, Typed DEF RebuildInv
<1> QED
  BY <1>1, <1>2, <1>3, <1>7, <1>8, <1>9, StepRenewed

LEMMA ListRenewed ==
  ASSUME FolderOK, FolderTyped, RebuildInv, NEW r \in Runs, List(r)
  PROVE  RebuildInv'
<1>1. PICK x \in Run :
           /\ run' = [run EXCEPT ![r] = x]
           /\ x.kind = "window"
           /\ x.folder = run[r].folder /\ x.sel = run[r].sel /\ x.old = run[r].old
           /\ x.local = IF validity_changed(r) THEN On(row) \ run[r].old ELSE On(row)
           /\ \/ x.pc = "search"
              \/ x.pc = "record" /\ ~validity_changed(r)
  BY ListSets
<1>2. UNCHANGED <<server, row, rec, overlooked>> /\ RunRenewed(r) /\ At(r, "list") /\ Does(r, "window")
  BY DEF List, RebuildInv, At, FolderTyped, Placed
<1>3. run'[r] = x
  BY <1>1, RunSet
<1>4. run[r].sel.val = validity /\ run[r].folder.val >= 1
  BY <1>2, Typed DEF RunRenewed, At, Selected, RebuildInv
<1>5. Renewing(r)' => Renewing(r) /\ validity_changed(r)
  BY <1>1, <1>2, <1>3, <1>4 DEF Renewing, validity_changed, At, Does, Selected, server
<1>6. Renewing(r)' => Renewed(r)' /\ x.pc = "search"
  BY <1>1, <1>2, <1>3, <1>5 DEF RunRenewed, Renewed, RowsRight, At, server
<1>7. RunRenewed(r)'
  BY <1>1, <1>2, <1>3, <1>6 DEF RunRenewed, At, Does, Selected, server
<1> QED
  BY <1>1, <1>2, <1>7, QuietRenewed

LEMMA SearchRenewed ==
  ASSUME FolderOK, FolderTyped, RebuildInv, NEW r \in Runs, Search(r)
  PROVE  RebuildInv'
<1>1. PICK x \in Run :
           /\ run' = [run EXCEPT ![r] = x]
           /\ x.pc = "fetch" /\ x.kind = "window"
           /\ x.folder = run[r].folder /\ x.sel = run[r].sel /\ x.old = run[r].old
           /\ x.local = run[r].local
           /\ x.found \subseteq On(box) /\ x.todo = Newest(x.found, x.win) \ x.local
  BY SearchSets
<1>2. UNCHANGED <<server, row, rec, overlooked>> /\ RunRenewed(r) /\ At(r, "search") /\ Does(r, "window")
  BY DEF Search, RebuildInv, At
<1>3. run'[r] = x
  BY <1>1, RunSet
<1>4. Renewing(r)' => Renewing(r)
  BY <1>1, <1>2, <1>3 DEF Renewing, At, Does, Selected, server
<1>5. Renewing(r)' => Renewed(r)'
  BY <1>1, <1>2, <1>3, <1>4 DEF RunRenewed, Renewed, RowsRight, At, server
<1>6. RunRenewed(r)'
  BY <1>1, <1>2, <1>3, <1>5 DEF RunRenewed, At, Does, Selected, server
<1> QED
  BY <1>1, <1>2, <1>6, QuietRenewed

LEMMA FetchRenewed ==
  ASSUME FolderOK, FolderTyped, RebuildInv, NEW r \in Runs, Fetch(r)
  PROVE  RebuildInv'
<1>1. PICK x \in Run, u \in run[r].todo :
           /\ run' = [run EXCEPT ![r] = x]
           /\ x.pc = "fetch" /\ x.kind = run[r].kind /\ x.win = run[r].win
           /\ x.folder = run[r].folder /\ x.sel = run[r].sel /\ x.old = run[r].old
           /\ x.local = run[r].local /\ x.found = run[r].found
           /\ x.todo = run[r].todo \ {u}
           /\ row' = IF box[u] # 0 THEN [row EXCEPT ![u] = box[u]] ELSE row
           /\ overlooked' = IF box[u] # 0 THEN overlooked \ {u} ELSE overlooked
  BY FetchSets
<1>2. UNCHANGED <<server, rec>> /\ RunRenewed(r) /\ At(r, "fetch")
  BY DEF Fetch, RebuildInv, At
<1>3. run'[r] = x /\ u \in UidRange
  BY <1>1, RunSet, Fields
<1>4. \A v \in UidRange : row'[v] = IF v = u /\ box[u] # 0 THEN box[u] ELSE row[v]
  BY <1>1, <1>3, Typed
<1>5. RowsMove
  BY <1>4 DEF RowsMove
<1>6. RowsRight(overlooked) => RowsRight(overlooked)'
  <2>1. box[u] # 0 => u < uidnext
    BY <1>3 DEF FolderTyped
  <2> QED
    BY <1>1, <1>2, <1>4, <2>1 DEF RowsRight, server
<1>7. Renewing(r)' => Renewing(r)
  BY <1>1, <1>2, <1>3 DEF Renewing, At, Does, Selected, server
<1>8. ASSUME Renewing(r)' PROVE Renewed(r)'
  <2>1. Renewed(r)
    BY <1>2, <1>7, <1>8 DEF RunRenewed, At
  <2>2. PICK o : o = run[r].old
    OBVIOUS
  <2>3. RowsRight(o)'
    BY <1>2, <1>5, <2>1, <2>2, RightStays DEF Renewed
  <2>4. RowsRight(run[r].old)'
    BY <1>1, <1>3, <2>2, <2>3 DEF RowsRight
  <2>5. \A v \in x.old \cap Newest(x.found, x.win) :
          v \in x.todo \/ box[v] = 0 \/ row'[v] \in {0, box[v]}
    BY <1>1, <1>2, <1>4, <2>1, Fields DEF Renewed, At
  <2> QED
    BY <1>1, <1>2, <1>3, <2>4, <2>5 DEF Renewed, At, server
<1>9. RunRenewed(r)'
  BY <1>1, <1>2, <1>3, <1>8 DEF RunRenewed, At, Does, Selected, server
<1>10. rec'.val \in rec.val..validity /\ (rec'.val = validity => RowsRight(overlooked)')
  BY <1>2, <1>6, Typed DEF RebuildInv
<1> QED
  BY <1>1, <1>2, <1>5, <1>6, <1>9, <1>10, StepRenewed

LEMMA FetchedRenewed ==
  ASSUME FolderOK, FolderTyped, RebuildInv, NEW r \in Runs, Fetched(r)
  PROVE  RebuildInv'
<1>1. PICK x \in Run :
              /\ run' = [run EXCEPT ![r] = x]
              /\ \/ x = NoRun
                 \/ /\ x.pc = IF run[r].kind = "window" THEN "drop" ELSE "record"
                    /\ x.kind = run[r].kind /\ x.kind \in {"window", "older"}
                    /\ x.win = run[r].win /\ x.folder = run[r].folder /\ x.sel = run[r].sel
                    /\ x.old = run[r].old /\ x.found = run[r].found
                    /\ x.todo = {}
  BY FetchedSets
<1>2. /\ UNCHANGED <<server, row, rec, overlooked>> /\ RunRenewed(r) /\ At(r, "fetch")
      /\ run[r].todo = {}
  BY FetchedSets DEF Fetched, RebuildInv, At
<1>3. run'[r] = x
  BY <1>1, RunSet
<1>4. CASE x = NoRun
  BY <1>1, <1>2, <1>4, QuietRenewed, NoRunIdle
<1>5. CASE x # NoRun
  <2>1. Renewing(r)' => Renewing(r) /\ x.pc = "drop"
    BY <1>1, <1>2, <1>3, <1>5 DEF Renewing, At, Does, Selected, server
  <2>2. Renewing(r)' => Renewed(r)'
    BY <1>1, <1>2, <1>3, <1>5, <2>1 DEF RunRenewed, Renewed, RowsRight, At, server
  <2>3. RunRenewed(r)'
    BY <1>1, <1>2, <1>3, <1>5, <2>1, <2>2 DEF RunRenewed, At, Does, Selected, server
  <2> QED
    BY <1>1, <1>2, <2>3, QuietRenewed
<1> QED
  BY <1>4, <1>5

LEMMA DropRenewed ==
  ASSUME FolderOK, FolderTyped, RebuildInv, NEW r \in Runs, Drop(r)
  PROVE  RebuildInv'
<1>1. PICK x \in Run :
              /\ run' = [run EXCEPT ![r] = x]
              /\ x.pc = "record" /\ x.kind = "window"
              /\ x.folder = run[r].folder /\ x.sel = run[r].sel /\ x.old = run[r].old
  BY DropSets
<1>2. /\ UNCHANGED <<server, rec>> /\ RunRenewed(r) /\ At(r, "drop") /\ Does(r, "window")
      /\ run[r].todo = {} /\ \A u \in run[r].found : u < uidnext
      /\ \A u \in UidRange : row'[u] = IF u \in Stale(r) THEN 0 ELSE row[u]
  BY DropSets DEF Drop, RebuildInv, At, Does, FolderTyped, Placed
<1>3. run'[r] = x
  BY <1>1, RunSet
<1>4. RowsMove
  BY <1>2 DEF RowsMove
<1>5. run[r].sel.val = validity /\ run[r].folder.val >= 1 /\ run[r].folder.val <= validity
  BY <1>2, Typed, Fields DEF RunRenewed, At, Selected, RebuildInv, State
<1>6. Renewing(r) <=> validity_changed(r)
  BY <1>2, <1>5 DEF Renewing, validity_changed, At, Selected
<1>7. ASSUME Renewing(r) PROVE RowsRight(overlooked)'
  <2>1. Renewed(r) /\ overlooked' = Overlooked(r)
    BY <1>2, <1>6, <1>7 DEF RunRenewed, At, Drop
  <2> SUFFICES ASSUME NEW u \in UidRange, u \notin Overlooked(r), row'[u] # 0
               PROVE  u < uidnext /\ (box[u] = 0 \/ row'[u] = box[u])
    BY <1>2, <2>1 DEF RowsRight, server
  <2>2. u \notin Stale(r) /\ row'[u] = row[u]
    BY <1>2
  <2>3. CASE u \notin run[r].old
    BY <2>1, <2>2, <2>3 DEF Renewed, RowsRight
  <2>4. CASE u \in run[r].old
    <3>1. u \in run[r].found /\ u \in Newest(run[r].found, run[r].win)
      BY <2>2, <2>4 DEF Stale, Overlooked
    <3> QED
      BY <1>2, <2>1, <2>2, <2>4, <3>1 DEF Renewed
  <2> QED
    BY <2>3, <2>4
<1>8. RowsRight(overlooked) => RowsRight(overlooked)'
  <2>1. CASE Renewing(r)
    BY <2>1, <1>7
  <2>2. CASE ~Renewing(r)
    <3>1. overlooked' = overlooked
      BY <2>2, <1>6 DEF Drop
    <3>2. PICK o : o = overlooked
      OBVIOUS
    <3>3. RowsRight(o) => RowsRight(o)'
      BY <1>2, <1>4, RightStays
    <3> QED
      BY <3>1, <3>2, <3>3 DEF RowsRight
  <2> QED
    BY <2>1, <2>2
<1>9. Renewing(r)' => Renewing(r)
  BY <1>1, <1>2, <1>3 DEF Renewing, At, Does, Selected, server
<1>10. RunRenewed(r)'
  BY <1>1, <1>2, <1>3, <1>7, <1>9 DEF RunRenewed, At, Does, Selected, server
<1>11. rec'.val \in rec.val..validity /\ (rec'.val = validity => RowsRight(overlooked)')
  BY <1>2, <1>8, Typed DEF RebuildInv
<1> QED
  BY <1>1, <1>2, <1>4, <1>8, <1>10, <1>11, StepRenewed

LEMMA RecordRenewed ==
  ASSUME FolderOK, FolderTyped, RebuildInv, NEW r \in Runs, Record(r)
  PROVE  RebuildInv'
<1>1. /\ UNCHANGED <<server, row, overlooked>> /\ RunRenewed(r) /\ At(r, "record")
      /\ run[r].kind \in {"window", "older"} /\ rec' = Recorded(r) /\ run' = [run EXCEPT ![r] = NoRun]
  BY RecordTyped DEF Record, RebuildInv, At, FolderTyped, Placed
<1>2. run[r].sel.val = validity /\ run[r].folder.val \in 1..rec.val
  BY <1>1 DEF RunRenewed, At, Selected
<1>3. rec'.val = validity
  BY <1>1, <1>2, Fields DEF Recorded, State
<1>4. RowsRight(overlooked)
  <2>1. CASE Renewing(r)
    BY <1>1, <2>1 DEF RunRenewed
  <2>2. CASE ~Renewing(r)
    <3>1. run[r].folder.val = validity
      BY <1>1, <2>2 DEF RunRenewed, Renewing, At, Does, Selected
    <3> QED
      BY <1>2, <3>1, Typed DEF RebuildInv, State
  <2> QED
    BY <2>1, <2>2
<1>5. RowsMove
  BY <1>1 DEF RowsMove
<1>6. RowsRight(overlooked)'
  BY <1>1, <1>4 DEF RowsRight, server
<1>7. rec'.val \in rec.val..validity
  BY <1>3, Typed DEF RebuildInv
<1> QED
  BY <1>1, <1>5, <1>6, <1>7, StepRenewed, NoRunTyped, NoRunIdle

LEMMA OlderRenewed ==
  ASSUME FolderOK, FolderTyped, RebuildInv, NEW r \in Runs, SearchOlder(r)
  PROVE  RebuildInv'
<1>1. PICK x \in Run :
              /\ run' = [run EXCEPT ![r] = x]
              /\ x.folder = run[r].folder /\ x.sel = run[r].sel
              /\ \/ x.kind = "window" /\ x.pc = "select"
                 \/ x.kind = "older" /\ x.pc = "fetch"
  BY SearchOlderSets
<1>2. /\ UNCHANGED <<server, row, rec, overlooked>> /\ RunRenewed(r) /\ At(r, "search")
      /\ Does(r, "older")
  BY DEF SearchOlder, RebuildInv, At
<1>3. run'[r] = x
  BY <1>1, RunSet
<1>4. RunRenewed(r)'
  BY <1>1, <1>2, <1>3 DEF RunRenewed, Renewing, At, Does, Selected, server
<1> QED
  BY <1>1, <1>2, <1>4, QuietRenewed

LEMMA HitsRenewed ==
  ASSUME FolderOK, FolderTyped, RebuildInv, NEW r \in Runs, SearchHits(r)
  PROVE  RebuildInv'
<1>1. PICK x \in Run :
              /\ run' = [run EXCEPT ![r] = x]
              /\ x.folder = run[r].folder /\ x.sel = run[r].sel
              /\ x.kind = "search" /\ x.pc = "fetch"
  BY SearchHitsSets
<1>2. UNCHANGED <<server, row, rec, overlooked>> /\ RunRenewed(r) /\ At(r, "search")
  BY DEF SearchHits, RebuildInv, At
<1>3. run'[r] = x
  BY <1>1, RunSet
<1>4. RunRenewed(r)'
  BY <1>1, <1>2, <1>3 DEF RunRenewed, Renewing, At, Does, Selected, server
<1> QED
  BY <1>1, <1>2, <1>4, QuietRenewed

LEMMA StartRenewed ==
  ASSUME FolderOK, FolderTyped, RebuildInv, NEW r \in Runs, NEW kind \in Kinds,
         NEW win \in Windows, Start(r, kind, win)
  PROVE  RebuildInv'
<1>1. PICK x \in Run :
              /\ run' = [run EXCEPT ![r] = x]
              /\ x.pc = "select" /\ x.folder = rec
  BY StartSets
<1>2. UNCHANGED <<server, row, rec, overlooked>>
  BY DEF Start
<1>3. run'[r] = x
  BY <1>1, RunSet
<1>4. x.folder.val \in 1..rec'.val
  BY <1>1, <1>2, Typed DEF RebuildInv
<1>5. RunRenewed(r)'
  BY <1>1, <1>3, <1>4 DEF RunRenewed, Renewing, Selected
<1> QED
  BY <1>1, <1>2, <1>5, QuietRenewed

LEMMA AbortRenewed ==
  ASSUME FolderOK, FolderTyped, RebuildInv, NEW r \in Runs, Abort(r)
  PROVE  RebuildInv'
<1>1. run' = [run EXCEPT ![r] = NoRun] /\ UNCHANGED <<server, row, rec, overlooked>>
  BY DEF Abort
<1> QED
  BY <1>1, QuietRenewed, NoRunTyped, NoRunIdle

\* The server's own steps: mails come under new UIDs, or go.
LEMMA ServerRenewed ==
  ASSUME FolderOK, FolderTyped, RebuildInv, UNCHANGED <<validity, run, overlooked>>,
         rec'.val = rec.val, uidnext' \in Nat, uidnext <= uidnext',
         \A u \in UidRange : row'[u] \in {row[u], 0},
         \A u \in UidRange : u < uidnext => box'[u] \in {box[u], 0}
  PROVE  RebuildInv'
<1>1. \A u \in UidRange : u \in Nat
  BY DEF UidRange
<1>2. ASSUME NEW others, RowsRight(others) PROVE RowsRight(others)'
  BY <1>1, <1>2, Typed DEF RowsRight
<1>3. RowsRight(overlooked) => RowsRight(overlooked)'
  <2>1. PICK o : o = overlooked
    OBVIOUS
  <2> QED
    BY <2>1, <1>2 DEF RowsRight
<1>4. ASSUME NEW r \in Runs, ~At(r, "idle")' PROVE RunRenewed(r)'
  <2>1. RunRenewed(r)
    BY <1>4 DEF RebuildInv, At
  <2>2. Renewing(r)' <=> Renewing(r)
    BY DEF Renewing, Does
  <2>3. Renewing(r) /\ Renewed(r) => Renewed(r)'
    <3> SUFFICES ASSUME Renewing(r), Renewed(r) PROVE Renewed(r)'
      OBVIOUS
    <3>1. PICK o : o = run[r].old
      OBVIOUS
    <3>2. RowsRight(o)'
      BY <1>2, <3>1 DEF Renewed
    <3>3. RowsRight(run[r].old)'
      BY <3>1, <3>2 DEF RowsRight
    <3>4. At(r, "fetch") \/ At(r, "drop") =>
            \A u \in run[r].old \cap Newest(run[r].found, run[r].win) :
              u \in run[r].todo \/ box'[u] = 0 \/ row'[u] \in {0, box'[u]}
      <4> SUFFICES ASSUME At(r, "fetch") \/ At(r, "drop"),
                          NEW u \in run[r].old \cap Newest(run[r].found, run[r].win),
                          u \notin run[r].todo
                   PROVE  box'[u] = 0 \/ row'[u] \in {0, box'[u]}
        OBVIOUS
      <4>1. u \in UidRange /\ u \in run[r].found
        BY Fields DEF Newest
      <4>2. u < uidnext
        BY <4>1 DEF FolderTyped, Placed, At, Renewing
      <4>3. box[u] = 0 \/ row[u] \in {0, box[u]}
        BY DEF Renewed
      <4> QED
        BY <4>1, <4>2, <4>3
    <3> QED
      BY <3>3, <3>4 DEF Renewed, At
  <2> QED
    BY <1>3, <2>1, <2>2, <2>3 DEF RunRenewed, At, Does
<1> QED
  BY <1>3, <1>4 DEF RebuildInv

LEMMA RebuildRenewed ==
  ASSUME FolderOK, FolderTyped, RebuildInv, Rebuild
  PROVE  RebuildInv'
<1>1. rec'.val \in 1..validity' /\ rec'.val # validity'
  BY Typed DEF Rebuild, RebuildInv
<1>2. \A r \in Runs : At(r, "idle")'
  BY NoRunIdle DEF Rebuild, At
<1> QED
  BY <1>1, <1>2 DEF RebuildInv

LEMMA ArriveRenewed ==
  ASSUME FolderOK, FolderTyped, RebuildInv, Arrive
  PROVE  RebuildInv'
<1>1. uidnext' \in Nat /\ uidnext <= uidnext'
  BY Typed DEF Arrive
<1>2. \A u \in UidRange : u < uidnext => box'[u] = box[u]
  BY Typed DEF Arrive, UidRange
<1> QED
  BY <1>1, <1>2, ServerRenewed DEF Arrive

LEMMA RemoveRenewed ==
  ASSUME FolderOK, FolderTyped, RebuildInv, NEW u \in UidRange, Remove(u) \/ RemoveOwn(u)
  PROVE  RebuildInv'
<1>1. /\ uidnext' = uidnext /\ UNCHANGED <<validity, run, overlooked>>
      /\ box' = [box EXCEPT ![u] = 0] /\ (row' = row \/ row' = [row EXCEPT ![u] = 0])
      /\ rec' = rec \/ rec' = note_removed_on_server
  BY DEF Remove, RemoveOwn
<1>2. rec'.val = rec.val
  BY <1>1, Typed DEF note_removed_on_server, State
<1>3. \A v \in UidRange : box'[v] \in {box[v], 0} /\ row'[v] \in {row[v], 0}
  BY <1>1, Typed
<1>4. uidnext' \in Nat /\ uidnext <= uidnext'
  BY <1>1, Typed
<1> QED
  BY <1>1, <1>2, <1>3, <1>4, ServerRenewed

LEMMA RebuildNext ==
  ASSUME FolderOK, FolderTyped, RebuildInv, [Next]_vars
  PROVE  RebuildInv'
<1>1. CASE UNCHANGED vars
  BY <1>1 DEF vars, server, RebuildInv, RunRenewed, Renewing, Renewed, RowsRight, At, Does
<1>2. CASE Arrive
  BY <1>2, ArriveRenewed
<1>3. CASE Rebuild
  BY <1>3, RebuildRenewed
<1>4. ASSUME NEW u \in UidRange, Remove(u) \/ RemoveOwn(u) PROVE RebuildInv'
  BY <1>4, RemoveRenewed
<1>5. ASSUME NEW r \in Runs, Work(r) PROVE RebuildInv'
  BY <1>5, SelectRenewed, VanishRenewed, ListRenewed, SearchRenewed, OlderRenewed, HitsRenewed,
     FetchRenewed, FetchedRenewed, DropRenewed, RecordRenewed DEF Work
<1>6. ASSUME NEW r \in Runs, Abort(r) PROVE RebuildInv'
  BY <1>6, AbortRenewed
<1>7. ASSUME NEW r \in Runs, NEW kind \in Kinds, NEW win \in Windows, Start(r, kind, win)
      PROVE  RebuildInv'
  BY <1>7, StartRenewed
<1> QED
  BY <1>1, <1>2, <1>3, <1>4, <1>5, <1>6, <1>7 DEF Next

LEMMA RebuildInit ==
  ASSUME FolderOK, FirstSynced, Init
  PROVE  RebuildInv
<1>1. rec.val = 1 /\ validity = 1
  BY DEF Init, ServerState
<1>2. \A u \in UidRange : row[u] = box[u] /\ (box[u] # 0 => u < uidnext)
  BY TypedInit DEF Init, FolderTyped
<1>3. \A r \in Runs : At(r, "idle")
  BY DEF Init, At, NoRun
<1> QED
  BY <1>1, <1>2, <1>3 DEF RebuildInv, RowsRight

-----------------------------------------------------------------------------
\* The variables have their types, and every run's record is what its step left.
THEOREM FolderTypes ==
  ASSUME FolderOK PROVE Spec => []TypeOK
<1>1. Init => FolderTyped
  BY TypedInit
<1>2. FolderTyped /\ [Next]_vars => FolderTyped'
  BY TypedNext
<1>3. FolderTyped => TypeOK
  BY DEF FolderTyped
<1> QED
  BY <1>1, <1>2, <1>3, PTL DEF Spec

\* Once the new UIDVALIDITY of a rebuilt folder is recorded, a row shows the mail
\* that has its UID, unless a sync left it out (see NoStaleUid); with any number
\* of runs at once (engine/sync.rs, steps 4 and 4b of sync_folder_window).
THEOREM RebuildIsHonest ==
  ASSUME FolderOK, FirstSynced PROVE Spec => []NoOtherStaleUid
<1>1. Init => FolderTyped /\ RebuildInv
  BY TypedInit, RebuildInit
<1>2. FolderTyped /\ RebuildInv /\ [Next]_vars => FolderTyped' /\ RebuildInv'
  BY TypedNext, RebuildNext
<1>3. RebuildInv => NoOtherStaleUid
  BY DEF RebuildInv, RowsRight, NoOtherStaleUid, Right
<1> QED
  BY <1>1, <1>2, <1>3, PTL DEF Spec

-----------------------------------------------------------------------------
(* One run at a time: WindowInv is inductive.                              *)

LEMMA AloneWindow ==
  ASSUME FolderTyped, OneRun, NEW r \in Runs, NEW x \in Run, run' = [run EXCEPT ![r] = x],
         InPlace(r)'
  PROVE  WindowInv'
<1>1. \A s \in Runs : s = r
  BY DEF OneRun
<1> QED
  BY <1>1 DEF WindowInv

LEMMA IdleWindow ==
  ASSUME FolderTyped, OneRun, NEW r \in Runs, run' = [run EXCEPT ![r] = NoRun]
  PROVE  WindowInv'
<1>1. run'[r] = NoRun
  BY NoRunTyped, RunSet
<1>2. InPlace(r)'
  BY <1>1 DEF InPlace, At, NoRun
<1> QED
  BY <1>2, NoRunTyped, AloneWindow

\* The steps before the search.
LEMMA BeforeWindow ==
  ASSUME FolderOK, FolderTyped, OneRun, WindowInv, NEW r \in Runs,
         Select(r) \/ Vanish(r) \/ List(r)
  PROVE  WindowInv'
<1>1. CASE Select(r)
  <2>1. PICK x \in Run :
           /\ run' = [run EXCEPT ![r] = x] /\ x.folder = run[r].folder
           /\ \/ x.pc = "select" /\ x.old = {}
              \/ /\ x.kind = run[r].kind
                 /\ x.old = IF /\ run[r].kind = "window"
                               /\ run[r].folder.val \notin {0, validity} THEN On(row) ELSE {}
                 /\ IF run[r].kind = "window" THEN x.pc \in {"list", "vanish"} ELSE x.pc = "search"
    BY <1>1, SelectSets
  <2>2. run'[r] = x /\ validity' = validity
    BY <1>1, <2>1, RunSet DEF Select, server
  <2>3. InPlace(r)'
    BY <2>1, <2>2 DEF InPlace, Renewing, At, Does, Selected
  <2> QED
    BY <2>1, <2>3, AloneWindow
<1>2. CASE Vanish(r)
  <2>1. PICK x \in Run :
              /\ run' = [run EXCEPT ![r] = x] /\ x.folder = run[r].folder
              /\ x.pc = "list" /\ x.kind = "window" /\ x.old = run[r].old
    BY <1>2, VanishSets
  <2>2. run'[r] = x /\ validity' = validity /\ At(r, "vanish")
    BY <1>2, <2>1, RunSet DEF Vanish, server
  <2>3. InPlace(r)'
    BY <2>1, <2>2 DEF WindowInv, InPlace, Renewing, At, Does, Selected
  <2> QED
    BY <2>1, <2>3, AloneWindow
<1>3. CASE List(r)
  <2>1. PICK x \in Run :
           /\ run' = [run EXCEPT ![r] = x] /\ x.folder = run[r].folder
           /\ x.kind = "window" /\ x.old = run[r].old /\ x.local \subseteq On(row)
           /\ x.pc \in {"search", "record"}
    BY <1>3, ListSets
  <2>2. run'[r] = x /\ validity' = validity /\ row' = row /\ At(r, "list")
    BY <1>3, <2>1, RunSet DEF List, server
  <2>3. \A u \in x.local : row'[u] # 0
    BY <2>1, <2>2 DEF On
  <2>4. x.old # {} => Renewing(r)'
    BY <2>1, <2>2 DEF WindowInv, InPlace, Renewing, At, Does, Selected
  <2>5. InPlace(r)'
    BY <2>1, <2>2, <2>3, <2>4 DEF InPlace, At
  <2> QED
    BY <2>1, <2>5, AloneWindow
<1> QED
  BY <1>1, <1>2, <1>3

\* The searches and what comes after them.
LEMMA AfterWindow ==
  ASSUME FolderOK, FolderTyped, OneRun, WindowInv, NEW r \in Runs,
         \/ Search(r) \/ SearchOlder(r) \/ SearchHits(r)
         \/ Fetch(r) \/ Fetched(r) \/ Drop(r) \/ Record(r)
  PROVE  WindowInv'
<1>1. CASE Search(r)
  <2>1. PICK x \in Run :
           /\ run' = [run EXCEPT ![r] = x] /\ x.folder = run[r].folder
           /\ x.pc = "fetch" /\ x.kind = "window" /\ x.old = run[r].old
           /\ x.local = run[r].local /\ x.todo = Newest(x.found, x.win) \ x.local
    BY <1>1, SearchSets
  <2>2. run'[r] = x /\ UNCHANGED <<server, row>> /\ At(r, "search") /\ Does(r, "window")
    BY <1>1, <2>1, RunSet DEF Search
  <2>3. \A u \in Newest(x.found, x.win) : u \in x.todo \/ row[u] # 0 \/ box[u] = 0
    BY <2>1, <2>2 DEF WindowInv, InPlace
  <2>4. x.old # {} => Renewing(r)'
    BY <2>1, <2>2 DEF WindowInv, InPlace, Renewing, At, Does, Selected, server
  <2>5. InPlace(r)'
    BY <2>1, <2>2, <2>3, <2>4 DEF InPlace, At, server
  <2> QED
    BY <2>1, <2>5, AloneWindow
<1>2. CASE SearchOlder(r)
  <2>1. PICK x \in Run :
           /\ run' = [run EXCEPT ![r] = x] /\ x.old = run[r].old
           /\ (x.kind = "window" /\ x.pc = "select") \/ (x.kind = "older" /\ x.pc = "fetch")
    BY <1>2, SearchOlderSets
  <2>2. run'[r] = x /\ Does(r, "older")
    BY <1>2, <2>1, RunSet DEF SearchOlder
  <2>3. x.old = {}
    BY <2>1, <2>2 DEF WindowInv, InPlace, Renewing, Does
  <2>4. InPlace(r)'
    BY <2>1, <2>2, <2>3 DEF InPlace, At, Does
  <2> QED
    BY <2>1, <2>4, AloneWindow
<1>3. CASE SearchHits(r)
  <2>1. PICK x \in Run :
           /\ run' = [run EXCEPT ![r] = x] /\ x.old = run[r].old
           /\ x.kind = "search" /\ x.pc = "fetch"
    BY <1>3, SearchHitsSets
  <2>2. run'[r] = x /\ Does(r, "search")
    BY <1>3, <2>1, RunSet DEF SearchHits
  <2>3. x.old = {}
    BY <2>1, <2>2 DEF WindowInv, InPlace, Renewing, Does
  <2>4. InPlace(r)'
    BY <2>1, <2>2, <2>3 DEF InPlace, At, Does
  <2> QED
    BY <2>1, <2>4, AloneWindow
<1>4. CASE Fetch(r)
  <2>1. PICK x \in Run, u \in run[r].todo :
           /\ run' = [run EXCEPT ![r] = x]
           /\ x.pc = "fetch" /\ x.kind = run[r].kind /\ x.win = run[r].win
           /\ x.folder = run[r].folder /\ x.old = run[r].old
           /\ x.found = run[r].found /\ x.todo = run[r].todo \ {u}
           /\ row' = IF box[u] # 0 THEN [row EXCEPT ![u] = box[u]] ELSE row
    BY <1>4, FetchSets
  <2>2. run'[r] = x /\ UNCHANGED server /\ At(r, "fetch") /\ u \in UidRange
    BY <1>4, <2>1, RunSet, Fields DEF Fetch
  <2>3. \A v \in UidRange : row'[v] = IF v = u /\ box[u] # 0 THEN box[u] ELSE row[v]
    BY <2>1, <2>2, Typed
  <2>4. \A v \in Newest(x.found, x.win) : v \in UidRange
    BY <2>1, Fields DEF Newest
  <2>5. Does(r, "window") =>
          \A v \in Newest(x.found, x.win) : v \in x.todo \/ row'[v] # 0 \/ box[v] = 0
    BY <2>1, <2>2, <2>3, <2>4 DEF WindowInv, InPlace
  <2>6. x.old # {} => Renewing(r)'
    BY <2>1, <2>2 DEF WindowInv, InPlace, Renewing, At, Does, Selected, server
  <2>7. InPlace(r)'
    BY <2>1, <2>2, <2>5, <2>6 DEF InPlace, At, Does, server
  <2> QED
    BY <2>1, <2>7, AloneWindow
<1>5. CASE Fetched(r)
  <2>1. PICK x \in Run :
           /\ run' = [run EXCEPT ![r] = x]
           /\ \/ x = NoRun
              \/ /\ x.pc = IF run[r].kind = "window" THEN "drop" ELSE "record"
                 /\ x.kind = run[r].kind /\ x.folder = run[r].folder /\ x.win = run[r].win
                 /\ x.old = run[r].old /\ x.found = run[r].found /\ x.todo = run[r].todo
    BY <1>5, FetchedFields
  <2>2. run'[r] = x /\ UNCHANGED <<server, row>> /\ At(r, "fetch")
    BY <1>5, <2>1, RunSet DEF Fetched
  <2>3. CASE x = NoRun
    BY <2>1, <2>3, IdleWindow
  <2>4. CASE x # NoRun
    <3>1. x.old # {} => Renewing(r)'
      BY <2>1, <2>2, <2>4 DEF WindowInv, InPlace, Renewing, At, Does, Selected, server
    <3>2. InPlace(r)'
      BY <2>1, <2>2, <2>4, <3>1 DEF WindowInv, InPlace, At, Does, server
    <3> QED
      BY <2>1, <3>2, AloneWindow
  <2> QED
    BY <2>3, <2>4
<1>6. CASE Drop(r)
  <2>1. PICK x \in Run :
              /\ run' = [run EXCEPT ![r] = x] /\ x.folder = run[r].folder
              /\ x.pc = "record" /\ x.kind = "window" /\ x.old = run[r].old
    BY <1>6, DropSets
  <2>2. run'[r] = x /\ validity' = validity /\ At(r, "drop")
    BY <1>6, <2>1, RunSet DEF Drop, server
  <2>3. InPlace(r)'
    BY <2>1, <2>2 DEF WindowInv, InPlace, Renewing, At, Does, Selected
  <2> QED
    BY <2>1, <2>3, AloneWindow
<1>7. CASE Record(r)
  BY <1>7, IdleWindow DEF Record
<1> QED
  BY <1>1, <1>2, <1>3, <1>4, <1>5, <1>6, <1>7

\* A mail that arrives has a UID of its own; one that goes is missed nowhere.
LEMMA ServerWindow ==
  ASSUME FolderOK, FolderTyped, WindowInv, Arrive \/ \E u \in UidRange : Remove(u) \/ RemoveOwn(u)
  PROVE  WindowInv'
<1>1. UNCHANGED <<run, validity>> /\ uidnext' \in Nat /\ uidnext <= uidnext'
  BY Typed DEF Arrive, Remove, RemoveOwn
<1>2. \A v \in UidRange :
        /\ row[v] # 0 => row'[v] # 0 \/ (v < uidnext' /\ box'[v] = 0)
        /\ v < uidnext /\ box[v] = 0 => v < uidnext' /\ box'[v] = 0
  <2>1. \A v \in UidRange : v \in Nat
    BY DEF UidRange
  <2>2. CASE Arrive
    BY <2>1, <2>2, Typed DEF Arrive
  <2>3. ASSUME NEW u \in UidRange, Remove(u) \/ RemoveOwn(u)
        PROVE  \A v \in UidRange :
                 /\ row[v] # 0 => row'[v] # 0 \/ (v < uidnext' /\ box'[v] = 0)
                 /\ v < uidnext /\ box[v] = 0 => v < uidnext' /\ box'[v] = 0
    <3>1. /\ uidnext' = uidnext /\ box[u] # 0 /\ box' = [box EXCEPT ![u] = 0]
          /\ row' = row \/ row' = [row EXCEPT ![u] = 0]
      BY <2>3 DEF Remove, RemoveOwn
    <3>2. u < uidnext
      BY <3>1 DEF FolderTyped
    <3>3. \A v \in UidRange : box'[v] = IF v = u THEN 0 ELSE box[v]
      BY <3>1, Typed
    <3>4. \A v \in UidRange : v # u => row'[v] = row[v]
      BY <3>1, Typed
    <3> QED
      BY <3>1, <3>2, <3>3, <3>4
  <2> QED
    BY <2>2, <2>3
<1>3. ASSUME NEW r \in Runs PROVE InPlace(r)'
  <2>1. InPlace(r)
    BY DEF WindowInv
  <2>2. run[r].local \subseteq UidRange /\ Newest(run[r].found, run[r].win) \subseteq UidRange
        /\ Newest(run[r].found, run[r].win) \subseteq run[r].found
    BY Fields DEF Newest
  <2>3. At(r, "search") /\ Does(r, "window") =>
          \A u \in run[r].local : row'[u] # 0 \/ (u < uidnext' /\ box'[u] = 0)
    BY <1>2, <2>1, <2>2 DEF InPlace
  <2>4. (At(r, "fetch") \/ At(r, "drop")) /\ Does(r, "window") =>
          \A u \in Newest(run[r].found, run[r].win) :
            u \in run[r].todo \/ row'[u] # 0 \/ box'[u] = 0
    <3>1. (At(r, "fetch") \/ At(r, "drop")) /\ Does(r, "window") =>
            \A u \in run[r].found : u < uidnext
      BY DEF FolderTyped, Placed, At
    <3> QED
      BY <1>2, <2>1, <2>2, <3>1 DEF InPlace
  <2>5. run[r].old # {} => Renewing(r)'
    BY <1>1, <2>1 DEF InPlace, Renewing, Does
  <2> QED
    BY <1>1, <2>3, <2>4, <2>5 DEF InPlace, At, Does
<1> QED
  BY <1>3 DEF WindowInv

LEMMA WindowNext ==
  ASSUME FolderOK, FolderTyped, OneRun, WindowInv, [Next]_vars
  PROVE  WindowInv'
<1>1. CASE UNCHANGED vars
  BY <1>1 DEF vars, server, WindowInv, InPlace, Renewing, At, Does
<1>2. CASE Arrive \/ \E u \in UidRange : Remove(u) \/ RemoveOwn(u)
  BY <1>2, ServerWindow
<1>3. CASE Rebuild
  <2>1. \A r \in Runs : run'[r] = NoRun
    BY <1>3 DEF Rebuild
  <2> QED
    BY <2>1 DEF WindowInv, InPlace, At, NoRun
<1>4. ASSUME NEW r \in Runs, Work(r) PROVE WindowInv'
  BY <1>4, BeforeWindow, AfterWindow DEF Work
<1>5. ASSUME NEW r \in Runs, Abort(r) PROVE WindowInv'
  BY <1>5, IdleWindow DEF Abort
<1>6. ASSUME NEW r \in Runs, NEW kind \in Kinds, NEW win \in Windows, Start(r, kind, win)
      PROVE  WindowInv'
  <2>1. PICK x \in Run :
              /\ run' = [run EXCEPT ![r] = x] /\ x.pc = "select" /\ x.old = {}
    BY <1>6, StartSets
  <2>2. run'[r] = x
    BY <2>1, RunSet
  <2>3. InPlace(r)'
    BY <2>1, <2>2 DEF InPlace, At
  <2> QED
    BY <2>1, <2>3, AloneWindow
<1> QED
  BY <1>1, <1>2, <1>3, <1>4, <1>5, <1>6 DEF Next

LEMMA WindowInit ==
  ASSUME Init PROVE WindowInv
BY DEF Init, WindowInv, InPlace, At, NoRun

\* Old rows go when the mails of the window are in place.
LEMMA DropsLate ==
  ASSUME FolderOK, FolderTyped, RebuildInv, WindowInv, OneRun, [Next]_vars
  PROVE  DropsAfterFetch
<1> SUFFICES ASSUME NEW r \in Runs, At(r, "drop"), run'[r].pc = "record", run[r].old # {},
                    NEW u \in Newest(run[r].found, run[r].win), box[u] # 0
             PROVE  row'[u] = box[u]
  BY DEF DropsAfterFetch
<1>1. Drop(r)
  <2>1. run' # run
    BY DEF At
  <2>2. \A s \in Runs : s = r
    BY DEF OneRun
  <2>3. ~Rebuild
    BY DEF Rebuild, NoRun
  <2>4. ~Abort(r)
    BY NoRunTyped, RunSet DEF Abort, NoRun
  <2>5. ~Select(r) /\ ~Vanish(r) /\ ~List(r) /\ ~Search(r) /\ ~SearchOlder(r) /\ ~SearchHits(r)
        /\ ~Fetch(r) /\ ~Fetched(r) /\ ~Record(r)
    BY DEF At, Select, Vanish, List, Search, SearchOlder, SearchHits, Fetch, Fetched, Record
  <2>6. \A kind \in Kinds, win \in Windows : ~Start(r, kind, win)
    BY DEF At, Start
  <2>7. ~Arrive /\ \A v \in UidRange : ~Remove(v) /\ ~RemoveOwn(v)
    BY <2>1 DEF Arrive, Remove, RemoveOwn
  <2>8. ~UNCHANGED vars
    BY <2>1 DEF vars
  <2> QED
    BY <2>2, <2>3, <2>4, <2>5, <2>6, <2>7, <2>8 DEF Next, Work
<1>2. Renewing(r) /\ Renewed(r) /\ Does(r, "window") /\ run[r].todo = {}
  BY DEF WindowInv, InPlace, RebuildInv, RunRenewed, FolderTyped, Placed, At, Renewing
<1>3. u \in UidRange /\ u \in run[r].found
  BY Fields DEF Newest
<1>4. row[u] # 0
  BY <1>2 DEF WindowInv, InPlace
<1>5. row[u] = box[u]
  <2>1. CASE u \in run[r].old
    BY <1>2, <1>4, <2>1 DEF Renewed
  <2>2. CASE u \notin run[r].old
    BY <1>2, <1>3, <1>4, <2>2 DEF Renewed, RowsRight
  <2> QED
    BY <2>1, <2>2
<1>6. u \notin Stale(r)
  BY <1>3 DEF Stale
<1> QED
  BY <1>1, <1>3, <1>5, <1>6 DEF Drop

-----------------------------------------------------------------------------
\* After a rebuild the rows of the old UIDs go only when every mail of the new
\* window that is still there is cached, one run working at a time
\* (engine/sync.rs, sync_folder_window: fetch, then expunge).
THEOREM RebuildKeepsMail ==
  ASSUME FolderOK, FirstSynced, OneRun PROVE Spec => [][DropsAfterFetch]_vars
<1>1. Init => FolderTyped /\ RebuildInv /\ WindowInv
  BY TypedInit, RebuildInit, WindowInit
<1>2. FolderTyped /\ RebuildInv /\ WindowInv /\ [Next]_vars =>
        FolderTyped' /\ RebuildInv' /\ WindowInv'
  BY TypedNext, RebuildNext, WindowNext
<1>3. FolderTyped /\ RebuildInv /\ WindowInv /\ [Next]_vars => [DropsAfterFetch]_vars
  BY DropsLate
<1> QED
  BY <1>1, <1>2, <1>3, PTL DEF Spec

-----------------------------------------------------------------------------
(* One run at a time and no rebuild: SyncedInv is inductive.               *)

\* A run drops the rows of mails that are gone, and caches mails.
RowsTrue ==
  \A u \in UidRange : \/ row'[u] = row[u]
                      \/ row'[u] = 0 /\ box[u] = 0
                      \/ box[u] # 0 /\ row'[u] = box[u]

LEMMA TrueKeeps ==
  ASSUME FolderTyped, UNCHANGED server, RowsTrue
  PROVE  /\ RowsRight({}) => RowsRight({})'
         /\ Accurate => Accurate'
         /\ ServerState' = ServerState
<1>1. RowsRight({}) => RowsRight({})'
  BY DEF RowsRight, RowsTrue, FolderTyped, server
<1>2. On(box)' = On(box) /\ \A u \in On(box) : u \in UidRange /\ box[u] # 0
  BY DEF On, server
<1>3. ServerState' = ServerState
  BY <1>2 DEF ServerState, server
<1>4. Accurate => Accurate'
  <2> DEFINE window == Newest(On(box), Min(Windows))
  <2>1. \A u \in window : u \in UidRange /\ box[u] # 0
    BY <1>2 DEF Newest
  <2>2. Accurate' <=> /\ \A u \in window : row'[u] = box[u]
                      /\ \A u \in UidRange :
                           u >= Min(window \cup {MaxUid}) /\ row'[u] # 0 => box[u] # 0
    BY <1>2 DEF Accurate, server
  <2>3. Accurate <=> /\ \A u \in window : row[u] = box[u]
                     /\ \A u \in UidRange :
                          u >= Min(window \cup {MaxUid}) /\ row[u] # 0 => box[u] # 0
    BY DEF Accurate
  <2> HIDE DEF window
  <2> QED
    BY <2>1, <2>2, <2>3 DEF RowsTrue
<1> QED
  BY <1>1, <1>3, <1>4

\* What a run's step leaves to prove of SyncedInv.
LEMMA StepSynced ==
  ASSUME FolderTyped, OneRun, SyncedInv, UNCHANGED server, RowsTrue,
         NEW r \in Runs, NEW x \in Run, run' = [run EXCEPT ![r] = x],
         NEW c, rec' = c, Synced(c), c = ServerState => Accurate',
         x.pc # "idle" => RunSynced(r)'
  PROVE  SyncedInv'
<1>1. run'[r] = x /\ \A s \in Runs : s = r
  BY RunSet DEF OneRun
<1>2. ServerState' = ServerState /\ RowsRight({})' /\ validity' = 1
  BY TrueKeeps DEF SyncedInv, server
<1>3. Synced(rec)'
  BY <1>2 DEF Synced, server
<1> QED
  BY <1>1, <1>2, <1>3 DEF SyncedInv, At

LEMMA QuietSynced ==
  ASSUME FolderTyped, OneRun, SyncedInv, UNCHANGED <<server, rec>>, RowsTrue,
         NEW r \in Runs, NEW x \in Run, run' = [run EXCEPT ![r] = x],
         x.pc # "idle" => RunSynced(r)'
  PROVE  SyncedInv'
<1>1. PICK c : c = rec
  OBVIOUS
<1>2. rec' = c /\ Synced(c) /\ (c = ServerState => Accurate')
  BY <1>1, TrueKeeps DEF SyncedInv
<1> QED
  BY <1>2, StepSynced

\* In a state a run read, it says of the folder what the server said then.
LEMMA FolderKept ==
  ASSUME FolderTyped, UNCHANGED server, RowsTrue, NEW r \in Runs, RunSynced(r),
         run'[r].folder = run[r].folder, run'[r].old = run[r].old
  PROVE  /\ Synced(run[r].folder)'
         /\ (run[r].folder = ServerState => Accurate)'
         /\ (run[r].old = {})'
BY TrueKeeps DEF RunSynced, Synced, server

LEMMA SelectKept ==
  ASSUME FolderTyped, UNCHANGED server, NEW r \in Runs, RunSynced(r), run[r].pc \in Selected,
         run'[r].folder = run[r].folder, run'[r].sel = run[r].sel
  PROVE  /\ Synced(run[r].sel)' /\ (run[r].folder.seq <= run[r].sel.seq)'
         /\ (run[r].sel.val = 1)' /\ (run[r].sel.next <= uidnext)'
<1>1. ServerState' = ServerState
  <2>1. On(box)' = On(box)
    BY DEF On, server
  <2> QED
    BY <2>1 DEF ServerState, server
<1> QED
  BY <1>1 DEF RunSynced, Synced, server

LEMMA SelectSynced ==
  ASSUME FolderOK, FolderTyped, OneRun, SyncedInv, NEW r \in Runs, Select(r)
  PROVE  SyncedInv'
<1>1. PICK x \in Run :
           /\ run' = [run EXCEPT ![r] = x]
           /\ x.folder = run[r].folder /\ x.sel = ServerState
           /\ \/ x.pc = "select" /\ x.old = {}
              \/ /\ x.kind = run[r].kind
                 /\ x.old = IF /\ run[r].kind = "window"
                               /\ run[r].folder.val \notin {0, validity} THEN On(row) ELSE {}
                 /\ IF run[r].kind = "window" THEN x.pc \in {"list", "vanish"} ELSE x.pc = "search"
  BY SelectSets
<1>2. UNCHANGED <<server, row, rec>> /\ RunSynced(r) /\ validity = 1 /\ RowsRight({})
  BY DEF SyncedInv, Select, At
<1>3. run'[r] = x /\ RowsTrue
  BY <1>1, <1>2, RunSet DEF RowsTrue
<1>4. x.old = {}
  BY <1>1, <1>2 DEF RunSynced, Synced
<1>5. /\ Synced(run[r].folder)' /\ (run[r].folder = ServerState => Accurate)'
      /\ (run[r].old = {})'
  BY <1>1, <1>2, <1>3, <1>4, FolderKept DEF RunSynced
<1>6. ServerState' = ServerState
  BY <1>2, <1>3, TrueKeeps
<1>7. /\ Synced(run[r].sel)' /\ (run[r].folder.seq <= run[r].sel.seq)'
      /\ (run[r].sel.val = 1)' /\ (run[r].sel.next <= uidnext)'
  BY <1>1, <1>2, <1>3, <1>6, Typed DEF RunSynced, Synced, ServerState, server
<1>8. \A u \in On(row) : u < uidnext
  BY <1>2 DEF RowsRight, On
<1>9. x.pc = "select" \/ x.pc \in {"list", "vanish"} \/ (x.pc = "search" /\ x.kind # "window")
  BY <1>1
<1>10. RunSynced(r)'
  BY <1>1, <1>2, <1>3, <1>5, <1>7, <1>8, <1>9 DEF RunSynced, At, Does, Selected, On, ServerState, server
<1> QED
  BY <1>1, <1>2, <1>3, <1>10, QuietSynced

LEMMA VanishSynced ==
  ASSUME FolderOK, FolderTyped, OneRun, SyncedInv, NEW r \in Runs, Vanish(r)
  PROVE  RowsTrue /\ SyncedInv'
<1>1. PICK x \in Run :
           /\ run' = [run EXCEPT ![r] = x]
           /\ x.pc = "list" /\ x.folder = run[r].folder /\ x.sel = run[r].sel /\ x.old = run[r].old
  BY VanishSets
<1>2. UNCHANGED <<server, rec>> /\ RunSynced(r) /\ run[r].pc = "vanish"
  BY DEF SyncedInv, Vanish, At
<1>3. run'[r] = x /\ RowsTrue
  BY <1>1, RunSet, VanishSets DEF RowsTrue
<1>4. On(row)' \subseteq On(row)
  BY <1>2, VanishSets DEF On
<1>5. RunSynced(r)'
  BY <1>1, <1>2, <1>3, <1>4, FolderKept, SelectKept DEF RunSynced, At, Selected
<1> QED
  BY <1>1, <1>2, <1>3, <1>5, QuietSynced

LEMMA ListSynced ==
  ASSUME FolderOK, FolderTyped, OneRun, SyncedInv, NEW r \in Runs, List(r)
  PROVE  SyncedInv'
<1>1. PICK x \in Run :
           /\ run' = [run EXCEPT ![r] = x]
           /\ x.folder = run[r].folder /\ x.sel = run[r].sel /\ x.old = run[r].old
           /\ x.local = IF validity_changed(r) THEN On(row) \ run[r].old ELSE On(row)
           /\ \/ x.pc = "search"
              \/ x.pc = "record" /\ run[r].sel = run[r].folder
  BY ListSets
<1>2. UNCHANGED <<server, row, rec>> /\ RunSynced(r) /\ run[r].pc = "list"
  BY DEF SyncedInv, List, At
<1>3. run'[r] = x /\ RowsTrue
  BY <1>1, <1>2, RunSet DEF RowsTrue
<1>4. x.local = On(row) /\ \A u \in On(row) : u < x.sel.next
  BY <1>1, <1>2 DEF RunSynced, Synced, validity_changed, Selected
<1>5. x.pc = "record" => (run[r].sel = ServerState => Accurate)'
  BY <1>1, <1>2, <1>3, TrueKeeps DEF RunSynced
<1>6. On(row)' = On(row)
  BY <1>2 DEF On
<1>7. RunSynced(r)'
  BY <1>1, <1>2, <1>3, <1>4, <1>5, <1>6, FolderKept, SelectKept DEF RunSynced, At, Does, Selected
<1> QED
  BY <1>1, <1>2, <1>3, <1>7, QuietSynced

LEMMA SearchSynced ==
  ASSUME FolderOK, PagesReach, FolderTyped, OneRun, SyncedInv, NEW r \in Runs, Search(r)
  PROVE  SyncedInv'
<1>1. PICK x \in Run :
           /\ run' = [run EXCEPT ![r] = x]
           /\ x.pc = "fetch" /\ x.kind = "window" /\ x.win = run[r].win
           /\ x.folder = run[r].folder /\ x.sel = run[r].sel /\ x.old = run[r].old
           /\ x.local = run[r].local
           /\ x.found \subseteq On(box) /\ x.todo = Newest(x.found, x.win) \ x.local
           /\ \A u \in x.found : u >= x.lo
           /\ \A u \in On(box) : u >= x.lo => u \in x.found \/ (x.sel.next > 1 /\ u >= x.sel.next)
           /\ x.sel.next <= MaxUid + 1 => x.lo <= 1 \/ Cardinality(x.found) >= x.win
  BY SearchSets
<1>2. UNCHANGED <<server, row, rec>> /\ RunSynced(r) /\ At(r, "search") /\ Does(r, "window")
  BY DEF SyncedInv, Search, At
<1>3. run'[r] = x /\ RowsTrue
  BY <1>1, <1>2, RunSet DEF RowsTrue
<1>4. On(row) \subseteq x.local /\ (\A u \in x.local : u < x.sel.next) /\ x.sel.next <= uidnext
  BY <1>1, <1>2 DEF RunSynced, At, Selected
<1>5. /\ x.local \subseteq UidRange /\ x.sel.next \in Nat /\ x.found \subseteq UidRange
      /\ \A u \in UidRange : u \in Nat
  BY DEF Run, State, UidRange
<1>6. \A u \in x.local : u < x.sel.next /\ (u >= x.lo => u \in x.found \/ box[u] = 0)
  BY <1>1, <1>4, <1>5 DEF On
<1>7. x.todo \subseteq x.found
  BY <1>1 DEF Newest
<1>8. x.sel = ServerState =>
        /\ x.found = {u \in On(box) : u >= x.lo}
        /\ x.lo <= 1 \/ Cardinality(x.found) >= x.win
  <2>1. \A u \in On(box) : u \in UidRange /\ u < uidnext
    BY DEF On, FolderTyped
  <2>2. x.sel = ServerState => x.sel.next = uidnext
    BY DEF ServerState
  <2> QED
    BY <1>1, <1>4, <1>5, <2>1, <2>2, Typed DEF FolderOK
<1>9. On(row)' = On(row) /\ On(box)' = On(box) /\ ServerState' = ServerState
  BY <1>2, <1>3, TrueKeeps DEF On, server
<1>10. Found(r)'
  BY <1>1, <1>2, <1>3, <1>4, <1>6, <1>7, <1>8, <1>9 DEF Found, server
<1>11. RunSynced(r)'
  BY <1>1, <1>2, <1>3, <1>10, FolderKept, SelectKept DEF RunSynced, At, Does, Selected
<1> QED
  BY <1>1, <1>2, <1>3, <1>11, QuietSynced

LEMMA FetchSynced ==
  ASSUME FolderOK, FolderTyped, OneRun, SyncedInv, NEW r \in Runs, Fetch(r)
  PROVE  RowsTrue /\ SyncedInv'
<1>1. PICK x \in Run, u \in run[r].todo :
           /\ run' = [run EXCEPT ![r] = x]
           /\ x.pc = "fetch" /\ x.kind = run[r].kind /\ x.win = run[r].win
           /\ x.folder = run[r].folder /\ x.sel = run[r].sel /\ x.old = run[r].old
           /\ x.local = run[r].local /\ x.found = run[r].found /\ x.lo = run[r].lo
           /\ x.todo = run[r].todo \ {u}
           /\ row' = IF box[u] # 0 THEN [row EXCEPT ![u] = box[u]] ELSE row
  BY FetchSets
<1>2. UNCHANGED <<server, rec>> /\ RunSynced(r) /\ run[r].pc = "fetch"
  BY DEF SyncedInv, Fetch, At
<1>3. run'[r] = x /\ u \in UidRange
  BY <1>1, RunSet, Fields
<1>4. \A v \in UidRange : row'[v] = IF v = u /\ box[u] # 0 THEN box[u] ELSE row[v]
  BY <1>1, <1>3, Typed
<1>5. RowsTrue
  BY <1>4 DEF RowsTrue
<1>6. On(row)' \subseteq On(row) \cup {u}
  BY <1>4 DEF On
<1>7. On(box)' = On(box) /\ ServerState' = ServerState
  BY <1>2, <1>5, TrueKeeps DEF On, server
<1>8. Found(r) => Found(r)'
  BY <1>1, <1>2, <1>3, <1>6, <1>7 DEF Found, server
<1>9. RunSynced(r)'
  BY <1>1, <1>2, <1>3, <1>5, <1>8, FolderKept, SelectKept DEF RunSynced, At, Does, Selected
<1> QED
  BY <1>1, <1>2, <1>5, <1>9, QuietSynced

LEMMA FetchedSynced ==
  ASSUME FolderOK, FolderTyped, OneRun, SyncedInv, NEW r \in Runs, Fetched(r)
  PROVE  SyncedInv'
<1>1. PICK x \in Run :
           /\ run' = [run EXCEPT ![r] = x]
           /\ \/ x = NoRun
              \/ /\ x.pc = IF run[r].kind = "window" THEN "drop" ELSE "record"
                 /\ x.kind = run[r].kind
                 /\ x.win = run[r].win /\ x.folder = run[r].folder /\ x.sel = run[r].sel
                 /\ x.old = run[r].old /\ x.local = run[r].local /\ x.found = run[r].found
                 /\ x.lo = run[r].lo /\ x.todo = run[r].todo
  BY FetchedFields
<1>2. UNCHANGED <<server, row, rec>> /\ RunSynced(r) /\ run[r].pc = "fetch"
  BY DEF SyncedInv, Fetched, At
<1>3. run'[r] = x /\ RowsTrue
  BY <1>1, <1>2, RunSet DEF RowsTrue
<1>4. CASE x = NoRun
  BY <1>1, <1>2, <1>3, <1>4, NoRunIdle, QuietSynced
<1>5. CASE x # NoRun
  <2>1. On(row)' = On(row) /\ On(box)' = On(box) /\ ServerState' = ServerState
    BY <1>2, <1>3, TrueKeeps DEF On, server
  <2>2. Found(r) => Found(r)'
    BY <1>1, <1>2, <1>3, <1>5, <2>1 DEF Found, server
  <2>3. RunSynced(r)'
    BY <1>1, <1>2, <1>3, <1>5, <2>2, FolderKept, SelectKept DEF RunSynced, At, Does, Selected
  <2> QED
    BY <1>1, <1>2, <1>3, <2>3, QuietSynced
<1> QED
  BY <1>4, <1>5

\* What a window sync leaves behind when nothing happened since its SELECT.
LEMMA DropAccurate ==
  ASSUME FolderOK, FolderTyped, NEW r \in Runs, Drop(r), Found(r), InPlace(r), RowsRight({}),
         run[r].old = {}, run[r].sel = ServerState, UNCHANGED server
  PROVE  Accurate'
<1> DEFINE m == Min(Windows)
           W == Newest(On(box), m)
           f == run[r].found
           lo == run[r].lo
           win == run[r].win
           above(u) == {v \in On(box) : v > u}
<1>1. /\ At(r, "drop") /\ Does(r, "window") /\ run[r].todo = {} /\ win \in Windows
      /\ lo \in Nat /\ f \subseteq UidRange
  BY Fields DEF Drop, FolderTyped, Placed, At, Does
<1>2. m \in Nat /\ m >= 1 /\ win \in Nat /\ m <= win
  BY <1>1, WindowsOK
<1>3. /\ f = {u \in On(box) : u >= lo} /\ (lo <= 1 \/ Cardinality(f) >= win)
      /\ On(row) \subseteq run[r].local \cup f
  BY DEF Found
<1>4. \A u \in UidRange : u \in Nat /\ u >= 1 /\ u <= MaxUid
  BY DEF UidRange, FolderOK
<1>5. ASSUME NEW u \in W PROVE u \in UidRange /\ u \in f /\ u \in Newest(f, win) /\ box[u] # 0
  <2>1. u \in On(box) /\ Cardinality(above(u)) < m /\ u \in UidRange /\ box[u] # 0
    BY DEF Newest, On
  <2>2. above(u) \in SUBSET UidRange
    BY DEF On
  <2>3. PICK S \in SUBSET UidRange : S = above(u)
    BY <2>2
  <2>4. Cardinality(S) \in Nat /\ \A T \in SUBSET S : Cardinality(T) <= Cardinality(S)
    BY <2>3, UidSets
  <2>5. PICK F \in SUBSET UidRange, G \in SUBSET UidRange : F = f /\ G = {v \in f : v > u}
    BY <1>1
  <2>6. Cardinality(F) \in Nat /\ Cardinality(G) \in Nat
    BY <2>5, UidSets
  <2>7. u \in f
    <3>1. ASSUME u < lo PROVE FALSE
      <4>1. F \in SUBSET S
        BY <1>1, <1>3, <1>4, <2>1, <2>3, <2>5, <3>1
      <4>2. Cardinality(F) >= win
        BY <1>1, <1>3, <1>4, <2>1, <2>5, <3>1
      <4>3. Cardinality(S) < m
        BY <2>1, <2>3
      <4> HIDE DEF f, above, W, m, win
      <4> QED
        BY <1>2, <2>4, <2>6, <4>1, <4>2, <4>3
    <3> QED
      BY <1>1, <1>3, <1>4, <2>1, <3>1
  <2>8. G \in SUBSET S /\ Cardinality(S) < m
    BY <1>3, <2>1, <2>3, <2>5
  <2>9. Cardinality(G) < win
    <3> HIDE DEF above, W, m, win, f
    <3> QED
      BY <1>2, <2>4, <2>6, <2>8
  <2> QED
    BY <2>1, <2>5, <2>7, <2>9 DEF Newest
<1>6. \A u \in UidRange : row'[u] = IF u \in Stale(r) THEN 0 ELSE row[u]
  BY DEF Drop
<1>7. ASSUME NEW u \in W PROVE row'[u] = box[u]
  <2>1. u \in UidRange /\ u \in f /\ u \in Newest(f, win) /\ box[u] # 0
    BY <1>5
  <2>2. row[u] = box[u]
    BY <1>1, <2>1 DEF InPlace, RowsRight
  <2>3. u \notin Stale(r)
    BY <2>1 DEF Stale
  <2> QED
    BY <1>6, <2>1, <2>2, <2>3
<1>8. ASSUME NEW u \in UidRange, u >= Min(W \cup {MaxUid}), row'[u] # 0
      PROVE  box[u] # 0
  <2>1. u \notin Stale(r) /\ row[u] # 0
    BY <1>6, <1>8
  <2>2. u \in run[r].local \cup f
    BY <1>3, <2>1 DEF On
  <2>3. CASE u \in f
    BY <1>3, <2>3 DEF On
  <2>4. CASE u \notin f
    <3>1. u < lo
      BY <1>1, <1>4, <2>1, <2>2, <2>4 DEF Stale
    <3>2. Cardinality(f) >= win
      BY <1>1, <1>3, <1>4, <3>1
    <3>3. f # {}
      BY <1>2, <3>2, FS_EmptySet
    <3>4. MaxUid \in UidRange /\ W \cup {MaxUid} \in SUBSET UidRange
      BY <1>5 DEF UidRange, FolderOK
    <3>5. Min(W \cup {MaxUid}) \in W \cup {MaxUid}
      <4> HIDE DEF W
      <4> QED
        BY <3>4, UidSets
    <3>6. PICK w : w = Min(W \cup {MaxUid})
      OBVIOUS
    <3>7. CASE w \in W
      <4>1. w \in f
        BY <1>5, <3>7
      <4> QED
        BY <1>1, <1>3, <1>4, <1>8, <3>1, <3>6, <4>1
    <3>8. CASE w = MaxUid
      <4>1. PICK v \in f : TRUE
        BY <3>3
      <4> QED
        BY <1>1, <1>3, <1>4, <1>8, <3>1, <3>4, <3>6, <3>8, <4>1
    <3> QED
      BY <3>5, <3>6, <3>7, <3>8
  <2> QED
    BY <2>3, <2>4
<1>9. box' = box /\ On(box)' = On(box)
  BY DEF On, server
<1>10. Accurate' <=> /\ \A u \in W : row'[u] = box[u]
                     /\ \A u \in UidRange :
                          u >= Min(W \cup {MaxUid}) /\ row'[u] # 0 => box[u] # 0
  BY <1>9 DEF Accurate
<1> QED
  <2> HIDE DEF W
  <2> QED
    BY <1>7, <1>8, <1>10

LEMMA DropSynced ==
  ASSUME FolderOK, FolderTyped, OneRun, SyncedInv, WindowInv, NEW r \in Runs, Drop(r)
  PROVE  RowsTrue /\ SyncedInv'
<1>1. PICK x \in Run :
              /\ run' = [run EXCEPT ![r] = x]
              /\ x.pc = "record" /\ x.kind = "window"
              /\ x.folder = run[r].folder /\ x.sel = run[r].sel /\ x.old = run[r].old
  BY DropSets
<1>2. /\ UNCHANGED <<server, rec>> /\ RunSynced(r) /\ At(r, "drop") /\ Does(r, "window")
      /\ run[r].old = {} /\ Found(r) /\ InPlace(r) /\ RowsRight({})
      /\ \A u \in UidRange : row'[u] = IF u \in Stale(r) THEN 0 ELSE row[u]
  BY DropSets DEF SyncedInv, RunSynced, WindowInv, Drop, At, Does, Selected
<1>3. run'[r] = x
  BY <1>1, RunSet
<1>4. \A u \in Stale(r) : box[u] = 0
  BY <1>2 DEF Found, Stale
<1>5. RowsTrue
  BY <1>2, <1>4 DEF RowsTrue
<1>6. (run[r].sel = ServerState => Accurate)'
  <2>1. ServerState' = ServerState
    BY <1>2, <1>5, TrueKeeps
  <2>2. run[r].sel = ServerState => Accurate'
    BY <1>2, DropAccurate
  <2> QED
    BY <1>1, <1>3, <2>1, <2>2
<1>7. RunSynced(r)'
  BY <1>1, <1>2, <1>3, <1>5, <1>6, FolderKept, SelectKept DEF RunSynced, At, Does, Selected
<1> QED
  BY <1>1, <1>2, <1>5, <1>7, QuietSynced

LEMMA RecordSynced ==
  ASSUME FolderOK, FolderTyped, OneRun, SyncedInv, NEW r \in Runs, Record(r)
  PROVE  SyncedInv'
<1>1. /\ UNCHANGED <<server, row>> /\ RunSynced(r) /\ At(r, "record")
      /\ run[r].kind \in {"window", "older"} /\ rec' = Recorded(r)
      /\ run' = [run EXCEPT ![r] = NoRun] /\ validity = 1
  BY RecordTyped DEF Record, SyncedInv, At, FolderTyped, Placed
<1>2. RowsTrue
  BY <1>1 DEF RowsTrue
<1>3. /\ Synced(run[r].folder) /\ (run[r].folder = ServerState => Accurate)
      /\ Synced(run[r].sel) /\ run[r].folder.seq <= run[r].sel.seq /\ run[r].sel.val = 1
      /\ Does(r, "window") => (run[r].sel = ServerState => Accurate)
  BY <1>1 DEF RunSynced, At, Selected
<1>4. PICK c : c = Recorded(r)
  OBVIOUS
<1>5. CASE run[r].kind = "window"
  <2>1. c = run[r].sel
    BY <1>4, <1>5 DEF Recorded, Does
  <2> QED
    BY <1>1, <1>2, <1>3, <1>4, <1>5, <2>1, StepSynced, TrueKeeps, NoRunTyped, NoRunIdle DEF Does
<1>6. CASE run[r].kind = "older"
  <2>1. /\ c = [run[r].folder EXCEPT !.val = run[r].sel.val, !.total = run[r].sel.total,
                                     !.next = IF run[r].folder.next = 0 THEN run[r].sel.next
                                              ELSE run[r].folder.next]
    BY <1>4, <1>6 DEF Recorded, Does
  <2>2. run[r].folder \in State /\ run[r].sel \in State /\ ServerState \in State /\ hi \in Nat
    BY Fields, Typed, ServerTyped
  <2>3. c.val = 1 /\ c.seq = run[r].folder.seq
    BY <1>3, <2>1, <2>2 DEF State
  <2>4. c.seq = hi => run[r].folder = ServerState /\ run[r].sel = ServerState
    BY <1>3, <2>2, <2>3 DEF Synced, State
  <2>5. c.seq = hi => c = ServerState
    <3> SUFFICES ASSUME c.seq = hi PROVE c = ServerState
      OBVIOUS
    <3>1. c = [ServerState EXCEPT !.val = ServerState.val, !.total = ServerState.total,
                                  !.next = ServerState.next]
      BY <2>1, <2>4
    <3> QED
      BY <3>1, <2>2 DEF State
  <2>6. Synced(c)
    BY <1>3, <2>3, <2>5 DEF Synced
  <2>7. c = ServerState => Accurate'
    BY <1>1, <1>2, <1>3, <2>4, TrueKeeps DEF ServerState
  <2> QED
    BY <1>1, <1>2, <1>4, <2>6, <2>7, StepSynced, NoRunTyped, NoRunIdle
<1> QED
  BY <1>1, <1>5, <1>6

LEMMA OlderSynced ==
  ASSUME FolderOK, FolderTyped, OneRun, SyncedInv, NEW r \in Runs, SearchOlder(r) \/ SearchHits(r)
  PROVE  SyncedInv'
<1>1. PICK x \in Run :
           /\ run' = [run EXCEPT ![r] = x]
           /\ x.folder = run[r].folder /\ x.sel = run[r].sel /\ x.old = run[r].old
           /\ \/ x.kind = "window" /\ x.pc = "select"
              \/ x.kind \in {"older", "search"} /\ x.pc = "fetch"
  BY SearchOlderSets, SearchHitsSets
<1>2. UNCHANGED <<server, row, rec>> /\ RunSynced(r) /\ run[r].pc = "search"
  BY DEF SyncedInv, SearchOlder, SearchHits, At
<1>3. run'[r] = x /\ RowsTrue
  BY <1>1, <1>2, RunSet DEF RowsTrue
<1>4. RunSynced(r)'
  BY <1>1, <1>2, <1>3, FolderKept, SelectKept DEF RunSynced, At, Does, Selected
<1> QED
  BY <1>1, <1>2, <1>3, <1>4, QuietSynced

LEMMA StartSynced ==
  ASSUME FolderOK, FolderTyped, OneRun, SyncedInv, NEW r \in Runs, NEW kind \in Kinds,
         NEW win \in Windows, Start(r, kind, win)
  PROVE  SyncedInv'
<1>1. PICK x \in Run :
              /\ run' = [run EXCEPT ![r] = x]
              /\ x.pc = "select" /\ x.folder = rec /\ x.old = {}
  BY StartSets
<1>2. UNCHANGED <<server, row, rec>>
  BY DEF Start
<1>3. run'[r] = x /\ RowsTrue
  BY <1>1, <1>2, RunSet DEF RowsTrue
<1>4. Synced(run[r].folder)' /\ (run[r].folder = ServerState => Accurate)'
  BY <1>1, <1>2, <1>3, TrueKeeps DEF SyncedInv, Synced, server
<1>5. RunSynced(r)'
  BY <1>1, <1>3, <1>4 DEF RunSynced, Selected
<1> QED
  BY <1>1, <1>2, <1>3, <1>5, QuietSynced

LEMMA AbortSynced ==
  ASSUME FolderOK, FolderTyped, OneRun, SyncedInv, NEW r \in Runs, Abort(r)
  PROVE  SyncedInv'
<1>1. run' = [run EXCEPT ![r] = NoRun] /\ UNCHANGED <<server, row, rec>>
  BY DEF Abort
<1>2. RowsTrue
  BY <1>1 DEF RowsTrue
<1> QED
  BY <1>1, <1>2, QuietSynced, NoRunTyped, NoRunIdle

\* With every step of the server what was read before is no longer its state.
LEMMA ServerSynced ==
  ASSUME FolderOK, FolderTyped, SyncedInv, UNCHANGED <<validity, run>>,
         hi' = hi + 1, uidnext' \in Nat, uidnext <= uidnext',
         \A u \in UidRange : row'[u] \in {row[u], 0},
         \A u \in UidRange : u < uidnext => box'[u] \in {box[u], 0},
         rec'.val = rec.val, rec'.seq = rec.seq
  PROVE  SyncedInv'
<1>1. \A u \in UidRange : u \in Nat
  BY DEF UidRange
<1>2. RowsRight({})'
  BY <1>1, Typed DEF SyncedInv, RowsRight
<1>3. ASSUME NEW s \in State, Synced(s) PROVE Synced(s)' /\ (s # ServerState)' /\ s.seq # hi'
  BY <1>3, Typed DEF Synced, State, ServerState
<1>4. Synced(rec)' /\ (rec # ServerState)'
  <2>1. rec.seq <= hi /\ rec.seq \in Nat /\ rec.val \in {0, 1}
    BY Typed DEF SyncedInv, Synced, State
  <2> QED
    BY <2>1, Typed DEF Synced, ServerState
<1>5. ASSUME NEW r \in Runs, ~At(r, "idle")' PROVE RunSynced(r)'
  <2>1. RunSynced(r) /\ run'[r] = run[r]
    BY <1>5 DEF SyncedInv, At
  <2>2. PICK f \in State, s \in State : f = run[r].folder /\ s = run[r].sel
    BY Fields
  <2>3. Synced(run[r].folder)' /\ (run[r].folder # ServerState)' /\ (run[r].old = {})'
    BY <1>3, <2>1, <2>2 DEF RunSynced, Synced, State
  <2>4. run[r].pc \in Selected => Synced(run[r].sel)' /\ (run[r].sel # ServerState)'
    BY <1>3, <2>1, <2>2 DEF RunSynced, Synced, State
  <2>5. On(row)' \subseteq On(row)
    BY DEF On
  <2>6. run[r].pc \in Selected /\ Does(r, "window") /\ Found(r) => Found(r)'
    <3> SUFFICES ASSUME run[r].pc \in Selected, Does(r, "window"), Found(r) PROVE Found(r)'
      OBVIOUS
    <3>1. \A u \in run[r].local : u \in UidRange /\ u < uidnext
      BY <2>1, <1>1, Fields, Typed DEF Found, RunSynced, State
    <3>2. \A u \in run[r].local : box[u] = 0 => box'[u] = 0
      BY <3>1
    <3> QED
      BY <2>1, <2>4, <2>5, <3>2 DEF Found
  <2>7. run[r].pc \in Selected => (run[r].sel.next <= uidnext)'
    BY <2>1, Fields, Typed DEF RunSynced, State
  <2> QED
    BY <2>1, <2>3, <2>4, <2>5, <2>6, <2>7 DEF RunSynced, At, Does, Selected
<1> QED
  BY <1>2, <1>4, <1>5 DEF SyncedInv

LEMMA SyncedNext ==
  ASSUME FolderOK, PagesReach, MaxRebuilds = 0, OneRun, FolderTyped, WindowInv, SyncedInv, [Next]_vars
  PROVE  SyncedInv'
<1>1. CASE UNCHANGED vars
  BY <1>1 DEF vars, server, SyncedInv, RunSynced, RowsRight, Synced, ServerState, Accurate, Found,
              At, Does, On
<1>2. CASE Arrive
  <2>1. uidnext' \in Nat /\ uidnext <= uidnext' /\ \A u \in UidRange : u < uidnext => box'[u] = box[u]
    BY <1>2, Typed DEF Arrive, UidRange
  <2> QED
    BY <1>2, <2>1, ServerSynced DEF Arrive
<1>3. ASSUME NEW u \in UidRange, Remove(u) \/ RemoveOwn(u) PROVE SyncedInv'
  <2>1. /\ hi' = hi + 1 /\ UNCHANGED <<uidnext, validity, run>>
        /\ box' = [box EXCEPT ![u] = 0] /\ (row' = row \/ row' = [row EXCEPT ![u] = 0])
        /\ rec' = rec \/ rec' = note_removed_on_server
    BY <1>3 DEF Remove, RemoveOwn
  <2>2. rec'.val = rec.val /\ rec'.seq = rec.seq
    BY <2>1, Typed DEF note_removed_on_server, State
  <2>3. \A v \in UidRange : box'[v] \in {box[v], 0} /\ row'[v] \in {row[v], 0}
    BY <2>1, Typed
  <2>4. uidnext' \in Nat /\ uidnext <= uidnext'
    BY <2>1, Typed
  <2> QED
    BY <2>1, <2>2, <2>3, <2>4, ServerSynced
<1>4. CASE Rebuild
  BY <1>4 DEF Rebuild, SyncedInv
<1>5. ASSUME NEW r \in Runs, Work(r) PROVE SyncedInv'
  BY <1>5, SelectSynced, VanishSynced, ListSynced, SearchSynced, OlderSynced,
     FetchSynced, FetchedSynced, DropSynced, RecordSynced DEF Work
<1>6. ASSUME NEW r \in Runs, Abort(r) PROVE SyncedInv'
  BY <1>6, AbortSynced
<1>7. ASSUME NEW r \in Runs, NEW kind \in Kinds, NEW win \in Windows, Start(r, kind, win)
      PROVE  SyncedInv'
  BY <1>7, StartSynced
<1> QED
  BY <1>1, <1>2, <1>3, <1>4, <1>5, <1>6, <1>7 DEF Next

LEMMA SyncedInit ==
  ASSUME FolderOK, Init
  PROVE  SyncedInv
<1>1. FolderTyped /\ validity = 1 /\ hi = 1 /\ \A r \in Runs : At(r, "idle")
  BY TypedInit DEF Init, At, NoRun
<1>2. RowsRight({})
  BY <1>1 DEF Init, FolderTyped, RowsRight, Nothing
<1>3. CASE FirstSynced
  <2>1. row = box /\ rec = ServerState
    BY <1>3 DEF Init
  <2>2. \A u \in Newest(On(box), Min(Windows)) : row[u] = box[u]
    BY <2>1
  <2>3. Accurate
    BY <2>1, <2>2 DEF Accurate
  <2> QED
    BY <1>1, <1>2, <2>1, <2>3 DEF SyncedInv, Synced, ServerState
<1>4. CASE ~FirstSynced
  <2>1. rec = NoState /\ rec # ServerState /\ Synced(rec)
    BY <1>1, <1>4 DEF Init, NoState, ServerState, Synced
  <2> QED
    BY <1>1, <1>2, <2>1 DEF SyncedInv
<1> QED
  BY <1>3, <1>4

\* A cached mail goes only with the server's.
LEMMA DropsGone ==
  ASSUME FolderOK, OneRun, MaxRebuilds = 0, FolderTyped, WindowInv, SyncedInv, [Next]_vars
  PROVE  DropsOnlyGone
<1> SUFFICES ASSUME NEW v \in UidRange, row[v] # 0, row'[v] = 0 PROVE box'[v] # row[v]
  BY DEF DropsOnlyGone
<1>1. row' # row
  OBVIOUS
<1>2. ~Arrive /\ ~UNCHANGED vars /\ \A u \in UidRange : ~Remove(u)
  BY <1>1 DEF Arrive, Remove, vars
<1>3. ~Rebuild
  BY <1>1 DEF Rebuild
<1>4. ASSUME NEW u \in UidRange, RemoveOwn(u) PROVE box'[v] # row[v]
  <2>1. row' = [row EXCEPT ![u] = 0] /\ box' = [box EXCEPT ![u] = 0]
    BY <1>4 DEF RemoveOwn
  <2>2. v = u
    BY <2>1
  <2> QED
    BY <2>1, <2>2, Typed
<1>5. ASSUME NEW r \in Runs, Vanish(r) \/ Fetch(r) \/ Drop(r) PROVE box'[v] # row[v]
  <2>1. RowsTrue /\ box' = box
    BY <1>5, VanishSynced, FetchSynced, DropSynced DEF Vanish, Fetch, Drop, server
  <2> QED
    BY <2>1 DEF RowsTrue
<1>6. \A r \in Runs : /\ ~Select(r) /\ ~List(r) /\ ~Search(r) /\ ~SearchOlder(r) /\ ~SearchHits(r)
                      /\ ~Fetched(r) /\ ~Record(r) /\ ~Abort(r)
                      /\ \A kind \in Kinds, win \in Windows : ~Start(r, kind, win)
  BY <1>1 DEF Select, List, Search, SearchOlder, SearchHits, Fetched, Record, Abort, Start
<1> QED
  BY <1>2, <1>3, <1>4, <1>5, <1>6 DEF Next, Work

-----------------------------------------------------------------------------
\* A folder recorded as the server's has the newest mails of the smallest window
\* cached and nothing in that stretch that is gone, whatever was fetched, loaded,
\* found by a search or cut short before (engine/sync.rs, folder_unchanged and
\* set_sync_state).
THEOREM SettledIsRight ==
  ASSUME FolderOK, PagesReach, OneRun, MaxRebuilds = 0 PROVE Spec => []SettledIsAccurate
<1>1. Init => FolderTyped /\ WindowInv /\ SyncedInv
  BY TypedInit, WindowInit, SyncedInit
<1>2. FolderTyped /\ WindowInv /\ SyncedInv /\ [Next]_vars => FolderTyped' /\ WindowInv' /\ SyncedInv'
  BY TypedNext, WindowNext, SyncedNext
<1>3. SyncedInv => SettledIsAccurate
  BY DEF SyncedInv, Accurate, SettledIsAccurate
<1> QED
  BY <1>1, <1>2, <1>3, PTL DEF Spec

\* No sync drops a cached mail the server still has (engine/sync.rs: "UIDs below
\* `search_lo` were never asked about, so they stay cached").
THEOREM DropsAreDue ==
  ASSUME FolderOK, PagesReach, OneRun, MaxRebuilds = 0 PROVE Spec => [][DropsOnlyGone]_vars
<1>1. Init => FolderTyped /\ WindowInv /\ SyncedInv
  BY TypedInit, WindowInit, SyncedInit
<1>2. FolderTyped /\ WindowInv /\ SyncedInv /\ [Next]_vars => FolderTyped' /\ WindowInv' /\ SyncedInv'
  BY TypedNext, WindowNext, SyncedNext
<1>3. FolderTyped /\ WindowInv /\ SyncedInv /\ [Next]_vars => [DropsOnlyGone]_vars
  BY DropsGone
<1> QED
  BY <1>1, <1>2, <1>3, PTL DEF Spec
=============================================================================
