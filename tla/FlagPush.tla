------------------------------ MODULE FlagPush ------------------------------
(***************************************************************************)
(* Read and starred flags: a click writes the cached row and marks it      *)
(* `flags_dirty` (store/messages/flags.rs), a run pushes the dirty rows    *)
(* and a sync reads the server's flags back (sync/imap/engine.rs and       *)
(* engine/sync.rs), with CONDSTORE only those changed since the modseq the *)
(* last sync recorded.  The app and a headless run may work on the same    *)
(* database at once; only headless runs exclude each other.                *)
(*                                                                         *)
(* The messages of one folder and their UIDs are fixed here: see           *)
(* FolderSync for arrival and removal.                                     *)
(***************************************************************************)
EXTENDS Naturals, FiniteSets

CONSTANTS
  Msgs,
  Window,      \* the messages in the newest-N window of a sync
  Sessions,    \* runs that may work at the same time
  MaxToggles,  \* bound: clicks of the user
  MaxChanges   \* bound: flag changes by other clients

ASSUME FlagConstantsOK ==
  /\ Window \subseteq Msgs
  /\ MaxToggles \in Nat /\ MaxChanges \in Nat

VARIABLES
  trash,      \* the folder has the Trash role
  condstore,  \* the server reports modseqs
  flagged,  \* cache: Msgs -> [read, star, dirty]
  srv,      \* server: Msgs -> [read, star, seq], seq the modseq of its last change
  hi,       \* server: HIGHESTMODSEQ
  modseq,   \* folders.highest_modseq
  session,  \* Sessions -> where it is and what it read
  toggles, others,
  want      \* history: the flags the user last chose

flagVars == <<trash, condstore, flagged, srv, hi, modseq, session, toggles, others, want>>

Flags == [read : BOOLEAN, star : BOOLEAN]
Snapshot == [m : Msgs, read : BOOLEAN, star : BOOLEAN]
Steps == {"idle", "push", "seen", "star", "clear", "select", "fetch", "apply",
           "sweep", "swept", "record"}
Session == [pc : Steps, todo : SUBSET Snapshot, cur : SUBSET Snapshot,
        since : Nat, sel : Nat, ok : BOOLEAN]
NoSession == [pc |-> "idle", todo |-> {}, cur |-> {}, since |-> 0, sel |-> 0, ok |-> TRUE]

AtStep(r, label) == session[r].pc = label
Cur(r) == CHOOSE s \in session[r].cur : TRUE
FlagsOf(x) == [read |-> x.read, star |-> x.star]
RowAs(m, f, dirty) ==
  flagged' = [flagged EXCEPT ![m] = [read |-> f.read, star |-> f.star, dirty |-> dirty]]

-----------------------------------------------------------------------------
(* The user.                                                               *)

\* set_read_many_by_uids, set_star_many_by_uids: one flag, the other kept.
Chosen(flag, choice) == IF choice = "keep" THEN flag ELSE choice = "on"

\* A click or a bulk action: written at once, queued for the push.
Toggle(us, read, star) ==
  /\ toggles < MaxToggles /\ toggles' = toggles + 1
  /\ us # {}
  /\ flagged' = [m \in Msgs |-> IF m \in us
       THEN [read |-> Chosen(flagged[m].read, read), star |-> Chosen(flagged[m].star, star),
             dirty |-> TRUE]
       ELSE flagged[m]]
  /\ want' = [m \in Msgs |-> IF m \in us THEN FlagsOf(flagged'[m]) ELSE want[m]]
  /\ UNCHANGED <<trash, condstore, srv, hi, modseq, session, others>>

-----------------------------------------------------------------------------
(* The server.                                                             *)

\* A STORE changes the modseq of the messages whose flags it changes, if the
\* server keeps modseqs at all.
StoreOn(us, to) ==
  LET changed == {m \in us : FlagsOf(srv[m]) # to[m]} IN
  /\ hi' = IF changed = {} \/ ~condstore THEN hi ELSE hi + 1
  /\ srv' = [m \in Msgs |-> IF m \in changed
       THEN [read |-> to[m].read, star |-> to[m].star, seq |-> hi'] ELSE srv[m]]

\* Another client of the same mailbox.
OtherClient(m, f) ==
  /\ others < MaxChanges /\ others' = others + 1
  /\ FlagsOf(srv[m]) # f /\ StoreOn({m}, [x \in Msgs |-> f])
  /\ UNCHANGED <<trash, condstore, flagged, modseq, session, toggles, want>>

-----------------------------------------------------------------------------
(* push_dirty_flags and push_flags.                                        *)

NoClicks == UNCHANGED <<trash, condstore, toggles, others, want>>

\* Faulty variant: only rows marked read are pushed.
Dirty_Read == {[m |-> m, read |-> flagged[m].read, star |-> flagged[m].star] :
                 m \in {x \in Msgs : flagged[x].dirty /\ flagged[x].read}}
\* list_flags_dirty: what the run will push, as it is now.
Dirty == {[m |-> m, read |-> flagged[m].read, star |-> flagged[m].star] :
            m \in {x \in Msgs : flagged[x].dirty}}

StartRun(r) ==
  /\ AtStep(r, "idle")
  /\ session' = [session EXCEPT ![r] = [NoSession EXCEPT !.pc = "push", !.todo = Dirty]]
  /\ UNCHANGED <<flagged, srv, hi, modseq>> /\ NoClicks

\* The next row; after the last one a sync goes on, a plain push ends.
PushNext(r) ==
  /\ AtStep(r, "push")
  /\ \/ \E s \in session[r].todo :
          session' = [session EXCEPT ![r] = [@ EXCEPT !.pc = "seen", !.cur = {s},
                                                 !.todo = session[r].todo \ {s}]]
     \/ /\ session[r].todo = {}
        /\ \E label \in {"idle", "select"} :
             session' = [session EXCEPT ![r] = [NoSession EXCEPT !.pc = label]]
  /\ UNCHANGED <<flagged, srv, hi, modseq>> /\ NoClicks

\* UID STORE of \Seen, then of \Flagged: done, refused, or done with the
\* answer lost.  Only the first goes on; the row stays dirty otherwise.
StoreFlag(r, here, next, to) ==
  /\ AtStep(r, here)
  /\ \/ /\ StoreOn({Cur(r).m}, to)
        /\ session' = [session EXCEPT ![r].pc = next]
     \/ /\ StoreOn({Cur(r).m}, to) \/ UNCHANGED <<srv, hi>>
        /\ session' = [session EXCEPT ![r] = [@ EXCEPT !.pc = "push", !.cur = {}]]
  /\ UNCHANGED <<flagged, modseq>> /\ NoClicks

PushSeen(r) == StoreFlag(r, "seen", "star",
  [m \in Msgs |-> [FlagsOf(srv[m]) EXCEPT !.read = Cur(r).read]])
PushStar(r) == StoreFlag(r, "star", "clear",
  [m \in Msgs |-> [FlagsOf(srv[m]) EXCEPT !.star = Cur(r).star]])

\* Faulty variant: the mark is cleared whatever the row holds by now.
Pushed_Any(s) == TRUE
\* clear_flags_dirty: only the flags that were pushed are clean.
Pushed(s) == FlagsOf(flagged[s.m]) = FlagsOf(s)

Clear(r) ==
  /\ AtStep(r, "clear")
  /\ IF Pushed(Cur(r)) THEN RowAs(Cur(r).m, flagged[Cur(r).m], FALSE) ELSE UNCHANGED flagged
  /\ session' = [session EXCEPT ![r] = [@ EXCEPT !.pc = "push", !.cur = {}]]
  /\ UNCHANGED <<srv, hi, modseq>> /\ NoClicks

-----------------------------------------------------------------------------
(* The flag part of sync_folder_window.                                    *)

\* folder_unchanged, as far as flags go.
Unchanged == modseq > 0 /\ hi = modseq

\* Faulty variant: one past the HIGHESTMODSEQ of the SELECT.
Reported_Next == hi + 1
\* The modseq the SELECT reports; 0 for none.
Reported == IF condstore THEN hi ELSE 0

Select(r) ==
  /\ AtStep(r, "select")
  /\ session' = [session EXCEPT ![r] = [@ EXCEPT
               !.since = modseq, !.sel = Reported,
               !.pc = IF ~Unchanged THEN "fetch" ELSE IF trash THEN "sweep" ELSE "record"]]
  /\ UNCHANGED <<flagged, srv, hi, modseq>> /\ NoClicks

\* Faulty variant: the modseq of the SELECT bounds the refresh as well.
FlagsSince_Select(r) == session[r].sel
\* The modseq the refresh of the window asks for; 0 asks for everything.
FlagsSince(r) == IF condstore THEN session[r].since ELSE 0

Changed(r) ==
  {m \in Window : srv[m].seq > FlagsSince(r) \/ FlagsSince(r) = 0}
    \cup {m \in Msgs \ Window : condstore /\ session[r].since > 0 /\ srv[m].seq > session[r].since}

Fetch(r) ==
  /\ AtStep(r, "fetch")
  /\ session' = [session EXCEPT ![r] = [@ EXCEPT !.pc = "apply",
       !.todo = {[m |-> m, read |-> srv[m].read, star |-> srv[m].star] : m \in Changed(r)}]]
  /\ UNCHANGED <<flagged, srv, hi, modseq>> /\ NoClicks

\* set_flags_by_uid: a row waiting for its push keeps the user's flags.
Applies(m) == ~flagged[m].dirty

Apply(r) ==
  /\ AtStep(r, "apply")
  /\ \/ \E s \in session[r].todo :
          /\ IF Applies(s.m)
               THEN RowAs(s.m, [read |-> s.read \/ trash, star |-> s.star], flagged[s.m].dirty)
               ELSE UNCHANGED flagged
          /\ session' = [session EXCEPT ![r].todo = @ \ {s}]
     \/ /\ session[r].todo = {} /\ UNCHANGED flagged
        /\ session' = [session EXCEPT ![r].pc = IF trash THEN "sweep" ELSE "record"]
  /\ UNCHANGED <<srv, hi, modseq>> /\ NoClicks

\* sweep_trash_seen: the rows unread here get \Seen on the server ...
Unread == {m \in Msgs : ~flagged[m].read}

Sweep(r) ==
  /\ AtStep(r, "sweep")
  /\ \E ok \in BOOLEAN :
       /\ IF ok THEN StoreOn(Unread, [m \in Msgs |-> [FlagsOf(srv[m]) EXCEPT !.read = TRUE]])
                ELSE UNCHANGED <<srv, hi>>
       /\ session' = [session EXCEPT ![r] = [@ EXCEPT !.pc = "swept", !.ok = ok,
            !.todo = {[m |-> m, read |-> TRUE, star |-> flagged[m].star] : m \in Unread}]]
  /\ UNCHANGED <<flagged, modseq>> /\ NoClicks

\* Faulty variant: the sweep writes every flag (B9).
SweptRow_AllFlags(r, m) == [read |-> TRUE, star |-> FALSE, dirty |-> ~session[r].ok]
\* ... and are read here, dirty when the server did not take it.
SweptRow(r, m) == [flagged[m] EXCEPT !.read = TRUE, !.dirty = ~session[r].ok]

\* set_read_clean_by_uids
Swept(r) ==
  /\ AtStep(r, "swept")
  /\ flagged' = [m \in Msgs |->
       IF m \in {s.m : s \in session[r].todo} /\ ~flagged[m].read /\ ~flagged[m].dirty
         THEN SweptRow(r, m) ELSE flagged[m]]
  /\ session' = [session EXCEPT ![r] = [@ EXCEPT !.pc = "record", !.todo = {}]]
  /\ UNCHANGED <<srv, hi, modseq>> /\ NoClicks

\* set_sync_state with what the SELECT reported.
Record(r) ==
  /\ AtStep(r, "record")
  /\ modseq' = IF session[r].sel # 0 THEN session[r].sel ELSE modseq
  /\ session' = [session EXCEPT ![r] = NoSession]
  /\ UNCHANGED <<flagged, srv, hi>> /\ NoClicks

\* An error ends the sync early, the connection or the process dies.
Abort(r) ==
  /\ ~AtStep(r, "idle")
  /\ session' = [session EXCEPT ![r] = NoSession]
  /\ UNCHANGED <<flagged, srv, hi, modseq>> /\ NoClicks

-----------------------------------------------------------------------------
\* Everything was synced before; what the server has is what is cached.
FlagInit ==
  /\ trash \in BOOLEAN /\ condstore \in BOOLEAN
  /\ srv \in [Msgs -> [read : {trash}, star : {FALSE}, seq : {1}]]
  /\ flagged = [m \in Msgs |-> [read |-> trash, star |-> FALSE, dirty |-> FALSE]]
  /\ hi = 1 /\ modseq = IF condstore THEN 1 ELSE 0
  /\ session = [r \in Sessions |-> NoSession]
  /\ toggles = 0 /\ others = 0
  /\ want = [m \in Msgs |-> FlagsOf(flagged[m])]

Work(r) ==
  \/ PushNext(r) \/ PushSeen(r) \/ PushStar(r) \/ Clear(r) \/ Select(r) \/ Fetch(r)
  \/ Apply(r) \/ Sweep(r) \/ Swept(r) \/ Record(r)

FlagNext ==
  \/ \E us \in SUBSET Msgs, read, star \in {"keep", "on", "off"} :
       (read # "keep" \/ star # "keep") /\ Toggle(us, read, star)
  \/ \E m \in Msgs, f \in Flags : OtherClient(m, f)
  \/ \E r \in Sessions : StartRun(r) \/ Work(r) \/ Abort(r)

FlagSpec == FlagInit /\ [][FlagNext]_flagVars

\* Runs keep coming and go on; the server takes a STORE now and then, and not
\* every run is cut short.
FlagFairness ==
  \A r \in Sessions :
    /\ WF_flagVars(StartRun(r)) /\ WF_flagVars(Work(r))
    /\ SF_flagVars(PushNext(r))
    /\ SF_flagVars(PushSeen(r) /\ session'[r].pc = "star")
    /\ SF_flagVars(PushStar(r) /\ session'[r].pc = "clear")
    /\ SF_flagVars(Clear(r))

FairFlagSpec == FlagSpec /\ FlagFairness

-----------------------------------------------------------------------------
(* Properties.                                                             *)

FlagTypeOK ==
  /\ trash \in BOOLEAN /\ condstore \in BOOLEAN
  /\ flagged \in [Msgs -> [read : BOOLEAN, star : BOOLEAN, dirty : BOOLEAN]]
  /\ srv \in [Msgs -> [read : BOOLEAN, star : BOOLEAN, seq : Nat]]
  /\ hi \in Nat /\ modseq \in Nat /\ modseq <= hi
  /\ session \in [Sessions -> Session]
  /\ toggles \in Nat /\ others \in Nat /\ want \in [Msgs -> Flags]

\* push_dirty_flags "never loses a toggle": a row is clean only when the
\* server and the cache both hold what the user chose last, whatever failed,
\* was cut short or was clicked again in the middle of a push.  In Trash the
\* read flag is not the user's: everything there is read.
ToggleKept ==
  \A m \in Msgs : ~flagged[m].dirty =>
    /\ srv[m].star = want[m].star /\ flagged[m].star = want[m].star
    /\ trash \/ (srv[m].read = want[m].read /\ flagged[m].read = want[m].read)

\* The row has the flags of the server; in Trash it is read whatever it says.
AsServer(m) == flagged[m].star = srv[m].star /\ (trash \/ flagged[m].read = srv[m].read)

\* A row that is clean and whose last change the recorded modseq covers is
\* what the server has: CHANGEDSINCE will not name it again, so a difference
\* here would last.
AccurateFlags ==
  \A m \in Msgs : ~flagged[m].dirty /\ srv[m].seq <= modseq => AsServer(m)

\* With a single session a row is what the user chose, until another client
\* changes the server, and what the server has, once both are settled
\* (engine/sync.rs, push_dirty_flags and the flag refresh).
FlagsKept == FlagTypeOK /\ AccurateFlags /\ (others = 0 => ToggleKept)

\* The user's flags reach the server: no row stays dirty forever.
PushedInTheEnd == \A m \in Msgs : flagged[m].dirty ~> ~flagged[m].dirty

=============================================================================
