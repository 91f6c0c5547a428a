------------------------------ MODULE Settings ------------------------------
(***************************************************************************)
(* The preferences: the settings table (mailcore store/settings.rs), what  *)
(* an account sets for itself (store/account_settings.rs), and the desktop *)
(* dialog that shows and saves both (bridge/settings.rs, Settings.qml).    *)
(*                                                                         *)
(* One key stands for each kind: a flag, a choice, a number, the quiet     *)
(* hours, the sort of the list, and the scheduler, which the desktop never *)
(* shows.  A value is the text the table holds; it may be one no build of  *)
(* today writes.                                                           *)
(***************************************************************************)
EXTENDS Naturals, FiniteSets

CONSTANTS Accounts,            \* a set of numbers
          NoValue,             \* no row in the table
          Worlds,              \* what the table may hold at first: [AppKeys -> text]
          MaxTurns, MaxFaults    \* edits and foreign writes; failed writes

Flags == {"collect", "quiet"}
Times == {"start", "end"}
Sort  == {"field", "desc"}
DialogKeys == Flags \cup Times \cup {"density", "interval"}
AppKeys == DialogKeys \cup Sort \cup {"scheduler"}
\* account_settings KEYS.
OwnKeys == Flags \cup Times \cup {"interval", "push"}

VARIABLES
  app,     \* the settings table
  own,     \* account_settings
  known,   \* the accounts that exist
  dialog,  \* Closed, or the dialog's local copies and its drafts by account
  message, \* the last status message: "", "saved" or "failed"
  turns, faults

vars == <<app, own, known, dialog, message, turns, faults>>

Closed == [at |-> "closed"]
Open   == dialog.at = "open"

defaults == [collect |-> "1", quiet |-> "0", start |-> "00:00", end |-> "07:00", density |-> "comfortable",
             interval |-> "0", scheduler |-> "workmanager", field |-> "date", desc |-> "1"]

-----------------------------------------------------------------------------
(* What a stored text means.                                               *)

\* A time in its stored form.
parse_time(t) == IF t = "7:00" THEN "07:00" ELSE IF t \in {"00:00", "07:00", "22:00"} THEN t ELSE NoValue

IsNumber(t) == t \in {"0", "15", "1440", "9999"}
normalize_sync_interval(n) == IF n = "9999" THEN "1440" ELSE n

get_bool(k, t) == IF t = NoValue THEN defaults[k] ELSE IF t \in {"1", "true"} THEN "1" ELSE "0"

get_sort_descending(t) == IF t \in {"0", "false"} THEN "0" ELSE "1"

get_number(k, t) == IF IsNumber(t) THEN normalize_sync_interval(t) ELSE defaults[k]

\* Faulty: an unreadable time is shown as it is.
get_quiet_time_Raw(k, t) == IF t = NoValue THEN defaults[k] ELSE t

get_quiet_time(k, t) == IF parse_time(t) = NoValue THEN defaults[k] ELSE parse_time(t)

\* A choice knows its values and their other names; anything else is the default.
Choice(k, t) ==
  CASE k = "density"   /\ t = "compact"          -> "compact"
    [] k = "scheduler" /\ t \in {"push", "idle"} -> "push"
    [] k = "field"     /\ t \in {"from", "sender"} -> "from"
    [] OTHER -> defaults[k]

Read(k, t) ==
  CASE k \in Flags -> get_bool(k, t)
    [] k \in Times -> get_quiet_time(k, t)
    [] k = "interval" -> get_number(k, t)
    [] k = "desc" -> get_sort_descending(t)
    [] OTHER -> Choice(k, t)

\* What the setters write, NoValue for a text they refuse.
Stored(k, v) ==
  CASE k \in Times -> parse_time(v)
    [] k = "interval" -> normalize_sync_interval(v)
    [] OTHER -> v

\* What an account's own value is stored as, NoValue for one it refuses.
normalize(k, v) ==
  CASE k \in Times -> parse_time(v)
    [] k = "interval" -> IF IsNumber(v) THEN normalize_sync_interval(v) ELSE NoValue
    [] OTHER -> IF v \in {"1", "true", "on"} THEN "1" ELSE IF v \in {"0", "false", "off"} THEN "0" ELSE NoValue

-----------------------------------------------------------------------------
(* What applies to an account.                                             *)

sync_interval(a) == IF own[a]["interval"] # NoValue THEN own[a]["interval"] ELSE Read("interval", app["interval"])
push_enabled(a)  == IF own[a]["push"] # NoValue THEN own[a]["push"]
                    ELSE IF Read("scheduler", app["scheduler"]) = "push" THEN "1" ELSE "0"

OwnSwitch(a) == own[a]["quiet"] = "1"

quiet_time(a, k, switched) == IF switched /\ own[a][k] # NoValue THEN own[a][k] ELSE Read(k, app[k])

\* The window, or NoValue while there is none.
quiet_hours(a) ==
  LET on == own[a]["quiet"] = "1" \/ (own[a]["quiet"] = NoValue /\ Read("quiet", app["quiet"]) = "1")
      from == quiet_time(a, "start", OwnSwitch(a))
      to == quiet_time(a, "end", OwnSwitch(a))
  IN IF on /\ from # to THEN <<from, to>> ELSE NoValue

account_bool(a, k) ==
  CASE k = "push"  -> push_enabled(a)
    [] k = "quiet" -> IF quiet_hours(a) # NoValue THEN "1" ELSE "0"
    [] OTHER -> IF own[a][k] # NoValue THEN own[a][k] ELSE Read(k, app[k])

\* Faulty: own times are shown although the switch is not the account's own.
effective_OwnTimes(a) ==
  [k \in OwnKeys |-> CASE k = "interval" -> sync_interval(a)
                       [] k \in Times -> quiet_time(a, k, TRUE)
                       [] OTHER -> account_bool(a, k)]

effective(a) ==
  [k \in OwnKeys |-> CASE k = "interval" -> sync_interval(a)
                       [] k \in Times -> quiet_time(a, k, OwnSwitch(a))
                       [] OTHER -> account_bool(a, k)]

-----------------------------------------------------------------------------
Nothing == [k \in OwnKeys |-> NoValue]

Init ==
  /\ app \in Worlds /\ own = [a \in Accounts |-> Nothing] /\ known = Accounts
  /\ dialog = Closed /\ message = "" /\ turns = 0 /\ faults = 0

\* SettingsBridge::load into the dialog's copies; drafts come one by one.
Opens ==
  /\ ~Open
  /\ dialog' = [at |-> "open", local |-> [k \in DialogKeys \cup Sort |-> Read(k, app[k])],
                saved |-> <<>>, drafts |-> <<>>, typed |-> {}, moved |-> {}]
  /\ message' = ""
  /\ UNCHANGED <<app, own, known, turns, faults>>

\* What the dialog offers; a typed time is taken in its stored form.
Offered(k) ==
  CASE k \in Flags \cup {"desc", "push"} -> {"0", "1"}
    [] k \in Times -> {parse_time("7:00"), "22:00"}
    [] k = "interval" -> {"0", "15"}
    [] k = "density" -> {"compact", "comfortable"}
    [] OTHER -> {"date", "from"}

Types(k, v) ==
  /\ Open /\ v # dialog.local[k] /\ turns < MaxTurns /\ turns' = turns + 1
  /\ dialog' = [dialog EXCEPT !.local[k] = v, !.typed = @ \cup {k}]
  /\ UNCHANGED <<app, own, known, message, faults>>

\* pickSyncScope: an account's own values are read when it is first shown.
Picks(a) ==
  /\ Open /\ a \in known /\ a \notin DOMAIN dialog.drafts
  /\ LET with(f) == [b \in DOMAIN f \cup {a} |-> IF b = a THEN own[a] ELSE f[b]]
     IN dialog' = [dialog EXCEPT !.saved = with(@), !.drafts = with(@)]
  /\ UNCHANGED <<app, own, known, message, turns, faults>>

\* Switching quiet hours off or back to the default empties the times.
TypesOwn(a, k, v) ==
  /\ Open /\ a \in DOMAIN dialog.drafts /\ v # dialog.drafts[a][k] /\ turns < MaxTurns /\ turns' = turns + 1
  /\ k \in Times => dialog.drafts[a]["quiet"] = "1"
  /\ dialog' = [dialog EXCEPT !.drafts[a] =
                  [j \in OwnKeys |-> IF j = k THEN v ELSE IF k = "quiet" /\ v # "1" /\ j \in Times
                                                          THEN NoValue ELSE @[j]]]
  /\ UNCHANGED <<app, own, known, message, faults>>

Cancels == Open /\ dialog' = Closed /\ UNCHANGED <<app, own, known, message, turns, faults>>

\* Faulty: an account's whole draft is written.
changes_All(a) == OwnKeys

changes(a) == {k \in OwnKeys : dialog.drafts[a][k] # dialog.saved[a][k]}

\* set_overrides: all or nothing; an account that is gone takes no value.
Takes(a) ==
  /\ \A k \in changes(a) : dialog.drafts[a][k] # NoValue => normalize(k, dialog.drafts[a][k]) # NoValue
  /\ a \in known \/ \A k \in changes(a) : dialog.drafts[a][k] = NoValue
set_overrides(a) ==
  [k \in OwnKeys |-> IF k \notin changes(a) THEN own[a][k]
                     ELSE IF dialog.drafts[a][k] = NoValue THEN NoValue ELSE normalize(k, dialog.drafts[a][k])]

Drafted == {a \in DOMAIN dialog.drafts : changes(a) # {}}

\* The account drafts are written in order up to the first that fails.
Reached(lost) == {a \in Drafted : \A b \in Drafted : b <= a => Takes(b) /\ b \notin lost}

Refused(bad) == {k \in DialogKeys : k \in bad \/ Stored(k, dialog.local[k]) = NoValue}

\* Faulty: only the settings of the app are reported.
Answer_AppOnly(bad, lost) == IF Refused(bad) = {} THEN "saved" ELSE "failed"

Answer(bad, lost) == IF Refused(bad) = {} /\ Drafted = Reached(lost) THEN "saved" ELSE "failed"

\* The pair is written if it is not what the list shows; nobody looks at the answer.
SortTaken(bad) ==
  "sort" \notin bad /\ \E k \in Sort : dialog.local[k] # Read(k, app[k])

\* onAccepted: the settings one by one, then the accounts, then the sort.
Accepts(bad, lost) ==
  /\ Open
  /\ bad # {} \/ lost # {} => faults < MaxFaults
  /\ faults' = IF bad = {} /\ lost = {} THEN faults ELSE faults + 1
  /\ app' = [k \in AppKeys |->
               CASE k \in DialogKeys \ Refused(bad) -> Stored(k, dialog.local[k])
                 [] k \in Sort /\ SortTaken(bad) -> dialog.local[k]
                 [] OTHER -> app[k]]
  /\ own' = [a \in Accounts |-> IF a \in Reached(lost) THEN set_overrides(a) ELSE own[a]]
  /\ message' = Answer(bad, lost) /\ dialog' = Closed
  /\ UNCHANGED <<known, turns>>

\* A second window, or another program, writes a value of its own.
Elsewhere ==
  /\ turns < MaxTurns /\ turns' = turns + 1
  /\ \/ /\ \E k \in AppKeys \ Sort, w \in Worlds :
             /\ w[k] # app[k] /\ app' = [app EXCEPT ![k] = w[k]]
             /\ dialog' = IF Open THEN [dialog EXCEPT !.moved = @ \cup {k}] ELSE dialog
        /\ UNCHANGED <<own, known>>
     \/ /\ \E a \in known, k \in OwnKeys, v \in {"on", "22:00"} :
             normalize(k, v) # NoValue /\ own' = [own EXCEPT ![a][k] = normalize(k, v)]
        /\ UNCHANGED <<app, known, dialog>>
     \/ /\ \E a \in known : known' = known \ {a} /\ own' = [own EXCEPT ![a] = Nothing]
        /\ UNCHANGED <<app, dialog>>
  /\ UNCHANGED <<message, faults>>

Next ==
  \/ Opens \/ Cancels \/ Elsewhere
  \/ \E k \in DialogKeys \cup Sort : \E v \in Offered(k) : Types(k, v)
  \/ \E a \in Accounts : Picks(a)
  \/ \E a \in Accounts, k \in OwnKeys : \E v \in Offered(k) \cup {NoValue} : TypesOwn(a, k, v)
  \/ \E k \in DialogKeys \cup {"sort"} : Accepts({k}, {})
  \/ \E a \in Accounts : Accepts({}, {a})
  \/ Accepts({}, {})

Spec == Init /\ [][Next]_vars

-----------------------------------------------------------------------------
\* What an account's form shows is what its checks go by: own values first,
\* the app's else, and the quiet window's times only from where its switch is
\* (account_settings.rs, effective against quiet_hours and sync_interval).
ShownIsUsed ==
  \A a \in Accounts : LET shown == effective(a) IN
    /\ quiet_hours(a) # NoValue => quiet_hours(a) = <<shown["start"], shown["end"]>> /\ shown["quiet"] = "1"
    /\ shown["quiet"] = "1" => quiet_hours(a) # NoValue
    /\ shown["interval"] = sync_interval(a) /\ shown["push"] = push_enabled(a)
    /\ own[a] = Nothing => \A k \in Times \cup {"collect"} : shown[k] = Read(k, app[k])

\* A save changes the meaning of nothing the user left alone: no setting that
\* nobody else changed meanwhile, however odd its text was, and no account's
\* own value even if somebody did (bridge/settings.rs, save; Settings.qml).
LeavesTheRest ==
  Open /\ dialog'.at = "closed" =>
    /\ \A k \in AppKeys \ (dialog.typed \cup dialog.moved) : Read(k, app'[k]) = Read(k, app[k])
    /\ \A a \in Accounts, k \in OwnKeys :
         own'[a][k] # own[a][k] => a \in DOMAIN dialog.drafts /\ dialog.drafts[a][k] # dialog.saved[a][k]

\* "Settings saved" is said only of values that are (bridge/settings.rs, save).
SavedIsSaved ==
  Open /\ message' = "saved" /\ dialog'.at = "closed" =>
    /\ \A k \in DialogKeys \cap dialog.typed : Read(k, app'[k]) = dialog.local[k]
    /\ \A a \in DOMAIN dialog.drafts, k \in OwnKeys :
         dialog.drafts[a][k] # dialog.saved[a][k] => own'[a][k] = dialog.drafts[a][k]
=============================================================================
