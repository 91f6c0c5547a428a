----------------------------- MODULE Migrations -----------------------------
(***************************************************************************)
(* Opening the database (mailcore db/mod.rs, db/migrations.rs): a fresh    *)
(* file gets the whole schema, an older one every version's step, each in  *)
(* a savepoint with its stamp; a newer or unreadable stamp is refused.     *)
(*                                                                         *)
(* `applied` is the set of versions whose tables and columns are there.    *)
(* Those steps may run twice (`if not exists`, duplicate columns are       *)
(* tolerated, the search index is dropped and built again).  What may not  *)
(* run twice is a repair that adds to what it finds: the sent counts of    *)
(* v21, and v18, which would take back a choice the user made since.       *)
(***************************************************************************)
EXTENDS Naturals, FiniteSets, TLAPS

CONSTANTS Openers, Builds,  \* [Openers -> SCHEMA_VERSION of the binary]
          Stamps,           \* what the file may be stamped with at first
          Breaks            \* crashes and failed statements a behaviour meets at most

Versions   == 2..26
Fresh      == 0    \* no stamp: an empty file, or one whose creation was cut short
Unreadable == 99
Whole      == 1    \* tables: 0, Whole, the build that began them, or
Mixed      == 99   \* two builds

VARIABLES stamp, tables, applied, credit, chosen, opener, together, breaks

schemaVars == <<stamp, tables, applied, credit, chosen, opener, together, breaks>>

\* Repairs that rewrite stored rows: HTML made from plain text, sender
\* names, inline images that were listed as files.
RowRepairs == {14, 16, 20}

\* The steps that end in a best-effort repair.
Repairs == {8, 12, 21} \cup RowRepairs

Closed == [at |-> "closed", from |-> 0, next |-> 0]

-----------------------------------------------------------------------------
(* ensure_schema                                                           *)

\* The version is read once, before the first step.
Open(o) ==
    /\ opener[o].at = "closed"
    /\ together \/ \A p \in Openers : opener[p].at \in {"closed", "open", "failed"}
    /\ opener' = [opener EXCEPT ![o] =
         [at   |-> CASE stamp = Unreadable \/ stamp > Builds[o] -> "failed"
                     [] stamp = Fresh -> "create"
                     [] OTHER -> "step",
          from |-> stamp, next |-> stamp + 1]]
    /\ UNCHANGED <<stamp, tables, applied, credit, chosen, together, breaks>>

\* Faulty: the stamp goes in with the first tables.
CreateSome_Stamped(o) ==
    /\ opener[o].at = "create" /\ tables = 0
    /\ tables' = Builds[o] /\ stamp' = Builds[o]
    /\ UNCHANGED <<applied, credit, chosen, opener, together, breaks>>

\* The full schema is not one transaction: `if not exists` all the way, so
\* that tables another build began keep their columns.
CreateSome(o) ==
    /\ opener[o].at = "create" /\ tables = 0
    /\ tables' = Builds[o]
    /\ UNCHANGED <<stamp, applied, credit, chosen, opener, together, breaks>>

CreateRest(o) ==
    /\ opener[o].at = "create" /\ tables > 0
    /\ tables' = IF tables \in {Builds[o], Mixed} THEN tables ELSE Mixed
    /\ applied' = applied \cup {v \in Versions : v <= Builds[o]}
    /\ opener' = [opener EXCEPT ![o].at = "insert"]
    /\ UNCHANGED <<stamp, credit, chosen, together, breaks>>

\* The stamp's row is inserted: a second one hits the primary key.
InsertStamp(o) ==
    /\ opener[o].at = "insert"
    /\ IF stamp = Fresh
       THEN stamp' = Builds[o] /\ opener' = [opener EXCEPT ![o].at = "open"]
       ELSE opener' = [opener EXCEPT ![o].at = "failed"] /\ UNCHANGED stamp
    /\ UNCHANGED <<tables, applied, credit, chosen, together, breaks>>

\* Tables, columns and indexes: a second run adds nothing.
Add(v) == applied' = applied \cup {v}

\* v21 adds what the Sent folders hold to every contact's count.
Credited(v) == IF v = 21 THEN credit + 1 ELSE credit

\* v18 takes unencrypted SMTP back.
Reset(v) == chosen' = IF v = 18 THEN "starttls" ELSE chosen

\* repair(): all or nothing, and a failure does not fail the step.
Repaired(v, works) == credit' = IF works THEN Credited(v) ELSE credit

\* Faulty: the stamp waits for the last step.
Step_Unstamped(o, works) ==
    /\ opener[o].at = "step" /\ opener[o].next <= Builds[o]
    /\ works \/ opener[o].next \in Repairs
    /\ Add(opener[o].next) /\ Repaired(opener[o].next, works) /\ Reset(opener[o].next)
    /\ opener' = [opener EXCEPT ![o].next = @ + 1]
    /\ UNCHANGED <<stamp, tables, together, breaks>>

\* One savepoint holds the step and its stamp.
Step(o, works) ==
    /\ opener[o].at = "step" /\ opener[o].next <= Builds[o]
    /\ works \/ opener[o].next \in Repairs
    /\ LET v == opener[o].next
       IN  /\ Add(v) /\ Repaired(v, works) /\ Reset(v)
           /\ stamp' = v
    /\ opener' = [opener EXCEPT ![o].next = @ + 1]
    /\ UNCHANGED <<tables, together, breaks>>

Break == breaks < Breaks /\ breaks' = breaks + 1

\* Any other error, or five seconds behind another connection's write.
StepFails(o) ==
    /\ opener[o].at = "step" /\ opener[o].next <= Builds[o] /\ Break
    /\ opener' = [opener EXCEPT ![o].at = "failed"]
    /\ UNCHANGED <<stamp, tables, applied, credit, chosen, together>>

Finish(o) ==
    /\ opener[o].at = "step" /\ opener[o].next > Builds[o]
    /\ stamp' = IF opener[o].from # Builds[o] THEN Builds[o] ELSE stamp
    /\ opener' = [opener EXCEPT ![o].at = "open"]
    /\ UNCHANGED <<tables, applied, credit, chosen, together, breaks>>

-----------------------------------------------------------------------------
\* An open is tried again; a crash takes every connection with it.
Retry(o) ==
    /\ opener[o].at = "failed" /\ stamp # Unreadable /\ stamp <= Builds[o] /\ Break
    /\ opener' = [opener EXCEPT ![o] = Closed]
    /\ UNCHANGED <<stamp, tables, applied, credit, chosen, together>>

Killed ==
    /\ Break
    /\ opener' = [o \in Openers |-> Closed]
    /\ UNCHANGED <<stamp, tables, applied, credit, chosen, together>>

\* In the account form the user chooses an unencrypted SMTP connection.
Choose ==
    /\ chosen # "plain"
    /\ \E o \in Openers : opener[o].at = "open" /\ Builds[o] >= 18
    /\ chosen' = "plain"
    /\ UNCHANGED <<stamp, tables, applied, credit, opener, together, breaks>>

SchemaInit ==
    /\ stamp \in Stamps
    /\ tables = IF stamp = Fresh THEN 0 ELSE Whole
    /\ applied = IF stamp = Unreadable THEN {} ELSE {v \in Versions : v <= stamp}
    /\ credit = IF stamp \in 21..26 THEN 1 ELSE 0
    /\ chosen = "starttls"
    /\ opener = [o \in Openers |-> Closed]
    /\ together \in BOOLEAN /\ breaks = 0

SchemaNext == \/ \E o \in Openers : \/ Open(o) \/ CreateSome(o) \/ CreateRest(o) \/ InsertStamp(o)
                              \/ (\E works \in BOOLEAN : Step(o, works))
                              \/ StepFails(o) \/ Finish(o) \/ Retry(o)
        \/ Killed \/ Choose

SchemaSpec == SchemaInit /\ [][SchemaNext]_schemaVars

-----------------------------------------------------------------------------
(* Properties.                                                             *)

\* A stamp is a promise that every version up to it is in place, and a
\* connection that was handed out has all its build needs, whatever crashed or
\* ran beside it (migrations.rs, step and the fresh install).  A file one build
\* began and another finished is left out: it may lack the later columns.
StampTrue == tables # Mixed =>
    /\ stamp # Unreadable => \A v \in Versions : v <= stamp => v \in applied
    /\ \A o \in Openers : opener[o].at = "open" => \A v \in Versions : v <= Builds[o] => v \in applied

\* With one connection migrating at a time, the sent counts are credited at
\* most once over every crash and retry (migrations.rs, step: "the v21
\* backfill is not idempotent"), and a plaintext SMTP chosen since v18 is not
\* reset by an upgrade that is already behind it.
CreditedOnce == ~together => credit <= 1
KeepsChoice  == ~together /\ chosen = "plain" => chosen' = "plain"

(* A stamp means its versions are in place, and what must not run twice does *)
(* not (migrations.rs, step and ensure_schema).                              *)
MigratedOnce == [](StampTrue /\ CreditedOnce) /\ [][KeepsChoice]_schemaVars

-----------------------------------------------------------------------------
(* MigratedOnce for any number of openers and builds, whatever crashes.      *)

BuildsOK == Builds \in [Openers -> Versions] /\ Stamps \subseteq Nat

Places == {"closed", "create", "insert", "step", "open", "failed"}
Typed ==
  /\ stamp \in Nat /\ credit \in Nat /\ together \in BOOLEAN
  /\ opener \in [Openers -> [at : Places, from : Nat, next : Nat]]

\* StampTrue while an opener is under way: what it has done is in place.
Promised ==
  tables # Mixed =>
    /\ stamp # Unreadable => \A v \in Versions : v <= stamp => v \in applied
    /\ \A o \in Openers, v \in Versions :
         /\ opener[o].at \in {"insert", "open"} /\ v <= Builds[o] => v \in applied
         /\ opener[o].at = "step" /\ v < opener[o].next => v \in applied

InRange ==
  \A o \in Openers : opener[o].at = "step" =>
    opener[o].next >= 2 /\ opener[o].next <= Builds[o] + 1

\* One at a time: the stamp follows the opener that is under way, no open
\* connection is ahead of it, and what v18 and v21 did is behind it.
Busy(o) == opener[o].at \in {"create", "insert", "step"}
OneAtATime ==
  /\ \A o, p \in Openers : Busy(o) /\ Busy(p) => o = p
  /\ \A o \in Openers : opener[o].at = "step" => opener[o].next = stamp + 1
  /\ \A o \in Openers : opener[o].at = "open" => Builds[o] <= stamp
  /\ credit = 0 \/ (credit = 1 /\ stamp >= 21)
  /\ chosen = "plain" => stamp >= 18

SchemaInv == Typed /\ Promised /\ InRange /\ (~together => OneAtATime)

(* One lemma per group of steps of an opener.                                *)
LEMMA CreatingKeeps ==
  ASSUME BuildsOK, SchemaInv, NEW o \in Openers,
         Open(o) \/ CreateSome(o) \/ CreateRest(o)
  PROVE  SchemaInv'
<1> USE DEF SchemaInv, BuildsOK
<1>1. CASE Open(o)
  <2> DEFINE place == CASE stamp = Unreadable \/ stamp > Builds[o] -> "failed"
                        [] stamp = Fresh -> "create" [] OTHER -> "step"
  <2>1. /\ opener' = [opener EXCEPT ![o] = [at |-> place, from |-> stamp, next |-> stamp + 1]]
        /\ opener[o].at = "closed"
        /\ together \/ \A p \in Openers : opener[p].at \in {"closed", "open", "failed"}
        /\ UNCHANGED <<stamp, tables, applied, credit, chosen, together>>
    BY <1>1 DEF Open
  <2>2. /\ place \in {"failed", "create", "step"}
        /\ place = "step" => stamp # Unreadable /\ stamp <= Builds[o] /\ stamp # Fresh
    BY DEF Typed, Versions
  <2> HIDE DEF place
  <2>3. Typed'
    BY <2>1, <2>2 DEF Typed, Places
  <2>4. Promised'
    BY <2>1, <2>2 DEF Typed, Promised, Versions
  <2>5. InRange'
    BY <2>1, <2>2 DEF Typed, InRange, Versions, Fresh
  <2>6. ~together' => OneAtATime'
    BY <2>1, <2>2 DEF Typed, OneAtATime, Busy
  <2> QED
    BY <2>3, <2>4, <2>5, <2>6
<1>2. CASE CreateSome(o)
  BY <1>2 DEF CreateSome, Typed, Promised, InRange, OneAtATime, Busy, Versions, Mixed
<1>3. CASE CreateRest(o)
  <2>1. Typed' /\ InRange' /\ (~together' => OneAtATime')
    BY <1>3 DEF CreateRest, Typed, Places, InRange, OneAtATime, Busy
  <2>2. tables' # Mixed => tables # Mixed
    BY <1>3 DEF CreateRest, Mixed
  <2>3. Promised'
    BY <1>3, <2>2 DEF CreateRest, Typed, Promised
  <2> QED
    BY <2>1, <2>3
<1> QED
  BY <1>1, <1>2, <1>3

LEMMA StampingKeeps ==
  ASSUME BuildsOK, SchemaInv, NEW o \in Openers, InsertStamp(o) \/ Finish(o)
  PROVE  SchemaInv'
<1> USE DEF SchemaInv, BuildsOK
<1>1. Builds[o] \in 2..26
  BY DEF Versions
<1>2. CASE InsertStamp(o)
  <2>1. Typed' /\ InRange'
    BY <1>1, <1>2 DEF InsertStamp, Typed, Places, InRange
  <2>2. Promised'
    BY <1>1, <1>2 DEF InsertStamp, Typed, Promised, Versions, Fresh
  <2>3. ~together' => OneAtATime'
    BY <1>1, <1>2 DEF InsertStamp, Typed, OneAtATime, Busy, Fresh, Versions
  <2> QED
    BY <2>1, <2>2, <2>3
<1>3. CASE Finish(o)
  <2>1. Typed' /\ InRange'
    BY <1>1, <1>3 DEF Finish, Typed, Places, InRange
  <2>2. \A v \in Versions : v <= Builds[o] => v < opener[o].next
    BY <1>1, <1>3 DEF Finish, Typed, Versions
  <2>3. Promised'
    BY <1>1, <1>3, <2>2 DEF Finish, Typed, Promised
  <2>4. ~together' => stamp' = stamp
    BY <1>1, <1>3 DEF Finish, Typed, InRange, OneAtATime
  <2>5. ~together' => OneAtATime'
    BY <1>1, <1>3, <2>4 DEF Finish, Typed, InRange, OneAtATime, Busy
  <2> QED
    BY <2>1, <2>3, <2>5
<1> QED
  BY <1>2, <1>3

LEMMA SteppingKeeps ==
  ASSUME BuildsOK, SchemaInv, NEW o \in Openers, NEW works \in BOOLEAN, Step(o, works)
  PROVE  SchemaInv' /\ KeepsChoice
<1> USE DEF SchemaInv, BuildsOK
<1> DEFINE v == opener[o].next
<1>1. /\ opener[o].at = "step" /\ v <= Builds[o]
      /\ applied' = applied \cup {v} /\ stamp' = v
      /\ credit' = IF v = 21 /\ works THEN credit + 1 ELSE credit
      /\ chosen' = IF v = 18 THEN "starttls" ELSE chosen
      /\ opener' = [opener EXCEPT ![o].next = v + 1]
      /\ UNCHANGED <<tables, together>>
  BY DEF Step, Add, Repaired, Credited, Reset
<1>2. /\ Builds[o] \in 2..26 /\ v \in 2..26
      /\ opener[o] \in [at : Places, from : Nat, next : Nat]
  <2>1. Builds[o] \in 2..26
    BY DEF Versions
  <2>2. opener[o] \in [at : Places, from : Nat, next : Nat]
    BY DEF Typed
  <2>3. v \in Nat /\ v >= 2 /\ v <= Builds[o]
    BY <1>1, <2>2 DEF InRange
  <2> QED
    BY <2>1, <2>2, <2>3
<1>3. /\ opener'[o] = [opener[o] EXCEPT !.next = v + 1]
      /\ \A p \in Openers \ {o} : opener'[p] = opener[p]
  BY <1>1 DEF Typed
<1> HIDE DEF v
<1>4. opener'[o].at = "step" /\ opener'[o].next = v + 1
  BY <1>1, <1>2, <1>3
<1>5. Typed' /\ InRange'
  <2>1. opener' \in [Openers -> [at : Places, from : Nat, next : Nat]]
    BY <1>1, <1>2 DEF Typed
  <2>2. Typed'
    BY <1>1, <1>2, <2>1 DEF Typed
  <2>3. InRange'
    BY <1>1, <1>2, <1>3, <1>4 DEF InRange
  <2> QED
    BY <2>2, <2>3
<1>6. Promised'
  BY <1>1, <1>2, <1>3, <1>4 DEF Typed, Promised, Versions, v
<1>7. ~together => v = stamp + 1
  BY <1>1 DEF OneAtATime, v
<1>8. ASSUME ~together
      PROVE  OneAtATime'
  <2>1. \A p \in Openers : Busy(p)' <=> Busy(p)
    BY <1>1, <1>3, <1>4 DEF Busy
  <2>2. \A p \in Openers : opener'[p].at = "step" => p = o
    BY <1>1, <1>3, <1>8 DEF OneAtATime, Busy
  <2>3. ASSUME NEW p \in Openers, opener'[p].at = "open"
        PROVE  Builds[p] <= stamp /\ Builds[p] \in Nat
    <3>1. opener[p].at = "open"
      BY <1>3, <1>4, <2>3
    <3> QED
      BY <1>8, <3>1 DEF OneAtATime, Versions
  <2>4. stamp' = stamp + 1 /\ stamp \in Nat
    BY <1>1, <1>7, <1>8 DEF Typed
  <2>5. credit' = 0 \/ (credit' = 1 /\ stamp' >= 21)
    BY <1>1, <1>8, <2>4 DEF OneAtATime
  <2>6. chosen' = "plain" => stamp' >= 18
    BY <1>1, <1>8, <2>4 DEF OneAtATime
  <2> QED
    BY <1>1, <1>4, <1>8, <2>1, <2>2, <2>3, <2>4, <2>5, <2>6 DEF OneAtATime
<1>9. KeepsChoice
  BY <1>1, <1>7 DEF Typed, OneAtATime, KeepsChoice
<1> QED
  BY <1>1, <1>5, <1>6, <1>8, <1>9

(* The schema's promises, for any openers and builds.                        *)
THEOREM MigratesOnce ==
  ASSUME BuildsOK
  PROVE  SchemaSpec => MigratedOnce
<1>1. BuildsOK /\ SchemaInit => SchemaInv
  BY DEF BuildsOK, SchemaInit, SchemaInv, Typed, Places, Promised, InRange, OneAtATime, Busy,
         Closed, Versions, Unreadable
<1>2. BuildsOK /\ SchemaInv /\ [SchemaNext]_schemaVars
        => SchemaInv' /\ (KeepsChoice \/ UNCHANGED schemaVars)
  <2> SUFFICES ASSUME BuildsOK, SchemaInv, [SchemaNext]_schemaVars
               PROVE  SchemaInv' /\ (KeepsChoice \/ UNCHANGED schemaVars)
    OBVIOUS
  <2>1. ASSUME NEW o \in Openers, NEW works \in BOOLEAN, Step(o, works)
        PROVE  SchemaInv' /\ KeepsChoice
    BY <2>1, SteppingKeeps
  <2>2. ASSUME NEW o \in Openers,
               \/ Open(o) \/ CreateSome(o) \/ CreateRest(o) \/ InsertStamp(o) \/ Finish(o)
        PROVE  SchemaInv' /\ KeepsChoice
    <3>1. KeepsChoice
      BY <2>2 DEF KeepsChoice, Open, CreateSome, CreateRest, InsertStamp, Finish
    <3> QED
      BY <2>2, <3>1, CreatingKeeps, StampingKeeps
  <2>3. CASE (\E o \in Openers : StepFails(o) \/ Retry(o)) \/ Killed
    BY <2>3 DEF StepFails, Retry, Killed, SchemaInv, Typed, Places, Promised, InRange,
                OneAtATime, Busy, Closed, KeepsChoice
  <2>4. CASE Choose
    <3>1. PICK o \in Openers : opener[o].at = "open" /\ Builds[o] >= 18
      BY <2>4 DEF Choose
    <3>2. ~together => stamp >= 18
      BY <3>1 DEF SchemaInv, Typed, OneAtATime, BuildsOK, Versions
    <3> QED
      BY <2>4, <3>2 DEF Choose, SchemaInv, Typed, Promised, InRange, OneAtATime, Busy, KeepsChoice
  <2>5. CASE UNCHANGED schemaVars
    BY <2>5 DEF schemaVars, SchemaInv, Typed, Promised, InRange, OneAtATime, Busy
  <2> QED
    BY <2>1, <2>2, <2>3, <2>4, <2>5 DEF SchemaNext
<1>3. SchemaInv => StampTrue /\ CreditedOnce
  BY DEF SchemaInv, Promised, OneAtATime, StampTrue, CreditedOnce
<1> QED
  BY <1>1, <1>2, <1>3, PTL DEF SchemaSpec, MigratedOnce
=============================================================================
