---------------------------- MODULE SessionPool -----------------------------
(***************************************************************************)
(* The pool of IMAP sessions (sync/pool.rs) of one account, the jobs of    *)
(* the net thread that lease sessions from it, and the UI thread that      *)
(* edits (store/account_form.rs) or removes the account meanwhile.         *)
(*                                                                         *)
(* Connection details and passwords are version numbers; 0 is "no entry".  *)
(* A session remembers the versions it was opened with.                    *)
(***************************************************************************)
EXTENDS Naturals

CONSTANTS
  MaxEdits,       \* bound of the model: edits and removals begun
  MaxGeneration   \* bound of the model: jobs evict up to this generation

ASSUME BoundsOK == MaxEdits \in Nat /\ MaxGeneration \in Nat

VARIABLES
  row,         \* connection details stored in the accounts table
  vault,       \* password stored in the keyring
  idle,        \* the pool: the idle session, as a set of at most one
  generation,  \* the pool's generation of this account
  ui,          \* where the UI thread is in an edit or a removal
  previous,    \* the password an edit replaced; 0 when it replaced none
  job,         \* where the job of the net thread is
  acc,         \* connection details in the Account value the job holds
  secret,      \* the password connect_fresh has loaded
  lease,       \* the session in the job's hands, as a set of at most one
  leaseGen,    \* SessionLease::generation
  edits,       \* edits and removals begun, the source of new versions
  halfway      \* history: one of them stopped half-way, no eviction since

uiVars  == <<row, vault, ui, previous, edits>>
jobVars == <<job, acc, secret, lease, leaseGen>>
vars == <<uiVars, jobVars, idle, generation, halfway>>

Session == [row : Nat, secret : Nat \ {0}, connected : BOOLEAN]

\* Faulty variants: an eviction that leaves leases alone, and one that only
\* counts.
evict_KeepsGeneration == idle' = {} /\ generation' = generation /\ halfway' = FALSE
evict_KeepsIdle == idle' = idle /\ generation' = generation + 1 /\ halfway' = FALSE

evict_session == idle' = {} /\ generation' = generation + 1 /\ halfway' = FALSE

Init ==
  /\ row = 1 /\ vault = 1
  /\ idle = {} /\ generation = 0
  /\ ui = "idle" /\ previous = 0
  /\ job = "idle" /\ acc = 0 /\ secret = 0 /\ lease = {} /\ leaseGen = 0
  /\ edits = 0 /\ halfway = FALSE

-----------------------------------------------------------------------------
(* The UI thread.                                                          *)

NewVersion == edits + 2

\* save_edit stores the passwords first, unless both fields were left blank.
SaveSecret ==
  /\ ui = "idle" /\ row # 0 /\ edits < MaxEdits
  /\ edits' = edits + 1
  /\ ui' = "update"
  /\ \/ vault' = vault /\ previous' = 0
     \/ vault' = NewVersion /\ previous' = vault
  /\ UNCHANGED <<row, jobVars, idle, generation, halfway>>

\* update_connection, with other connection details or the same ones.
UpdateConnection ==
  /\ ui = "update"
  /\ row' \in {row, edits + 1}
  /\ ui' = "evict"
  /\ UNCHANGED <<vault, previous, edits, jobVars, idle, generation, halfway>>

\* update_connection fails: the passwords go back if they were replaced and
\* the old ones could be read and written; the pool is not touched.
UpdateFails ==
  /\ ui = "update"
  /\ vault' \in IF previous = 0 THEN {vault} ELSE {vault, previous}
  /\ ui' = "idle"
  /\ halfway' = TRUE
  /\ UNCHANGED <<row, previous, edits, jobVars, idle, generation>>

\* delete_account drops the keyring entry, or warns that it could not.
DeleteSecrets ==
  /\ ui = "idle" /\ row # 0 /\ edits < MaxEdits
  /\ edits' = edits + 1
  /\ vault' \in {0, vault}
  /\ ui' = "delete"
  /\ UNCHANGED <<row, previous, jobVars, idle, generation, halfway>>

\* accounts::delete; if it fails delete_account returns there and then.
DeleteAccount ==
  /\ ui = "delete"
  /\ \/ row' = 0 /\ ui' = "evict" /\ halfway' = halfway
     \/ row' = row /\ ui' = "idle" /\ halfway' = TRUE
  /\ UNCHANGED <<vault, previous, edits, jobVars, idle, generation>>

\* Both end with evict_session.
EvictSession ==
  /\ ui = "evict"
  /\ evict_session
  /\ ui' = "idle"
  /\ UNCHANGED <<row, vault, previous, edits, jobVars>>

\* disconnect_all / shutdown: idle sessions go, leases stay valid.
DropAllSessions ==
  /\ idle' = {}
  /\ UNCHANGED <<uiVars, jobVars, generation, halfway>>

-----------------------------------------------------------------------------
(* The net thread: one job at a time.                                      *)

\* job_account: a copy of the row, used for all that follows.
JobAccount ==
  /\ job = "idle" /\ row # 0
  /\ acc' = row
  /\ job' = "account"
  /\ UNCHANGED <<uiVars, secret, lease, leaseGen, idle, generation, halfway>>

\* checkout_session takes the idle session and the generation under one lock.
CheckoutSession ==
  /\ job = "account"
  /\ lease' = idle /\ idle' = {}
  /\ leaseGen' = generation
  /\ job' = "probe"
  /\ UNCHANGED <<uiVars, acc, secret, generation, halfway>>

\* is_healthy: a NOOP answered.  Otherwise the session is replaced.
Probe ==
  /\ job = "probe"
  /\ \/ lease # {} /\ job' = "leased" /\ lease' = lease
     \/ job' = "connect" /\ lease' = {}
  /\ UNCHANGED <<uiVars, acc, secret, leaseGen, idle, generation, halfway>>

\* connect_fresh reads the vault, however old the Account value is; without
\* a password the job ends.
LoadSecrets ==
  /\ job = "connect"
  /\ \/ vault # 0 /\ secret' = vault /\ job' = "login"
     \/ vault = 0 /\ secret' = 0 /\ job' = "idle"
  /\ UNCHANGED <<uiVars, acc, lease, leaseGen, idle, generation, halfway>>

Connect ==
  /\ job = "login"
  /\ \/ /\ lease' = {[row |-> acc, secret |-> secret, connected |-> TRUE]}
        /\ job' = "leased"
     \/ lease' = {} /\ job' = "idle"
  /\ UNCHANGED <<uiVars, acc, secret, leaseGen, idle, generation, halfway>>

\* The transport fails under the job, which may not notice before check-in.
Break ==
  /\ job = "leased"
  /\ lease' = {[s EXCEPT !.connected = FALSE] : s \in lease}
  /\ UNCHANGED <<uiVars, job, acc, secret, leaseGen, idle, generation, halfway>>

\* Faulty variant: check-in does not look at the generation.
Checkin_AnyGeneration ==
  /\ job = "leased"
  /\ idle' = IF \E s \in lease : s.connected THEN lease ELSE idle
  /\ lease' = {}
  /\ job' \in {"idle", "account", "suspect"}
  /\ UNCHANGED <<uiVars, acc, secret, leaseGen, generation, halfway>>

\* SessionLease::checkin.  The job ends, checks out again with the same
\* Account value (deliver does), or evicts a session it does not trust.
Checkin ==
  /\ job = "leased"
  /\ idle' = IF leaseGen = generation /\ (\E s \in lease : s.connected)
               THEN lease ELSE idle
  /\ lease' = {}
  /\ job' \in {"idle", "account", "suspect"}
  /\ UNCHANGED <<uiVars, acc, secret, leaseGen, generation, halfway>>

\* An error, a panic or an early return: the lease disconnects on drop.
DropLease ==
  /\ job = "leased"
  /\ lease' = {}
  /\ job' \in {"idle", "account"}
  /\ UNCHANGED <<uiVars, acc, secret, leaseGen, idle, generation, halfway>>

\* save_draft evicts after a failed expunge.
EvictSuspect ==
  /\ job = "suspect" /\ generation < MaxGeneration
  /\ evict_session
  /\ job' = "idle"
  /\ UNCHANGED <<uiVars, acc, secret, lease, leaseGen>>

-----------------------------------------------------------------------------
Ui == SaveSecret \/ UpdateConnection \/ UpdateFails \/ DeleteSecrets
      \/ DeleteAccount \/ EvictSession \/ DropAllSessions

Net == JobAccount \/ CheckoutSession \/ Probe \/ LoadSecrets \/ Connect
       \/ Break \/ Checkin \/ DropLease \/ EvictSuspect

Next == Ui \/ Net

Spec == Init /\ [][Next]_vars

-----------------------------------------------------------------------------
(* Properties.                                                             *)

PoolTypeOK ==
  /\ row \in Nat /\ vault \in Nat /\ previous \in Nat /\ edits \in 0..MaxEdits
  /\ ui \in {"idle", "update", "delete", "evict"}
  /\ idle \subseteq Session /\ lease \subseteq Session
  /\ generation \in Nat /\ leaseGen \in Nat
  /\ job \in {"idle", "account", "probe", "connect", "login", "leased", "suspect"}
  /\ acc \in Nat /\ secret \in Nat
  /\ halfway \in BOOLEAN

\* Nothing is being edited, and the last edit was carried through.
Quiet == ui = "idle" /\ ~halfway

(* No idle session is logged in with a password that an edit replaced: a    *)
(* lease of before the edit does not come back, and one of after it was     *)
(* opened with the new password (pool::evict_session, SessionLease::checkin,*)
(* connect_fresh against account_form::save_edit).                          *)
PasswordCurrent == Quiet => \A s \in idle : s.secret = vault

(* Once an account and its keyring entry are removed no session of it stays *)
(* open in the pool (delete_account, evict_session).                        *)
RemovedStays == ui = "idle" /\ row = 0 /\ vault = 0 => idle = {}

(* After an edit the next action connects with the new values: no idle      *)
(* session is connected to what was configured before (save_edit,           *)
(* evict_session).                                                          *)

\* The inductive invariant behind PasswordCurrent and RemovedStays: whatever
\* a job of the current generation holds is current too.
CurrentJob ==
  leaseGen = generation =>
    /\ job \in {"probe", "leased"} => \A s \in lease : s.secret = vault
    /\ job = "login" => secret = vault

(* Every session and password a job of the current generation holds is the  *)
(* one in the keyring, so what it checks in is too (checkout_session reads  *)
(* the generation before connect_fresh reads the vault).                    *)
PoolInv ==
  /\ PoolTypeOK
  /\ leaseGen <= generation
  /\ job = "login" => secret # 0
  /\ row = 0 => ui \in {"idle", "evict"} /\ (ui = "idle" => ~halfway)
  /\ PasswordCurrent
  /\ Quiet => CurrentJob
=============================================================================
