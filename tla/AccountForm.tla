----------------------------- MODULE AccountForm -----------------------------
(***************************************************************************)
(* The account form (mailcore store/account_form.rs): saving an account,   *)
(* testing what would be saved, and deleting one (api/accounts.rs, the     *)
(* desktop's bridge/accounts.rs).  An account is a row of the database and *)
(* an entry of the keyring under the row's vault key (auth.rs); the two    *)
(* are written one after the other, and each write may fail.               *)
(*                                                                         *)
(* A connection is what the row says of servers and users; the password    *)
(* that opens it is the value of the same name.                            *)
(***************************************************************************)
EXTENDS Naturals, FiniteSets

CONSTANTS Ids, Emails, Conns, Keys, \* accounts, addresses, connections, vault keys
          None,                     \* no row, no entry
          MaxSaves, MaxFaults       \* saves and deletes, and failed calls, in a behaviour

Blank == "blank"        \* an empty password; as stored SMTP password "same as IMAP"
Passwords == Conns \cup {Blank}
\* New accounts carry the id None.
FormsOf(ids) == [id : ids, email : Emails, conn : Conns, imap : Passwords, smtp : Passwords]
Forms == FormsOf(Ids \cup {None})
Secrets(imap, smtp) == [imap |-> imap, smtp |-> smtp]

VARIABLES
  row,     \* [Ids -> None or the account's row]
  vault,   \* [Keys -> None or the stored passwords]
  locked,  \* the keyring cannot be read
  call,    \* the save or delete that runs
  active,  \* last_active_account_id
  saves, faults,
  torn,    \* history: the keys a fault or a crash left in between
  wrong    \* history: the keys the user entered a password for that does not fit

formVars == <<row, vault, locked, call, active, saves, faults, torn, wrong>>

Known == {a \in Ids : row[a] # None}
NoCall     == [at |-> "idle"]
Fault    == faults < MaxFaults /\ faults' = faults + 1

-----------------------------------------------------------------------------
(* What a save stores and what a test tries.                               *)

\* The inline check of the form: a new account needs its password.
Complete(f) == f.id = None => f.imap # Blank

\* Another account's address is refused, and so is an account that is gone.
Acceptable(f) ==
    /\ Complete(f)
    /\ \A a \in Known \ {f.id} : row[a].email # f.email
    /\ f.id \in Known \cup {None}

StoredOf(a) == vault[row[a].key]
Readable(a) == ~locked /\ StoredOf(a) # None

\* Faulty: a keyring that cannot be read does not stop an edit.
Savable_Any(f) == TRUE

\* An unreadable entry matters only when the IMAP password is not replaced.
Savable(f) == f.id # None /\ f.imap = Blank /\ f.smtp # Blank => Readable(f.id)

\* Faulty: a blank field of an edit is stored as it is.
Stored_Blank(f) == Secrets(f.imap, f.smtp)

\* On an edit each blank field keeps its stored value.
Stored(f) ==
    IF f.id = None THEN Secrets(f.imap, f.smtp)
    ELSE LET old == IF Readable(f.id) THEN StoredOf(f.id) ELSE Secrets(Blank, Blank)
         IN  Secrets(IF f.imap = Blank THEN old.imap ELSE f.imap,
                     IF f.smtp = Blank THEN old.smtp ELSE f.smtp)

\* Empty SMTP falls back to the IMAP password on load.
Resolved(s) == [s EXCEPT !.smtp = IF s.smtp = Blank THEN s.imap ELSE s.smtp]

\* Faulty: the SMTP password of the vault is tested as it is.
Tested_Raw(f) == IF f.imap # Blank THEN Resolved(Secrets(f.imap, f.smtp)) ELSE StoredOf(f.id)

\* The connection test takes both from the form, or both from the vault.
Tested(f) == IF f.imap # Blank THEN Resolved(Secrets(f.imap, f.smtp)) ELSE Resolved(StoredOf(f.id))

-----------------------------------------------------------------------------
(* save: the secret first, then the row, then what is shown next.          *)

\* The user enters a connection with the passwords that open it.
Entered(f) ==
    LET same == f.id # None /\ f.conn = row[f.id].conn
    IN  /\ f.imap = f.conn \/ (f.imap = Blank /\ same)
        /\ f.smtp = f.conn \/ (f.smtp = Blank /\ (f.id # None => same \/ StoredOf(f.id).smtp = Blank))

\* Vault keys are random: there is always an unused one.
FreeKeys == {k \in Keys : vault[k] = None /\ \A a \in Known : row[a].key # k}
new_vault_key == CHOOSE k \in FreeKeys : TRUE

Save(f) ==
    /\ call.at = "idle" /\ saves < MaxSaves /\ saves' = saves + 1
    /\ Acceptable(f) /\ Savable(f)
    /\ f.id = None => FreeKeys # {}
    /\ LET k == IF f.id = None THEN new_vault_key ELSE row[f.id].key IN
         call' = [at |-> IF f.imap = Blank /\ f.smtp = Blank THEN "row" ELSE "secret",
                  form |-> f, key |-> k, secret |-> Stored(f),
                  previous |-> IF f.id # None /\ Readable(f.id) THEN StoredOf(f.id) ELSE None,
                  replaced |-> ~(f.imap = Blank /\ f.smtp = Blank)]
    /\ UNCHANGED <<row, vault, locked, active, faults, torn, wrong>>

WriteSecret ==
    /\ call.at = "secret"
    /\ \/ /\ vault' = [vault EXCEPT ![call.key] = call.secret]
          /\ call' = [call EXCEPT !.at = "row"]
          /\ UNCHANGED faults
       \/ Fault /\ call' = NoCall /\ UNCHANGED vault
    /\ UNCHANGED <<row, locked, active, saves, torn, wrong>>

WriteRow ==
    /\ call.at = "row"
    /\ \/ /\ \E a \in IF call.form.id = None THEN Ids \ Known ELSE {call.form.id} :
               /\ row' = [row EXCEPT ![a] = [email |-> call.form.email, conn |-> call.form.conn, key |-> call.key]]
               /\ active' = a
          /\ wrong' = IF Entered(call.form) THEN wrong ELSE wrong \cup {call.key}
          /\ call' = NoCall /\ UNCHANGED faults
       \/ /\ Fault
          /\ call' = IF call.replaced THEN [call EXCEPT !.at = "back"] ELSE NoCall
          /\ UNCHANGED <<row, active, wrong>>
    /\ UNCHANGED <<vault, locked, saves, torn>>

\* Faulty: what the failed save wrote stays.
PutBack_Never ==
    /\ call.at = "back"
    /\ call' = NoCall
    /\ UNCHANGED <<row, vault, locked, active, saves, faults, torn, wrong>>

\* The row failed: an edit puts the old passwords back, if it could read
\* them, a new account's entry goes.
PutBack ==
    /\ call.at = "back"
    /\ LET new == call.form.id = None
       IN  \/ /\ new \/ call.previous # None
              /\ vault' = [vault EXCEPT ![call.key] = IF new THEN None ELSE call.previous]
              /\ UNCHANGED <<faults, torn, wrong>>
           \/ /\ IF ~new /\ call.previous = None THEN UNCHANGED faults ELSE Fault
              /\ torn' = torn \cup {call.key}
              /\ UNCHANGED vault
    /\ call' = NoCall
    /\ UNCHANGED <<row, locked, active, saves, wrong>>

-----------------------------------------------------------------------------
(* delete_account                                                          *)

Delete(a) ==
    /\ call.at = "idle" /\ saves < MaxSaves /\ saves' = saves + 1
    /\ a \in Known
    /\ call' = [at |-> "delete", id |-> a, key |-> row[a].key]
    /\ UNCHANGED <<row, vault, locked, active, faults, torn, wrong>>

\* Faulty: the entry of a deleted account is left behind.
DropSecret_Never ==
    /\ call.at = "delete"
    /\ call' = [call EXCEPT !.at = "drop"]
    /\ UNCHANGED <<row, vault, locked, active, saves, faults, torn, wrong>>

\* A keyring that cannot be reached does not block the delete.
DropSecret ==
    /\ call.at = "delete"
    /\ \/ vault' = [vault EXCEPT ![call.key] = None] /\ UNCHANGED <<faults, torn, wrong>>
       \/ Fault /\ torn' = torn \cup {call.key} /\ UNCHANGED vault
    /\ call' = [call EXCEPT !.at = "drop"]
    /\ UNCHANGED <<row, locked, active, saves, wrong>>

DropRow ==
    /\ call.at = "drop"
    /\ \/ /\ row' = [row EXCEPT ![call.id] = None]
          /\ active' \in IF Known = {call.id} THEN {None} ELSE Known \ {call.id}
          /\ UNCHANGED <<faults, torn, wrong>>
       \/ Fault /\ torn' = torn \cup {call.key} /\ UNCHANGED <<row, active>>
    /\ call' = NoCall
    /\ UNCHANGED <<vault, locked, saves, wrong>>

-----------------------------------------------------------------------------
\* The keyring locks and unlocks; the process dies in a call.
Lock ==
    /\ locked' = ~locked
    /\ IF locked THEN UNCHANGED faults ELSE Fault
    /\ UNCHANGED <<row, vault, call, active, saves, torn, wrong>>
Die ==
    /\ call.at # "idle" /\ Fault
    /\ call' = NoCall /\ torn' = torn \cup {call.key}
    /\ UNCHANGED <<row, vault, locked, active, saves, wrong>>

FormInit ==
    /\ row = [a \in Ids |-> None] /\ vault = [k \in Keys |-> None]
    /\ locked = FALSE /\ call = NoCall /\ active = None
    /\ saves = 0 /\ faults = 0 /\ torn = {} /\ wrong = {}

FormNext == \/ \E f \in Forms : Save(f)
        \/ \E a \in Ids : Delete(a)
        \/ WriteSecret \/ WriteRow \/ PutBack \/ DropSecret \/ DropRow \/ Lock \/ Die

FormSpec == FormInit /\ [][FormNext]_formVars

-----------------------------------------------------------------------------
(* Properties.                                                             *)

\* No password without an account and no account without its password, except
\* where the code says it cannot help it: a restore or a removal that failed,
\* an old password it could not read, a crash between the two writes
\* (account_form.rs, save_edit and create_new; api/accounts.rs, delete_account).
\* Nobody else reads or shares an entry.
SecretsOwned ==
    call.at = "idle" =>
       /\ \A k \in Keys \ torn : vault[k] # None <=> \E a \in Known : row[a].key = k
       /\ \A a, b \in Known : a # b => row[a].key # row[b].key

\* While a user only ever enters a connection with the password that opens it,
\* every account can log in, however often a save failed and whatever it had
\* already written (account_form.rs, save_edit: "so the old host and user keep
\* theirs").
LogsIn ==
    call.at = "idle" => \A a \in Known :
       row[a].key \notin torn \cup wrong => Resolved(StoredOf(a)) = Secrets(row[a].conn, row[a].conn)

\* "On an edit a blank field falls back to the vault": with both passwords
\* typed, or none, what the test tried is what the save leaves
\* (account_form.rs, prepare_connection_test).
TestsWhatItSaves ==
    call.at = "idle" /\ ~locked =>
       \A a \in Known : Readable(a) =>
          \A f \in FormsOf({a}) :
             Acceptable(f) /\ Savable(f) /\ (f.imap = Blank <=> f.smtp = Blank)
             => Tested(f) = Resolved(Stored(f))

\* Rows and keyring entries belong together, saves leave a password that fits,
\* and the connection test tries what a save leaves (account_form.rs, save,
\* create_new and prepare_connection_test; api/accounts.rs, delete_account).
SecretsKept == SecretsOwned /\ LogsIn /\ TestsWhatItSaves
=============================================================================
