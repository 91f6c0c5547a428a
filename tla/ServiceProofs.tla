---------------------------- MODULE ServiceProofs ----------------------------
(***************************************************************************)
(* Accounts and their keyring entries, for any number of accounts, keys,   *)
(* connections, saves and faults: the inductive invariant FormInv behind   *)
(* SecretsKept of AccountForm.  New mail and its alerts, for any number of *)
(* accounts, mails, resets and crashes: the invariants KeptInv (marks and  *)
(* reports) and RangInv (what rang) behind AlertsHonest of NewMail.        *)
(***************************************************************************)
EXTENDS AccountForm, NewMail, FiniteSetTheorems, WellFoundedInduction, TLAPS

RowType == [email : Emails, conn : Conns, key : Keys]
Secret == [imap : Passwords, smtp : Passwords]
SaveCall == [at : {"secret", "row", "back"}, form : Forms, key : Keys, secret : Secret,
             previous : Secret \cup {None}, replaced : BOOLEAN]
DeleteCall == [at : {"delete", "drop"}, id : Ids, key : Keys]

\* None is neither an account nor a row nor an entry, an empty password opens
\* nothing.
NamesOK ==
  /\ None \notin Ids /\ None \notin RowType /\ None \notin Secret
  /\ Blank \notin Conns

Typed ==
  /\ row \in [Ids -> RowType \cup {None}]
  /\ vault \in [Keys -> Secret \cup {None}]
  /\ locked \in BOOLEAN
  /\ call \in {NoCall} \cup SaveCall \cup DeleteCall

Saving == call.at \in {"secret", "row", "back"}
Deleting == call.at \in {"delete", "drop"}
\* The key whose entry and row a call is about to change.
Held == IF call.at = "idle" THEN {} ELSE {call.key}

Used(k) == \E a \in Known : row[a].key = k
Owned(k) == vault[k] # None <=> Used(k)
\* The stored passwords open connection c; no SMTP password means the same one.
Fits(s, c) == s # None /\ s.imap = c /\ s.smtp \in {c, Blank}

Unshared == \A a, b \in Known : a # b => row[a].key # row[b].key

\* The properties, for all keys but the one in a call's hands.
OthersOwned == \A k \in Keys \ (torn \cup Held) : Owned(k)
OthersFit ==
  \A a \in Known : row[a].key \notin torn \cup wrong \cup Held =>
    Fits(vault[row[a].key], row[a].conn)

\* A save works for one row or for none; until it has written the secret the
\* entry is as it was, and what it writes or puts back is known.
SaveInv ==
  LET f == call.form  k == call.key IN
  Saving =>
    /\ call.replaced = ~(f.imap = Blank /\ f.smtp = Blank)
    /\ call.at # "row" => call.replaced
    /\ call.replaced /\ call.at # "secret" => vault[k] = call.secret
    /\ ~call.replaced \/ call.at = "secret" => k \in torn \/ Owned(k)
    /\ f.id = None =>
         /\ f.imap # Blank /\ ~Used(k)
         /\ call.secret = Secrets(f.imap, f.smtp)
    /\ f.id # None =>
         /\ f.id \in Known /\ row[f.id].key = k
         /\ f.imap # Blank => call.secret.imap = f.imap
         /\ f.smtp # Blank => call.secret.smtp = f.smtp
         /\ k \notin torn \cup wrong =>
              LET c == row[f.id].conn IN
              /\ ~call.replaced \/ call.at = "secret" => Fits(vault[k], c)
              /\ call.previous # None => Fits(call.previous, c)
              /\ call.replaced /\ f.imap = Blank => call.secret.imap = c
              /\ f.smtp = Blank => call.secret.smtp \in {c, Blank}

DeleteInv ==
  Deleting =>
    /\ call.id \in Known /\ row[call.id].key = call.key
    /\ call.at = "drop" /\ call.key \notin torn => vault[call.key] = None

FormInv == Typed /\ Unshared /\ OthersOwned /\ OthersFit /\ SaveInv /\ DeleteInv

-----------------------------------------------------------------------------
(* What calls and stored passwords look like.                              *)

LEMMA CallTypes ==
  ASSUME Typed
  PROVE  /\ call.at \in {"idle", "secret", "row", "back", "delete", "drop"}
         /\ call.at = "idle" => call = NoCall
         /\ Saving => call \in SaveCall
         /\ Deleting => call \in DeleteCall
BY DEF Typed, NoCall, SaveCall, DeleteCall, Saving, Deleting

\* Accounts that are there have a row, and its key.
LEMMA KnownRows ==
  ASSUME NamesOK, Typed, NEW a \in Known
  PROVE  a \in Ids /\ row[a] \in RowType /\ row[a].key \in Keys /\ row[a].conn \in Conns
BY DEF NamesOK, Typed, Known, RowType

\* What a save stores: what was typed, and for a blank field of an edit what
\* was there -- known whenever the IMAP password is kept.
LEMMA StoredFields ==
  ASSUME NamesOK, Typed, NEW f \in Forms, Acceptable(f), Savable(f)
  PROVE  /\ Stored(f) \in Secret
         /\ f.id = None => f.imap # Blank /\ Stored(f) = Secrets(f.imap, f.smtp)
         /\ f.id # None =>
              /\ f.id \in Known
              /\ f.imap # Blank => Stored(f).imap = f.imap
              /\ f.smtp # Blank => Stored(f).smtp = f.smtp
              /\ \A c \in Conns : Fits(StoredOf(f.id), c) =>
                   /\ f.imap = Blank /\ f.smtp # Blank => Stored(f).imap = c
                   /\ f.smtp = Blank => Stored(f).smtp \in {c, Blank}
<1>1. /\ f.id \in Ids \cup {None} /\ f.imap \in Passwords /\ f.smtp \in Passwords
      /\ Blank \in Passwords /\ f.id \in Known \cup {None}
  BY DEF Forms, FormsOf, Passwords, Acceptable, Complete
<1>2. CASE f.id = None
  BY <1>1, <1>2 DEF Stored, Secret, Secrets, Acceptable, Complete
<1>3. CASE f.id # None
  <2>1. f.id \in Known /\ row[f.id].key \in Keys
    BY <1>1, <1>3, KnownRows
  <2>2. StoredOf(f.id) \in Secret \cup {None}
    BY <2>1 DEF StoredOf, Typed
  <2> DEFINE old == IF Readable(f.id) THEN StoredOf(f.id) ELSE Secrets(Blank, Blank)
  <2>3. /\ old \in Secret
        /\ Readable(f.id) => old = StoredOf(f.id)
        /\ ~Readable(f.id) => old.smtp = Blank
        /\ f.imap = Blank /\ f.smtp # Blank => Readable(f.id)
    BY <1>1, <1>3, <2>2 DEF Readable, Secret, Secrets, Savable
  <2>4. Stored(f) = Secrets(IF f.imap = Blank THEN old.imap ELSE f.imap,
                            IF f.smtp = Blank THEN old.smtp ELSE f.smtp)
    BY <1>3 DEF Stored
  <2> HIDE DEF old
  <2> QED
    BY <1>1, <1>3, <2>1, <2>3, <2>4 DEF Secret, Secrets, Fits
<1> QED
  BY <1>2, <1>3

-----------------------------------------------------------------------------
(* One lemma per group of steps.                                           *)

\* A save starts: the row it edits, or a key nobody uses.
LEMMA SaveKeeps ==
  ASSUME NamesOK, FormInv, NEW f \in Forms, Save(f)
  PROVE  FormInv'
<1> USE DEF FormInv
<1> DEFINE both == f.imap = Blank /\ f.smtp = Blank
<1>0. PICK k, before, stored :
        /\ k = IF f.id = None THEN new_vault_key ELSE row[f.id].key
        /\ before = IF f.id # None /\ Readable(f.id) THEN StoredOf(f.id) ELSE None
        /\ stored = Stored(f)
  OBVIOUS
<1>1. /\ call.at = "idle" /\ Acceptable(f) /\ Savable(f)
      /\ f.id = None => FreeKeys # {}
      /\ call' = [at |-> IF both THEN "row" ELSE "secret", form |-> f, key |-> k,
                  secret |-> stored, previous |-> before, replaced |-> ~both]
      /\ UNCHANGED <<row, vault, locked, torn, wrong>>
  BY <1>0 DEF Save
<1>2. k \in Keys /\ (f.id = None => ~Used(k)) /\ (f.id # None => f.id \in Known /\ row[f.id].key = k)
  <2>1. CASE f.id = None
    BY <1>0, <1>1, <2>1 DEF new_vault_key, FreeKeys, Used
  <2>2. CASE f.id # None
    BY <1>0, <1>1, <2>2, KnownRows DEF Acceptable, Complete
  <2> QED
    BY <2>1, <2>2
<1>3. before \in Secret \cup {None} /\ (before # None => before = vault[k] /\ f.id # None)
  BY <1>0, <1>2 DEF Typed, StoredOf
<1>4. stored \in Secret
  BY <1>0, <1>1, StoredFields
<1>5. /\ call'.at = (IF both THEN "row" ELSE "secret") /\ call'.form = f /\ call'.key = k
      /\ call'.secret = stored /\ call'.previous = before /\ call'.replaced = ~both
  BY <1>1
<1>6. Held = {} /\ Held' = {k} /\ Known' = Known /\ \A j : Used(j)' <=> Used(j)
  BY <1>1, <1>5 DEF Held, Known, Used
<1>7. Typed'
  <2>1. call' \in SaveCall
    BY <1>1, <1>2, <1>3, <1>4 DEF SaveCall, both
  <2> QED
    BY <1>1, <2>1 DEF Typed
<1>8. Unshared' /\ OthersOwned' /\ OthersFit'
  BY <1>1, <1>6 DEF Unshared, OthersOwned, OthersFit, Owned
<1>9. DeleteInv'
  BY <1>5 DEF DeleteInv, Deleting
<1>10. SaveInv'
  <2>1. k \in torn \/ Owned(k)'
    BY <1>1, <1>2, <1>6 DEF OthersOwned, Owned
  <2>2. ASSUME f.id # None, k \notin torn \cup wrong
        PROVE  Fits(vault[k], row[f.id].conn) /\ StoredOf(f.id) = vault[k]
    BY <1>2, <1>6, <2>2 DEF OthersFit, StoredOf
  <2>3. f.id # None => row[f.id].conn \in Conns
    BY <1>2, KnownRows
  <2>4. CASE f.id = None
    BY <1>1, <1>2, <1>5, <1>6, <2>1, <2>4, StoredFields, <1>0 DEF SaveInv, Saving, both
  <2>5. CASE f.id # None
    <3>1. /\ f.imap # Blank => stored.imap = f.imap
          /\ f.smtp # Blank => stored.smtp = f.smtp
      BY <1>0, <1>1, <2>5, StoredFields
    <3>2. ASSUME k \notin torn \cup wrong
          PROVE  LET c == row[f.id].conn IN
                 /\ Fits(vault[k], c)
                 /\ before # None => Fits(before, c)
                 /\ ~both /\ f.imap = Blank => stored.imap = c
                 /\ f.smtp = Blank => stored.smtp \in {c, Blank}
      BY <1>0, <1>1, <1>3, <2>2, <2>3, <2>5, <3>2, StoredFields DEF both
    <3> QED
      BY <1>1, <1>2, <1>5, <1>6, <2>1, <2>5, <3>1, <3>2 DEF SaveInv, Saving, both, Fits
  <2> QED
    BY <2>4, <2>5
<1> QED
  BY <1>7, <1>8, <1>9, <1>10

\* A call ends before it has changed anything.
LEMMA NothingDone ==
  ASSUME NamesOK, FormInv, Saving, call.at = "secret" \/ ~call.replaced,
         call' = NoCall, UNCHANGED <<row, vault, locked, torn, wrong>>
  PROVE  FormInv'
<1> USE DEF FormInv
<1> DEFINE f == call.form
           k == call.key
<1>1. call \in SaveCall /\ k \in Keys /\ Held = {k}
  BY CallTypes DEF SaveCall, Held, Saving
<1>2. call'.at = "idle" /\ Held' = {} /\ Known' = Known /\ \A j : Used(j)' <=> Used(j)
  BY DEF NoCall, Held, Known, Used
<1>3. k \in torn \/ Owned(k)
  BY DEF SaveInv
<1>4. /\ f.id = None => ~Used(k)
      /\ f.id # None => /\ f.id \in Known /\ row[f.id].key = k
                        /\ k \notin torn \cup wrong => Fits(vault[k], row[f.id].conn)
  BY DEF SaveInv
<1>5. OthersOwned'
  BY <1>1, <1>2, <1>3 DEF OthersOwned, Owned
<1>6. OthersFit'
  <2> SUFFICES ASSUME NEW a \in Known, row[a].key \notin torn \cup wrong
               PROVE  Fits(vault[row[a].key], row[a].conn)
    BY <1>2 DEF OthersFit, Fits
  <2>1. CASE row[a].key # k
    BY <1>1, <2>1 DEF OthersFit
  <2>2. CASE row[a].key = k
    BY <1>4, <2>2 DEF Used, Unshared
  <2> QED
    BY <2>1, <2>2
<1>7. Typed' /\ Unshared' /\ SaveInv' /\ DeleteInv'
  BY <1>2 DEF Typed, Unshared, SaveInv, Saving, DeleteInv, Deleting
<1> QED
  BY <1>5, <1>6, <1>7

\* A call ends in between: its key is torn.
LEMMA LeftTorn ==
  ASSUME NamesOK, FormInv, call.at # "idle", call' = NoCall, torn' = torn \cup {call.key},
         UNCHANGED <<row, vault, locked, wrong>>
  PROVE  FormInv'
<1> USE DEF FormInv
<1>1. Held = {call.key}
  BY DEF Held
<1>2. call'.at = "idle" /\ Held' = {} /\ Known' = Known /\ \A j : Used(j)' <=> Used(j)
  BY DEF NoCall, Held, Known, Used
<1>3. OthersOwned' /\ OthersFit'
  BY <1>1, <1>2 DEF OthersOwned, Owned, OthersFit, Fits
<1>4. Typed' /\ Unshared' /\ SaveInv' /\ DeleteInv'
  BY <1>2 DEF Typed, Unshared, SaveInv, Saving, DeleteInv, Deleting
<1> QED
  BY <1>3, <1>4

\* The secret is written, or the call ends as if it had never been.
LEMMA WriteSecretKeeps ==
  ASSUME NamesOK, FormInv, WriteSecret
  PROVE  FormInv'
<1> USE DEF FormInv
<1> DEFINE f == call.form
           k == call.key
<1>1. call.at = "secret" /\ call \in SaveCall /\ UNCHANGED <<row, locked, torn, wrong>>
  BY CallTypes DEF WriteSecret, Saving
<1>2. k \in Keys /\ call.secret \in Secret /\ Held = {k} /\ call.replaced
  BY <1>1 DEF SaveCall, Held, SaveInv, Saving
<1>3. CASE vault' = [vault EXCEPT ![k] = call.secret] /\ call' = [call EXCEPT !.at = "row"]
  <2>1. /\ call' \in SaveCall /\ call'.at = "row" /\ call'.form = f /\ call'.key = k
        /\ call'.secret = call.secret /\ call'.previous = call.previous
        /\ call'.replaced = call.replaced
    BY <1>1, <1>3 DEF SaveCall
  <2>2. vault'[k] = call.secret /\ \A j \in Keys \ {k} : vault'[j] = vault[j]
    BY <1>2, <1>3 DEF Typed
  <2>3. Held' = {k} /\ Known' = Known /\ \A j : Used(j)' <=> Used(j)
    BY <1>1, <2>1 DEF Held, Known, Used
  <2>4. Typed'
    BY <1>1, <1>2, <1>3, <2>1 DEF Typed
  <2>5. Unshared' /\ DeleteInv'
    BY <1>1, <2>1, <2>3 DEF Unshared, DeleteInv, Deleting
  <2>6. OthersOwned'
    BY <1>1, <1>2, <2>2, <2>3 DEF OthersOwned, Owned
  <2>7. OthersFit'
    BY <1>1, <1>2, <2>2, <2>3, KnownRows DEF OthersFit, Fits
  <2>8. SaveInv'
    BY <1>1, <1>2, <2>1, <2>2, <2>3 DEF SaveInv, Saving, Fits
  <2> QED
    BY <2>4, <2>5, <2>6, <2>7, <2>8
<1>4. CASE call' = NoCall /\ vault' = vault
  BY <1>1, <1>4, NothingDone DEF Saving
<1> QED
  BY <1>3, <1>4 DEF WriteSecret

\* The row is written: what is stored opens what the user entered, or the key
\* is marked.
LEMMA RowWrittenKeeps ==
  ASSUME NamesOK, FormInv, call.at = "row", call' = NoCall,
         NEW a \in IF call.form.id = None THEN Ids \ Known ELSE {call.form.id},
         row' = [row EXCEPT ![a] = [email |-> call.form.email, conn |-> call.form.conn,
                                    key |-> call.key]],
         wrong' = (IF Entered(call.form) THEN wrong ELSE wrong \cup {call.key}),
         UNCHANGED <<vault, locked, torn>>
  PROVE  FormInv'
<1> USE DEF FormInv
<1>0. PICK f, k, s, c : f = call.form /\ k = call.key /\ s = call.secret /\ c = row[a].conn
  OBVIOUS
<1>1. /\ call \in SaveCall /\ f \in Forms /\ k \in Keys /\ s \in Secret /\ Held = {k}
      /\ f.conn \in Conns /\ f.email \in Emails
  BY <1>0, CallTypes DEF SaveCall, Held, Saving, Forms, FormsOf
<1>2. /\ call.replaced = ~(f.imap = Blank /\ f.smtp = Blank)
      /\ call.replaced => vault[k] = s
      /\ ~call.replaced => k \in torn \/ Owned(k)
      /\ f.id = None => f.imap # Blank /\ ~Used(k) /\ s = Secrets(f.imap, f.smtp)
      /\ f.id # None => /\ f.id \in Known /\ row[f.id].key = k
                        /\ f.imap # Blank => s.imap = f.imap
                        /\ f.smtp # Blank => s.smtp = f.smtp
  BY <1>0, <1>1 DEF SaveInv, Saving
<1>3. ASSUME f.id # None, k \notin torn \cup wrong
      PROVE  /\ a = f.id
             /\ ~call.replaced => Fits(vault[k], c)
             /\ call.replaced /\ f.imap = Blank => s.imap = c
             /\ f.smtp = Blank => s.smtp \in {c, Blank}
  BY <1>0, <1>1, <1>3 DEF SaveInv, Saving
<1>4. /\ a \in Ids /\ row'[a] = [email |-> f.email, conn |-> f.conn, key |-> k]
      /\ row'[a] \in RowType /\ row'[a] # None /\ row'[a].key = k /\ row'[a].conn = f.conn
      /\ \A b \in Ids \ {a} : row'[b] = row[b]
  BY <1>0, <1>1, <1>2 DEF Typed, NamesOK, RowType, Known
<1>5. /\ call'.at = "idle" /\ Held' = {} /\ Known' = Known \cup {a}
      /\ \A j : Used(j)' <=> Used(j) \/ j = k
      /\ \A b \in Known \ {a} : row[b].key # k
  <2>1. call'.at = "idle" /\ Held' = {} /\ Known' = Known \cup {a}
    BY <1>4 DEF NoCall, Held, Known
  <2>2. a \in Known => row[a].key = k
    BY <1>0, <1>2
  <2>3. \A b \in Known \ {a} : row[b].key # k
    BY <1>0, <1>2 DEF Unshared, Used
  <2>4. \A j : Used(j)' <=> Used(j) \/ j = k
    BY <1>4, <2>1, <2>2 DEF Used, Known
  <2> QED
    BY <2>1, <2>3, <2>4
<1>6. Typed' /\ SaveInv' /\ DeleteInv'
  BY <1>4, <1>5 DEF Typed, SaveInv, Saving, DeleteInv, Deleting
<1>7. Unshared'
  BY <1>4, <1>5 DEF Unshared, Known
<1>8. OthersOwned'
  <2>1. k \notin torn => vault[k] # None
    BY <1>0, <1>1, <1>2 DEF NamesOK, Owned, Used
  <2> QED
    BY <1>1, <1>5, <2>1 DEF OthersOwned, Owned
<1>9. OthersFit'
  <2>1. ASSUME NEW b \in Known \ {a}, row[b].key \notin torn \cup wrong
        PROVE  Fits(vault[row[b].key], row[b].conn)
    BY <1>1, <1>5, <2>1 DEF OthersFit
  <2>2. ASSUME k \notin torn \cup wrong, Entered(f)
        PROVE  Fits(vault[k], f.conn)
    <3>1. f.conn # Blank /\ s # None
      BY <1>1 DEF NamesOK
    <3>2. CASE f.id = None
      <4>1. call.replaced /\ vault[k] = s
        BY <1>2, <3>2
      <4>2. s.imap = f.imap /\ s.smtp = f.smtp
        BY <1>2, <3>2 DEF Secrets
      <4>3. f.imap = f.conn /\ f.smtp \in {f.conn, Blank}
        BY <2>2, <3>2 DEF Entered
      <4> QED
        BY <3>1, <4>1, <4>2, <4>3 DEF Fits
    <3>3. CASE f.id # None
      <4>1. a = f.id /\ StoredOf(f.id) = vault[k] /\ c = row[f.id].conn
        BY <1>0, <1>2, <1>3, <2>2, <3>3 DEF StoredOf
      <4>2. CASE call.replaced
        BY <1>2, <1>3, <2>2, <3>1, <3>3, <4>1, <4>2 DEF Entered, Fits
      <4>3. CASE ~call.replaced
        BY <1>2, <1>3, <2>2, <3>1, <3>3, <4>1, <4>3 DEF Entered, Fits
      <4> QED
        BY <4>2, <4>3
    <3> QED
      BY <3>2, <3>3
  <2>3. wrong \subseteq wrong' /\ (k \notin wrong' => Entered(f))
    BY <1>0
  <2>4. ASSUME NEW b \in Known', row'[b].key \notin torn \cup wrong'
        PROVE  Fits(vault[row'[b].key], row'[b].conn)
    BY <1>4, <1>5, <2>1, <2>2, <2>3, <2>4 DEF Known
  <2> QED
    BY <1>5, <2>4 DEF OthersFit, Fits
<1> QED
  BY <1>6, <1>7, <1>8, <1>9

\* The row fails: the secret is to be put back, if there is one.
LEMMA RowFailedKeeps ==
  ASSUME NamesOK, FormInv, call.at = "row", UNCHANGED <<row, vault, locked, torn, wrong>>,
         call' = (IF call.replaced THEN [call EXCEPT !.at = "back"] ELSE NoCall)
  PROVE  FormInv'
<1> USE DEF FormInv
<1>1. CASE ~call.replaced
  BY <1>1, NothingDone DEF Saving
<1>2. CASE call.replaced
  <2>1. call \in SaveCall
    BY CallTypes DEF Saving
  <2>2. /\ call' \in SaveCall /\ call'.at = "back" /\ call'.form = call.form
        /\ call'.key = call.key /\ call'.secret = call.secret
        /\ call'.previous = call.previous /\ call'.replaced = call.replaced
    BY <1>2, <2>1 DEF SaveCall
  <2>3. Held' = Held /\ Known' = Known /\ \A j : Used(j)' <=> Used(j)
    BY <2>2 DEF Held, Known, Used
  <2>4. Typed' /\ Unshared' /\ OthersOwned' /\ OthersFit' /\ DeleteInv'
    BY <2>2, <2>3 DEF Typed, Unshared, OthersOwned, Owned, OthersFit, Fits, DeleteInv, Deleting
  <2>5. SaveInv'
    <3>0. PICK k : k = call.key
      OBVIOUS
    <3>1. /\ call.form.id = None => ~Used(k)
          /\ call.form.id # None => call.form.id \in Known
      BY <3>0 DEF SaveInv, Saving
    <3>2. /\ call.form.id = None => ~Used(k)'
          /\ call.form.id # None => call.form.id \in Known'
      BY <2>3, <3>1
    <3>3. call'.form = call.form /\ call'.key = k /\ vault' = vault /\ row' = row
      BY <2>2, <3>0
    <3>4. Saving /\ call.at = "row" /\ call'.at = "back" /\ call.replaced /\ call'.replaced
      BY <1>2, <2>2 DEF Saving
    <3> QED
      BY <2>2, <3>0, <3>2, <3>3, <3>4 DEF SaveInv, Fits
  <2> QED
    BY <2>4, <2>5
<1> QED
  BY <1>1, <1>2

\* The entry is put back as it was, a new one goes.
LEMMA PutBackKeeps ==
  ASSUME NamesOK, FormInv, PutBack
  PROVE  FormInv'
<1> USE DEF FormInv
<1>0. PICK f, k, p : f = call.form /\ k = call.key /\ p = call.previous
  OBVIOUS
<1>1. /\ call.at = "back" /\ call \in SaveCall /\ call' = NoCall /\ f \in Forms /\ k \in Keys
      /\ p \in Secret \cup {None} /\ Held = {k} /\ UNCHANGED <<row, locked, wrong>>
  BY <1>0, CallTypes DEF PutBack, Saving, SaveCall, Held
<1>2. CASE torn' = torn \cup {call.key} /\ vault' = vault
  BY <1>1, <1>2, LeftTorn
<1>3. CASE /\ f.id = None \/ p # None
           /\ vault' = [vault EXCEPT ![k] = IF f.id = None THEN None ELSE p]
           /\ torn' = torn
  <2>1. /\ vault'[k] = IF f.id = None THEN None ELSE p
        /\ \A j \in Keys \ {k} : vault'[j] = vault[j]
    BY <1>1, <1>3 DEF Typed
  <2>2. call'.at = "idle" /\ Held' = {} /\ Known' = Known /\ \A j : Used(j)' <=> Used(j)
    BY <1>1 DEF NoCall, Held, Known, Used
  <2>3. /\ f.id = None => ~Used(k)
        /\ f.id # None => /\ f.id \in Known /\ row[f.id].key = k
                          /\ k \notin torn \cup wrong /\ p # None => Fits(p, row[f.id].conn)
    BY <1>0, <1>1 DEF SaveInv, Saving
  <2>4. Typed' /\ Unshared' /\ SaveInv' /\ DeleteInv'
    BY <1>1, <1>3, <2>2 DEF Typed, Unshared, SaveInv, Saving, DeleteInv, Deleting
  <2>5. OthersOwned'
    BY <1>1, <1>3, <2>1, <2>2, <2>3 DEF OthersOwned, Owned, Used
  <2>6. ASSUME NEW a \in Known, row[a].key \notin torn \cup wrong
        PROVE  Fits(vault'[row[a].key], row[a].conn)
    <3>1. CASE row[a].key # k
      BY <1>1, <2>1, <2>6, <3>1, KnownRows DEF OthersFit
    <3>2. CASE row[a].key = k
      BY <1>3, <2>1, <2>3, <2>6, <3>2 DEF Used, Unshared
    <3> QED
      BY <3>1, <3>2
  <2>7. OthersFit'
    BY <1>1, <1>3, <2>2, <2>6 DEF OthersFit, Fits
  <2> QED
    BY <2>4, <2>5, <2>7
<1> QED
  BY <1>0, <1>2, <1>3 DEF PutBack

\* A delete: the entry goes, then the row; a failure marks the key.
LEMMA DeleteKeeps ==
  ASSUME NamesOK, FormInv, NEW a \in Ids, Delete(a)
  PROVE  FormInv'
<1> USE DEF FormInv
<1>1. /\ call.at = "idle" /\ a \in Known /\ Held = {} /\ UNCHANGED <<row, vault, locked, torn, wrong>>
      /\ call' = [at |-> "delete", id |-> a, key |-> row[a].key]
  BY DEF Delete, Held
<1>2. call'.at = "delete" /\ call'.id = a /\ call'.key = row[a].key /\ call' \in DeleteCall
  BY <1>1, KnownRows DEF DeleteCall
<1>3. Known' = Known /\ \A j : Used(j)' <=> Used(j)
  BY <1>1 DEF Known, Used
<1>4. Typed' /\ Unshared' /\ SaveInv' /\ DeleteInv'
  BY <1>1, <1>2, <1>3 DEF Typed, Unshared, SaveInv, Saving, DeleteInv, Deleting
<1>5. OthersOwned' /\ OthersFit'
  BY <1>1, <1>3 DEF OthersOwned, Owned, OthersFit, Fits
<1> QED
  BY <1>4, <1>5

LEMMA DropSecretKeeps ==
  ASSUME NamesOK, FormInv, DropSecret
  PROVE  FormInv'
<1> USE DEF FormInv
<1>1. /\ call.at = "delete" /\ call \in DeleteCall /\ call' = [call EXCEPT !.at = "drop"]
      /\ UNCHANGED <<row, locked, wrong>>
  BY CallTypes DEF DropSecret, Deleting
<1>2. /\ call'.at = "drop" /\ call'.id = call.id /\ call'.key = call.key /\ call' \in DeleteCall
      /\ call.key \in Keys /\ Held = {call.key} /\ Held' = {call.key}
  BY <1>1 DEF DeleteCall, Held
<1>3. Known' = Known /\ \A j : Used(j)' <=> Used(j)
  BY <1>1 DEF Known, Used
<1>4. \/ vault' = [vault EXCEPT ![call.key] = None] /\ torn' = torn
      \/ vault' = vault /\ torn' = torn \cup {call.key}
  BY DEF DropSecret
<1>5. Typed' /\ Unshared' /\ SaveInv'
  BY <1>1, <1>2, <1>3, <1>4 DEF Typed, Unshared, SaveInv, Saving
<1>6. DeleteInv'
  BY <1>1, <1>2, <1>3, <1>4 DEF Typed, DeleteInv, Deleting
<1>7. \A j \in Keys \ {call.key} : vault'[j] = vault[j]
  BY <1>4 DEF Typed
<1>8. torn \subseteq torn'
  BY <1>4
<1>9. OthersOwned'
  BY <1>1, <1>2, <1>3, <1>7, <1>8 DEF OthersOwned, Owned
<1>10. OthersFit'
  <2> SUFFICES ASSUME NEW a \in Known, row[a].key \notin torn' \cup wrong \cup {call.key}
               PROVE  Fits(vault'[row[a].key], row[a].conn)
    BY <1>1, <1>2, <1>3 DEF OthersFit, Fits
  <2> QED
    BY <1>1, <1>2, <1>7, <1>8, KnownRows DEF OthersFit
<1> QED
  BY <1>5, <1>6, <1>9, <1>10

LEMMA DropRowKeeps ==
  ASSUME NamesOK, FormInv, DropRow
  PROVE  FormInv'
<1> USE DEF FormInv
<1>0. PICK d, k : d = call.id /\ k = call.key
  OBVIOUS
<1>1. /\ call.at = "drop" /\ call \in DeleteCall /\ call' = NoCall /\ d \in Ids /\ k \in Keys
      /\ Held = {k} /\ UNCHANGED <<vault, locked, wrong>>
  BY <1>0, CallTypes DEF DropRow, Deleting, DeleteCall, Held
<1>2. CASE row' = row /\ torn' = torn \cup {call.key}
  BY <1>1, <1>2, LeftTorn
<1>3. CASE row' = [row EXCEPT ![d] = None] /\ torn' = torn
  <2>1. d \in Known /\ row[d].key = k /\ (k \notin torn => vault[k] = None)
    BY <1>0, <1>1 DEF DeleteInv, Deleting
  <2>2. /\ call'.at = "idle" /\ Held' = {} /\ Known' = Known \ {d}
        /\ \A b \in Known' : row'[b] = row[b]
    BY <1>1, <1>3 DEF NoCall, Held, Known, Typed
  <2>3. \A j : Used(j)' <=> Used(j) /\ j # k
    BY <2>1, <2>2 DEF Used, Unshared
  <2>4. Typed' /\ Unshared' /\ SaveInv' /\ DeleteInv'
    BY <1>1, <1>3, <2>2 DEF Typed, Unshared, SaveInv, Saving, DeleteInv, Deleting
  <2>5. OthersOwned'
    BY <1>1, <1>3, <2>1, <2>2, <2>3 DEF OthersOwned, Owned
  <2>6. OthersFit'
    <3> SUFFICES ASSUME NEW b \in Known', row[b].key \notin torn \cup wrong
                 PROVE  Fits(vault[row[b].key], row[b].conn)
      BY <1>1, <1>3, <2>2 DEF OthersFit, Fits
    <3>1. b \in Known /\ row[b].key # k
      BY <2>1, <2>2 DEF Unshared
    <3> QED
      BY <1>1, <3>1 DEF OthersFit
  <2> QED
    BY <2>4, <2>5, <2>6
<1> QED
  BY <1>0, <1>2, <1>3 DEF DropRow

-----------------------------------------------------------------------------
(* SecretsKept, for any accounts, keys, connections, saves and faults: rows  *)
(* and entries belong together, an account whose saves all worked can log    *)
(* in, and the connection test tries what a save would leave.                *)
THEOREM KeepsSecrets ==
  ASSUME NamesOK
  PROVE  FormSpec => []SecretsKept
<1>1. NamesOK /\ FormInit => FormInv
  <2> SUFFICES ASSUME NamesOK, FormInit PROVE FormInv
    OBVIOUS
  <2>1. Known = {} /\ call.at = "idle" /\ call = NoCall
    BY DEF FormInit, Known, NoCall
  <2> QED
    BY <2>1 DEF FormInit, FormInv, Typed, Unshared, OthersOwned, Owned, Used, OthersFit,
                SaveInv, Saving, DeleteInv, Deleting
<1>2. NamesOK /\ FormInv /\ [FormNext]_formVars => FormInv'
  <2> SUFFICES ASSUME NamesOK, FormInv, [FormNext]_formVars PROVE FormInv'
    OBVIOUS
  <2>1. ASSUME NEW f \in Forms, Save(f) PROVE FormInv'
    BY <2>1, SaveKeeps
  <2>2. CASE WriteSecret \/ PutBack
    BY <2>2, WriteSecretKeeps, PutBackKeeps
  <2>3. CASE WriteRow
    <3>1. UNCHANGED <<vault, locked, torn>> /\ call.at = "row"
      BY <2>3 DEF WriteRow
    <3>2. CASE \E a \in IF call.form.id = None THEN Ids \ Known ELSE {call.form.id} :
                 row' = [row EXCEPT ![a] = [email |-> call.form.email, conn |-> call.form.conn,
                                            key |-> call.key]]
               /\ call' = NoCall
               /\ wrong' = (IF Entered(call.form) THEN wrong ELSE wrong \cup {call.key})
      BY <3>1, <3>2, RowWrittenKeeps
    <3>3. CASE /\ call' = (IF call.replaced THEN [call EXCEPT !.at = "back"] ELSE NoCall)
               /\ UNCHANGED <<row, wrong>>
      BY <3>1, <3>3, RowFailedKeeps
    <3> QED
      BY <2>3, <3>2, <3>3 DEF WriteRow
  <2>4. ASSUME NEW a \in Ids, Delete(a) PROVE FormInv'
    BY <2>4, DeleteKeeps
  <2>5. CASE DropSecret \/ DropRow
    BY <2>5, DropSecretKeeps, DropRowKeeps
  <2>6. CASE Lock \/ UNCHANGED formVars
    <3>1. UNCHANGED <<row, vault, call, torn, wrong>> /\ locked' \in BOOLEAN
      BY <2>6 DEF Lock, formVars, FormInv, Typed
    <3> QED
      BY <3>1 DEF FormInv, Typed, Unshared, Known, OthersOwned, Owned, Used, Held, OthersFit,
                  Fits, SaveInv, Saving, DeleteInv, Deleting
  <2>7. CASE Die
    BY <2>7, LeftTorn DEF Die
  <2> QED
    BY <2>1, <2>2, <2>3, <2>4, <2>5, <2>6, <2>7 DEF FormNext
<1>3. NamesOK /\ FormInv => SecretsKept
  <2> SUFFICES ASSUME NamesOK, FormInv PROVE SecretsKept
    OBVIOUS
  <2>1. call.at = "idle" => Held = {}
    BY DEF Held
  <2>2. SecretsOwned
    BY <2>1 DEF FormInv, SecretsOwned, OthersOwned, Owned, Used, Unshared
  <2>3. LogsIn
    <3> SUFFICES ASSUME call.at = "idle", NEW a \in Known, row[a].key \notin torn \cup wrong
                 PROVE  Resolved(StoredOf(a)) = Secrets(row[a].conn, row[a].conn)
      BY DEF LogsIn
    <3>1. Fits(StoredOf(a), row[a].conn)
      BY <2>1 DEF FormInv, OthersFit, StoredOf
    <3>2. StoredOf(a) \in Secret
      BY <3>1, KnownRows DEF FormInv, Typed, StoredOf, Fits
    <3> QED
      BY <3>1, <3>2 DEF Fits, Resolved, Secrets, Secret
  <2>4. TestsWhatItSaves
    <3> SUFFICES ASSUME ~locked, NEW a \in Known, Readable(a), NEW f \in FormsOf({a}),
                        Acceptable(f), Savable(f), f.imap = Blank <=> f.smtp = Blank
                 PROVE  Tested(f) = Resolved(Stored(f))
      BY DEF TestsWhatItSaves
    <3>1. f.id = a /\ a \in Ids /\ a # None
      BY DEF FormsOf, Known, NamesOK
    <3>2. CASE f.imap # Blank
      BY <3>1, <3>2 DEF Tested, Stored, Secrets
    <3>3. CASE f.imap = Blank
      <4>1. f.id \in Known /\ f.id \in Ids /\ Readable(f.id) /\ f.smtp = Blank
        BY <3>1, <3>3
      <4>2. StoredOf(f.id) \in Secret
        BY <4>1, KnownRows DEF FormInv, Typed, StoredOf, Readable
      <4>3. Secrets(StoredOf(f.id).imap, StoredOf(f.id).smtp) = StoredOf(f.id)
        BY <4>2 DEF Secret, Secrets
      <4> QED
        BY <3>1, <3>3, <4>1, <4>3 DEF Tested, Stored
    <3> QED
      BY <3>2, <3>3
  <2> QED
    BY <2>2, <2>3, <2>4 DEF SecretsKept
<1> QED
  BY <1>1, <1>2, <1>3, PTL DEF FormSpec
-----------------------------------------------------------------------------
(* New mail: no mark passes a mail nobody was told of.                     *)

Mark == [v : Nat, u : Nat]
Fetched == {"unread", "done", "gone"}

\* A mail at or below a mark drawn in today's numbering vs.
Below(X, vs, m) == m[1] \in DOMAIN X /\ X[m[1]].v = vs[m[1]] /\ m[2] <= X[m[1]].u

\* No mark is of a numbering to come, and what is below it was fetched.
Drawn(X, ms, vs) ==
  /\ \A a \in DOMAIN X : X[a].v <= vs[a]
  /\ \A m \in Mails : Below(X, vs, m) => ms[m] \in Fetched

\* The unread mails of D below X are among those accounted for.
Covers(X, D, ms, vs, tags) ==
  \A m \in D : ms[m] = "unread" /\ Below(X, vs, m) => <<vs[m[1]], m>> \in tags

\* A report has the tops of every inbox or, if there is nothing to commit, of none.
ReportShape(j) ==
  /\ {"new", "pending"} \subseteq DOMAIN j /\ j.new \subseteq Mails /\ j.based \subseteq Mails
  /\ \/ j.tops \in [Accounts -> Mark] /\ j.ids \in [Accounts -> Nat]
     \/ j.tops \in [{} -> Mark] /\ j.ids \in [{} -> Nat] /\ j.new = {} /\ j.based = {}

JobShape(j) ==
  \/ j.at \in {"idle", "sync"}
  \/ j.at = "tops" /\ j.tops \in [Accounts -> Mark]
  \/ j.at = "deliver" /\ ReportShape(j)
  \/ j.at = "commit" /\ j.tops \in [Accounts -> Mark] \cup [{} -> Mark]

\* A report accounts for what its tops pass: it is in the report, or was told of
\* before; what is new and not listed any more was told of.
ReportKept(j, ms, vs, told) ==
  /\ \A a \in DOMAIN j.ids : j.tops[a].v <= j.ids[a] /\ j.ids[a] <= vs[a]
  /\ \A m \in j.new : j.ids[m[1]] = vs[m[1]] => ms[m] \in Fetched
  /\ Covers(j.tops, Mails, ms, vs, told \cup Tagged(j.ids, j.based \cup j.new))
  /\ Covers(j.tops, j.new \ j.pending, ms, vs, told)

JobKept(j, ms, vs, told) ==
  /\ JobShape(j)
  /\ j.at \in {"tops", "deliver", "commit"} => Drawn(j.tops, ms, vs)
  /\ j.at = "deliver" => ReportKept(j, ms, vs, told)
  /\ j.at = "commit" => Covers(j.tops, Mails, ms, vs, told \cup j.answers)

MarkKept(X, ms, vs, told) ==
  X \in [Accounts -> Mark] /\ Drawn(X, ms, vs) /\ Covers(X, Mails, ms, vs, told)

\* UIDs are given, and mails fetched, in order.
InOrder ==
  \A m, n \in Mails : m[1] = n[1] /\ m[2] < n[2] =>
    /\ mail[n] # "none" => mail[m] # "none"
    /\ mail[n] \in Fetched => mail[m] \in Fetched

MailTyped ==
  /\ world \in Worlds
  /\ mail \in [Mails -> {"none", "server"} \cup Fetched]
  /\ validity \in [Accounts -> Nat \ {0}]
  /\ job = [r \in Threads |-> job[r]]

KeptInv ==
  /\ MailTyped /\ InOrder
  /\ MarkKept(seen, mail, validity, answered) /\ MarkKept(line, mail, validity, answered)
  /\ \A r \in Threads : JobKept(job[r], mail, validity, answered)

-----------------------------------------------------------------------------
(* None rings twice while one checker is on.                               *)

Single == world.kinds # Checkers
InCache(ms, m) == ms[m] \in {"unread", "done"}

\* All that is in the cache is below the tops, but for what the app brought in.
Topped(X, ms, vs, rg) ==
  \A m \in Mails : InCache(ms, m) /\ <<vs[m[1]], m>> \in DOMAIN rg /\ rg[<<vs[m[1]], m>>] # "app" => Below(X, vs, m)

\* What rang was fetched in its numbering.
RangTyped ==
  /\ rang \in [Validities \X Mails -> {"no", "once", "twice", "app"}] /\ crashes \in Nat
  /\ ~Single => \A n \in DOMAIN rang : rang[n] = "no"
  /\ \A n \in DOMAIN rang : rang[n] = "once" =>
       /\ n[1] <= validity[n[2][1]]
       /\ n[1] = validity[n[2][1]] => mail[n[2]] \in Fetched

\* Only checkers that are on check, and the buttons bring no new mail.
OnDuty ==
  /\ \A r \in Checkers : job[r].at # "idle" => r \in world.kinds
  /\ job[Button].at \in {"deliver", "commit"} => job[Button].tops \in [{} -> Mark]
  /\ job[Button].at = "deliver" => job[Button].new = {}

\* What a single checker rang is below the mark or below the tops it is about
\* to commit, and is not new to it again.
RangBelow ==
  /\ \A r \in Checkers : job[r].at \in {"tops", "deliver", "commit"} /\ job[r].tops \in [Accounts -> Mark] =>
       Topped(job[r].tops, mail, validity, rang)
  /\ crashes = 0 =>
       /\ \A m \in Mails : InCache(mail, m) /\ <<validity[m[1]], m>> \in DOMAIN rang /\ rang[<<validity[m[1]], m>>] = "once" =>
            \/ Below(seen, validity, m)
            \/ \E r \in Checkers : job[r].at = "commit" /\ job[r].tops \in [Accounts -> Mark]
       /\ \A r \in Checkers : job[r].at = "deliver" => \A m \in job[r].new :
            <<job[r].ids[m[1]], m>> \in DOMAIN rang => rang[<<job[r].ids[m[1]], m>>] # "once"

RangInv == RangTyped /\ OnDuty /\ (Single => RangBelow) /\ AlertedOnce

-----------------------------------------------------------------------------
(* Lemmas about UIDs and tops.                                             *)

\* A bounded set of numbers has a greatest one.
LEMMA GreatestOf ==
  ASSUME NEW n \in Nat, NEW S \in SUBSET (0..n), S # {}
  PROVE  /\ Maximum(S) \in S
         /\ \A y \in S : y <= Maximum(S)
<1> DEFINE U == 0..n
           R == StrictSubsetOrdering(U)
           T == {y..n : y \in S}
<1>1. IsFiniteSet(U)
  BY FS_Interval
<1>2. IsWellFoundedOn(R, FiniteSubsetsOf(U))
  BY FS_StrictSubsetOrderingWellFounded
<1>3. FiniteSubsetsOf(U) = SUBSET U
  BY <1>1, FS_FiniteSubsetsOfFinite
<1>4. T \subseteq SUBSET U /\ T # {}
  <2>1. \A y \in S : y \in Nat /\ y..n \subseteq U
    OBVIOUS
  <2> QED
    BY <2>1
<1>5. \E x \in T : \A y \in T : ~(<<y, x>> \in R)
  <2> HIDE DEF T, R, U
  <2> QED
    BY <1>2, <1>3, <1>4, WFMin
<1>6. PICK x \in S : \A y \in S : ~(<<y..n, x..n>> \in R)
  BY <1>5
<1>7. ASSUME NEW y \in S, ~(y <= x) PROVE FALSE
  <2>1. y..n \in SUBSET U /\ x..n \in SUBSET U
    OBVIOUS
  <2>2. y..n \subseteq x..n /\ x \in x..n /\ x \notin y..n
    BY <1>7
  <2>3. <<y..n, x..n>> \in R
    BY <2>1, <2>2 DEF StrictSubsetOrdering
  <2> QED
    BY <1>6, <2>3
<1> QED
  BY <1>7 DEF Maximum

\* The top of an inbox is the greatest UID in its cache, or 0.
LEMMA TopIsCached ==
  ASSUME NEW a \in Accounts
  PROVE  /\ TopOf(a) \in Nat
         /\ \A m \in Cached : m[1] = a => m[2] <= TopOf(a)
         /\ TopOf(a) # 0 => \E m \in Cached : m[1] = a /\ m[2] = TopOf(a)
<1> DEFINE S == {0} \cup {m[2] : m \in {c \in Cached : c[1] = a}}
<1>1. S \in SUBSET (0..MaxUid) /\ S # {}
  BY NewMailOK DEF NewMailOK, Cached, Mails
<1>2. Maximum(S) \in S /\ \A y \in S : y <= Maximum(S)
  BY <1>1, GreatestOf, NewMailOK DEF NewMailOK
<1>3. TopOf(a) = Maximum(S)
  BY DEF TopOf
<1>4. TopOf(a) \in S /\ TopOf(a) \in 0..MaxUid /\ \A y \in S : y <= TopOf(a)
  <2> HIDE DEF S
  <2> QED
    BY <1>1, <1>2, <1>3
<1>5. \A m \in Cached : m[1] = a => m[2] \in S
  OBVIOUS
<1>6. TopOf(a) # 0 => \E m \in Cached : m[1] = a /\ m[2] = TopOf(a)
  BY <1>4
<1>7. TopOf(a) \in Nat
  BY <1>4, NewMailOK DEF NewMailOK
<1> QED
  BY <1>4, <1>5, <1>6, <1>7

\* Tops are below nothing that was not fetched, and above all that is cached.
LEMMA TopsDrawn ==
  ASSUME MailTyped, InOrder
  PROVE  /\ Tops \in [Accounts -> Mark]
         /\ Drawn(Tops, mail, validity)
         /\ \A m \in Cached : Below(Tops, validity, m)
<1>1. Tops \in [Accounts -> Mark]
  BY TopIsCached DEF Tops, MarkAt, Mark, MailTyped
<1>2. \A a \in Accounts : Tops[a].v = validity[a] /\ Tops[a].u = TopOf(a)
  BY DEF Tops, MarkAt
<1>3. \A a \in Accounts : Tops[a].v <= validity[a]
  BY <1>2 DEF MailTyped
<1>4. ASSUME NEW m \in Mails, Below(Tops, validity, m) PROVE mail[m] \in Fetched
  <2>1. m[1] \in Accounts /\ m[2] \in Nat /\ m[2] > 0 /\ m[2] <= TopOf(m[1])
    BY <1>2, <1>4, NewMailOK DEF Mails, Below, NewMailOK
  <2>2. TopOf(m[1]) \in Nat
    BY <2>1, TopIsCached
  <2>3. PICK n \in Cached : n[1] = m[1] /\ n[2] = TopOf(m[1])
    BY <2>1, <2>2, TopIsCached
  <2>4. n \in Mails /\ mail[n] \in Fetched
    BY <2>3 DEF Cached, Fetched
  <2>5. CASE m[2] = n[2]
    BY <2>3, <2>4, <2>5 DEF Mails
  <2>6. CASE m[2] < n[2]
    BY <2>3, <2>4, <2>6 DEF InOrder
  <2> QED
    BY <2>1, <2>2, <2>3, <2>5, <2>6
<1>5. ASSUME NEW m \in Cached PROVE Below(Tops, validity, m)
  <2>1. m[1] \in Accounts
    BY DEF Cached, Mails
  <2> QED
    BY <1>1, <1>2, <2>1, TopIsCached DEF Below
<1> QED
  BY <1>1, <1>3, <1>4, <1>5 DEF Drawn

-----------------------------------------------------------------------------
(* What a step does to mails, and what that leaves of marks and reports.   *)

\* In one numbering, what was fetched stays fetched, and becomes unread when it
\* is fetched or by a user who has seen it.
Onward ==
  /\ answered \subseteq answered'
  /\ \A a \in Accounts : validity[a] \in Nat /\ validity'[a] \in Nat /\ validity[a] <= validity'[a]
  /\ \A m \in Mails : validity'[m[1]] = validity[m[1]] =>
       /\ mail[m] \in Fetched => mail'[m] \in Fetched
       /\ mail'[m] = "unread" => \/ mail[m] \in {"unread", "server"}
                                 \/ <<validity[m[1]], m>> \in answered'

\* A mark drawn in a numbering known by now.
LEMMA BelowOnward ==
  ASSUME Onward, NEW X, NEW m \in Mails, X \in [Accounts -> Mark] \cup [{} -> Mark],
         \A a \in DOMAIN X : X[a].v <= validity[a], Below(X, validity', m)
  PROVE  /\ validity'[m[1]] = validity[m[1]]
         /\ Below(X, validity, m)
<1>1. m[1] \in Accounts /\ m[1] \in DOMAIN X /\ X[m[1]] \in Mark
  BY DEF Mails, Below
<1> QED
  BY <1>1 DEF Onward, Below, Mark

\* A mark stays drawn in a known numbering.
LEMMA DrawnOnward ==
  ASSUME Onward, NEW X, X \in [Accounts -> Mark] \cup [{} -> Mark], Drawn(X, mail, validity)
  PROVE  Drawn(X, mail', validity')
<1>1. ASSUME NEW a \in DOMAIN X PROVE X[a].v <= validity'[a]
  BY <1>1 DEF Drawn, Onward, Mark
<1>2. ASSUME NEW m \in Mails, Below(X, validity', m) PROVE mail'[m] \in Fetched
  <2>1. validity'[m[1]] = validity[m[1]] /\ Below(X, validity, m)
    BY <1>2, BelowOnward DEF Drawn
  <2> QED
    BY <2>1 DEF Drawn, Onward
<1> QED
  BY <1>1, <1>2 DEF Drawn

\* What is accounted for below a mark stays so.
LEMMA CoversOnward ==
  ASSUME Onward, NEW X, X \in [Accounts -> Mark] \cup [{} -> Mark], Drawn(X, mail, validity),
         NEW D \in SUBSET Mails, NEW more, Covers(X, D, mail, validity, answered \cup more)
  PROVE  Covers(X, D, mail', validity', answered' \cup more)
<1> SUFFICES ASSUME NEW m \in D, mail'[m] = "unread", Below(X, validity', m)
             PROVE  <<validity'[m[1]], m>> \in answered' \cup more
  BY DEF Covers
<1>1. m \in Mails /\ validity'[m[1]] = validity[m[1]] /\ Below(X, validity, m)
  BY BelowOnward DEF Drawn
<1>2. mail[m] \in Fetched
  BY <1>1 DEF Drawn
<1>3. mail[m] = "unread" \/ <<validity[m[1]], m>> \in answered'
  BY <1>1, <1>2 DEF Onward, Fetched
<1> QED
  BY <1>1, <1>3 DEF Covers, Onward

\* A mark that stays is still right.
LEMMA MarkOnward ==
  ASSUME Onward, NEW X, MarkKept(X, mail, validity, answered)
  PROVE  MarkKept(X, mail', validity', answered')
<1>1. Covers(X, Mails, mail', validity', answered' \cup {})
  BY CoversOnward DEF MarkKept
<1> QED
  BY <1>1, DrawnOnward DEF MarkKept

\* A job that stays where it is is still right.
LEMMA JobOnward ==
  ASSUME Onward, NEW j, JobKept(j, mail, validity, answered)
  PROVE  JobKept(j, mail', validity', answered')
<1>1. JobShape(j)
  BY DEF JobKept
<1>2. j.at \in {"tops", "deliver", "commit"} => j.tops \in [Accounts -> Mark] \cup [{} -> Mark]
  BY <1>1 DEF JobShape, ReportShape
<1>3. j.at \in {"tops", "deliver", "commit"} => Drawn(j.tops, mail', validity')
  BY <1>2, DrawnOnward DEF JobKept
<1>4. j.at = "commit" => Covers(j.tops, Mails, mail', validity', answered' \cup j.answers)
  BY <1>2, CoversOnward DEF JobKept
<1>5. ASSUME j.at = "deliver" PROVE ReportKept(j, mail', validity', answered')
  <2> DEFINE tags == Tagged(j.ids, j.based \cup j.new)
  <2>1. ReportShape(j) /\ ReportKept(j, mail, validity, answered)
    BY <1>1, <1>5 DEF JobShape, JobKept
  <2>2. Covers(j.tops, Mails, mail', validity', answered' \cup tags)
    <3> HIDE DEF tags
    <3>1. Covers(j.tops, Mails, mail, validity, answered \cup tags)
      BY <2>1 DEF ReportKept, tags
    <3> QED
      BY <1>2, <1>5, <3>1, CoversOnward DEF JobKept
  <2>3. Covers(j.tops, j.new \ j.pending, mail', validity', answered' \cup {})
    <3>1. j.new \ j.pending \in SUBSET Mails
      BY <2>1 DEF ReportShape
    <3>2. Covers(j.tops, j.new \ j.pending, mail, validity, answered \cup {})
      BY <2>1 DEF ReportKept
    <3> QED
      BY <1>2, <1>5, <3>1, <3>2, CoversOnward DEF JobKept
  <2>4. ASSUME NEW a \in DOMAIN j.ids PROVE j.tops[a].v <= j.ids[a] /\ j.ids[a] <= validity'[a]
    <3>1. a \in Accounts /\ j.ids[a] \in Nat
      BY <2>1, <2>4 DEF ReportShape
    <3> QED
      BY <2>1, <3>1 DEF ReportKept, Onward
  <2>5. ASSUME NEW m \in j.new, j.ids[m[1]] = validity'[m[1]] PROVE mail'[m] \in Fetched
    <3>1. m \in Mails /\ m[1] \in Accounts /\ m[1] \in DOMAIN j.ids /\ j.ids[m[1]] \in Nat
      BY <2>1 DEF ReportShape, Mails
    <3>2. validity'[m[1]] = validity[m[1]]
      BY <2>1, <2>5, <3>1 DEF ReportKept, Onward
    <3> QED
      BY <2>1, <2>5, <3>1, <3>2 DEF ReportKept, Onward
  <2> QED
    BY <2>2, <2>3, <2>4, <2>5 DEF ReportKept
<1> QED
  BY <1>1, <1>3, <1>4, <1>5 DEF JobKept

\* Every step goes onward and keeps the order of UIDs.
MailsOn ==
  /\ Onward /\ InOrder'
  /\ mail' \in [Mails -> {"none", "server"} \cup Fetched]
  /\ validity' \in [Accounts -> Nat \ {0}]

\* A step that leaves the mails alone.
LEMMA SteadyOn ==
  ASSUME MailTyped, InOrder, UNCHANGED <<mail, validity>>, answered \subseteq answered'
  PROVE  MailsOn
<1>1. InOrder'
  BY DEF InOrder, Mails
<1>2. Onward
  BY DEF Onward, MailTyped, Fetched
<1> QED
  BY <1>1, <1>2 DEF MailsOn, MailTyped

\* Mails are fetched, by a check or by the app.
LEMMA FetchOn ==
  ASSUME MailTyped, InOrder, NEW a \in Accounts, NEW u \in 1..MaxUid,
         Lands(a, u), UNCHANGED <<validity, answered>>
  PROVE  MailsOn
<1>1. mail' \in [Mails -> {"none", "server"} \cup Fetched]
  BY DEF Lands, MailTyped, Fetched
<1>2. \A m \in Mails : mail'[m] = IF m[1] = a /\ m[2] <= u /\ mail[m] = "server" THEN "unread" ELSE mail[m]
  BY DEF Lands
<1>3. Onward
  BY <1>2 DEF Onward, MailTyped, Fetched
<1>4. ASSUME NEW m \in Mails, NEW n \in Mails, m[1] = n[1], m[2] < n[2]
      PROVE  /\ mail'[n] # "none" => mail'[m] # "none"
             /\ mail'[n] \in Fetched => mail'[m] \in Fetched
  <2>1. /\ mail[n] # "none" => mail[m] # "none"
        /\ mail[n] \in Fetched => mail[m] \in Fetched
    BY <1>4 DEF InOrder
  <2>2. mail[n] # "none" => mail[m] = "server" \/ mail[m] \in Fetched
    BY <2>1 DEF MailTyped
  <2>3. n[2] <= u => m[2] <= u
    BY <1>4, NewMailOK DEF Mails, NewMailOK
  <2> QED
    BY <1>2, <1>4, <2>1, <2>2, <2>3 DEF Fetched
<1>5. InOrder'
  BY <1>4 DEF InOrder, Mails
<1> QED
  BY <1>1, <1>3, <1>5 DEF MailsOn, MailTyped

\* A mail is delivered to the server.
LEMMA ArriveOn ==
  ASSUME MailTyped, InOrder, NEW k \in Mails, Arrive(k)
  PROVE  MailsOn
<1>1. mail' \in [Mails -> {"none", "server"} \cup Fetched]
  BY DEF Arrive, MailTyped
<1>2. \A m \in Mails : mail'[m] = IF m = k THEN "server" ELSE mail[m]
  BY DEF Arrive, MailTyped
<1>3. Onward
  BY <1>2 DEF Arrive, Onward, MailTyped, Fetched
<1>4. ASSUME NEW m \in Mails, NEW n \in Mails, m[1] = n[1], m[2] < n[2]
      PROVE  /\ mail'[n] # "none" => mail'[m] # "none"
             /\ mail'[n] \in Fetched => mail'[m] \in Fetched
  <2>1. /\ mail[n] # "none" => mail[m] # "none"
        /\ mail[n] \in Fetched => mail[m] \in Fetched
    BY <1>4 DEF InOrder
  <2>2. mail[k] = "none" /\ (n = k => mail[m] # "none")
    BY <1>4 DEF Arrive
  <2> QED
    BY <1>2, <2>1, <2>2 DEF Fetched
<1>5. InOrder'
  BY <1>4 DEF InOrder, Mails
<1> QED
  BY <1>1, <1>3, <1>5 DEF MailsOn, MailTyped, Arrive

\* An inbox is numbered anew.
LEMMA RenumberOn ==
  ASSUME MailTyped, InOrder, NEW a \in Accounts, Renumber(a)
  PROVE  MailsOn
<1>1. mail' \in [Mails -> {"none", "server"} \cup Fetched] /\ validity' \in [Accounts -> Nat \ {0}]
  BY DEF Renumber, MailTyped
<1>2. \A m \in Mails : mail'[m] = IF m[1] = a THEN "none" ELSE mail[m]
  BY DEF Renumber
<1>3. \A b \in Accounts : validity'[b] = IF b = a THEN validity[b] + 1 ELSE validity[b]
  BY DEF Renumber, MailTyped
<1>4. \A m \in Mails : m[1] \in Accounts /\ (validity'[m[1]] = validity[m[1]] => m[1] # a)
  BY <1>3 DEF Mails, MailTyped
<1>5. \A b \in Accounts : validity[b] \in Nat /\ validity'[b] \in Nat /\ validity[b] <= validity'[b]
  BY <1>1, <1>3 DEF MailTyped
<1>6. Onward
  BY <1>2, <1>4, <1>5 DEF Renumber, Onward
<1>7. InOrder'
  BY <1>2 DEF InOrder, Mails, Fetched
<1> QED
  BY <1>1, <1>6, <1>7 DEF MailsOn

\* The user or another client touches some mails; they are accounted for.
LEMMA TouchOn ==
  ASSUME MailTyped, InOrder, NEW D \in SUBSET Mails, NEW now \in [Mails -> {"none", "server"} \cup Fetched],
         mail' = now, validity' = validity, answered \cup Named(D) \subseteq answered',
         \A m \in Mails : now[m] # mail[m] => m \in D /\ mail[m] \in Fetched /\ now[m] \in Fetched
  PROVE  MailsOn
<1>1. ASSUME NEW m \in D PROVE <<validity[m[1]], m>> \in answered'
  BY DEF Named
<1>2. Onward
  BY <1>1 DEF Onward, MailTyped
<1>3. \A m \in Mails : /\ (now[m] \in Fetched) = (mail[m] \in Fetched)
                       /\ (now[m] = "none") = (mail[m] = "none")
  BY DEF Fetched
<1>4. InOrder'
  BY <1>3 DEF InOrder, Mails
<1> QED
  BY <1>2, <1>4 DEF MailsOn, MailTyped

\* A button reads, archives or deletes mails.
LEMMA PressOn ==
  ASSUME MailTyped, InOrder, NEW ms, Press(ms)
  PROVE  MailsOn
<1> DEFINE now == [m \in Mails |-> IF m \in ms /\ mail[m] = "unread" THEN "done" ELSE mail[m]]
           D == ms \cap Mails
<1>1. now \in [Mails -> {"none", "server"} \cup Fetched]
  BY DEF MailTyped, Fetched
<1>2. \A m \in Mails : now[m] # mail[m] => m \in D /\ mail[m] \in Fetched /\ now[m] \in Fetched
  BY DEF Fetched
<1>3. mail' = now /\ validity' = validity /\ answered \cup Named(D) \subseteq answered'
  BY DEF Press, Named
<1> HIDE DEF now, D
<1> QED
  BY <1>1, <1>2, <1>3, TouchOn DEF D

\* A mail is read, moved or taken back.
LEMMA HandleOn ==
  ASSUME MailTyped, InOrder, NEW k \in Mails, Handle(k)
  PROVE  MailsOn
<1> DEFINE D == {k}
<1>1. PICK x \in Fetched : mail' = [mail EXCEPT ![k] = x]
  BY DEF Handle, Fetched
<1>2. mail' \in [Mails -> {"none", "server"} \cup Fetched] /\ mail[k] \in Fetched
  BY <1>1 DEF MailTyped, Handle, Fetched
<1>3. \A m \in Mails : mail'[m] # mail[m] => m \in D /\ mail[m] \in Fetched /\ mail'[m] \in Fetched
  BY <1>1, <1>2 DEF MailTyped
<1>4. validity' = validity /\ answered \cup Named(D) \subseteq answered'
  BY DEF Handle
<1> HIDE DEF D
<1> QED
  BY <1>2, <1>3, <1>4, TouchOn DEF D

\* So does every step.
LEMMA EveryStepOn ==
  ASSUME MailTyped, InOrder, [Next]_vars
  PROVE  MailsOn
<1>1. CASE UNCHANGED vars
  BY <1>1, SteadyOn DEF vars
<1>2. CASE \E r \in Checkers : Check(r)
  BY <1>2, SteadyOn DEF Check, Begin, ReadTops, Collect
<1>3. CASE \E r \in Threads : Deliver(r)
  <2>1. PICK r \in Threads : Deliver(r)
    BY <1>3
  <2>2. UNCHANGED <<mail, validity>> /\ (UNCHANGED answered \/ Commit(r))
    BY <2>1 DEF Deliver, Post, PostFails, Commit
  <2> QED
    BY <2>2, SteadyOn DEF Commit
<1>4. CASE Buttons
  BY <1>4, SteadyOn, PressOn DEF Buttons, PressMail, PressSummary, SwipeMail, SwipeGroup, Swipe
<1>5. CASE User
  BY <1>5, SteadyOn, HandleOn DEF User, Resume, Pause, mark_inbox_seen
<1>6. CASE Server
  <2>1. CASE \E m \in Mails : Arrive(m)
    BY <2>1, ArriveOn
  <2>2. CASE \E m \in Mails : Fetch(m[1], m[2]) \/ AppFetch(m[1], m[2])
    <3>1. PICK m \in Mails : Fetch(m[1], m[2]) \/ AppFetch(m[1], m[2])
      BY <2>2
    <3>2. m[1] \in Accounts /\ m[2] \in 1..MaxUid
      BY DEF Mails
    <3> QED
      BY <3>1, <3>2, FetchOn DEF Fetch, AppFetch
  <2>3. CASE \E a \in Accounts : Renumber(a)
    BY <2>3, RenumberOn
  <2> QED
    BY <1>6, <2>1, <2>2, <2>3 DEF Server
<1>7. CASE Crash
  BY <1>7, SteadyOn DEF Crash
<1> QED
  BY <1>1, <1>2, <1>3, <1>4, <1>5, <1>6, <1>7 DEF Next

\* Which steps change what.
LEMMA WhatChanges ==
  ASSUME [Next]_vars
  PROVE  /\ world' = world
         /\ crashes' = crashes \/ crashes' = crashes + 1
         /\ UNCHANGED <<seen, line>> \/ (\E r \in Threads : Commit(r)) \/ Resume \/ Pause
         /\ \/ UNCHANGED <<screen, group>> \/ screen' = {} \/ \E ms : Swipe(ms)
            \/ \E r \in Threads : \E muted, ok : Post(r, muted, ok) \/ PostFails(r, muted, ok)
         /\ \/ UNCHANGED rang \/ \E m \in Mails : AppFetch(m[1], m[2])
            \/ \E r \in Threads : \E muted, ok : Post(r, muted, ok)
         /\ \/ UNCHANGED job \/ Crash \/ \E ms : Press(ms)
            \/ (\E r \in Checkers : Check(r)) \/ \E r \in Threads : Deliver(r)
<1>1. CASE \E r \in Checkers : Check(r)
  <2>1. PICK r \in Checkers : Check(r)
    BY <1>1
  <2>2. UNCHANGED <<world, crashes, seen, line, screen, group, rang>>
    BY <2>1 DEF Check, Begin, ReadTops, Collect
  <2> QED
    BY <1>1, <2>2
<1>2. CASE \E r \in Threads : Deliver(r)
  <2>1. PICK r \in Threads : Deliver(r)
    BY <1>2
  <2>2. CASE \E muted, ok : Post(r, muted, ok)
    <3>1. UNCHANGED <<world, crashes, seen, line>>
      BY <2>2 DEF Post
    <3> QED
      BY <1>2, <2>2, <3>1
  <2>3. CASE \E muted, ok : PostFails(r, muted, ok)
    <3>1. UNCHANGED <<world, crashes, seen, line, rang>>
      BY <2>3 DEF PostFails
    <3> QED
      BY <1>2, <2>3, <3>1
  <2>4. CASE Commit(r)
    <3>1. UNCHANGED <<world, crashes, screen, group, rang>>
      BY <2>4 DEF Commit
    <3> QED
      BY <1>2, <2>4, <3>1
  <2> QED
    BY <2>1, <2>2, <2>3, <2>4 DEF Deliver
<1>3. CASE \E ms : Press(ms)
  <2>1. UNCHANGED <<world, crashes, seen, line, screen, group, rang>>
    BY <1>3 DEF Press
  <2> QED
    BY <1>3, <2>1
<1>4. CASE \E ms : Swipe(ms)
  <2>1. UNCHANGED <<world, crashes, seen, line, rang, job>>
    BY <1>4 DEF Swipe
  <2> QED
    BY <1>4, <2>1
<1>5. CASE Resume \/ Pause
  <2>1. UNCHANGED <<world, crashes, rang, job>> /\ (screen' = {} \/ UNCHANGED <<screen, group>>)
    BY <1>5 DEF Resume, Pause
  <2> QED
    BY <1>5, <2>1
<1>6. CASE (\E m \in Mails : Handle(m)) \/ Server
  <2>1. UNCHANGED <<world, crashes, seen, line, screen, group, job>> /\ (UNCHANGED rang \/ \E m \in Mails : AppFetch(m[1], m[2]))
    BY <1>6 DEF Handle, Server, Arrive, Fetch, AppFetch, Renumber
  <2> QED
    BY <2>1
<1>7. CASE Crash
  <2>1. UNCHANGED <<world, seen, line, screen, group, rang>> /\ crashes' = crashes + 1
    BY <1>7 DEF Crash
  <2> QED
    BY <1>7, <2>1
<1>8. CASE UNCHANGED vars
  BY <1>8 DEF vars
<1>9. Buttons => (\E ms : Press(ms)) \/ \E ms : Swipe(ms)
  BY DEF Buttons, PressMail, PressSummary, SwipeMail, SwipeGroup
<1> QED
  BY <1>1, <1>2, <1>3, <1>4, <1>5, <1>6, <1>7, <1>8, <1>9 DEF Next, User

-----------------------------------------------------------------------------
(* Jobs: reports, plans, commits.                                          *)

\* What is new above the marks, by mail.
LEMMA NewAbove ==
  ASSUME NEW T, NEW m
  PROVE  m \in CollectNew(T) <=>
           m \in Unread /\ m[1] \in Accounts /\ Valid(seen, T, m[1]) /\ m[2] > seen[m[1]].u
BY DEF CollectNew, Above

\* What is listed, by mail.
LEMMA PendingAbove ==
  ASSUME NEW T, NEW m \in Unread, m[1] \in Accounts,
         IF Valid(line, T, m[1]) THEN m[2] > line[m[1]].u ELSE Valid(seen, T, m[1]) /\ m[2] > seen[m[1]].u
  PROVE  m \in CollectPending(T)
<1>1. CASE Valid(line, T, m[1])
  <2>1. m \in Above(T, m[1], line[m[1]])
    BY <1>1 DEF Above
  <2> QED
    BY <1>1, <2>1 DEF CollectPending
<1>2. CASE ~Valid(line, T, m[1])
  <2>1. m \in Above(T, m[1], seen[m[1]])
    BY <1>2 DEF Above
  <2> QED
    BY <1>2, <2>1 DEF CollectPending
<1> QED
  BY <1>1, <1>2

\* The report of a check that has read its tops.
LEMMA CollectKeeps ==
  ASSUME KeptInv, NEW r \in Threads, job[r].at = "tops", NEW j,
         j = [at |-> "deliver", skipped |-> FALSE, tops |-> job[r].tops,
              new |-> CollectNew(job[r].tops), pending |-> CollectPending(job[r].tops),
              based |-> Baseline(job[r].tops), ids |-> validity]
  PROVE  JobKept(j, mail, validity, answered)
<1> DEFINE T == job[r].tops
<1>1. T \in [Accounts -> Mark] /\ Drawn(T, mail, validity)
  BY DEF KeptInv, JobKept, JobShape
<1>2. /\ MailTyped /\ MarkKept(seen, mail, validity, answered) /\ MarkKept(line, mail, validity, answered)
  BY DEF KeptInv
<1>3. j.at = "deliver" /\ j.tops = T /\ j.ids = validity
  OBVIOUS
<1>4. j.new = CollectNew(T) /\ j.pending = CollectPending(T) /\ j.based = Baseline(T)
  OBVIOUS
<1> HIDE DEF T
<1>5. j.new \subseteq Unread /\ j.new \subseteq Mails /\ j.based \subseteq Mails
  BY <1>4, NewAbove DEF Unread, Baseline, Cached
<1>6. validity \in [Accounts -> Nat]
  BY <1>2 DEF MailTyped
<1>7. ReportShape(j)
  BY <1>1, <1>3, <1>5, <1>6 DEF ReportShape
<1>8. \A a \in DOMAIN j.ids : j.tops[a].v <= j.ids[a] /\ j.ids[a] <= validity[a]
  BY <1>1, <1>3, <1>6 DEF Drawn
<1>9. \A m \in j.new : mail[m] \in Fetched
  BY <1>5 DEF Unread, Fetched
<1>10. ASSUME NEW m \in Mails, mail[m] = "unread", Below(T, validity, m)
       PROVE  /\ m \in j.new \/ m \in j.based \/ <<validity[m[1]], m>> \in answered
              /\ m \in j.new \ j.pending => <<validity[m[1]], m>> \in answered
  <2>1. m[1] \in Accounts /\ m[2] \in Nat /\ T[m[1]].v = validity[m[1]] /\ m[2] <= T[m[1]].u
    BY <1>1, <1>10 DEF Mails, Below
  <2>2. m \in Unread /\ m \in Cached
    BY <1>10 DEF Unread, Cached
  <2>3. seen[m[1]].u \in Nat /\ line[m[1]].u \in Nat
    BY <1>2, <2>1 DEF MarkKept, Mark
  <2>4. ASSUME Valid(seen, T, m[1]), ~(m[2] > seen[m[1]].u) PROVE <<validity[m[1]], m>> \in answered
    <3>1. Below(seen, validity, m)
      BY <1>2, <2>1, <2>3, <2>4 DEF Valid, Below, MarkKept
    <3> QED
      BY <1>2, <1>10, <3>1 DEF MarkKept, Covers
  <2>5. ASSUME Valid(line, T, m[1]), ~(m[2] > line[m[1]].u) PROVE <<validity[m[1]], m>> \in answered
    <3>1. Below(line, validity, m)
      BY <1>2, <2>1, <2>3, <2>5 DEF Valid, Below, MarkKept
    <3> QED
      BY <1>2, <1>10, <3>1 DEF MarkKept, Covers
  <2>6. ~Valid(seen, T, m[1]) => m \in j.based
    BY <1>4, <2>1, <2>2 DEF Baseline
  <2>7. Valid(seen, T, m[1]) /\ m[2] > seen[m[1]].u => m \in j.new
    BY <1>4, <2>1, <2>2, NewAbove
  <2>8. m \in j.new \ j.pending => Valid(line, T, m[1]) /\ ~(m[2] > line[m[1]].u)
    BY <1>4, <2>1, <2>2, NewAbove, PendingAbove
  <2> QED
    BY <2>4, <2>5, <2>6, <2>7, <2>8
<1>11. Covers(j.tops, Mails, mail, validity, answered \cup Tagged(j.ids, j.based \cup j.new))
  <2> SUFFICES ASSUME NEW m \in Mails, mail[m] = "unread", Below(T, validity, m)
               PROVE  <<validity[m[1]], m>> \in answered \cup Tagged(j.ids, j.based \cup j.new)
    BY <1>3 DEF Covers
  <2>1. m \in j.new \cup j.based => <<validity[m[1]], m>> \in Tagged(j.ids, j.based \cup j.new)
    BY <1>3, <1>6 DEF Tagged, Of, Mails
  <2> QED
    BY <1>10, <2>1
<1>12. Covers(j.tops, j.new \ j.pending, mail, validity, answered)
  BY <1>3, <1>5, <1>10 DEF Covers
<1> QED
  BY <1>1, <1>3, <1>7, <1>8, <1>9, <1>11, <1>12 DEF JobKept, JobShape, ReportKept

\* Reports with nothing to commit.
LEMMA EmptyReport ==
  ASSUME NEW j, j.at = "deliver", {"new", "pending"} \subseteq DOMAIN j, j.new = {}, j.based = {}, j.tops \in [{} -> Mark], j.ids \in [{} -> Nat]
  PROVE  JobKept(j, mail', validity', answered')
<1>1. DOMAIN j.tops = {} /\ DOMAIN j.ids = {}
  OBVIOUS
<1> QED
  BY <1>1 DEF JobKept, JobShape, ReportShape, ReportKept, Drawn, Covers, Below

\* An alert rings for all that is new in it and not muted, if it is still listed.
LEMMA AlertRings ==
  ASSUME NEW rep, NEW muted, NEW ok, NEW m \in rep.new, PlanFor(rep, muted, ok).how = "alert",
         {"new", "pending"} \subseteq DOMAIN rep
  PROVE  m \in PlanFor(rep, muted, ok).rings \cup Of(rep.new, muted) \/ m \notin rep.pending
<1> DEFINE H == [rep EXCEPT !.new = @ \ Of(@, muted), !.pending = @ \ Of(@, muted)]
<1>1. H.new = rep.new \ Of(rep.new, muted) /\ H.pending = rep.pending \ Of(rep.pending, muted)
  OBVIOUS
<1>2. ~(H.new = {} /\ rep.new # {})
  <2> SUFFICES ASSUME H.new = {}, rep.new # {} PROVE FALSE
    OBVIOUS
  <2>1. PlanFor(rep, muted, ok) = PlanOn([H EXCEPT !.new = rep.new], FALSE, ok)
    BY DEF PlanFor
  <2> HIDE DEF H
  <2> QED
    BY <2>1 DEF PlanOn, Settled
<1>3. PlanFor(rep, muted, ok) = PlanOn(H, TRUE, ok)
  BY <1>2 DEF PlanFor
<1> HIDE DEF H
<1>4. PlanOn(H, TRUE, ok).rings = (IF H.pending = {} THEN H.new ELSE H.pending) \cap (screen \cup H.new) \cap H.new
  BY <1>3 DEF PlanOn, Settled
<1>5. CASE m \in rep.pending /\ m \notin Of(rep.new, muted)
  <2>1. m \in H.new /\ m \in H.pending
    BY <1>1, <1>5 DEF Of
  <2> QED
    BY <1>3, <1>4, <2>1
<1> QED
  BY <1>5

\* A plan that was posted and is to be committed.
LEMMA PostKeeps ==
  ASSUME KeptInv, NEW r \in Threads, NEW muted, NEW ok, Post(r, muted, ok)
  PROVE  JobKept(job'[r], mail', validity', answered')
<1> DEFINE rep == job[r]
           plan == PlanFor(rep, muted, ok)
           heard == IF plan.how = "alert" THEN plan.rings \cup Of(rep.new, muted) ELSE rep.new
           tags == Tagged(rep.ids, rep.based \cup heard)
           j == [at |-> "commit", tops |-> rep.tops, answers |-> tags]
<1>1. rep.at = "deliver" /\ JobKept(rep, mail, validity, answered)
  BY DEF Post, KeptInv
<1>2. job'[r] = j /\ UNCHANGED <<mail, validity, answered>>
  BY DEF Post, KeptInv, MailTyped
<1>3. j.at = "commit" /\ j.tops = rep.tops /\ j.answers = tags
  OBVIOUS
<1> HIDE DEF j
<1>4. /\ ReportShape(rep) /\ ReportKept(rep, mail, validity, answered) /\ Drawn(rep.tops, mail, validity)
  BY <1>1 DEF JobKept, JobShape
<1>5. \A m \in rep.new : m \in heard \/ m \notin rep.pending
  BY <1>4, AlertRings DEF ReportShape
<1> HIDE DEF heard
<1>6. ASSUME NEW m \in Mails, mail[m] = "unread", Below(rep.tops, validity, m)
      PROVE  <<validity[m[1]], m>> \in answered \cup tags
  <2>1. <<validity[m[1]], m>> \in answered \cup Tagged(rep.ids, rep.based \cup rep.new)
    BY <1>4, <1>6 DEF ReportKept, Covers
  <2>2. CASE <<validity[m[1]], m>> \in answered
    BY <2>2
  <2>3. CASE <<validity[m[1]], m>> \in Tagged(rep.ids, rep.based \cup rep.new)
    <3>1. m \in rep.based \cup rep.new /\ m[1] \in DOMAIN rep.ids /\ validity[m[1]] = rep.ids[m[1]]
      BY <2>3 DEF Tagged, Of
    <3>2. CASE m \in rep.based \cup heard
      BY <3>1, <3>2 DEF Tagged, Of
    <3>3. CASE m \in rep.new /\ m \notin rep.pending
      BY <1>4, <1>6, <3>3 DEF ReportKept, Covers
    <3> QED
      BY <1>5, <3>1, <3>2, <3>3
  <2> QED
    BY <2>1, <2>2, <2>3
<1>7. JobKept(j, mail, validity, answered)
  <2>1. rep.tops \in [Accounts -> Mark] \cup [{} -> Mark]
    BY <1>4 DEF ReportShape
  <2> HIDE DEF tags
  <2> QED
    BY <1>3, <1>4, <1>6, <2>1 DEF JobKept, JobShape, Covers
<1> QED
  BY <1>2, <1>7

\* The marks move to the tops, the line starts where the alerts did.
LEMMA CommitKeeps ==
  ASSUME KeptInv, NEW r \in Threads, Commit(r)
  PROVE  /\ MarkKept(seen', mail', validity', answered')
         /\ MarkKept(line', mail', validity', answered')
<1> DEFINE T == job[r].tops
           told == answered \cup job[r].answers
<1>1. /\ T \in [Accounts -> Mark] \cup [{} -> Mark]
      /\ Drawn(T, mail, validity) /\ Covers(T, Mails, mail, validity, told)
  BY DEF Commit, KeptInv, JobKept, JobShape
<1>2. UNCHANGED <<mail, validity>> /\ answered' = told
  BY DEF Commit
<1>3. /\ seen \in [Accounts -> Mark] /\ Drawn(seen, mail, validity) /\ Covers(seen, Mails, mail, validity, told)
      /\ line \in [Accounts -> Mark] /\ Drawn(line, mail, validity) /\ Covers(line, Mails, mail, validity, told)
  BY DEF KeptInv, MarkKept, Covers
<1>4. /\ seen' = [a \in Accounts |-> IF a \in DOMAIN T THEN T[a] ELSE seen[a]]
      /\ line' = [a \in Accounts |-> IF a \notin DOMAIN T \/ Valid(line, T, a) THEN line[a]
                                     ELSE IF Valid(seen, T, a) THEN seen[a] ELSE T[a]]
  BY DEF Commit, commit_seen
<1> HIDE DEF T, told
<1>5. \A a \in DOMAIN T : T[a] \in Mark
  BY <1>1
<1>6. ASSUME NEW X, X \in [Accounts -> Mark],
             \A a \in Accounts : X[a] = seen[a] \/ X[a] = line[a] \/ (a \in DOMAIN T /\ X[a] = T[a])
      PROVE  MarkKept(X, mail, validity, told)
  <2>1. \A m \in Mails : Below(X, validity, m) =>
          Below(seen, validity, m) \/ Below(line, validity, m) \/ Below(T, validity, m)
    BY <1>3, <1>6 DEF Below, Mails
  <2>2. \A a \in Accounts : X[a].v <= validity[a]
    BY <1>1, <1>3, <1>6 DEF Drawn
  <2> QED
    BY <1>1, <1>3, <1>6, <2>1, <2>2 DEF MarkKept, Drawn, Covers
<1>7. MarkKept(seen', mail, validity, told)
  <2>1. seen' \in [Accounts -> Mark]
    BY <1>3, <1>4, <1>5
  <2>2. \A a \in Accounts : seen'[a] = seen[a] \/ (a \in DOMAIN T /\ seen'[a] = T[a])
    BY <1>4
  <2> QED
    BY <1>6, <2>1, <2>2
<1>8. MarkKept(line', mail, validity, told)
  <2>1. line' \in [Accounts -> Mark]
    BY <1>3, <1>4, <1>5
  <2>2. \A a \in Accounts : line'[a] = seen[a] \/ line'[a] = line[a] \/ (a \in DOMAIN T /\ line'[a] = T[a])
    BY <1>4
  <2> QED
    BY <1>6, <2>1, <2>2
<1> QED
  BY <1>2, <1>7, <1>8

\* The app is opened or left: all that is cached was seen.
LEMMA SeenKeeps ==
  ASSUME KeptInv, mark_inbox_seen, UNCHANGED <<mail, validity>>
  PROVE  /\ MarkKept(seen', mail', validity', answered')
         /\ MarkKept(line', mail', validity', answered')
<1>1. Tops \in [Accounts -> Mark] /\ Drawn(Tops, mail, validity)
  BY TopsDrawn DEF KeptInv
<1>2. Covers(Tops, Mails, mail, validity, answered')
  BY DEF Covers, mark_inbox_seen, Named, Cached
<1>3. MarkKept(Tops, mail, validity, answered')
  BY <1>1, <1>2 DEF MarkKept
<1> QED
  BY <1>3 DEF mark_inbox_seen

\* One thread's job changes.
LEMMA OneJob ==
  ASSUME KeptInv, Onward, NEW r \in Threads, NEW j, job' = [job EXCEPT ![r] = j],
         JobKept(j, mail', validity', answered')
  PROVE  /\ job' = [s \in Threads |-> job'[s]]
         /\ \A s \in Threads : JobKept(job'[s], mail', validity', answered')
<1>1. \A s \in Threads : job'[s] = IF s = r THEN j ELSE job[s]
  BY DEF KeptInv, MailTyped
<1>2. job' = [s \in Threads |-> job'[s]]
  BY DEF KeptInv, MailTyped
<1>3. \A s \in Threads : JobKept(job[s], mail', validity', answered')
  BY JobOnward DEF KeptInv
<1> QED
  BY <1>1, <1>2, <1>3

\* A job with nothing in hand.
LEMMA Free ==
  ASSUME NEW j, j.at \in {"idle", "sync"}, NEW ms, NEW vs, NEW told
  PROVE  JobKept(j, ms, vs, told)
BY DEF JobKept, JobShape

\* A check begins, reads its tops, or reports.
LEMMA CheckKeeps ==
  ASSUME KeptInv, Onward, NEW r \in Checkers, Check(r)
  PROVE  \E j : job' = [job EXCEPT ![r] = j] /\ JobKept(j, mail', validity', answered')
<1>0. r \in Threads /\ UNCHANGED <<mail, validity, answered>>
  BY DEF Threads, Check, Begin, ReadTops, Collect
<1>1. CASE Begin(r)
  <2>1. CASE job' = [job EXCEPT ![r] = [at |-> "sync"]]
    <3>1. JobKept([at |-> "sync"], mail', validity', answered')
      BY Free
    <3> QED
      BY <2>1, <3>1
  <2>2. CASE job' = [job EXCEPT ![r] = Skipped]
    <3>1. JobKept(Skipped, mail', validity', answered')
      BY EmptyReport DEF Skipped
    <3> QED
      BY <2>2, <3>1
  <2> QED
    BY <1>1, <2>1, <2>2 DEF Begin
<1>2. CASE ReadTops(r)
  <2> DEFINE j == [at |-> "tops", tops |-> Tops]
  <2>1. Tops \in [Accounts -> Mark] /\ Drawn(Tops, mail, validity)
    BY TopsDrawn DEF KeptInv
  <2>2. j.at = "tops" /\ j.tops = Tops
    OBVIOUS
  <2>3. job' = [job EXCEPT ![r] = j]
    BY <1>2 DEF ReadTops
  <2> HIDE DEF j
  <2>4. JobKept(j, mail, validity, answered)
    BY <2>1, <2>2 DEF JobKept, JobShape
  <2> QED
    BY <1>0, <2>3, <2>4
<1>3. CASE Collect(r)
  <2> DEFINE j == [at |-> "deliver", skipped |-> FALSE, tops |-> job[r].tops,
                   new |-> CollectNew(job[r].tops), pending |-> CollectPending(job[r].tops),
                   based |-> Baseline(job[r].tops), ids |-> validity]
  <2>1. job' = [job EXCEPT ![r] = j] /\ job[r].at = "tops"
    BY <1>3 DEF Collect
  <2>2. JobKept(j, mail, validity, answered)
    BY <1>0, <2>1, CollectKeeps
  <2> QED
    BY <1>0, <2>1, <2>2
<1> QED
  BY <1>1, <1>2, <1>3 DEF Check

\* One step.
LEMMA KeptStep ==
  ASSUME KeptInv, [Next]_vars
  PROVE  KeptInv'
<1>1. MailsOn /\ Onward /\ world' = world
  <2>1. MailsOn
    BY EveryStepOn DEF KeptInv
  <2>2. world' = world
    BY WhatChanges
  <2> QED
    BY <2>1, <2>2 DEF MailsOn
<1>2. job' = [r \in Threads |-> job'[r]] /\ \A r \in Threads : JobKept(job'[r], mail', validity', answered')
  <2>0. CASE UNCHANGED job
    BY <1>1, <2>0, JobOnward DEF KeptInv, MailTyped
  <2>1. CASE \E r \in Threads : \E j : job' = [job EXCEPT ![r] = j] /\ JobKept(j, mail', validity', answered')
    BY <1>1, <2>1, OneJob
  <2>2. CASE \E r \in Checkers : Check(r)
    BY <1>1, <2>1, <2>2, CheckKeeps DEF Threads
  <2>3. CASE \E r \in Threads : Deliver(r)
    <3>1. PICK r \in Threads : Deliver(r)
      BY <2>3
    <3>2. CASE \E muted, ok : Post(r, muted, ok)
      <4>1. JobKept(job'[r], mail', validity', answered')
        BY <3>2, PostKeeps
      <4>2. \E j : job' = [job EXCEPT ![r] = j]
        BY <3>2 DEF Post
      <4>3. \E j : job' = [job EXCEPT ![r] = j] /\ JobKept(j, mail', validity', answered')
        BY <4>1, <4>2 DEF KeptInv, MailTyped
      <4> QED
        BY <2>1, <4>3
    <3>3. CASE job' = [job EXCEPT ![r] = Idle]
      <4>1. JobKept(Idle, mail', validity', answered')
        BY Free DEF Idle
      <4> QED
        BY <2>1, <3>3, <4>1
    <3> QED
      BY <3>1, <3>2, <3>3 DEF Deliver, PostFails, Commit
  <2>4. CASE \E ms : Press(ms)
    <3>1. PICK ms : Press(ms)
      BY <2>4
    <3>2. Button \in Threads
      BY DEF Threads
    <3> DEFINE j == [Skipped EXCEPT !.skipped = FALSE, !.pending = CollectPending(Tops) \ ms]
    <3>3. job' = [job EXCEPT ![Button] = j]
      BY <3>1 DEF Press
    <3>4. JobKept(j, mail', validity', answered')
      BY EmptyReport DEF Skipped
    <3> QED
      BY <2>1, <3>2, <3>3, <3>4
  <2>6. CASE Crash
    <3>1. job' = [r \in Threads |-> Idle]
      BY <2>6 DEF Crash
    <3>2. JobKept(Idle, mail', validity', answered')
      BY Free DEF Idle
    <3> QED
      BY <3>1, <3>2
  <2> QED
    BY <2>0, <2>2, <2>3, <2>4, <2>6, WhatChanges
<1>3. MarkKept(seen', mail', validity', answered') /\ MarkKept(line', mail', validity', answered')
  <2>0. CASE UNCHANGED <<seen, line>>
    BY <1>1, <2>0, MarkOnward DEF KeptInv
  <2>1. CASE \E r \in Threads : Commit(r)
    BY <2>1, CommitKeeps
  <2>2. CASE Resume \/ Pause
    BY <2>2, SeenKeeps DEF Resume, Pause
  <2> QED
    BY <2>0, <2>1, <2>2, WhatChanges
<1> QED
  BY <1>1, <1>2, <1>3 DEF KeptInv, MailsOn, MailTyped

\* Before anything has arrived.
LEMMA KeptStart == Init => KeptInv
<1> SUFFICES ASSUME Init PROVE KeptInv
  OBVIOUS
<1>1. MailTyped /\ InOrder
  BY DEF Init, MailTyped, InOrder, Mails, Fetched
<1>2. \A r \in Threads : JobKept(job[r], mail, validity, answered)
  BY Free DEF Init, Idle
<1>3. ASSUME NEW X, X = [a \in Accounts |-> NoMark] PROVE MarkKept(X, mail, validity, answered)
  BY <1>3 DEF Init, MarkKept, Drawn, Covers, Below, NoMark, Mark, Mails, Fetched
<1> QED
  BY <1>1, <1>2, <1>3 DEF KeptInv, Init

-----------------------------------------------------------------------------
(* The screen: every notification has its account's summary.               *)

\* A plan leaves on screen what the summaries list.
LEMMA PlanListed ==
  ASSUME ScreenHonest, NEW rep, NEW alerts, NEW ok, NEW plan, plan = PlanOn(rep, alerts, ok)
  PROVE  Cancelled(plan) \cup plan.post \subseteq Summaries(plan)
<1> DEFINE alerting == rep.new # {} /\ alerts
           listed == IF rep.pending = {} THEN rep.new ELSE rep.pending
           fresh == IF alerting THEN rep.new ELSE {}
           onScreen == listed \cap (screen \cup fresh)
           shownBy == {m[1] : m \in onScreen}
           loud == {m[1] : m \in onScreen \cap fresh}
           open == loud \cup {a \in shownBy : Of(group, {a}) # Of(onScreen, {a})}
<1>1. CASE \E how : plan = Settled(how, rep)
  <2>1. plan.cancel = {} /\ plan.post = {} /\ plan.shut = {} /\ plan.open = {}
    BY <1>1 DEF Settled
  <2> QED
    BY <2>1 DEF ScreenHonest, Cancelled, Summaries, Of
<1>2. CASE /\ plan.cancel = screen \ Newest(onScreen) /\ plan.post = Newest(onScreen) \ (screen \ fresh)
           /\ plan.shut = {m[1] : m \in group} \ shownBy /\ plan.open = open /\ plan.sum = Of(onScreen, open)
  <2> SUFFICES ASSUME NEW m \in Cancelled(plan) \cup plan.post PROVE m \in Summaries(plan)
    OBVIOUS
  <2>1. m \in onScreen
    BY <1>2 DEF Cancelled, Newest
  <2>2. m[1] \in shownBy
    BY <2>1
  <2> HIDE DEF onScreen, fresh, alerting, listed
  <2>3. CASE m[1] \in open
    BY <1>2, <2>1, <2>3 DEF Summaries, Of
  <2>4. CASE m[1] \notin open
    <3>1. Of(group, {m[1]}) = Of(onScreen, {m[1]})
      BY <2>2, <2>4
    <3>2. m \in group
      BY <2>1, <3>1 DEF Of
    <3>3. m[1] \notin plan.shut \cup plan.open
      BY <1>2, <2>2, <2>4
    <3> QED
      BY <3>2, <3>3 DEF Summaries, Of
  <2> QED
    BY <2>3, <2>4
<1> QED
  <2>1. CASE (foreground /\ rep.new # {}) \/ (rep.new # {} /\ ~ok)
    <3>1. plan \in {Settled("foreground", rep), Settled("blocked", rep)}
      BY <2>1, Zenon DEF PlanOn
    <3> QED
      BY <1>1, <3>1, Zenon
  <2>2. CASE ~((foreground /\ rep.new # {}) \/ (rep.new # {} /\ ~ok))
    <3> HIDE DEF open
    <3>1. PICK how, rings :
            plan = [how |-> how, cancel |-> screen \ Newest(onScreen),
                    shut |-> {m[1] : m \in group} \ shownBy, open |-> open,
                    sum |-> Of(onScreen, open), post |-> Newest(onScreen) \ (screen \ fresh),
                    rings |-> rings]
      BY <2>2 DEF PlanOn, open
    <3> HIDE DEF onScreen, fresh, alerting, listed, shownBy, loud
    <3> QED
      BY <1>2, <3>1
  <2> QED
    BY <2>1, <2>2

\* Notifications are posted under a summary and swept with it.
LEMMA ScreenStep ==
  ASSUME ScreenHonest, [Next]_vars
  PROVE  ScreenHonest'
<1>1. ASSUME NEW r, NEW muted, NEW ok, Post(r, muted, ok) \/ PostFails(r, muted, ok)
      PROVE  ScreenHonest'
  <2>1. PICK plan : plan = PlanFor(job[r], muted, ok)
    OBVIOUS
  <2>2. Cancelled(plan) \cup plan.post \subseteq Summaries(plan)
    <3>1. \E rep, alerts : plan = PlanOn(rep, alerts, ok)
      BY <2>1 DEF PlanFor
    <3> QED
      BY <3>1, PlanListed
  <2>3. screen' \subseteq Cancelled(plan) \cup plan.post /\ group' = Summaries(plan)
    BY <1>1, <2>1 DEF Post, PostFails
  <2> QED
    BY <2>2, <2>3 DEF ScreenHonest
<1>2. ASSUME NEW ms, Swipe(ms) PROVE ScreenHonest'
  BY <1>2 DEF Swipe, ScreenHonest
<1>3. CASE screen' = {}
  BY <1>3 DEF ScreenHonest
<1>4. CASE UNCHANGED <<screen, group>>
  BY <1>4 DEF ScreenHonest
<1> QED
  BY <1>1, <1>2, <1>3, <1>4, WhatChanges

-----------------------------------------------------------------------------
(* The alerts of a single checker.                                         *)

\* What rings is new.
LEMMA RingsNew ==
  ASSUME NEW rep, NEW muted, NEW ok, {"new", "pending"} \subseteq DOMAIN rep
  PROVE  PlanFor(rep, muted, ok).rings \subseteq rep.new
<1> DEFINE H == [rep EXCEPT !.new = @ \ Of(@, muted), !.pending = @ \ Of(@, muted)]
           G == [H EXCEPT !.new = rep.new]
<1>1. H.new \subseteq rep.new /\ G.new = rep.new
  OBVIOUS
<1>2. PlanFor(rep, muted, ok) \in {PlanOn(G, FALSE, ok), PlanOn(H, TRUE, ok)}
  BY DEF PlanFor
<1> HIDE DEF H, G
<1>3. \A x, alerts : PlanOn(x, alerts, ok).rings \subseteq x.new
  BY DEF PlanOn, Settled
<1> QED
  BY <1>1, <1>2, <1>3

\* A mail rings in a delivery only; the app silences what it brings in.
LEMMA RangStep ==
  ASSUME KeptInv, RangInv, [Next]_vars, NEW n \in DOMAIN rang
  PROVE  /\ DOMAIN rang' = DOMAIN rang
         /\ \/ rang'[n] = rang[n]
            \/ Single /\ rang'[n] = "app"
            \/ /\ Single /\ rang'[n] = Once(rang[n])
               /\ \E r \in Threads : \E muted, ok : Post(r, muted, ok) /\ n \in Tagged(job[r].ids, job[r].new)
<1>1. CASE UNCHANGED rang
  BY <1>1
<1>2. CASE \E m \in Mails : AppFetch(m[1], m[2])
  BY <1>2 DEF AppFetch, Single
<1>3. CASE \E r \in Threads : \E muted, ok : Post(r, muted, ok)
  <2>1a. PICK r \in Threads : \E muted, ok : Post(r, muted, ok)
    BY <1>3
  <2>1. PICK muted, ok : Post(r, muted, ok)
    BY <2>1a
  <2>2. JobKept(job[r], mail, validity, answered) /\ job[r].at = "deliver"
    BY <2>1 DEF KeptInv, Post
  <2>3. {"new", "pending"} \subseteq DOMAIN job[r]
    BY <2>2 DEF JobKept, JobShape, ReportShape
  <2>4. PICK rings : rings = PlanFor(job[r], muted, ok).rings
    OBVIOUS
  <2>5. rings \subseteq job[r].new
    BY <2>3, <2>4, RingsNew
  <2>6. rang' = [x \in DOMAIN rang |-> IF world.kinds # Checkers /\ x \in Tagged(job[r].ids, rings) THEN Once(rang[x]) ELSE rang[x]]
    BY <2>1, <2>4 DEF Post
  <2>7. Tagged(job[r].ids, rings) \subseteq Tagged(job[r].ids, job[r].new)
    BY <2>5 DEF Tagged, Of
  <2> QED
    BY <2>1, <2>6, <2>7 DEF Single
<1> QED
  BY <1>1, <1>2, <1>3, WhatChanges

\* What is in the cache was there before, or a check or the app brought it.
LEMMA CacheStep ==
  ASSUME KeptInv, [Next]_vars, NEW m \in Mails, InCache(mail', m)
  PROVE  /\ validity'[m[1]] = validity[m[1]]
         /\ \/ InCache(mail, m)
            \/ mail[m] = "server" /\ UNCHANGED rang /\ \E r \in Checkers : job[r].at = "sync"
            \/ mail[m] = "server" /\ (Single /\ <<validity[m[1]], m>> \in DOMAIN rang => rang'[<<validity[m[1]], m>>] = "app")
<1>1. CASE UNCHANGED <<mail, validity>>
  BY <1>1 DEF InCache
<1>2. CASE \E a, u : Fetch(a, u)
  BY <1>2 DEF Fetch, Lands, InCache
<1>3. CASE \E a, u : AppFetch(a, u)
  <2>1. <<validity[m[1]], m>> \in Named(Mails)
    BY DEF Named
  <2>2. PICK a, u : AppFetch(a, u)
    BY <1>3
  <2>3. validity' = validity /\ (mail'[m] = mail[m] \/ (mail[m] = "server" /\ mail'[m] = "unread"))
    BY <2>2 DEF AppFetch, Lands
  <2>4. CASE mail'[m] = mail[m]
    BY <2>3, <2>4 DEF InCache
  <2>5. CASE mail[m] = "server" /\ mail'[m] = "unread"
    BY <2>1, <2>2, <2>3, <2>5 DEF AppFetch, Single
  <2> QED
    BY <2>3, <2>4, <2>5
<1>4. CASE \E k \in Mails : Arrive(k)
  BY <1>4 DEF Arrive, InCache, KeptInv, MailTyped
<1>5. CASE \E a \in Accounts : Renumber(a)
  BY <1>5 DEF Renumber, InCache, KeptInv, MailTyped, Mails
<1>6. CASE \E ms : Press(ms)
  BY <1>6 DEF Press, InCache
<1>7. CASE \E k \in Mails : Handle(k)
  BY <1>7 DEF Handle, InCache, KeptInv, MailTyped
<1>8. CASE \E r \in Checkers : Check(r)
  <2>1. PICK r \in Checkers : Check(r)
    BY <1>8
  <2>2. UNCHANGED <<mail, validity>>
    BY <2>1 DEF Check, Begin, ReadTops, Collect
  <2> QED
    BY <1>1, <2>2
<1>9. CASE \E r \in Threads : Deliver(r)
  <2>1. PICK r \in Threads : Deliver(r)
    BY <1>9
  <2>2. UNCHANGED <<mail, validity>>
    BY <2>1 DEF Deliver, Post, PostFails, Commit
  <2> QED
    BY <1>1, <2>2
<1>10. CASE Buttons
  BY <1>1, <1>6, <1>10 DEF Buttons, PressMail, PressSummary, SwipeMail, SwipeGroup, Swipe
<1>11. CASE User
  BY <1>1, <1>7, <1>11 DEF User, Resume, Pause
<1>12. CASE Server
  BY <1>2, <1>3, <1>4, <1>5, <1>12 DEF Server
<1>13. CASE Crash \/ UNCHANGED vars
  BY <1>1, <1>13 DEF Crash, vars
<1> QED
  BY <1>8, <1>9, <1>10, <1>11, <1>12, <1>13 DEF Next

\* An empty report.
Empty(j) == j.at = "deliver" /\ j.new = {} /\ j.tops \in [{} -> Mark]

\* Where a thread can be after a step.
LEMMA JobStep ==
  ASSUME KeptInv, [Next]_vars, NEW r \in Threads
  PROVE  \/ job'[r] = job[r]
         \/ job'[r].at = "idle"
         \/ job'[r].at = "sync" /\ r \in Checkers /\ r \in world.kinds
         \/ Empty(job'[r]) /\ (r \in Checkers => r \in world.kinds)
         \/ job'[r].at = "tops" /\ job'[r].tops = Tops /\ r \in Checkers /\ ReadTops(r)
         \/ job'[r].at = "deliver" /\ r \in Checkers /\ Collect(r)
         \/ job'[r].at = "commit" /\ job'[r].tops = job[r].tops /\ \E muted, ok : Post(r, muted, ok)
<1>0. \A s \in Threads : \A j : job' = [job EXCEPT ![s] = j] => job'[r] = IF s = r THEN j ELSE job[r]
  BY DEF KeptInv, MailTyped
<1>1. CASE UNCHANGED job
  BY <1>1
<1>2. CASE \E s \in Checkers : Check(s)
  <2>1. PICK s \in Checkers : Check(s)
    BY <1>2
  <2>2. s \in Threads
    BY DEF Threads
  <2>3. CASE Begin(s)
    <3>1. Empty(Skipped)
      BY DEF Skipped, Empty
    <3>2. PICK j \in {[at |-> "sync"], Skipped} : job' = [job EXCEPT ![s] = j]
      BY <2>3 DEF Begin
    <3>3. s \in world.kinds /\ job'[r] = IF s = r THEN j ELSE job[r]
      BY <1>0, <2>2, <2>3, <3>2 DEF Begin
    <3> QED
      BY <2>1, <3>1, <3>2, <3>3
  <2>4. CASE ReadTops(s)
    <3>1. PICK j : j.at = "tops" /\ j.tops = Tops /\ job' = [job EXCEPT ![s] = j]
      BY <2>4 DEF ReadTops
    <3>2. job'[r] = IF s = r THEN j ELSE job[r]
      BY <1>0, <2>2, <3>1
    <3> QED
      BY <2>1, <2>4, <3>1, <3>2
  <2>5. CASE Collect(s)
    <3>1. PICK j : j.at = "deliver" /\ job' = [job EXCEPT ![s] = j]
      BY <2>5 DEF Collect
    <3>2. job'[r] = IF s = r THEN j ELSE job[r]
      BY <1>0, <2>2, <3>1
    <3> QED
      BY <2>1, <2>5, <3>1, <3>2
  <2> QED
    BY <2>1, <2>3, <2>4, <2>5 DEF Check
<1>3. CASE \E s \in Threads : Deliver(s)
  <2>1. PICK s \in Threads : Deliver(s)
    BY <1>3
  <2>2. CASE \E muted, ok : Post(s, muted, ok)
    <3>1. PICK muted, ok : Post(s, muted, ok)
      BY <2>2
    <3>2. PICK x : job' = [job EXCEPT ![s] = [at |-> "commit", tops |-> job[s].tops, answers |-> x]]
      BY <3>1 DEF Post
    <3>3. job'[r] = IF s = r THEN [at |-> "commit", tops |-> job[s].tops, answers |-> x] ELSE job[r]
      BY <1>0, <3>2
    <3> QED
      BY <3>1, <3>2, <3>3
  <2>3. CASE job' = [job EXCEPT ![s] = Idle]
    BY <1>0, <2>3 DEF Idle
  <2> QED
    BY <2>1, <2>2, <2>3 DEF Deliver, PostFails, Commit
<1>4. CASE \E ms : Press(ms)
  <2>1. PICK ms : Press(ms)
    BY <1>4
  <2> DEFINE j == [Skipped EXCEPT !.skipped = FALSE, !.pending = CollectPending(Tops) \ ms]
  <2>2. Empty(j)
    BY DEF Skipped, Empty
  <2>3. job' = [job EXCEPT ![Button] = j]
    BY <2>1 DEF Press
  <2> HIDE DEF j
  <2>4. job'[r] = IF Button = r THEN j ELSE job[r]
    BY <1>0, <2>3 DEF Threads
  <2> QED
    BY <2>2, <2>4, NewMailOK DEF NewMailOK
<1>5. CASE Crash
  BY <1>5 DEF Crash, Idle
<1> QED
  BY <1>1, <1>2, <1>3, <1>4, <1>5, WhatChanges

\* Rings are kept for the same mails.
LEMMA RangKept ==
  ASSUME [Next]_vars, NEW S, rang = [n \in S |-> rang[n]]
  PROVE  rang' = [n \in S |-> rang'[n]]
<1>1. DOMAIN rang = S
  OBVIOUS
<1>2. CASE \E r \in Threads : \E muted, ok : Post(r, muted, ok)
  BY <1>1, <1>2 DEF Post
<1>3. CASE \E m \in Mails : AppFetch(m[1], m[2])
  BY <1>1, <1>3 DEF AppFetch
<1> QED
  BY <1>2, <1>3, WhatChanges

\* What rang is of a numbering known by now, and was fetched in it.
LEMMA RangTypedStep ==
  ASSUME KeptInv, RangInv, [Next]_vars
  PROVE  RangTyped'
<1>0. rang = [n \in Validities \X Mails |-> rang[n]]
  BY DEF RangInv, RangTyped
<1>1. world' = world /\ MailsOn
  BY WhatChanges, EveryStepOn DEF KeptInv
<1>2. crashes' \in Nat
  <2>1. crashes \in Nat
    BY DEF RangInv, RangTyped
  <2>2. crashes' \in {crashes, crashes + 1}
    BY WhatChanges
  <2> QED
    BY <2>1, <2>2
<1>3. DOMAIN rang = Validities \X Mails /\ \A n \in DOMAIN rang : rang[n] \in {"no", "once", "twice", "app"}
  BY DEF RangInv, RangTyped
<1>4. rang' \in [Validities \X Mails -> {"no", "once", "twice", "app"}]
  <2>1. rang' = [n \in Validities \X Mails |-> rang'[n]]
    BY <1>0, RangKept
  <2>2. \A n \in Validities \X Mails : rang'[n] \in {"no", "once", "twice", "app"}
    BY <1>3, RangStep DEF Once
  <2> QED
    BY <2>1, <2>2
<1>5. ~Single' => \A n \in DOMAIN rang' : rang'[n] = "no"
  <2>1. Single' = Single
    BY <1>1 DEF Single
  <2>2. ~Single => \A n \in DOMAIN rang : rang[n] = "no"
    BY DEF RangInv, RangTyped
  <2> QED
    BY <1>3, <1>4, <2>1, <2>2, RangStep
<1>6. ASSUME NEW n \in DOMAIN rang', rang'[n] = "once"
      PROVE  n[1] <= validity'[n[2][1]] /\ (n[1] = validity'[n[2][1]] => mail'[n[2]] \in Fetched)
  <2>1. n \in DOMAIN rang /\ n[1] \in Int /\ n[2] \in Mails /\ n[2][1] \in Accounts /\ n = <<n[1], n[2]>>
    BY <1>3, <1>4, <1>6 DEF Mails, Validities
  <2>2. n[1] <= validity[n[2][1]] /\ (n[1] = validity[n[2][1]] => mail[n[2]] \in Fetched)
    <3>1. CASE rang[n] = "once"
      BY <2>1, <3>1 DEF RangInv, RangTyped
    <3>2. CASE \E r \in Threads : \E muted, ok : Post(r, muted, ok) /\ n \in Tagged(job[r].ids, job[r].new)
      <4>1a. PICK r \in Threads : \E muted, ok : Post(r, muted, ok) /\ n \in Tagged(job[r].ids, job[r].new)
        BY <3>2
      <4>1. PICK muted, ok : Post(r, muted, ok) /\ n \in Tagged(job[r].ids, job[r].new)
        BY <4>1a
      <4>2. ReportKept(job[r], mail, validity, answered)
        BY <4>1 DEF Post, KeptInv, JobKept
      <4>3. n[2] \in job[r].new /\ n[2][1] \in DOMAIN job[r].ids /\ n[1] = job[r].ids[n[2][1]]
        BY <4>1 DEF Tagged, Of
      <4> QED
        BY <4>2, <4>3 DEF ReportKept
    <3> QED
      BY <1>6, <2>1, <3>1, <3>2, RangStep
  <2>3. /\ validity[n[2][1]] \in Nat /\ validity'[n[2][1]] \in Nat /\ validity[n[2][1]] <= validity'[n[2][1]]
        /\ validity'[n[2][1]] = validity[n[2][1]] /\ mail[n[2]] \in Fetched => mail'[n[2]] \in Fetched
    BY <1>1, <2>1 DEF MailsOn, Onward
  <2> QED
    BY <2>1, <2>2, <2>3
<1> QED
  BY <1>2, <1>4, <1>5, <1>6 DEF RangTyped

\* Checks are of checkers that are on; the buttons commit nothing.
LEMMA OnDutyStep ==
  ASSUME KeptInv, RangInv, [Next]_vars
  PROVE  OnDuty'
<1>1. world' = world
  BY WhatChanges
<1>2. Button \in Threads /\ Button \notin Checkers /\ Checkers \subseteq Threads
  BY NewMailOK DEF NewMailOK, Threads
<1>3. OnDuty
  BY DEF RangInv
<1>4. ASSUME NEW r \in Checkers, job'[r].at # "idle" PROVE r \in world.kinds
  <2>1. CASE job'[r] = job[r]
    BY <1>3, <1>4, <2>1 DEF OnDuty
  <2>2. CASE ReadTops(r) \/ Collect(r) \/ \E muted, ok : Post(r, muted, ok)
    <3>1. job[r].at # "idle"
      BY <2>2 DEF ReadTops, Collect, Post
    <3> QED
      BY <1>3, <3>1 DEF OnDuty
  <2> QED
    BY <1>2, <1>4, <2>1, <2>2, JobStep
<1>5. /\ job'[Button].at \in {"deliver", "commit"} => job'[Button].tops \in [{} -> Mark]
      /\ job'[Button].at = "deliver" => job'[Button].new = {}
  <2>1. CASE job'[Button] = job[Button]
    BY <1>3, <2>1 DEF OnDuty
  <2>2. CASE job'[Button].at = "commit" /\ job'[Button].tops = job[Button].tops /\ \E muted, ok : Post(Button, muted, ok)
    BY <1>3, <2>2 DEF OnDuty, Post
  <2> QED
    BY <1>2, <2>1, <2>2, JobStep DEF Empty
<1> QED
  BY <1>1, <1>4, <1>5 DEF OnDuty

\* In a world with one checker, no check fetches while it has tops in hand.
LEMMA Alone ==
  ASSUME KeptInv, RangInv, Single, NEW r \in Checkers, NEW s \in Checkers, job[r].at # "idle", job[s].at # "idle"
  PROVE  r = s
<1>1. r \in world.kinds /\ s \in world.kinds
  BY DEF RangInv, OnDuty
<1>2. world.kinds \subseteq Checkers
  BY NewMailOK DEF NewMailOK, KeptInv, MailTyped
<1> QED
  BY <1>1, <1>2 DEF Single, Checkers

\* Tops stay above what is in the cache.
LEMMA ToppedStep ==
  ASSUME KeptInv, RangInv, Single, [Next]_vars, NEW X, Topped(X, mail, validity, rang),
         \A r \in Checkers : job[r].at # "sync"
  PROVE  Topped(X, mail', validity', rang')
<1> SUFFICES ASSUME NEW m \in Mails, InCache(mail', m), <<validity'[m[1]], m>> \in DOMAIN rang',
                    rang'[<<validity'[m[1]], m>>] # "app"
             PROVE  Below(X, validity', m)
  BY DEF Topped
<1>1. /\ validity'[m[1]] = validity[m[1]]
      /\ \/ InCache(mail, m)
         \/ <<validity[m[1]], m>> \in DOMAIN rang => rang'[<<validity[m[1]], m>>] = "app"
  BY CacheStep
<1> DEFINE n == <<validity[m[1]], m>>
<1>2. n \in DOMAIN rang /\ rang'[n] # "app" /\ rang[n] # "app"
  <2>1. DOMAIN rang' = Validities \X Mails /\ DOMAIN rang = Validities \X Mails
    BY RangTypedStep DEF RangTyped, RangInv
  <2>2. n \in DOMAIN rang /\ rang'[n] # "app"
    BY <1>1, <2>1
  <2> HIDE DEF n
  <2>3. rang[n] # "app"
    BY <2>2, RangStep DEF Once
  <2> QED
    BY <2>2, <2>3
<1>3. InCache(mail, m)
  BY <1>1, <1>2
<1>4. Below(X, validity, m)
  BY <1>2, <1>3 DEF Topped
<1> QED
  BY <1>1, <1>4 DEF Below

\* Tops that are read, reported or to be committed.
LEMMA ToppedJobs ==
  ASSUME KeptInv, RangInv, Single, [Next]_vars, NEW r \in Checkers,
         job'[r].at \in {"tops", "deliver", "commit"}, job'[r].tops \in [Accounts -> Mark]
  PROVE  Topped(job'[r].tops, mail', validity', rang')
<1>0. RangBelow /\ r \in Threads
  BY DEF RangInv, Threads
<1>1. ASSUME job[r].at \in {"tops", "deliver", "commit"}, job'[r].tops = job[r].tops
      PROVE  Topped(job'[r].tops, mail', validity', rang')
  <2>1. Topped(job[r].tops, mail, validity, rang)
    BY <1>0, <1>1 DEF RangBelow
  <2>2. \A s \in Checkers : job[s].at # "sync"
    BY <1>1, Alone
  <2> QED
    BY <1>1, <2>1, <2>2, ToppedStep
<1>2. CASE job'[r] = job[r]
  BY <1>1, <1>2
<1>3. CASE Empty(job'[r])
  <2>1. Accounts = {}
    BY <1>3 DEF Empty
  <2> QED
    BY <2>1 DEF Topped, Mails
<1>4. CASE job'[r].tops = Tops /\ ReadTops(r)
  <2>1. \A m \in Cached : Below(Tops, validity, m)
    BY TopsDrawn DEF KeptInv
  <2>2. Topped(Tops, mail, validity, rang)
    BY <2>1 DEF Topped, Cached, InCache
  <2>3. UNCHANGED <<mail, validity, rang>>
    BY <1>4 DEF ReadTops
  <2> QED
    BY <1>4, <2>2, <2>3
<1>5. CASE Collect(r)
  <2>1. PICK x, y, z, v : job' = [job EXCEPT ![r] =
          [at |-> "deliver", skipped |-> FALSE, tops |-> job[r].tops, new |-> x, pending |-> y, based |-> z, ids |-> v]]
    BY <1>5 DEF Collect
  <2>2. job'[r].tops = job[r].tops /\ job[r].at = "tops"
    BY <1>0, <1>5, <2>1 DEF Collect, KeptInv, MailTyped
  <2> QED
    BY <1>1, <2>2
<1>6. CASE job'[r].tops = job[r].tops /\ \E muted, ok : Post(r, muted, ok)
  BY <1>1, <1>6 DEF Post
<1> QED
  BY <1>0, <1>2, <1>3, <1>4, <1>5, <1>6, JobStep

\* A mail that rings with a report that can ring it.
LEMMA RingerOf ==
  ASSUME KeptInv, RangInv, NEW r \in Threads, NEW muted, NEW ok, Post(r, muted, ok), NEW n, n \in Tagged(job[r].ids, job[r].new)
  PROVE  /\ r \in Checkers /\ job[r].at = "deliver"
         /\ n[2] \in job[r].new /\ n = <<job[r].ids[n[2][1]], n[2]>>
         /\ job[r].tops \in [Accounts -> Mark]
<1>1. job[r].at = "deliver" /\ ReportShape(job[r])
  BY DEF Post, KeptInv, JobKept, JobShape
<1>2. n[2] \in job[r].new /\ n = <<job[r].ids[n[2][1]], n[2]>>
  BY DEF Tagged, Of
<1>3. r # Button
  BY <1>1, <1>2 DEF RangInv, OnDuty
<1> QED
  BY <1>1, <1>2, <1>3 DEF Threads, ReportShape

\* A plan that was posted stays to be committed, but for a crash.
LEMMA StaysCommitting ==
  ASSUME KeptInv, [Next]_vars, NEW r \in Threads, job[r].at = "commit", ~Commit(r), crashes = 0, crashes' = 0
  PROVE  job'[r] = job[r]
<1>1. ASSUME NEW s \in Threads, NEW j, job[s].at # "commit", job' = [job EXCEPT ![s] = j]
      PROVE  job'[r] = job[r]
  BY <1>1 DEF KeptInv, MailTyped
<1>2. ASSUME NEW s \in Threads, s # r, NEW j, job' = [job EXCEPT ![s] = j]
      PROVE  job'[r] = job[r]
  BY <1>2 DEF KeptInv, MailTyped
<1>3. CASE \E s \in Checkers : Check(s)
  <2>1. PICK s \in Checkers : Check(s)
    BY <1>3
  <2>2. s \in Threads /\ job[s].at # "commit"
    BY <2>1 DEF Check, Begin, ReadTops, Collect, Idle, Threads
  <2>3. \E j : job' = [job EXCEPT ![s] = j]
    BY <2>1 DEF Check, Begin, ReadTops, Collect
  <2> QED
    BY <1>1, <2>2, <2>3
<1>4. CASE \E s \in Threads : Deliver(s)
  <2>1. PICK s \in Threads : Deliver(s)
    BY <1>4
  <2>2. \E j : job' = [job EXCEPT ![s] = j]
    BY <2>1 DEF Deliver, Post, PostFails, Commit
  <2>3. job[s].at # "commit" \/ s # r
    BY <2>1 DEF Deliver, Post, PostFails
  <2> QED
    BY <1>1, <1>2, <2>2, <2>3
<1>5. CASE \E ms : Press(ms)
  <2>1. \E j : job' = [job EXCEPT ![Button] = j]
    BY <1>5 DEF Press
  <2>2. Button \in Threads /\ job[Button].at # "commit"
    BY <1>5 DEF Press, Idle, Threads
  <2> QED
    BY <1>1, <2>1, <2>2
<1>6. CASE UNCHANGED job
  BY <1>6
<1>7. ~Crash
  BY DEF Crash
<1> QED
  BY <1>3, <1>4, <1>5, <1>6, <1>7, WhatChanges

\* What rang stays below the mark, or is about to be.
LEMMA RangBelowSeen ==
  ASSUME KeptInv, RangInv, Single, [Next]_vars, crashes' = 0, NEW m \in Mails, InCache(mail', m),
         <<validity'[m[1]], m>> \in DOMAIN rang', rang'[<<validity'[m[1]], m>>] = "once"
  PROVE  \/ Below(seen', validity', m)
         \/ \E r \in Checkers : job'[r].at = "commit" /\ job'[r].tops \in [Accounts -> Mark]
<1>1. PICK n : n = <<validity[m[1]], m>>
  OBVIOUS
<1>2. crashes = 0
  <2>1. crashes \in Nat
    BY DEF RangInv, RangTyped
  <2>2. crashes' = crashes \/ crashes' = crashes + 1
    BY WhatChanges
  <2> QED
    BY <2>1, <2>2
<1>3. RangBelow
  BY DEF RangInv
<1>4. validity'[m[1]] = validity[m[1]] /\ DOMAIN rang' = DOMAIN rang /\ n \in DOMAIN rang /\ rang'[n] = "once"
  <2>1. validity'[m[1]] = validity[m[1]]
    BY CacheStep
  <2>2. DOMAIN rang' = Validities \X Mails /\ DOMAIN rang = Validities \X Mails
    BY RangTypedStep DEF RangTyped, RangInv
  <2> QED
    BY <1>1, <2>1, <2>2
<1>5. CASE rang[n] # "once"
  <2>1a. PICK r \in Threads : \E muted, ok : Post(r, muted, ok) /\ n \in Tagged(job[r].ids, job[r].new)
    BY <1>4, <1>5, RangStep
  <2>1. PICK muted, ok : Post(r, muted, ok) /\ n \in Tagged(job[r].ids, job[r].new)
    BY <2>1a
  <2>2. r \in Checkers /\ job[r].tops \in [Accounts -> Mark]
    BY <2>1, RingerOf
  <2>3. PICK x : job' = [job EXCEPT ![r] = [at |-> "commit", tops |-> job[r].tops, answers |-> x]]
    BY <2>1 DEF Post
  <2>4. job'[r].at = "commit" /\ job'[r].tops = job[r].tops
    BY <2>3 DEF KeptInv, MailTyped
  <2> QED
    BY <2>2, <2>4
<1>6. CASE rang[n] = "once"
  <2>1. InCache(mail, m)
    <3>1. n[1] = validity[n[2][1]] /\ n[2] = m
      BY <1>1
    <3>2. mail[m] \in Fetched
      BY <1>4, <1>6, <3>1 DEF RangInv, RangTyped
    <3> QED
      BY <3>2, CacheStep DEF Fetched
  <2>2. \/ Below(seen, validity, m)
        \/ \E r \in Checkers : job[r].at = "commit" /\ job[r].tops \in [Accounts -> Mark]
    BY <1>1, <1>2, <1>3, <1>4, <1>6, <2>1 DEF RangBelow
  <2>3. ASSUME NEW r \in Checkers, job[r].at = "commit", job[r].tops \in [Accounts -> Mark]
        PROVE  Below(job[r].tops, validity, m)
    <3>1. Topped(job[r].tops, mail, validity, rang)
      BY <1>3, <2>3 DEF RangBelow
    <3> QED
      BY <1>1, <1>4, <1>6, <2>1, <3>1 DEF Topped
  <2>4. CASE \E r \in Threads : Commit(r)
    <3>1. PICK r \in Threads : Commit(r)
      BY <2>4
    <3>2. PICK T : T = job[r].tops
      OBVIOUS
    <3>3. seen' = [a \in Accounts |-> IF a \in DOMAIN T THEN T[a] ELSE seen[a]] /\ validity' = validity
      BY <3>1, <3>2 DEF Commit, commit_seen
    <3>4. m[1] \in Accounts /\ seen \in [Accounts -> Mark]
      BY DEF Mails, KeptInv, MarkKept
    <3>5. job[r].at = "commit" /\ T \in [Accounts -> Mark] \cup [{} -> Mark]
      BY <3>1, <3>2 DEF Commit, KeptInv, JobKept, JobShape
    <3>6. ASSUME Below(T, validity, m) PROVE Below(seen', validity', m)
      BY <3>3, <3>4, <3>6 DEF Below
    <3>7. ASSUME T \in [{} -> Mark], Below(seen, validity, m) PROVE Below(seen', validity', m)
      BY <3>3, <3>4, <3>7 DEF Below
    <3>8. CASE r \in Checkers /\ T \in [Accounts -> Mark]
      BY <2>3, <3>2, <3>5, <3>6, <3>8
    <3>9. CASE T \in [{} -> Mark]
      <4>1. CASE Below(seen, validity, m)
        BY <3>7, <3>9, <4>1
      <4>2. CASE \E s \in Checkers : job[s].at = "commit" /\ job[s].tops \in [Accounts -> Mark]
        <5>1. PICK s \in Checkers : job[s].at = "commit" /\ job[s].tops \in [Accounts -> Mark]
          BY <4>2
        <5>2. s # r
          <6>1. SUFFICES ASSUME s = r PROVE FALSE
            OBVIOUS
          <6>2. DOMAIN T = {} /\ DOMAIN T = Accounts
            BY <3>2, <3>9, <5>1, <6>1
          <6> QED
            BY <3>4, <6>2
        <5>3. job'[s] = job[s]
          BY <3>1, <5>2 DEF Commit, KeptInv, MailTyped, Threads
        <5> QED
          BY <5>1, <5>3
      <4> QED
        BY <2>2, <4>1, <4>2
    <3>10. r = Button => T \in [{} -> Mark]
      BY <3>2, <3>5 DEF RangInv, OnDuty
    <3> QED
      BY <3>5, <3>8, <3>9, <3>10 DEF Threads
  <2>5. CASE Resume \/ Pause
    <3>1. seen' = Tops /\ validity' = validity
      BY <2>5 DEF Resume, Pause, mark_inbox_seen
    <3>2. Below(Tops, validity, m)
      BY <2>1, TopsDrawn DEF KeptInv, Cached, InCache
    <3> QED
      BY <3>1, <3>2
  <2>6. CASE seen' = seen /\ ~\E r \in Threads : Commit(r)
    <3>1. CASE Below(seen, validity, m)
      BY <1>4, <2>6, <3>1 DEF Below
    <3>2. CASE \E r \in Checkers : job[r].at = "commit" /\ job[r].tops \in [Accounts -> Mark]
      <4>1. PICK r \in Checkers : job[r].at = "commit" /\ job[r].tops \in [Accounts -> Mark]
        BY <3>2
      <4>2. job'[r] = job[r]
        BY <1>2, <2>6, <4>1, StaysCommitting DEF Threads
      <4> QED
        BY <4>1, <4>2
    <3> QED
      BY <2>2, <3>1, <3>2
  <2>7. seen' = seen \/ (\E r \in Threads : Commit(r)) \/ Resume \/ Pause
    BY WhatChanges
  <2> QED
    BY <2>4, <2>5, <2>6, <2>7
<1> QED
  BY <1>5, <1>6

\* What is new in a report has not rung.
LEMMA NewToRing ==
  ASSUME KeptInv, RangInv, Single, [Next]_vars, crashes = 0, NEW r \in Checkers, job'[r].at = "deliver",
         NEW m \in job'[r].new, <<job'[r].ids[m[1]], m>> \in DOMAIN rang
  PROVE  rang'[<<job'[r].ids[m[1]], m>>] # "once"
<1>0. RangBelow /\ r \in Threads
  BY DEF RangInv, Threads
<1>1. PICK n : n = <<job'[r].ids[m[1]], m>>
  OBVIOUS
<1>2. CASE job'[r] = job[r]
  <2>1. rang[n] # "once"
    BY <1>0, <1>1, <1>2 DEF RangBelow
  <2>2. ~\E s \in Threads : \E muted, ok : Post(s, muted, ok) /\ n \in Tagged(job[s].ids, job[s].new)
    <3> SUFFICES ASSUME NEW s \in Threads, NEW muted, NEW ok, Post(s, muted, ok), n \in Tagged(job[s].ids, job[s].new)
                 PROVE  FALSE
      OBVIOUS
    <3>1. s \in Checkers /\ job[s].at = "deliver"
      BY RingerOf
    <3>2. s = r
      BY <1>2, <3>1, Alone
    <3>3. PICK x : job' = [job EXCEPT ![s] = [at |-> "commit", tops |-> job[s].tops, answers |-> x]]
      BY DEF Post
    <3>4. job'[s].at = "commit"
      BY <3>3 DEF KeptInv, MailTyped
    <3> QED
      BY <3>2, <3>4
  <2> QED
    BY <1>1, <2>1, <2>2, RangStep
<1>3. CASE Collect(r)
  <2>1. PICK T, x, y : T = job[r].tops /\ job' = [job EXCEPT ![r] =
          [at |-> "deliver", skipped |-> FALSE, tops |-> T, new |-> CollectNew(T), pending |-> x, based |-> y, ids |-> validity]]
    BY <1>3 DEF Collect
  <2>2. job'[r].new = CollectNew(T) /\ job'[r].ids = validity /\ job[r].at = "tops" /\ UNCHANGED rang
    BY <1>0, <1>3, <2>1 DEF Collect, KeptInv, MailTyped
  <2>3. m \in Unread /\ m[2] > seen[m[1]].u /\ m \in Mails
    BY <2>2, NewAbove DEF Unread
  <2>4. ~Below(seen, validity, m)
    <3>1. m[2] \in Nat /\ m[1] \in Accounts /\ seen[m[1]].u \in Nat
      BY <2>3 DEF Mails, KeptInv, MarkKept, Mark
    <3> QED
      BY <2>3, <3>1 DEF Below
  <2>5. ~\E s \in Checkers : job[s].at = "commit"
    BY <2>2, Alone
  <2>6. InCache(mail, m)
    BY <2>3 DEF Unread, InCache
  <2>7. n = <<validity[m[1]], m>> /\ n \in DOMAIN rang
    BY <1>1, <2>2
  <2>8. rang[n] # "once"
    BY <1>0, <2>3, <2>4, <2>5, <2>6, <2>7 DEF RangBelow
  <2> QED
    BY <1>1, <2>2, <2>8
<1> QED
  BY <1>0, <1>2, <1>3, JobStep DEF Empty

\* Nothing has rung.
LEMMA RangStart == Init => RangInv
<1> SUFFICES ASSUME Init PROVE RangInv
  OBVIOUS
<1>1. \A r \in Threads : job[r].at = "idle"
  BY DEF Init, Idle
<1>2. OnDuty /\ RangTyped
  BY <1>1 DEF Init, OnDuty, RangTyped, Threads
<1>3. \A n \in DOMAIN rang : rang[n] = "no"
  BY DEF Init
<1>4. RangBelow
  <2>1. \A m : <<validity[m[1]], m>> \in DOMAIN rang => rang[<<validity[m[1]], m>>] # "once"
    BY <1>3
  <2> QED
    BY <1>1, <2>1 DEF RangBelow, Threads
<1> QED
  BY <1>2, <1>3, <1>4 DEF RangInv, AlertedOnce

\* One step.
LEMMA RangStays ==
  ASSUME KeptInv, RangInv, [Next]_vars
  PROVE  RangInv'
<1>1. RangTyped' /\ OnDuty'
  BY RangTypedStep, OnDutyStep
<1>2. rang = [x \in Validities \X Mails |-> rang[x]] /\ crashes \in Nat
  BY DEF RangInv, RangTyped
<1>3. world' = world /\ (crashes' = 0 => crashes = 0)
  BY <1>2, WhatChanges
<1>4. DOMAIN rang' = DOMAIN rang
  BY <1>1, <1>2 DEF RangTyped
<1>5. Single' = Single
  BY <1>3 DEF Single
<1>6. ASSUME Single PROVE RangBelow'
  <2>1. \A r \in Checkers : job'[r].at \in {"tops", "deliver", "commit"} /\ job'[r].tops \in [Accounts -> Mark] =>
          Topped(job'[r].tops, mail', validity', rang')
    BY <1>6, ToppedJobs
  <2>2. ASSUME crashes' = 0, NEW m \in Mails, InCache(mail', m), <<validity'[m[1]], m>> \in DOMAIN rang',
               rang'[<<validity'[m[1]], m>>] = "once"
        PROVE  \/ Below(seen', validity', m)
               \/ \E r \in Checkers : job'[r].at = "commit" /\ job'[r].tops \in [Accounts -> Mark]
    BY <1>6, <2>2, RangBelowSeen
  <2>3. ASSUME crashes' = 0, NEW r \in Checkers, job'[r].at = "deliver", NEW m \in job'[r].new,
               <<job'[r].ids[m[1]], m>> \in DOMAIN rang'
        PROVE  rang'[<<job'[r].ids[m[1]], m>>] # "once"
    BY <1>3, <1>4, <1>6, <2>3, NewToRing
  <2> QED
    BY <2>1, <2>2, <2>3 DEF RangBelow
<1>7. ASSUME crashes' = 0, NEW n \in DOMAIN rang' PROVE rang'[n] # "twice"
  <2>1. n \in DOMAIN rang /\ rang[n] # "twice" /\ crashes = 0
    BY <1>3, <1>4, <1>7 DEF RangInv, AlertedOnce
  <2>2. ASSUME Single, NEW r \in Threads, NEW muted, NEW ok, Post(r, muted, ok), n \in Tagged(job[r].ids, job[r].new)
        PROVE  rang[n] # "once"
    <3>1. /\ r \in Checkers /\ job[r].at = "deliver"
          /\ n[2] \in job[r].new /\ n = <<job[r].ids[n[2][1]], n[2]>>
      BY <2>2, RingerOf
    <3> QED
      BY <2>1, <2>2, <3>1 DEF RangInv, RangBelow
  <2>3. rang'[n] = rang[n] \/ rang'[n] = "app" \/ (rang'[n] = Once(rang[n]) /\ rang[n] # "once")
    BY <2>1, <2>2, RangStep
  <2> QED
    BY <2>1, <2>3 DEF Once
<1> QED
  BY <1>1, <1>5, <1>6, <1>7 DEF RangInv, AlertedOnce

\* For any accounts, mails, checkers, settings and user, with failed posts,
\* renumbered inboxes and crashes: no mark passes an unread mail nobody was told
\* of, a single checker rings a mail once, and every notification has its
\* summary (background.rs, collect_new_mail and commit_seen; notify.rs, plan;
\* MailNotifier.kt, deliver).
THEOREM AlertsAreHonest == Spec => []AlertsHonest
<1> DEFINE Inv == KeptInv /\ RangInv /\ ScreenHonest
<1>1. Init => Inv
  BY KeptStart, RangStart DEF Init, ScreenHonest
<1>2. Inv /\ [Next]_vars => Inv'
  BY KeptStep, RangStays, ScreenStep
<1>3. Inv => AlertsHonest
  <2> SUFFICES ASSUME Inv PROVE NothingSwallowed
    BY DEF AlertsHonest, RangInv
  <2> SUFFICES ASSUME NEW m \in Unread, seen[m[1]].v = validity[m[1]], m[2] <= seen[m[1]].u
               PROVE  <<validity[m[1]], m>> \in answered
    BY DEF NothingSwallowed
  <2>1. m \in Mails /\ mail[m] = "unread" /\ m[1] \in Accounts
    BY DEF Unread, Mails
  <2>2. seen \in [Accounts -> Mark] /\ Covers(seen, Mails, mail, validity, answered)
    BY DEF KeptInv, MarkKept
  <2> QED
    BY <2>1, <2>2 DEF Covers, Below
<1> QED
  BY <1>1, <1>2, <1>3, PTL DEF Spec
=============================================================================
