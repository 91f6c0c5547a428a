------------------------------ MODULE Contacts ------------------------------
(***************************************************************************)
(* The addresses mail was seen from and sent to, the phone's own list, and *)
(* what the recipient field suggests for a query (mailcore                 *)
(* store/contacts.rs; its callers in imap/parse.rs and compose/send.rs;    *)
(* PhoneContacts.kt).                                                      *)
(*                                                                         *)
(* How well the query matches a text is given by the constants: TextOf for *)
(* an address, its domain and local part included, and Base for a name.    *)
(* Two spellings of one address are two rows of the table.                 *)
(***************************************************************************)
EXTENDS Naturals, FiniteSets, FiniteSetsExt

CONSTANTS
  Spellings, Fold(_),  \* addresses as written; the address behind a spelling
  Names, NoName, TextOf, Base,
  Starts,              \* rows the table may start with: <<name, seen, sent>>
  Limit, MaxSteps

VARIABLES
  contacts,  \* [Spellings -> [name, alias, seen, sent, old] or NoRow]
  phone,     \* the snapshot: [Spellings -> the saved name, NoName, or Absent]
  feature,   \* the setting "suggest phone contacts"
  loading,   \* a read of the phone book is on its way to the core
  shown,     \* the rows the last suggestion returned
  mine,      \* history: [Spellings -> the alias the user gave]
  wrote,     \* history: spellings mail was sent to, while their row is there
  steps

vars == <<contacts, phone, feature, loading, shown, mine, wrote, steps>>

NoRow  == [name |-> NoName, alias |-> NoName, seen |-> 0, sent |-> 0, old |-> FALSE]
Absent == "absent"
Known  == {a \in Spellings : contacts[a] # NoRow}
InPhone == {a \in Spellings : phone[a] # Absent}
Least(a, b) == IF a < b THEN a ELSE b
First(a, b) == IF a # NoName THEN a ELSE b

Step == steps < MaxSteps /\ steps' = steps + 1 /\ shown' = {}

-----------------------------------------------------------------------------
(* What mail and the user add.                                             *)

\* Faulty: the newest name wins over the alias.
Alias_Newest(row, name) == First(name, First(row.alias, row.name))

Alias(row, name) == First(row.alias, First(name, row.name))

\* Faulty: a mail sent counts as seen.
Sighted_Only(row, name, sent) ==
    [name |-> First(name, row.name), alias |-> Alias(row, name), seen |-> row.seen + 1, sent |-> row.sent, old |-> FALSE]

Sighted(row, name, sent) ==
    [name |-> First(name, row.name), alias |-> Alias(row, name), seen |-> row.seen + 1,
     sent |-> row.sent + sent, old |-> FALSE]

seen(a, name) ==
    /\ Step
    /\ contacts' = [contacts EXCEPT ![a] = Sighted(@, name, 0)]
    /\ UNCHANGED <<phone, feature, loading, mine, wrote>>

seen_sent(a, name) ==
    /\ Step
    /\ contacts' = [contacts EXCEPT ![a] = Sighted(@, name, 1)]
    /\ wrote' = wrote \cup {a}
    /\ UNCHANGED <<phone, feature, loading, mine>>

set_alias(a, alias) ==
    /\ Step
    /\ contacts' = [contacts EXCEPT ![a] = IF @ = NoRow THEN [NoRow EXCEPT !.alias = alias, !.seen = 1]
                                                        ELSE [@ EXCEPT !.alias = alias]]
    /\ mine' = [mine EXCEPT ![a] = alias]
    /\ UNCHANGED <<phone, feature, loading, wrote>>

\* Seeding from cached mail keeps the later of the two times.
seed_from_messages(a, name, recent) ==
    /\ Step
    /\ contacts' = [contacts EXCEPT ![a] =
          [Sighted(@, name, 0) EXCEPT !.old = (contacts[a] = NoRow \/ contacts[a].old) /\ ~recent]]
    /\ UNCHANGED <<phone, feature, loading, mine, wrote>>

delete(as) ==
    /\ Step /\ as \subseteq Known /\ as # {}
    /\ contacts' = [a \in Spellings |-> IF a \in as THEN NoRow ELSE contacts[a]]
    /\ mine' = [a \in Spellings |-> IF a \in as THEN NoName ELSE mine[a]]
    /\ wrote' = wrote \ as
    /\ UNCHANGED <<phone, feature, loading>>

\* Ninety days without mail.
MonthsPass ==
    /\ Step
    /\ contacts' = [a \in Spellings |-> IF a \in Known THEN [contacts[a] EXCEPT !.old = TRUE] ELSE NoRow]
    /\ UNCHANGED <<phone, feature, loading, mine, wrote>>

cleanup_candidates == {a \in Known : contacts[a].sent = 0 /\ contacts[a].seen <= 1 /\ contacts[a].old}

-----------------------------------------------------------------------------
(* The phone's list.                                                       *)

\* The first entry of an address wins.
set_phone_contacts ==
    /\ loading /\ loading' = FALSE
    /\ \E p \in [Spellings -> Names \cup {NoName, Absent}] :
          /\ \A a, b \in Spellings : p[a] # Absent /\ p[b] # Absent /\ Fold(a) = Fold(b) => a = b
          /\ phone' = p
    /\ shown' = {}
    /\ UNCHANGED <<contacts, feature, mine, wrote, steps>>

\* Switching it on starts a read; switching it off clears what is there.
Toggle ==
    /\ Step /\ feature' = ~feature
    /\ IF feature THEN phone' = [a \in Spellings |-> Absent] /\ UNCHANGED loading
       ELSE loading' = TRUE /\ UNCHANGED phone
    /\ UNCHANGED <<contacts, mine, wrote>>

-----------------------------------------------------------------------------
(* Suggestions.                                                            *)

Weighed(base, tenths) == (base * tenths) \div 10
NameText(name, tenths) == IF name = NoName THEN 0 ELSE Weighed(Base[name], tenths)

Text(a, row) == Max({TextOf[a], NameText(row.name, 11), NameText(row.alias, 13)})

\* Faulty: the counters count without an end.
Use_Uncapped(row) == row.seen * 2 + row.sent * 10

Use(row) == Least(row.seen, 50) * 2 + Least(row.sent, 20) * 10

match_score(a, row) == Text(a, row) + Use(row)

PHONE_WEIGHT == 400

Entry(a, row, weight) == [address |-> a, row |-> row, score |-> match_score(a, row) + weight]

\* by_score_then_use.
Before(x, y) ==
    \/ x.score > y.score
    \/ x.score = y.score /\ x.row.seen > y.row.seen
    \/ x.score = y.score /\ x.row.seen = y.row.seen /\ y.row.old /\ ~x.row.old

\* The sets a sort and a cut may leave; equals come in any order.
Cuts(entries) ==
    {top \in SUBSET entries :
       /\ Cardinality(top) = Least(Limit, Cardinality(entries))
       /\ \A x \in top, y \in entries \ top : ~Before(y, x)}

\* A text of 0 is no match.
MailMatches == {Entry(a, contacts[a], 0) : a \in {x \in Known : Text(x, contacts[x]) > 0}}

PhoneRow(a) == [NoRow EXCEPT !.name = phone[a]]
PhoneMatches == {Entry(a, PhoneRow(a), PHONE_WEIGHT) : a \in {x \in InPhone : Text(x, PhoneRow(x)) > 0}}

SameAddress(entries, e) == {x \in entries : Fold(x.address) = Fold(e.address)}

\* Of two spellings the index holds the one ranked last.
Indexed(mail, e) == {x \in SameAddress(mail, e) : \A y \in SameAddress(mail, e) : ~Before(x, y)}

\* Faulty: the phone's row takes the mail row's place.
Merged_Phone(mail, e) == e

Merged(mail, e) == LET x == CHOOSE y \in Indexed(mail, e) : TRUE
                   IN  [x EXCEPT !.score = @ + PHONE_WEIGHT, !.row.name = First(@, e.row.name)]

merge_phone(mail, listed) ==
    LET both == {e \in listed : SameAddress(mail, e) # {}}
        out  == {CHOOSE y \in Indexed(mail, e) : TRUE : e \in both}
    IN  (mail \ out) \cup {Merged(mail, e) : e \in both} \cup (listed \ both)

suggest_with_phone ==
    /\ \E mail \in Cuts(MailMatches) :
          shown' \in IF InPhone = {} THEN {mail} ELSE Cuts(merge_phone(mail, PhoneMatches))
    /\ UNCHANGED <<contacts, phone, feature, loading, mine, wrote, steps>>

Init ==
    /\ contacts \in [Spellings -> {NoRow} \cup
          {[name |-> r[1], alias |-> r[1], seen |-> r[2], sent |-> r[3], old |-> FALSE] : r \in Starts}]
    /\ phone = [a \in Spellings |-> Absent] /\ feature = FALSE /\ loading = FALSE /\ shown = {}
    /\ mine = [a \in Spellings |-> NoName] /\ wrote = {a \in Spellings : contacts[a].sent > 0} /\ steps = 0

Next == \/ \E a \in Spellings, n \in Names \cup {NoName} :
              \/ seen(a, n) \/ seen_sent(a, n) \/ set_alias(a, n)
              \/ \E r \in BOOLEAN : seed_from_messages(a, n, r)
        \/ \E as \in SUBSET Spellings : delete(as)
        \/ MonthsPass \/ set_phone_contacts \/ Toggle \/ suggest_with_phone

-----------------------------------------------------------------------------
(* Properties.                                                             *)

\* Mail never renames whom the user named (contacts.rs, seen: the alias is
\* seeded "if `alias` is not already populated").
AliasKept == \A a \in Known : mine[a] # NoName => contacts[a].alias = mine[a]

\* "Someone you wrote to is never stale, however long ago" (cleanup_candidates).
WrittenToStay == cleanup_candidates \cap wrote = {}

ShownAddresses == {Fold(e.address) : e \in shown}

\* A saved person no mail came from is never pushed off the list by a harvested
\* address that matches no better, however often that one was seen; one entry
\* per address of the phone (PHONE_WEIGHT: "sized above the whole frequency
\* bonus"; merge_phone).
PhoneFirst ==
    \A e \in shown : e.address \in Known /\ (\A a \in InPhone : Fold(a) # Fold(e.address)) =>
       \A p \in PhoneMatches : (\A a \in Known : Fold(a) # Fold(p.address)) /\ Text(p.address, p.row) >= Text(e.address, e.row)
                                  => Fold(p.address) \in ShownAddresses

\* An address both sources know keeps the mail row's history, as long as the
\* mail rows are not cut first (suggest_with_phone).
BothKept == Cardinality(MailMatches) <= Limit =>
               \A e \in shown : e.row.seen = 0 => SameAddress(MailMatches, e) = {}

=============================================================================
