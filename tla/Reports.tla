------------------------------ MODULE Reports -------------------------------
(***************************************************************************)
(* The card over a delivery report or a read receipt, and "Edit & resend"  *)
(* of a bounced mail (mailcore report.rs, store/messages.rs, compose       *)
(* answer.rs and forward.rs).                                              *)
(*                                                                         *)
(* The report's parts may come long after the report, and the mail it is   *)
(* about may arrive, move between folders and go while the card is shown.  *)
(***************************************************************************)
EXTENDS Naturals, Sequences, FiniteSets

CONSTANTS Reported,     \* the reports: [kind, blocks, mid, own]
          Copies,       \* copies of mails: [mid, sent, id], id 0 is never one of them
          MaxRecipients \* recipients read of one report (50)

VARIABLES report,   \* the report on the server and its row in the cache
          cached,   \* which of its parts' bytes are here, of Parts
          mails,    \* the cached mails, the report aside
          card,     \* the card shown, or NoCard
          draft     \* the resend draft made, or NoDraft

vars == <<report, cached, mails, card, draft>>

Parts == {"status", "headers"}
NoCard == [shown |-> FALSE, loaded |-> FALSE, outcome |-> "", recipients |-> <<>>, original |-> 0, can_resend |-> FALSE]
NoDraft == [made |-> FALSE, to |-> {}, of |-> "", id |-> 0]

\* The report is a mail as well: the newest in the inbox.
Self == [mid |-> report.own, sent |-> FALSE, id |-> 1 + Cardinality(Copies)]
NoCopy == [mid |-> "", sent |-> FALSE, id |-> 0]

-----------------------------------------------------------------------------
(* Faulty: a recipient without an action is taken as delivered. *)
ActionOf_Fine(b) == IF b.action = "" THEN "delivered" ELSE b.action

ActionOf(b) == IF b.action = "" THEN "failed" ELSE b.action

\* A block names a recipient or is about the whole report; only the first
\* MaxRecipients recipients are read.
parse_dsn(blocks) ==
  LET named == SelectSeq(blocks, LAMBDA b : b.who # "")
      n == IF Len(named) < MaxRecipients THEN Len(named) ELSE MaxRecipients
  IN [k \in 1..n |-> [who |-> named[k].who, action |-> ActionOf(named[k])]]

Any(recipients, action) == \E k \in DOMAIN recipients : recipients[k].action = action

\* Faulty: one delivered recipient makes the whole report good.
outcome_First(recipients) ==
  IF Any(recipients, "delivered") THEN "delivered"
  ELSE IF Any(recipients, "failed") THEN "failed"
  ELSE IF Any(recipients, "delayed") THEN "delayed"
  ELSE "relayed"

outcome(recipients) ==
  IF Any(recipients, "failed") THEN "failed"
  ELSE IF Any(recipients, "delayed") THEN "delayed"
  ELSE IF Any(recipients, "relayed") THEN "relayed"
  ELSE "delivered"

\* Sent copies before others, then the newest.
Before(m, n) == IF m.sent # n.sent THEN m.sent ELSE m.id > n.id

find_by_message_id(mid) ==
  LET found == {m \in mails \cup {Self} : m.mid = mid} IN
  IF mid = "" \/ found = {} THEN NoCopy
  ELSE CHOOSE m \in found : \A n \in found \ {m} : Before(m, n)

\* Faulty: the report may be its own original.
find_original_Self(mid) == find_by_message_id(mid)

find_original(mid) == LET m == find_by_message_id(mid) IN IF m = Self THEN NoCopy ELSE m

\* A receipt names its original itself, a delivery report by the part with
\* the original's headers.
OriginalId ==
  IF report.kind = "mdn" \/ "headers" \in cached THEN report.mid ELSE ""

\* The card of a read receipt.
read_receipt ==
  IF "status" \notin cached THEN [NoCard EXCEPT !.shown = TRUE]
  ELSE [NoCard EXCEPT !.shown = TRUE, !.loaded = TRUE, !.outcome = "displayed",
                      !.original = find_original(OriginalId).id]

delivery_report ==
  IF report.kind = "mdn" THEN read_receipt
  ELSE IF "status" \notin cached \/ parse_dsn(report.blocks) = <<>>
  THEN [NoCard EXCEPT !.shown = TRUE, !.outcome = "failed"]
  ELSE LET recipients == parse_dsn(report.blocks)
           original   == find_original(OriginalId)
           bad        == outcome(recipients)
       IN [shown |-> TRUE, loaded |-> TRUE, outcome |-> bad, recipients |-> recipients,
                original |-> original.id, can_resend |-> bad = "failed" /\ original # NoCopy]

Failed(recipients) == {recipients[k].who : k \in {j \in DOMAIN recipients : recipients[j].action = "failed"}}

-----------------------------------------------------------------------------
Init ==
  /\ report \in Reported
  /\ cached \in SUBSET Parts
  /\ mails \in {s \in SUBSET Copies : Cardinality(s) =< 1}
  /\ card = NoCard
  /\ draft = NoDraft

Open ==
  /\ card' = delivery_report
  /\ UNCHANGED <<report, cached, mails, draft>>

\* The user downloads a part that was not kept when the mail was fetched.
Download ==
  \E p \in Parts \ cached :
    /\ cached' = cached \cup {p}
    /\ UNCHANGED <<report, mails, card, draft>>

\* Another folder is synced: a copy comes, or is gone.
SyncCopy ==
  \E m \in Copies :
    /\ mails' = IF m \in mails THEN mails \ {m} ELSE mails \cup {m}
    /\ UNCHANGED <<report, cached, card, draft>>

\* Faulty: what the card offered is believed, and all its recipients are written to.
resend_draft_Card ==
  /\ card.can_resend
  /\ draft' = [made |-> TRUE, to |-> {card.recipients[k].who : k \in DOMAIN card.recipients},
               of |-> report.mid, id |-> card.original]
  /\ UNCHANGED <<report, cached, mails, card>>

\* A click on a card that offered it: the report is read again, and the
\* draft refused when its original is gone meanwhile.
resend_draft ==
  LET now == delivery_report IN
  /\ card.can_resend
  /\ now.can_resend
  /\ draft' = [made |-> TRUE, to |-> Failed(now.recipients), of |-> find_original(OriginalId).mid, id |-> now.original]
  /\ UNCHANGED <<report, cached, mails, card>>

Next == Open \/ Download \/ SyncCopy \/ resend_draft

Spec == Init /\ [][Next]_vars

-----------------------------------------------------------------------------
TypeOK ==
  /\ cached \subseteq Parts
  /\ mails \subseteq Copies
  /\ card.original \in 0..(1 + Cardinality(Copies))

Rank(b) == CASE b.action \in {"failed", ""} -> 4 [] b.action = "delayed" -> 3 [] b.action = "relayed" -> 2 [] OTHER -> 1
Named == {k \in DOMAIN report.blocks : report.blocks[k].who # ""}
RankOf(word) == CASE word = "failed" -> 4 [] word = "delayed" -> 3 [] word = "relayed" -> 2 [] OTHER -> 1

\* What a loaded delivery card says first is the worst that befell a recipient
\* the report names, as long as there are no more than are read; one who is
\* named without an action counts as failed (report.rs outcome, parse_dsn).
CardSaysWorst ==
  card.loaded /\ report.kind = "dsn" /\ Cardinality(Named) =< MaxRecipients =>
    /\ \A k \in Named : Rank(report.blocks[k]) =< RankOf(card.outcome)
    /\ \E k \in Named : Rank(report.blocks[k]) = RankOf(card.outcome)

\* A resend draft writes to those whose delivery failed and to nobody else,
\* takes the mail the report is about, never the report, and is never made
\* from a read receipt (report.rs bounce, answer.rs resend_draft).
ResendsTheFailed ==
  draft.made =>
    /\ report.kind = "dsn"
    /\ draft.of = report.mid /\ draft.id \in {m.id : m \in {c \in Copies : c.mid = report.mid}}
    /\ draft.to # {}
    /\ \A w \in draft.to : \E k \in Named : report.blocks[k].who = w /\ Rank(report.blocks[k]) = 4
    /\ Cardinality(Named) =< MaxRecipients =>
         \A k \in Named : Rank(report.blocks[k]) = 4 => report.blocks[k].who \in draft.to

\* A draft is made of a mail that is there when it is made, whatever the card
\* still offers (report.rs bounce reads the report again).
DraftOfThere ==
  draft' # draft => \E m \in mails : m.id = draft'.id

\* With both parts here, a card opened now leads to the original if a copy of
\* it is cached, to the sent one if there is one: unless the report bears the
\* original's own Message-ID, when it may hide the copy (report.rs
\* find_original looks at one row only).
CardFindsOriginal ==
  cached = Parts /\ report.mid # report.own /\ delivery_report.loaded =>
    LET there == {m \in mails : m.mid = report.mid} IN
    /\ (there = {}) <=> (delivery_report.original = 0)
    /\ \A m \in there : m.id = delivery_report.original \/ ~m.sent \/ \E n \in there : n.sent /\ n.id = delivery_report.original
=============================================================================
