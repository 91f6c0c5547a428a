------------------------------- MODULE Letter -------------------------------
(* A mail being written: what an answer, a mailto: link or a share puts into *)
(* the composer, and what its address fields become when the mail is saved   *)
(* as a draft, held in the outbox, taken back to edit and sent (compose/     *)
(* answer.rs, prefill.rs, form.rs, from.rs; sender/client.rs, message.rs).   *)
(* An address field is a sequence of entries, an entry a spelled address;    *)
(* Bare gives its bare lower-case address, <<local part, domain>>.           *)
EXTENDS Naturals, SequencesExt

CONSTANTS
  Me,         \* the account's address, a bare one
  Bare,       \* entries to bare addresses
  Sound,      \* the entries that parse as a mailbox
  Originals,  \* mails that may be answered
  Links,      \* what a mailto: link and the things shared with it name
  Typed,      \* what the user may add to a field: [field, entry]
  Locals,     \* what the user may put into the From field
  MaxEdits,   \* entries the user adds
  MaxTrips,   \* times the mail is saved or held and opened again
  NoEntry     \* a blank field

VARIABLES
  original,   \* the mail being answered, or NoEntry
  mode,       \* "new", "reply", "reply_all", "forward" or "link"
  form,       \* the composer's fields; NoEntry: no composer is open
  meant,      \* addresses the user put or left in the fields, by field
  draft,      \* the stored draft, or NoEntry
  row,        \* the mail in the outbox, or NoEntry
  sent,       \* the mail that went out, or NoEntry
  edits, trips

vars == <<original, mode, form, meant, draft, row, sent, edits, trips>>

Modes == {"reply", "reply_all", "forward"}
Keys(s) == {Bare[s[i]] : i \in DOMAIN s}
Blank == [from |-> NoEntry, to |-> <<>>, cc |-> <<>>, bcc |-> <<>>, reply |-> NoEntry,
          subject |-> <<>>, body |-> <<>>]

-----------------------------------------------------------------------------
(* The answer to a mail. *)

\* Faulty variant: the same address in another spelling is another one.
unique_addrs_Spelled(addrs, seen) ==
  FoldLeft(LAMBDA out, e : IF Bare[e] \in seen \/ \E i \in DOMAIN out : out[i] = e THEN out ELSE Append(out, e), <<>>, addrs)

\* addrs once each, without those already seen.
unique_addrs(addrs, seen) ==
  FoldLeft(LAMBDA out, e : IF Bare[e] \in seen \cup Keys(out) THEN out ELSE Append(out, e), <<>>, addrs)

reply_target(m) == IF m.reply = NoEntry THEN m.from ELSE m.reply

\* The recipients of a mail of our own; empty for anybody else's.
own_mail_recipients(m) ==
  IF Bare[m.from] = Me /\ (m.reply = NoEntry \/ Bare[m.reply] = Me)
  THEN unique_addrs(m.to, {Me}) ELSE <<>>

is_alias(k) == k[2] = Me[2] /\ k # Me

\* The alias a mail came to: the envelope's first, else the only one named.
reply_from(m) ==
  LET hits == SelectSeq(m.envelope, is_alias)
      named == {k \in Keys(m.to \o m.cc) : is_alias(k)}
  IN IF hits # <<>> THEN hits[1]
     ELSE IF m.envelope = <<>> /\ \E k \in named : named = {k} THEN CHOOSE k \in named : TRUE
     ELSE NoEntry

\* Faulty variant: a Reply-To replaces the sender altogether.
reply_all_cc_SenderDropped(m, from) ==
  unique_addrs(m.to \o m.cc, {Bare[reply_target(m)], Me} \cup (IF from = NoEntry THEN {} ELSE {from}))

reply_all_cc(m, from) ==
  unique_addrs(<<m.from>> \o m.to \o m.cc,
               {Bare[reply_target(m)], Me} \cup (IF from = NoEntry THEN {} ELSE {from}))

\* A subject is the prefixes before its words.
prefixed(s, prefix, known) == IF s # <<>> /\ s[1] \in known THEN s ELSE <<prefix>> \o s

\* Blocks of the body; a reply below its quote has them the other way round.
Below(below) == IF below THEN <<"quote", "rule", "text", "signature">>
                         ELSE <<"text", "signature", "rule", "quote">>
with_text(below) == IF below THEN <<"quote", "rule">> \o <<"text">> \o <<"signature">>
                             ELSE <<"text">> \o <<"signature">> \o <<"rule", "quote">>

Forwarded(m) == [Blank EXCEPT !.subject = prefixed(m.subject, "fwd", {"fwd", "wg"}), !.body = Below(FALSE)]

answer_draft(m, how, below) ==
  LET own == own_mail_recipients(m)
      from == IF own # <<>> THEN NoEntry ELSE reply_from(m)
  IN [from |-> from,
      to |-> IF own # <<>> THEN own ELSE <<reply_target(m)>>,
      cc |-> IF how # "reply_all" THEN <<>>
             ELSE IF own # <<>> THEN unique_addrs(m.cc, {Me} \cup Keys(own))
             ELSE reply_all_cc(m, from),
      bcc |-> <<>>, reply |-> NoEntry,
      subject |-> prefixed(m.subject, "re", {"re", "aw"}), body |-> Below(below)]

\* The stored mail is the source.
answer_draft_for(m, how, below) == IF how = "forward" THEN Forwarded(m) ELSE answer_draft(m, how, below)

\* A link's recipients first, then the loose ones, each once over all fields.
merge(l) ==
  LET to == unique_addrs(l.to \o l.more, {})
      cc == unique_addrs(l.cc, Keys(to))
  IN [Blank EXCEPT !.to = to, !.cc = cc, !.bcc = unique_addrs(l.bcc, Keys(to \o cc))]

-----------------------------------------------------------------------------
(* From the form to a message. *)

valid_mailboxes(field) == SelectSeq(field, LAMBDA e : e \in Sound)
strict(field) == \A i \in DOMAIN field : field[i] \in Sound

effective_from(local) == IF local = NoEntry THEN Me ELSE <<local, Me[2]>>
sender_domain_is_aligned(from) == from # NoEntry => from[2] = Me[2]

\* Faulty variant: the envelope is To's.
Message_ToOnly(f) == [from |-> f.from, to |-> valid_mailboxes(f.to), cc |-> f.cc, reply |-> f.reply,
               envelope |-> Keys(valid_mailboxes(f.to) \o f.bcc)]

\* What is built carries no Bcc; the envelope has everybody.
Message(f) == [from |-> f.from, to |-> valid_mailboxes(f.to), cc |-> f.cc, reply |-> f.reply,
               envelope |-> Keys(valid_mailboxes(f.to) \o f.cc \o f.bcc)]

format_draft(f) == [Message(f) EXCEPT !.envelope = {}]

Enqueues(f) ==
  /\ strict(f.cc) /\ strict(f.bcc)
  /\ valid_mailboxes(f.to) \o f.cc \o f.bcc # <<>>
  /\ sender_domain_is_aligned(f.from)

-----------------------------------------------------------------------------
Nothing == [to |-> {}, cc |-> {}, bcc |-> {}]
MeantBy(f) == [x \in {"to", "cc", "bcc"} |-> Keys(f[x])]

Init ==
  /\ original \in Originals \cup {NoEntry}
  /\ mode = "new" /\ form = NoEntry /\ meant = Nothing
  /\ draft = NoEntry /\ row = NoEntry /\ sent = NoEntry
  /\ edits = 0 /\ trips = 0

Fresh == form = NoEntry /\ draft = NoEntry /\ row = NoEntry /\ sent = NoEntry

Opens(how, f) ==
  /\ Fresh
  /\ mode' = how /\ form' = f /\ meant' = MeantBy(f)
  /\ UNCHANGED <<original, draft, row, sent, edits, trips>>

Answer(how, below) == original # NoEntry /\ Opens(how, answer_draft_for(original, how, below))
Prefill(l) == original = NoEntry /\ Opens("link", merge(l))
ComposeNew == original = NoEntry /\ Opens("new", Blank)

\* The composer completes an entry and puts the separator after it.
Type(t) ==
  /\ form # NoEntry /\ edits < MaxEdits
  /\ form' = [form EXCEPT ![t.field] = Append(@, t.entry)]
  /\ meant' = [meant EXCEPT ![t.field] = @ \cup {Bare[t.entry]}]
  /\ edits' = edits + 1
  /\ UNCHANGED <<original, mode, draft, row, sent, trips>>

EditFrom(local) ==
  /\ form # NoEntry /\ edits < MaxEdits
  /\ form' = [form EXCEPT !.from = effective_from(local)]
  /\ edits' = edits + 1
  /\ UNCHANGED <<original, mode, meant, draft, row, sent, trips>>

SaveDraft ==
  /\ form # NoEntry /\ trips < MaxTrips
  /\ strict(form.cc) /\ strict(form.bcc)
  /\ draft' = format_draft(form) /\ form' = NoEntry /\ trips' = trips + 1
  /\ UNCHANGED <<original, mode, meant, row, sent, edits>>

\* The draft's headers are the composer's fields again.
Reopened(d) == [Blank EXCEPT !.from = d.from, !.to = d.to, !.cc = d.cc, !.reply = d.reply]

OpenDraft ==
  /\ draft # NoEntry /\ form = NoEntry
  /\ form' = Reopened(draft) /\ draft' = NoEntry
  /\ UNCHANGED <<original, mode, meant, row, sent, edits, trips>>

Hold ==
  /\ form # NoEntry /\ trips < MaxTrips /\ Enqueues(form)
  /\ row' = Message(form) /\ form' = NoEntry /\ trips' = trips + 1
  /\ UNCHANGED <<original, mode, meant, draft, sent, edits>>

\* Who is in the envelope and in no header was in Bcc.
Hidden(m) == m.envelope \ Keys(m.to \o m.cc)

\* Faulty variant: the fields are the headers'.
TakenBack_HeadersOnly(m) == Reopened(m)

TakenBack(m) == [Reopened(m) EXCEPT !.bcc = SetToSeq({CHOOSE e \in Sound : Bare[e] = k : k \in Hidden(m)})]

TakeForEdit ==
  /\ row # NoEntry
  /\ form' = TakenBack(row) /\ row' = NoEntry
  /\ UNCHANGED <<original, mode, meant, draft, sent, edits, trips>>

Send ==
  /\ form # NoEntry /\ Enqueues(form)
  /\ sent' = Message(form) /\ form' = NoEntry
  /\ UNCHANGED <<original, mode, meant, draft, row, edits, trips>>

Deliver ==
  /\ row # NoEntry
  /\ sent' = row /\ row' = NoEntry
  /\ UNCHANGED <<original, mode, form, meant, draft, edits, trips>>

Next ==
  \/ \E how \in Modes, below \in BOOLEAN : Answer(how, below)
  \/ \E l \in Links : Prefill(l)
  \/ ComposeNew
  \/ \E t \in Typed : Type(t)
  \/ \E l \in Locals \cup {NoEntry} : EditFrom(l)
  \/ SaveDraft \/ OpenDraft \/ Hold \/ TakeForEdit \/ Send \/ Deliver

Spec == Init /\ [][Next]_vars

-----------------------------------------------------------------------------
Distinct(s) == \A i, j \in DOMAIN s : i # j => Bare[s[i]] # Bare[s[j]]
Untouched == form # NoEntry /\ edits = 0 /\ trips = 0
Audience(m) == Keys(<<m.from, reply_target(m)>> \o m.to \o m.cc)

\* What the composer opens with names everybody once, and never us or the
\* address we answer from beside others (answer.rs, unique_addrs and
\* reply_all_cc; prefill.rs, merge).
NamedOnce ==
  Untouched =>
    /\ Distinct(form.to \o form.cc \o form.bcc)
    /\ mode = "reply_all" => {Me, form.from} \cap Keys(form.cc) = {}
    /\ original # NoEntry /\ Me \in Keys(form.to) => Me \in Keys(<<original.from, reply_target(original)>>)

\* Reply-all reaches all the original reached but us, reply at least one of
\* them, and neither is refused for the address it goes out from (answer.rs,
\* answer_draft; sender/client.rs, enqueue_send_at).
NobodyLost ==
  Untouched /\ mode \in {"reply", "reply_all"} =>
    /\ Keys(form.to) # {} /\ Keys(form.to) \subseteq Audience(original)
    /\ mode = "reply_all" => Audience(original) \subseteq Keys(form.to \o form.cc) \cup {Me, form.from}
    /\ Enqueues(form)
    /\ form.body = with_text(form.body[1] = "quote")
    /\ prefixed(form.subject, "re", {"re", "aw"}) = form.subject

\* A mail reaches everybody in its To and Cc, also after it was saved or held
\* and opened again, and shows nobody who was only in Bcc; one held in the
\* outbox keeps them too (outbox.rs, take_for_edit; message.rs, assemble_message).
EveryoneReached ==
  \A m \in {row, sent} \ {NoEntry} :
    /\ (meant.to \cap {Bare[e] : e \in Sound}) \cup meant.cc \subseteq m.envelope
    /\ Keys(m.to \o m.cc) \cap (meant.bcc \ (meant.to \cup meant.cc)) = {}
    /\ m.envelope \subseteq meant.to \cup meant.cc \cup meant.bcc

\* "The composer form for a stored draft, so editing can continue": a draft
\* that is opened again has its recipients, the hidden ones too
\* (api/composer.rs, draft_form; message.rs, format_draft).
DraftKeepsRecipients == sent # NoEntry => meant.bcc \subseteq sent.envelope
=============================================================================
