------------------------------- MODULE VCard --------------------------------
(***************************************************************************)
(* The contact card over a mail with a .vcf file (mailcore vcard.rs).      *)
(* Phones and address books of thirty years write these: groups, agents    *)
(* within a card, bare parameters, and quoted-printable values that go on   *)
(* on the next line without the blank that folding needs.                   *)
(***************************************************************************)
EXTENDS ContentLine, TLC

CONSTANTS Files,      \* the contact files: sequences of physical lines
          MaxEntries  \* e-mail addresses and phone numbers kept (8)

VARIABLES vcf,        \* the file
          contact     \* the card shown, or Closed

vars == <<vcf, contact>>

NoCard == [loaded |-> FALSE]
Closed == [loaded |-> FALSE, open |-> FALSE]

-----------------------------------------------------------------------------
Compact(parts) == SelectSeq(parts, LAMBDA p : p # <<>>)
Joined(parts, between) ==
  FoldLeft(LAMBDA out, p : IF out = <<>> THEN p ELSE out \o between \o p, <<>>, Compact(parts))

text(v) == Trim(unescape_text(v))

\* Cut at each ";" that no backslash stands before.
components(v) ==
  LET Escaped(k) == \E j \in 1..(k - 1) : (\A i \in j..(k - 1) : v[i] = "\\")
                       /\ (j = 1 \/ v[j - 1] # "\\") /\ (k - j) % 2 = 1
      parts == Split(v, {k \in DOMAIN v : v[k] = ";" /\ ~Escaped(k)})
  IN [k \in DOMAIN parts |-> text(parts[k])]

\* The components c of a structured value in another order.
InOrder(c, order, between) ==
  LET Nth(k) == IF k \in DOMAIN c THEN c[k] ELSE <<>>
  IN Joined([k \in DOMAIN order |-> Nth(order[k])], between)
structured_name(c) == InOrder(c, <<4, 2, 3, 1, 5>>, <<" ">>)
address(c) ==
  InOrder(c, <<3, 2, 1>>, <<",">>) \o <<"/">> \o InOrder(c, <<6, 4>>, <<" ">>) \o <<"/">> \o InOrder(c, <<5, 7>>, <<",">>)

types(cl) ==
  {t \in UNION {Range(p.value) : p \in {q \in Range(cl.params) : q.name = <<"TYPE">>}} : t # ","}
  \cup UNION {Range(p.name) : p \in {q \in Range(cl.params) : q.name # <<"TYPE">> /\ q.value = <<>>}}

label(cl, phone) ==
  LET t == types(cl) IN
  [place |-> IF "work" \in t THEN "Work" ELSE IF "home" \in t THEN "Home" ELSE "",
   kind  |-> IF ~phone THEN "" ELSE IF {"cell", "mobile"} \cap t # {} THEN "mobile"
             ELSE IF "fax" \in t THEN "fax" ELSE IF "pager" \in t THEN "pager" ELSE ""]

is_quoted_printable(cl) ==
  \E k \in DOMAIN cl.params : \/ cl.params[k] = [name |-> <<"ENCODING">>, value |-> <<"quoted-printable">>]
                              \/ cl.params[k] = [name |-> <<"quoted-printable">>, value |-> <<>>]

-----------------------------------------------------------------------------
NoContact == [fn |-> <<>>, n |-> <<>>, org |-> <<>>, title |-> <<>>, url |-> <<>>,
              emails |-> <<>>, phones |-> <<>>, adr |-> <<>>, preferred |-> FALSE]

SetOnce(slot, v) == IF slot = <<>> THEN v ELSE slot

\* Faulty: the limit is taken before what is there twice is left out.
push_field_Twice(list, value, what) ==
  IF value = <<>> \/ Len(list) >= MaxEntries THEN list ELSE Append(list, [value |-> value, label |-> what])

\* Each value once, in any spelling, and no more than the card shows.
push_field(list, value, what) ==
  IF value = <<>> \/ Len(list) >= MaxEntries \/ \E k \in DOMAIN list : list[k].value = value THEN list
  ELSE Append(list, [value |-> value, label |-> what])

Bare(v, scheme) == IF Len(v) > 1 /\ v[1] = scheme /\ v[2] = ":" THEN Trim(SubSeq(v, 3, Len(v))) ELSE v

Preferred(cl) == "pref" \in types(cl) \/ param(cl, "PREF") = <<"1">>

\* Faulty: a later preferred address takes the place of an earlier one.
Replaces_Later(b, cl) == b.adr = <<>> \/ Preferred(cl)

\* The first address, or the first that is preferred.
Replaces(b, cl) == b.adr = <<>> \/ (Preferred(cl) /\ ~b.preferred)

\* One line of the card: its value as text t and as components c.
Filled(b, name, cl, t, c) ==
  IF name = "FN" THEN [b EXCEPT !.fn = SetOnce(@, t)]
  ELSE IF name = "N" THEN [b EXCEPT !.n = SetOnce(@, structured_name(c))]
  ELSE IF name = "ORG" THEN [b EXCEPT !.org = SetOnce(@, Joined(c, <<",">>))]
  ELSE IF name = "TITLE" THEN [b EXCEPT !.title = SetOnce(@, t)]
  ELSE IF name = "URL" THEN [b EXCEPT !.url = SetOnce(@, t)]
  ELSE IF name = "EMAIL" THEN [b EXCEPT !.emails = push_field(@, Bare(t, "mailto"), label(cl, FALSE))]
  ELSE IF name = "TEL" THEN [b EXCEPT !.phones = push_field(@, Bare(t, "tel"), label(cl, TRUE))]
  ELSE IF name = "ADR" /\ Compact(c) # <<>> /\ Replaces(b, cl)
  THEN [b EXCEPT !.adr = address(c), !.preferred = Preferred(cl)]
  ELSE b

property_name(name) == name[Len(name)]
read(b, cl) == Filled(b, property_name(cl.name), cl, text(cl.value), components(cl.value))

\* Title and organisation, the organisation alone not twice.
finish(b, more) ==
  LET affiliation == Joined(<<b.title, b.org>>, <<"-">>)
      emails == [k \in DOMAIN b.emails |-> b.emails[k].value]
      named  == SelectSeq(<<b.fn, b.n, affiliation>> \o emails \o <<<<"(Contact)">>>>, LAMBDA v : v # <<>>)
  IN [loaded |-> TRUE, name |-> named[1], affiliation |-> IF affiliation = named[1] THEN <<>> ELSE affiliation,
      emails |-> b.emails, phones |-> b.phones, address |-> b.adr, url |-> b.url, more_cards |-> more]

-----------------------------------------------------------------------------
(* Reading: how many cards are open and have begun, and the line that a soft *)
(* break at its end leaves unfinished.                                       *)
Unread == [depth |-> 0, cards |-> 0, open |-> NoLine, b |-> NoContact]

Soft(v) == v # <<>> /\ v[Len(v)] = "="

\* Faulty: the lines of a card within it are the card's as well.
Own_Any(s) == s.cards = 1 /\ s.depth > 0

\* Only the first card's own lines are read.
Own(s) == s.cards = 1 /\ s.depth = 1

Taken(s, cl) ==
  IF is_quoted_printable(cl) /\ Soft(cl.value) THEN [s EXCEPT !.open = cl]
  ELSE [s EXCEPT !.open = NoLine, !.b = read(@, cl)]

\* Faulty: a soft break ends at the end of its line.
Continued_Never(cl, raw) == [cl EXCEPT !.value = Front(@)]

\* The line after a soft break is part of the value, whatever it says.
Continued(cl, raw) == [cl EXCEPT !.value = Front(@) \o TrimEnd(raw)]

Bounds(cl, what) == property_name(cl.name) = what /\ Trim(cl.value) = <<"VCARD">>

\* Line cl, which goes on with the one before it or starts anew.
Handled(s, cl, goes_on) ==
  IF goes_on THEN Taken(s, cl)
  ELSE IF cl = NoLine THEN s
  ELSE IF Bounds(cl, "BEGIN") THEN [s EXCEPT !.depth = @ + 1, !.cards = IF s.depth = 0 THEN @ + 1 ELSE @]
  ELSE IF Bounds(cl, "END") THEN [s EXCEPT !.depth = IF @ = 0 THEN 0 ELSE @ - 1]
  ELSE IF Own(s) THEN Taken(s, cl)
  ELSE s

Line(s, raw) ==
  Handled(s, IF s.open # NoLine THEN Continued(s.open, raw) ELSE parse_content_line(TrimEnd(raw)), s.open # NoLine)

\* A line that a soft break leaves open at the end is read as it is.
Told(s) ==
  IF s.cards = 0 THEN NoCard ELSE finish(IF s.open = NoLine THEN s.b ELSE read(s.b, s.open), s.cards - 1)
parse_vcard(file) == Told(FoldLeft(Line, Unread, unfold(file)))

-----------------------------------------------------------------------------
Init == vcf \in Files /\ contact = Closed

\* The mail with the file is opened.
Show == contact = Closed /\ contact' = parse_vcard(vcf) /\ UNCHANGED vcf

Next == Show
Spec == Init /\ [][Next]_vars

-----------------------------------------------------------------------------
(* What the file says, read by counting: a line is in the cards that began   *)
(* and did not end before it, and a soft break takes the next line with it.  *)
Shown(lines, own, value, begins) ==
  LET Of(name) == {k \in own : property_name(lines[k].name) = name}
      Values(name) == [k \in Of(name) |-> text(value[k])]
      FirstOf(vs) == LET ks == {k \in DOMAIN vs : vs[k] # <<>>} IN IF ks = {} THEN <<>> ELSE vs[Min(ks)]
      places == {k \in Of("ADR") : Compact(components(value[k])) # <<>>}
      best(ks) == IF \E k \in ks : Preferred(lines[k]) THEN {k \in ks : Preferred(lines[k])} ELSE ks
      PlaceOf(ks) == IF ks = {} THEN <<>> ELSE address(components(value[Min(ks)]))
  IN [cards  |-> begins,
      fn     |-> FirstOf(Values("FN")),
      emails |-> {Bare(t, "mailto") : t \in Range(Values("EMAIL"))} \ {<<>>},
      place  |-> PlaceOf(best(places))]

\* The card of such a file, if it closes what it opens; own are the first
\* card's lines, and those in soft break off.
Broken(raw, lines, begins, ends, tops, own, soft) ==
  LET After(k) == Min({j \in DOMAIN lines \cup {Len(vcf) + 1} : j > k})
      tails == {After(k) : k \in soft}
  IN [well |-> /\ Cardinality(begins) = Cardinality(ends) /\ \A k \in ends : Around(k, begins, ends) # {}
               /\ tails \subseteq DOMAIN lines \ (begins \cup ends)
               /\ \A k \in soft : k \notin tails /\ ~Soft(TrimEnd(raw[After(k)]))]
     @@ Shown(lines, own \ tails,
              [k \in own |-> IF k \in soft THEN Front(lines[k].value) \o TrimEnd(raw[After(k)]) ELSE lines[k].value],
              Cardinality(tops))

Edges(lines, what) == {k \in DOMAIN lines : lines[k] # NoLine /\ lines[k].name = Word(what) /\ Trim(lines[k].value) = <<"VCARD">>}

First(raw, lines, begins, ends, tops) ==
  LET own == {k \in DOMAIN lines \ (begins \cup ends) :
                lines[k] # NoLine /\ tops # {} /\ Around(k, begins, ends) = {Min(tops)}}
  IN Broken(raw, lines, begins, ends, tops, own, {k \in own : is_quoted_printable(lines[k]) /\ Soft(lines[k].value)})
Nested(raw, lines, begins, ends) ==
  First(raw, lines, begins, ends, {k \in begins : Around(k, begins, ends) = {}})
Structured(raw, lines) == Nested(raw, lines, Edges(lines, "BEGIN"), Edges(lines, "END"))
Truth ==
  LET raw == Whole(vcf) IN Structured(raw, [k \in DOMAIN raw |-> parse_content_line(TrimEnd(raw[k]))])

Listed(list) == {list[k].value : k \in DOMAIN list}

\* The card shows the file's first contact, under the name that contact has,
\* with its own addresses only and none of a card within or after it, and
\* counts the others; each address is there unless the card is full
\* (vcard.rs, parse_vcard).
ShownAsWritten(t) ==
  t.well =>
    /\ contact.loaded <=> t.cards > 0
    /\ contact.loaded =>
         /\ contact.more_cards = t.cards - 1
         /\ t.fn # <<>> => contact.name = t.fn
         /\ Listed(contact.emails) \subseteq t.emails
         /\ Len(contact.emails) < MaxEntries => t.emails \subseteq Listed(contact.emails)
         /\ contact.address = t.place
CardAsWritten == contact # Closed => ShownAsWritten(Truth)

\* No address or number is listed twice (vcard.rs, push_field).
EntriesKept ==
  contact # Closed /\ contact.loaded =>
    \A list \in {contact.emails, contact.phones} : Cardinality(Listed(list)) = Len(list)
=============================================================================
