------------------------------ MODULE Calendar ------------------------------
(***************************************************************************)
(* The event card over a mail with a calendar file (mailcore calendar.rs,  *)
(* calendar/time.rs, calendar/format.rs).  Files come from any program, so *)
(* components nest, fold and end as they like; time zones stand before or  *)
(* after the event, or are not described at all.                           *)
(***************************************************************************)
EXTENDS ContentLine, Integers, TLC

CONSTANTS Files,    \* the calendar files: sequences of physical lines
          Stamps,   \* times: token -> [kind ("date", "utc", "local"), at (hours)]
          Offsets,  \* UTC offsets: token -> hours
          Spans,    \* durations: token -> hours
          Numbers,  \* numbers: token -> natural
          MaxDepth, \* nested components that are read (32)
          Here      \* the reader's own offset

VARIABLES ics,      \* the file
          event     \* the card shown, or Closed

vars == <<ics, event>>

NoTime  == [kind |-> "none", at |-> 0, zone |-> <<>>]
NoZone  == [open |-> FALSE, tzid |-> <<>>, offsets |-> <<>>]
NoEvent == [found |-> FALSE]
Closed  == [found |-> FALSE, open |-> FALSE]

-----------------------------------------------------------------------------
\* A time as it is written, with the zone it names.
Stamp(v) == IF Len(v) = 1 /\ v[1] \in DOMAIN Stamps THEN Stamps[v[1]] ELSE [kind |-> "none", at |-> 0]
Written(t, value, tzid) ==
  IF t.kind = "none" \/ (value = Word("DATE") /\ t.kind # "date") THEN NoTime
  ELSE [kind |-> t.kind, at |-> t.at, zone |-> Trim(tzid)]
read_time(cl) == Written(Stamp(Trim(cl.value)), param(cl, "VALUE"), param(cl, "TZID"))

\* Faulty: the winter offset does for the whole year.
fixed_offset_First(offsets) == IF offsets = <<>> THEN <<>> ELSE offsets[1]

\* The offset of a zone that has but one, or <<>>.
fixed_offset(offsets) ==
  IF offsets # <<>> /\ \A k \in DOMAIN offsets : offsets[k] = offsets[1] THEN offsets[1] ELSE <<>>

\* What can be converted is, what cannot keeps the name of its zone.
with_tzid(t, zones) ==
  IF t.kind # "local" \/ t.zone = <<>> THEN [t EXCEPT !.zone = <<>>]
  ELSE IF t.zone \in DOMAIN zones THEN [kind |-> "utc", at |-> t.at - zones[t.zone], zone |-> <<>>]
  ELSE [t EXCEPT !.kind = "zoned"]

Wall(t) == IF t.kind = "utc" THEN t.at + Here ELSE t.at
Day(t)  == Wall(t) \div 24
Clock(t, zone) == [day |-> Day(t), hour |-> IF t.kind = "date" THEN -1 ELSE Wall(t) % 24, zone |-> zone]

\* The end of an all-day event is the day after its last.
format_date_range(start, end) ==
  IF start.kind = "date"
  THEN LET last == IF end.kind # "none" /\ Day(end) > Day(start) THEN Day(end) - 1 ELSE Day(start)
       IN [all_day |-> TRUE, from |-> Clock(start, <<>>), to |-> [Clock(start, <<>>) EXCEPT !.day = last]]
  ELSE IF end.kind = "none"
  THEN [all_day |-> FALSE, from |-> Clock(start, start.zone), to |-> [day |-> 0, hour |-> -1, zone |-> <<>>]]
  ELSE [all_day |-> FALSE, from |-> Clock(start, IF start.zone = end.zone THEN <<>> ELSE start.zone),
        to |-> Clock(end, end.zone)]

-----------------------------------------------------------------------------
NoAttendee == [who |-> <<>>, stated |-> FALSE, partstat |-> <<>>]
Mailto(t) == IF Len(t) > 1 /\ t[1] = "mailto" /\ t[2] = ":" THEN Trim(SubSeq(t, 3, Len(t))) ELSE t
Address(v) == Mailto(Trim(v))
Either(name, address) == IF name # <<>> THEN name ELSE address
Called(cl) == Either(Trim(param(cl, "CN")), Address(cl.value))

parse_attendee(cl) ==
  [who |-> Called(cl), stated |-> Has(cl, "PARTSTAT"), partstat |-> Trim(param(cl, "PARTSTAT"))]

\* Faulty: the last one listed.
Speaker_Last(cur, cl) == IF Called(cl) = <<>> THEN cur ELSE parse_attendee(cl)

\* The first attendee, or the first that states a participation.
Speaker(cur, cl) ==
  IF Called(cl) # <<>> /\ (cur = NoAttendee \/ (~cur.stated /\ Has(cl, "PARTSTAT"))) THEN parse_attendee(cl) ELSE cur

parse_organizer(cl) == [name |-> Called(cl), address |-> Address(cl.value)]

Answers == [ACCEPTED |-> "positive", DECLINED |-> "negative", TENTATIVE |-> "neutral", DELEGATED |-> "neutral"]
Notice(who, says, tone) == [who |-> who, says |-> says, tone |-> tone]
Quiet == Notice(<<>>, "", "")

notice_for(method, sequence, attendee) ==
  LET who == IF attendee = NoAttendee THEN <<"An attendee">> ELSE attendee.who
      ps  == attendee.partstat
  IN IF method = <<"REPLY">>
     THEN IF Len(ps) = 1 /\ ps[1] \in DOMAIN Answers THEN Notice(who, ps[1], Answers[ps[1]])
          ELSE Notice(who, "replied", "neutral")
     ELSE IF method \in {<<"COUNTER">>, <<"REFRESH">>} THEN Notice(who, method[1], "neutral")
     ELSE IF method = <<"DECLINECOUNTER">> THEN Notice(<<>>, method[1], "negative")
     ELSE IF method = <<"ADD">> \/ (method = <<"REQUEST">> /\ sequence > 0) THEN Notice(<<>>, method[1], "neutral")
     ELSE Quiet

-----------------------------------------------------------------------------
(* Reading: the open components, the zone being described, the zones known, *)
(* the calendar's method and the lines of the first event.                  *)
Unread == [stack |-> <<>>, seen |-> FALSE, done |-> FALSE, ended |-> FALSE, refused |-> FALSE,
           zone |-> NoZone, zones |-> <<>>, method |-> <<>>, own |-> <<>>]

Begin(s, comp) ==
  IF Len(s.stack) >= MaxDepth THEN [s EXCEPT !.refused = TRUE]
  ELSE [s EXCEPT !.stack = Append(@, comp), !.zone = IF comp = <<"VTIMEZONE">> THEN [NoZone EXCEPT !.open = TRUE] ELSE @]

\* An end closes the innermost component of its name and all within it.
End(s, comp) ==
  LET depth == {k \in DOMAIN s.stack : s.stack[k] = comp}
      known == comp = <<"VTIMEZONE">> /\ s.zone.tzid # <<>> /\ fixed_offset(s.zone.offsets) # <<>>
  IN [s EXCEPT
       !.stack = IF depth = {} THEN @ ELSE SubSeq(@, 1, (CHOOSE k \in depth : \A j \in depth : j =< k) - 1),
       !.zones = IF known THEN (s.zone.tzid :> fixed_offset(s.zone.offsets)[1]) @@ @ ELSE @,
       !.zone  = IF comp = <<"VTIMEZONE">> THEN NoZone ELSE @,
       !.done  = @ \/ (comp = <<"VEVENT">> /\ s.seen),
       !.ended = comp = <<"VCALENDAR">>]

\* Faulty: what stands anywhere inside the event is the event's.
Within_Any(s, comp) == \E k \in DOMAIN s.stack : s.stack[k] = Word(comp)

\* The component a property belongs to is the innermost one.
Within(s, comp) == s.stack # <<>> /\ s.stack[Len(s.stack)] = Word(comp)

Property(s, cl) ==
  LET v == Trim(cl.value)
      offset == IF Len(v) = 1 /\ v[1] \in DOMAIN Offsets THEN <<Offsets[v[1]]>> ELSE <<>>
      part == (Within(s, "STANDARD") \/ Within(s, "DAYLIGHT"))
                 /\ Len(s.stack) > 1 /\ s.stack[Len(s.stack) - 1] = <<"VTIMEZONE">>
  IN [s EXCEPT
       !.method = IF Within(s, "VCALENDAR") /\ cl.name = <<"METHOD">> THEN v ELSE @,
       !.zone = IF ~@.open THEN @
                ELSE IF Within(s, "VTIMEZONE") /\ cl.name = <<"TZID">> THEN [@ EXCEPT !.tzid = v]
                ELSE IF part /\ cl.name = <<"TZOFFSETTO">> THEN [@ EXCEPT !.offsets = Append(@, offset)]
                ELSE @,
       !.seen = @ \/ Within(s, "VEVENT"),
       !.own = IF Within(s, "VEVENT") /\ ~s.done THEN Append(@, cl) ELSE @]

Handled(s, cl) ==
  IF cl = NoLine THEN s
  ELSE IF cl.name = <<"BEGIN">> THEN Begin(s, Trim(cl.value))
  ELSE IF cl.name = <<"END">> THEN End(s, Trim(cl.value))
  ELSE Property(s, cl)

Line(s, raw) == IF s.refused \/ s.ended THEN s ELSE Handled(s, parse_content_line(Trim(raw)))

\* The last line of that name, as each replaces the one before.
Latest(own, name) ==
  LET of == {k \in DOMAIN own : own[k].name = Word(name)}
  IN IF of = {} THEN NoLine ELSE own[CHOOSE k \in of : \A j \in of : j =< k]

\* The end, if one is given that can be read, or the start and how long it lasts.
Ends(start, end, span) ==
  LET hours == Spans[span[1]]
      whole == IF hours < 24 THEN 24 ELSE (hours \div 24) * 24
  IN IF end.kind # "none" THEN end
     ELSE IF Len(span) # 1 \/ span[1] \notin DOMAIN Spans THEN NoTime
     ELSE [start EXCEPT !.at = @ + IF start.kind = "date" THEN whole ELSE hours]

Cancelled(status, method) == status = <<"CANCELLED">> \/ method = <<"CANCEL">>

Number(v) == IF Len(v) = 1 /\ v[1] \in DOMAIN Numbers THEN Numbers[v[1]] ELSE 0
Titled(v) == IF v = <<>> THEN <<"(Event)">> ELSE v

\* The card of what was read, from the event's own lines.
Event(s, start, method) ==
  LET Value(name) == Trim(Latest(s.own, name).value)
      who == FoldLeft(Speaker, NoAttendee, SelectSeq(s.own, LAMBDA cl : cl.name = <<"ATTENDEE">>))
  IN IF s.refused \/ start.kind = "none" THEN NoEvent
     ELSE [found |-> TRUE,
           summary |-> Titled(Trim(unescape_text(Latest(s.own, "SUMMARY").value))),
           location |-> Trim(unescape_text(Latest(s.own, "LOCATION").value)),
           organizer |-> parse_organizer(Latest(s.own, "ORGANIZER")),
           time |-> format_date_range(start, Ends(start, with_tzid(read_time(Latest(s.own, "DTEND")), s.zones), Value("DURATION"))),
           cancelled |-> Cancelled(Value("STATUS"), method),
           notice |-> notice_for(method, Number(Value("SEQUENCE")), who)]

Told(s) ==
  LET said == Latest(s.own, "METHOD")
  IN Event(s, with_tzid(read_time(Latest(s.own, "DTSTART")), s.zones), IF said # NoLine THEN Trim(said.value) ELSE s.method)
parse(file) == Told(FoldLeft(Line, Unread, unfold(file)))

-----------------------------------------------------------------------------
Init == ics \in Files /\ event = Closed

\* The mail with the file is opened.
Show == event = Closed /\ event' = parse(ics) /\ UNCHANGED ics

Next == Show
Spec == Init /\ [][Next]_vars

-----------------------------------------------------------------------------
(* What the file says, read without a stack: of each line the components    *)
(* that began before it and are still open, the innermost the last of them.  *)
Said(lines, ks) == IF ks = {} THEN NoLine ELSE lines[Max(ks)]

\* The event with these lines, in a calendar that says this method otherwise;
\* fixed has the offsets the file gives a zone of that name.
Tells(lines, own, method, fixed) ==
  LET Own(name) == {k \in own : lines[k].name = Word(name)}
      stated == {k \in Own("ATTENDEE") : Has(lines[k], "PARTSTAT")}
      VoiceOf(ks) == IF ks = {} THEN <<>> ELSE Called(lines[Min(ks)])
      Method(ks) == IF ks = {} THEN method ELSE Trim(lines[Max(ks)].value)
      Fixed(id) == IF id \in DOMAIN fixed THEN fixed[id] ELSE {}
      Zoned(cl) == [start |-> read_time(cl), fixed |-> Fixed(Trim(param(cl, "TZID")))]
  IN [summary |-> Trim(unescape_text(Said(lines, Own("SUMMARY")).value)),
      status  |-> Trim(Said(lines, Own("STATUS")).value),
      method  |-> Method(Own("METHOD")),
      speaks  |-> VoiceOf(IF stated = {} THEN Own("ATTENDEE") ELSE stated)] @@ Zoned(Said(lines, Own("DTSTART")))

\* Those lines, found in a file with these components: comp is the name of
\* each, inner the innermost one around each line.
Found(lines, comp, plain, inner) ==
  LET Named(n) == {j \in DOMAIN comp : comp[j] = Word(n)}
      In(name, js) == {k \in plain : lines[k].name = Word(name) /\ inner[k] \in js}
      events == {inner[k] : k \in plain} \cap Named("VEVENT")
      Steps(z) == {j \in Named("STANDARD") \cup Named("DAYLIGHT") : inner[j] = z}
      Ids(zs) == {Trim(lines[k].value) : k \in In("TZID", zs)}
      fixed == [id \in Ids(Named("VTIMEZONE")) |-> {o \in DOMAIN Offsets : \E z \in Named("VTIMEZONE") :
                  id \in Ids({z}) /\ {Trim(lines[k].value) : k \in In("TZOFFSETTO", Steps(z))} = {Word(o)}}]
  IN Tells(lines, {k \in plain : events # {} /\ inner[k] = Min(events)},
           Trim(Said(lines, In("METHOD", Named("VCALENDAR"))).value), fixed)

\* The same with whether the file opens and closes in order, and how deep.
Ordered(lines, around, begins, ends) ==
  LET comp == [k \in begins |-> Trim(lines[k].value)]
      inner == [k \in DOMAIN lines |-> Max({0} \cup around[k])]
      Only(n) == {j \in begins : comp[j] = Word(n)}
  IN [well |-> /\ Only("VCALENDAR") = {1}
               /\ \A k \in ends : around[k] # {} /\ comp[inner[k]] = Trim(lines[k].value)
               /\ Cardinality(begins) = Cardinality(ends)
               /\ \A c \in {"VEVENT", "VTIMEZONE"} : \A j \in Only(c) : around[j] \cap Only(c) = {},
      deep |-> \E k \in begins : Cardinality(around[k]) >= MaxDepth]
     @@ Found(lines, comp, {k \in DOMAIN lines \ (begins \cup ends) : lines[k] # NoLine}, inner)

Nested(lines, begins, ends) == Ordered(lines, [k \in DOMAIN lines |-> Around(k, begins, ends)], begins, ends)
Structured(lines) ==
  LET Edges(name) == {k \in DOMAIN lines : lines[k].name = Word(name)} IN Nested(lines, Edges("BEGIN"), Edges("END"))
Truth == LET raw == Whole(ics) IN Structured([k \in DOMAIN raw |-> parse_content_line(Trim(raw[k]))])

\* A file that opens and closes its components in order shows the event it
\* tells first, with the title that event itself says last, cancelled if the
\* event or the calendar says so (calendar.rs, parse).
ShownAsWritten(t) ==
  /\ event.found <=> ~t.deep /\ t.start.kind # "none"
  /\ event.found => /\ event.summary = Titled(t.summary)
                    /\ event.cancelled <=> t.status = <<"CANCELLED">> \/ t.method = <<"CANCEL">>
                    /\ t.method = <<"REPLY">> /\ t.speaks # <<>> => event.notice.who = t.speaks

\* A time of a zone the file does not fix is shown as it is written, with the
\* zone's name; any other is the same moment on the reader's clock (time.rs,
\* with_tzid; format.rs, format_date_range).
OnTheClock(t, from, to) ==
  LET at == from.day * 24 + from.hour IN
  IF t.start.kind = "date" THEN event.time.all_day /\ from.day = t.start.at \div 24
  ELSE IF t.start.kind = "utc" THEN at = t.start.at + Here /\ from.zone = <<>>
  ELSE IF t.fixed # {} /\ t.start.zone # <<>>
  THEN \E o \in t.fixed : at = t.start.at - Offsets[o] + Here
  ELSE at = t.start.at /\ t.start.zone \in {from.zone, to.zone}

AsWritten(t) == t.well => ShownAsWritten(t) /\ (event.found => OnTheClock(t, event.time.from, event.time.to))

\* Both of what the file says (calendar.rs, parse; time.rs; format.rs).
EventAsWritten == event # Closed => AsWritten(Truth)

\* No name or address on the card is cut out of the middle of another part of
\* its line (content_line.rs, parse_content_line).
NamesWhole ==
  event # Closed /\ event.found =>
    \A v \in {event.organizer.name, event.organizer.address, event.notice.who} : ~Contains(v, "\"")
=============================================================================
