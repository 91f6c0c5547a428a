------------------------------ MODULE MCReading ------------------------------
(* What stands around reading and writing mail, side by side: one IMAP       *)
(* connection, the command-line run, attachments, contacts, answers and      *)
(* drafts, the sidebar and the search field; the page of one mail: its body  *)
(* and files, the card of a delivery report, the colours and widths it is    *)
(* painted in, the cards of calendar and contact files; and the preferences, *)
(* a click that opens the window, the types and names of files.              *)
(* `part` says which one a behaviour is of; their states do not mix.         *)
EXTENDS Wire, SequencesExt, TLC

CONSTANTS NoValue, NoOne, NotYet

VARIABLES viewed, remote, page, once, consent      \* MailView's
VARIABLES notice, fetched, copies, card, redraft   \* Reports'
VARIABLES design, dark, keep, wide                 \* Look's
VARIABLES ics, event, vcf, contact                 \* Calendar's and VCard's
VARIABLES app, own, known, dialog, status, turns, faults                          \* Settings'
VARIABLES at, port, queued, nudged, hand, views, ends, asked, missed, torn        \* Launch's
VARIABLES mail, types, has, handed, folder                                        \* FileTypes'

Html == INSTANCE Sanitizer WITH MaxOpen <- 3, Budget <- 3, Whole <- 3

\* Documents of up to four tokens, of three kinds: heads, nested drops, images.
O(n) == Html!Tag("open", n)
E(n) == Html!Tag("close", n)
Words == Html!Text
Upto(S, n) == UNION {[1..k -> S] : k \in 1..n}
Heads == Upto({O("head"), O("style"), E("style"), E("head"), O("p"), Words, Html!Blank}, 4)
Drops == Upto({O("form"), E("form"), O("style"), E("style"), O("p"), E("p"), O("td"), E("td"), Words}, 4)
Pics  == Upto({Html!Image("web", "none"), Html!Image("lan", "some"), Html!Image("cid", "some"),
               Html!Image("svg", "empty"), Html!Image("data", "none"), O("form"), E("form"), Words}, 3)

\* Mails with one part of each kind, with two cards, and with images that may
\* be too large, on bodies that name them in the open, hidden or not at all.
Bodies == {<<Words>>, <<Html!Image("cid", "some")>>, <<Html!Image("web", "none")>>,
  <<Html!Image("cid", "none"), Html!Image("cid", "some"), Html!Image("web", "none")>>,
  <<O("form"), Html!Image("cid", "some"), E("form"), Words>>,
  <<Html!Token("none", "img", "cid", "none"), Words>>}
Filed(kind, bytes) == [kind |-> kind, inline |-> FALSE, cid |-> FALSE, bytes |-> bytes, size |-> 0]
Some == {"none", "good", "bad"}
Alone == {<<[Filed(k, b) EXCEPT !.inline = i]>> :
  k \in {"file", "ics", "vcf", "eml", "status", "headers"}, i \in BOOLEAN, b \in Some}
Twice == {<<Filed(k, b), Filed(l, "none")>> :
  k \in {"ics", "vcf", "eml", "status", "headers"}, b \in Some, l \in {"ics", "headers", "eml", "status"}}
Picture(i, b, s) == [kind |-> "raster", inline |-> i, cid |-> TRUE, bytes |-> b, size |-> s]
Pictures == {<<Picture(i, b, s), Picture(FALSE, "good", t), [Filed("ics", "good") EXCEPT !.inline = j]>> :
  i \in BOOLEAN, j \in BOOLEAN, b \in {"none", "good"}, s \in {2, 9}, t \in {2, 9}}
View == INSTANCE MailView WITH
  Mails <- [html : Heads \cup Drops \cup Pics, parts : {<<>>}]
           \cup [html : Bodies, parts : Alone \cup Twice \cup Pictures],
  MaxOpen <- 3, Budget <- 3, Whole <- 3, mail <- viewed

\* A report on two recipients and a third that is past the limit.
Block(w, a) == [who |-> w, action |-> a]
On(w) == {Block(w, a) : a \in {"failed", "delayed", "relayed", "delivered", ""}}
Blocks == {<<Block("", "")>>} \cup {<<x>> : x \in On("ann")}
  \cup {<<Block("", ""), x, y>> : x \in On("ann"), y \in On("bob")}
  \cup {<<x, y, Block("cay", "failed")>> : x \in On("ann"), y \in On("bob")}
Copy(mid, sent, id) == [mid |-> mid, sent |-> sent, id |-> id]
Report == INSTANCE Reports WITH
  Reported <- [kind : {"dsn"}, blocks : Blocks, mid : {"o"}, own : {"o", "r"}]
              \cup {[kind |-> "mdn", blocks |-> <<>>, mid |-> "o", own |-> "r"]},
  Copies <- {Copy("o", TRUE, 1), Copy("o", FALSE, 2), Copy("x", FALSE, 3)}, MaxRecipients <- 2,
  report <- notice, cached <- fetched, mails <- copies, draft <- redraft

\* One text in one box: colours from the corners and middles of the cube, by
\* style or attribute; and widths on either side of the pages'.
Colours == [1..3 -> {0, 128, 255}]
Plain == [color |-> <<>>, background |-> <<>>, fgattr |-> <<>>, bgcolor |-> <<>>, width |-> 0, min |-> FALSE, cell |-> FALSE]
Boxes == {Plain} \cup {[Plain EXCEPT ![a] = c] : a \in {"background", "bgcolor"}, c \in Colours}
Inks  == {Plain} \cup {[Plain EXCEPT ![a] = c] : a \in {"color", "fgattr"}, c \in Colours}
         \cup {[Plain EXCEPT !.bgcolor = <<255, 255, 255>>, !.fgattr = c] : c \in Colours}
Sized == {[Plain EXCEPT !.width = w, !.min = m, !.cell = c, !.color = k] :
            w \in {0, 300, 600}, m \in BOOLEAN, c \in BOOLEAN, k \in {<<>>, <<0, 0, 0>>}}
Paint == INSTANCE Look WITH
  Designs <- {<<b, i>> : b \in Boxes, i \in Inks} \cup {<<a, b>> : a \in Sized, b \in Sized},
  Pages <- {320, 332, 620, 1000}

\* Calendar files: who answers what, when it is, and what stands inside what.
L(name, ts) == <<name, ":">> \o ts
Opening(c) == L("BEGIN", <<c>>)
Closing(c)   == L("END", <<c>>)
In(c, lines) == <<Opening(c)>> \o lines \o <<Closing(c)>>
At(t) == L("DTSTART", <<t>>)
InZone(name, t) == <<name, ";", "TZID", "=", "z", ":", t>>
Zone(ts) == In("VTIMEZONE", <<L("TZID", <<"z">>)>>
              \o FlattenSeq([k \in DOMAIN ts |-> In("STANDARD", <<L("TZOFFSETTO", <<ts[k]>>)>>)]))
Who(w, ps) == <<"ATTENDEE", ";", "CN", "=", "\"", w, ":", "x", "\"", ";", "PARTSTAT", "=", ps, ":", "mailto", ":", w>>
Methods == {<<>>} \cup {<<L("METHOD", <<m>>)>> : m \in {"REPLY", "CANCEL", "REQUEST", "COUNTER", "DECLINECOUNTER", "ADD"}}
Says == {L("STATUS", <<"CANCELLED">>), L("METHOD", <<"REPLY">>), L("METHOD", <<"CANCEL">>), Who("ann", "ACCEPTED"),
         Who("bob", "DECLINED"), L("ATTENDEE", <<"mailto", ":", "cay">>), L("SEQUENCE", <<"1">>),
         <<"ORGANIZER", ";", "CN", "=", "\"", "dan", ":", "x", "\"", ":", "mailto", ":", "dan">>}
Times == {<<At(t)>> : t \in {"d1", "l9", "u9", "odd"}}
         \cup {<<InZone("DTSTART", "l9")>>, <<InZone("DTSTART", "u9")>>, <<<<"DTSTART", ";", "VALUE", "=", "DATE", ":", "l9">>>>}
Until == {<<>>} \cup {<<L("DTEND", <<t>>)>> : t \in {"d1", "d3", "l9", "u9"}}
         \cup {<<InZone("DTEND", "l9")>>} \cup {<<L("DURATION", <<t>>)>> : t \in {"1h", "2d", "odd"}}
Zones == {<<>>, Zone(<<"+2">>), Zone(<<"+2", "+2">>), Zone(<<"+1", "+2">>), Zone(<<"+2", "odd">>),
          Zone(<<"+1", "+2">>) \o Zone(<<"+2">>)}
Pieces == {<<Opening("VEVENT")>>, <<Closing("VEVENT")>>, <<At("d1")>>, <<L("SUMMARY", <<"a">>)>>,
           In("VALARM", <<L("SUMMARY", <<"c">>)>>), In("VEVENT", <<L("SUMMARY", <<"b">>), At("d3")>>),
           <<<<" ", "END", ":", "VEVENT">>>>}
Nested == {<<Opening("VEVENT")>> \o FlattenSeq(ps) : ps \in Upto(Pieces, 4)}
Calendars ==
  {In("VCALENDAR", m \o In("VEVENT", <<At("d1")>> \o ls)) : m \in Methods, ls \in {<<>>} \cup Upto(Says, 2)}
  \cup {In("VCALENDAR", z \o In("VEVENT", t \o u)) : z \in Zones, t \in Times, u \in Until}
  \cup {In("VCALENDAR", In("VEVENT", t \o u) \o z) : z \in Zones, t \in Times, u \in Until}
  \cup {In("VCALENDAR", ls) : ls \in Nested}
  \cup {In("VCALENDAR", In("VEVENT", <<At("d1")>> \o In("VALARM", In("X", In("Y", <<>>)))))}
Dates == INSTANCE Calendar WITH
  Files <- Calendars, MaxDepth <- 4, Here <- 1,
  Stamps <- "d1" :> [kind |-> "date", at |-> 24] @@ "d3" :> [kind |-> "date", at |-> 72]
            @@ "l9" :> [kind |-> "local", at |-> 33] @@ "u9" :> [kind |-> "utc", at |-> 47],
  Offsets <- "+1" :> 1 @@ "+2" :> 2, Spans <- "1h" :> 1 @@ "2d" :> 48, Numbers <- "1" :> 1

\* Contact files: cards within and after one another, with soft breaks; the
\* names a card can go under; two addresses and three numbers.
FullName(v) == L("FN", <<v>>)
Soft == <<"NOTE", ";", "quoted-printable", ":", "x", "=">>
Cards == {<<Opening("VCARD")>>, <<Closing("VCARD")>>, <<FullName("a")>>, <<L("EMAIL", <<"e">>)>>, <<Soft>>,
          In("VCARD", <<FullName("b"), L("EMAIL", <<"f">>)>>), <<<<" ", "FN", ":", "c">>>>}
Titles == {<<>>, <<L("N", <<"fam", ";", "giv">>)>>, <<FullName(" ")>>, <<<<"FN", ";", "quoted-printable", ":", "a", "=">>, <<"b">>>>}
Works == {<<>>, <<L("ORG", <<"o", "\\", ";", "p", ";", "q">>)>>, <<L("TITLE", <<"t">>)>>,
          <<L("ORG", <<"o">>), L("TITLE", <<"t">>)>>}
Addresses == Upto({L("EMAIL", <<"e">>), <<"item1", ".", "EMAIL", ":", "mailto", ":", "e">>, L("EMAIL", <<"f">>), L("EMAIL", <<"g">>)}, 3)
Phones == Upto({<<"TEL", ";", "cell", ";", "work", ":", "1">>, <<"TEL", ";", "TYPE", "=", "fax", ":", "tel", ":", "2">>, L("TEL", <<"1">>)}, 2)
Adr(ps, v) == <<"ADR">> \o ps \o <<":", ";", ";", v, ";", "town">>
Homes == Upto({Adr(<<>>, "s"), Adr(<<";", "pref">>, "r"), Adr(<<";", "PREF", "=", "1">>, "q"), L("ADR", <<";">>)}, 3)
Books == {In("VCARD", t \o w \o m) : t \in Titles, w \in Works, m \in {<<>>} \cup Addresses}
  \cup {In("VCARD", p) : p \in Phones \cup Homes}
  \cup {<<Opening("VCARD")>> \o FlattenSeq(c) : c \in Upto(Cards, 4)} \cup {<<FullName("a")>>}
People == INSTANCE VCard WITH Files <- Books, MaxEntries <- 2

viewVars   == <<viewed, remote, page, once, consent>>
noticeVars == <<notice, fetched, copies, card, redraft>>
lookVars   == <<design, dark, keep, wide>>
eventVars  == <<ics, event>>
vcfVars    == <<vcf, contact>>
pageVars   == <<viewVars, noticeVars, lookVars, eventVars, vcfVars>>

PageParts == {"view", "notice", "look", "event", "contact"}
PageInit(part) ==
  /\ IF part = "view" THEN View!Init
     ELSE /\ viewed = [html |-> <<Words>>, parts |-> <<>>] /\ remote = FALSE
          /\ page = View!NoPage /\ once = <<>> /\ consent = FALSE
  /\ IF part = "notice" THEN Report!Init
     ELSE /\ notice = [kind |-> "mdn", blocks |-> <<>>, mid |-> "o", own |-> "r"] /\ fetched = {}
          /\ copies = {} /\ card = Report!NoCard /\ redraft = Report!NoDraft
  /\ IF part = "look" THEN Paint!Init
     ELSE design = <<Plain, Plain>> /\ dark = FALSE /\ keep = FALSE /\ wide = 320
  /\ IF part = "event" THEN Dates!Init ELSE ics = <<>> /\ event = Dates!Closed
  /\ IF part = "contact" THEN People!Init ELSE vcf = <<>> /\ contact = People!Closed

PageNext(part) ==
  \/ part = "view" /\ View!Next /\ UNCHANGED <<noticeVars, lookVars, eventVars, vcfVars>>
  \/ part = "notice" /\ Report!Next /\ UNCHANGED <<viewVars, lookVars, eventVars, vcfVars>>
  \/ part = "look" /\ Paint!Next /\ UNCHANGED <<viewVars, noticeVars, eventVars, vcfVars>>
  \/ part = "event" /\ Dates!Next /\ UNCHANGED <<viewVars, noticeVars, lookVars, vcfVars>>
  \/ part = "contact" /\ People!Next /\ UNCHANGED <<viewVars, noticeVars, lookVars, eventVars>>

-----------------------------------------------------------------------------
\* A table with values no build of today writes, and a usual one.
OddTable == [collect |-> "true", quiet |-> "1", start |-> "7:00", end |-> "late", density |-> "tiny",
  interval |-> "9999", scheduler |-> "idle", field |-> "sender", desc |-> "yes"]
Table == [[k \in DOMAIN OddTable |-> NoValue] EXCEPT !["collect"] = "0", !["start"] = "22:00", !["density"] = "compact",
           !["scheduler"] = "push", !["desc"] = "0"]
Prefs == INSTANCE Settings WITH
  Accounts <- {1, 2}, Worlds <- {OddTable, Table}, MaxTurns <- 2, MaxFaults <- 1, message <- status

\* Three clicks on one account, and two on two.
Clicks == INSTANCE Launch WITH
  Procs <- {1, 2, 3}, Accounts <- {"a"}, Folders <- {"f"}, Inbox <- "in", MaxEnds <- 1, shown <- views
Jumps == INSTANCE Launch WITH
  Procs <- {1, 2}, Accounts <- {"a", "b"}, Folders <- {"f"}, Inbox <- "in", MaxEnds <- 1, shown <- views

\* Single files of every kind, and two of one name.
File(d, b, s, e) == [declared |-> d, bytes |-> b, stem |-> s, ext |-> e]
Sent ==
  {<<File(d, b, s, e)>> :
     d \in {"", "octet", "png", "jpg", "docx", "odg", "zip", "ics", "plain", "m4a"},
     b \in {"png", "zip", "docx", "odg", "ics", "m4a", "text"},
     s \in {"a", ""}, e \in {"", "png", "docx", "ics", "m4a", "bin"}}
  \cup {<<File("octet", "png", "a", e), File(d, "png", s, "png")>> :
     e \in {"bin", "", "docx", "png"}, d \in {"png", "octet"}, s \in {"a", "up/a", "con"}}
Named == INSTANCE FileTypes WITH
  Mails <- Sent, Taken <- {[stem |-> "a", ext |-> "png", n |-> 0], [stem |-> "a", ext |-> "png", n |-> 2]},
  stored <- types, opened <- handed

prefVars  == <<app, own, known, dialog, status, turns, faults>>
clickVars == <<at, port, queued, nudged, hand, views, ends, asked, missed, torn>>
typeVars  == <<mail, types, has, handed, folder>>
aroundVars == <<prefVars, clickVars, typeVars>>

AroundParts == {"prefs", "clicks", "jumps", "types"}
AroundInit(part) ==
  /\ Prefs!Init /\ (part # "prefs" => app = Table)
  /\ IF part = "jumps" THEN Jumps!Init ELSE Clicks!Init
  /\ Named!Init /\ (part # "types" => mail = <<File("", "text", "", "")>>)

AroundNext(part) ==
  \/ part = "prefs" /\ Prefs!Next /\ UNCHANGED <<clickVars, typeVars>>
  \/ part = "clicks" /\ Clicks!Next /\ UNCHANGED <<prefVars, typeVars>>
  \/ part = "jumps" /\ Jumps!Next /\ UNCHANGED <<prefVars, typeVars>>
  \/ part = "types" /\ Named!Next /\ UNCHANGED <<prefVars, clickVars>>

-----------------------------------------------------------------------------
CONSTANTS NoMail, NoName, NoEntry

VARIABLE part
VARIABLES tree, unread, cache, stamp, now, run, named, report, gap, since, changes
VARIABLES server, message, files, ids, sync, dl, click, opened, crowded, stray, resets, crashes
VARIABLES contacts, phone, feature, loading, shown, mine, wrote, uses
VARIABLES original, mode, form, meant, draft, row, sent, edits, trips
VARIABLES stored, subscribed, fresh, total, open, moves
VARIABLES typed, cached, flipped, moving, ui, waiting, fired, last, clean, asking, steps

Batch == INSTANCE SyncRun WITH
  Folders <- {"in", "f"}, Inbox <- "in", Interval <- 2, MaxTime <- 3, MaxEdits <- 2, edits <- changes

\* Two mails of which one has an inline picture beside its file, and one sync;
\* the one mail, two syncs and a crash.
Attached == INSTANCE Attachments WITH
  Mails <- {"m", "n"}, Parts <- "m" :> {"p", "i"} @@ "n" :> {"p"}, Inline <- {"i"},
  Uids <- {1, 2}, Jobs <- {1}, Syncs <- {"app"}, MaxIds <- 5, MaxCrashes <- 0, MaxResets <- 1

Rows == INSTANCE Attachments WITH
  Mails <- {"m"}, Parts <- "m" :> {"p", "i"}, Inline <- {"i"},
  Uids <- {1}, Jobs <- {1}, Syncs <- {"app", "cli"}, MaxIds <- 5, MaxCrashes <- 1, MaxResets <- 0

\* Two spellings of one address; a row that is met often outranks a better name.
Fold(a) == IF a = "Ann" THEN "ann" ELSE a
Book == INSTANCE Contacts WITH
  Spellings <- {"ann", "Ann", "bob"}, Names <- {"n", "o"},
  TextOf <- "ann" :> 0 @@ "Ann" :> 0 @@ "bob" :> 550, Base <- "n" :> 350 @@ "o" :> 500,
  Starts <- {<<NoName, 1, 0>>, <<"n", 90, 30>>}, Limit <- 1, MaxSteps <- 2, steps <- uses

\* An own address with an alias on its host and a colleague there; a friend in
\* two spellings; an entry that is no mailbox.
Me == <<"me", "h">>
Bare == "me" :> Me @@ "ali" :> <<"ali", "h">> @@ "col" :> <<"col", "h">> @@ "bob" :> <<"bob", "x">>
        @@ "Bob" :> <<"bob", "x">> @@ "ann" :> <<"ann", "x">> @@ "Friends" :> <<"friends", "">>
Lists == {<<>>, <<"ali">>, <<"ann">>, <<"me", "bob">>, <<"bob", "Bob">>, <<"ali", "col">>}
Answered ==
  {m \in [from : {"me", "bob", "ali"}, reply : {NoEntry, "Bob", "ann"}, to : Lists,
          cc : {<<>>, <<"ann">>, <<"me", "bob">>, <<"ali">>},
          envelope : {<<>>, <<Me>>, <<Me, <<"ali", "h">>>>}, subject : {<<>>, <<"fwd", "aw">>}] :
     m.subject # <<>> => m.cc = <<>> /\ m.envelope = <<>>}
Letters == INSTANCE Letter WITH
  Sound <- DOMAIN Bare \ {"Friends"}, Originals <- Answered,
  Links <- [to : {<<>>, <<"bob", "Bob">>}, more : {<<>>, <<"ann">>}, cc : {<<>>, <<"Bob", "ali">>},
            bcc : {<<>>, <<"ann", "ali">>}],
  Typed <- {[field |-> f, entry |-> e] : f \in {"to", "bcc"}, e \in {"ann", "Bob", "Friends"}}
           \cup {[field |-> "cc", entry |-> "bob"]},
  Locals <- {"ali"}, MaxEdits <- 1, MaxTrips <- 1

\* A well-known folder inside a custom one, and a custom one inside another.
Roles == <<"I">> :> "inbox" @@ <<"I", "x">> :> "custom" @@ <<"W">> :> "custom"
         @@ <<"W", "A">> :> "trash" @@ <<"W", "A", "y">> :> "custom"
         @@ <<"W", "c">> :> "custom" @@ <<"W", "c", "d">> :> "custom"
Side == INSTANCE Sidebar WITH
  Paths <- DOMAIN Roles, Role <- Roles, Hierarchy <- TRUE, MaxMail <- 3, MaxSteps <- 2,
  unread <- fresh, steps <- moves

Begins(t, w) == t = w \/ <<t, w>> = <<"art", "artist">>
Within(t, w) == Begins(t, w) \/ <<t, w>> \in {<<"art", "party">>, <<"a", "art">>}
Mail(u, f, ws, r, s, a, d, h) ==
  [uid |-> u, folder |-> f, words |-> ws, read |-> r, starred |-> s, files |-> a, day |-> d, sent |-> h]
Mailbox == {
  Mail(1, "in", {<<"subject", "art">>, <<"body", "party">>}, FALSE, FALSE, TRUE, 1, 1),
  Mail(2, "in", {<<"from", "art">>}, TRUE, TRUE, FALSE, 2, 2),
  Mail(3, "in", {<<"body", "party">>}, FALSE, FALSE, FALSE, 2, 1),
  Mail(1, "bin", {<<"subject", "artist">>, <<"body", "über">>}, FALSE, TRUE, FALSE, 0, 0),
  Mail(2, "bin", {<<"subject", "artist">>}, TRUE, FALSE, FALSE, 1, 1)}
Word(t) == [text |-> t, neg |-> FALSE, phrase |-> FALSE, key |-> "", val |-> "", day |-> 0]
Not(k) == [k EXCEPT !.neg = TRUE]
Key(k) == [Word(k) EXCEPT !.key = k]
Unread == [Key("is") EXCEPT !.val = "unread"]
HasFile == [Key("has") EXCEPT !.val = "attachment"]
Before == [Key("before") EXCEPT !.day = 2]
Day2 == [Word("2") EXCEPT !.day = 2]
Typing == {<<>>, <<Word("a")>>, <<Word("art")>>, <<Word("art"), Not(Word("party"))>>,
  <<Not(Word("party"))>>, <<Word("art"), Word("über")>>, <<[Word("art") EXCEPT !.phrase = TRUE]>>,
  <<Unread>>, <<Unread, Not(Unread)>>, <<Not(Word("party")), Unread>>, <<Not(HasFile), Word("art")>>,
  <<Key("after"), Day2>>, <<Key("after"), Word("art")>>, <<Before>>, <<Word("art"), Before>>,
  <<Key("from"), Word("art")>>, <<Word("party")>>, <<HasFile, Key("after"), Day2>>}
Field == INSTANCE Search WITH
  Mails <- Mailbox, Trash <- "bin", Queries <- Typing,
  Known <- {{}, {m \in Mailbox : m.folder = "bin"}, {m \in Mailbox : m.uid # 2}, Mailbox},
  Ascii <- {"art", "party", "a", "after", "from", "is", "has", "before", "2"}, Short <- {"a"},
  HitLimit <- 2, FolderCap <- 1, TotalCap <- 2, MaxSteps <- 2, job <- asking

batchVars  == <<tree, unread, cache, stamp, now, run, named, report, gap, since, changes>>
fileVars   == <<server, message, files, ids, sync, dl, click, opened, crowded, stray, resets, crashes>>
bookVars   == <<contacts, phone, feature, loading, shown, mine, wrote, uses>>
letterVars == <<original, mode, form, meant, draft, row, sent, edits, trips>>
sideVars   == <<stored, subscribed, fresh, total, open, moves>>
fieldVars  == <<typed, cached, flipped, moving, ui, waiting, fired, last, clean, asking, steps>>
readVars   == <<wireVars, batchVars, fileVars, bookVars, letterVars, sideVars, fieldVars>>
outerVars  == <<aroundVars, pageVars>>
allVars    == <<part, readVars, aroundVars, pageVars>>

ReadingInit ==
  /\ part \in {"conn", "batch", "files", "rows", "book", "letter", "side", "field"} \cup AroundParts \cup PageParts
  /\ WireInit /\ Batch!Init
  /\ IF part = "rows" THEN Rows!Init ELSE Attached!Init
  /\ Book!Init /\ (part # "book" => \A a \in {"ann", "Ann", "bob"} : contacts[a] = Book!NoRow)
  /\ Letters!Init /\ (part # "letter" => original = NoEntry)
  /\ Side!Init /\ (part # "side" => stored = DOMAIN Roles /\ subscribed = stored)
  /\ Field!Init /\ (part # "field" => cached = {} /\ ui = "desk")
  /\ AroundInit(part)
  /\ PageInit(part)

ReadingNext ==
  \/ /\ part = "conn" /\ WireNext
     /\ UNCHANGED <<part, batchVars, fileVars, bookVars, letterVars, sideVars, fieldVars, outerVars>>
  \/ /\ part = "batch" /\ Batch!Next
     /\ UNCHANGED <<part, wireVars, fileVars, bookVars, letterVars, sideVars, fieldVars, outerVars>>
  \/ /\ \/ part = "files" /\ Attached!Next
        \/ part = "rows" /\ Rows!Next
     /\ UNCHANGED <<part, wireVars, batchVars, bookVars, letterVars, sideVars, fieldVars, outerVars>>
  \/ /\ part = "book" /\ Book!Next
     /\ UNCHANGED <<part, wireVars, batchVars, fileVars, letterVars, sideVars, fieldVars, outerVars>>
  \/ /\ part = "letter" /\ Letters!Next
     /\ UNCHANGED <<part, wireVars, batchVars, fileVars, bookVars, sideVars, fieldVars, outerVars>>
  \/ /\ part = "side" /\ Side!Next
     /\ UNCHANGED <<part, wireVars, batchVars, fileVars, bookVars, letterVars, fieldVars, outerVars>>
  \/ /\ part = "field" /\ Field!Next
     /\ UNCHANGED <<part, wireVars, batchVars, fileVars, bookVars, letterVars, sideVars, outerVars>>
  \/ AroundNext(part) /\ UNCHANGED <<part, readVars, pageVars>>
  \/ PageNext(part) /\ UNCHANGED <<part, readVars, aroundVars>>

ReadingSpec == ReadingInit /\ [][ReadingNext]_allVars

-----------------------------------------------------------------------------
\* A run without errors left nothing out, one broken folder hides no other, new
\* branches are found in time, and a hidden folder stays hidden (headless.rs,
\* sync_account; folders.rs, full_discovery_due and upsert_discovered).
RunKept ==
  /\ [](part = "batch" => Batch!NothingLeftOut /\ Batch!AllTried /\ Batch!BackstopHolds)
  /\ [][part = "batch" => \A f \in {"in", "f"} :
          cache[f] = "hidden" /\ cache'[f] # "hidden" => changes' # changes]_allVars

\* A click opens the file it is on, and a file has one row with its data if it is
\* shown inline (store/messages/attachments.rs; sync/attachments.rs).
FilesKept ==
  /\ part = "files" => Attached!ClickedFile /\ Attached!OneRowEach
  /\ part = "rows" => Rows!ClickedFile /\ Rows!OneRowEach

\* The file handed over opens with the right application, and a save of all
\* keeps each file and what was there (mime.rs, corrected_mime; paths.rs,
\* safe_attachment_name_for_mime and free_path).  A click in the bar is taken by
\* a window, and lands in the folder it named (main.rs, run_open; relay.rs;
\* store/settings.rs, take_pending_open).
OpensRight ==
  /\ part = "types" => Named!OpensRight /\ Named!SavedApart
  /\ part = "clicks" => Clicks!ClickTaken /\ Clicks!LandsWhereAsked
  /\ part = "jumps" => Jumps!ClickTaken /\ Jumps!LandsWhereAsked

\* What the dialog shows and saves is what is used, a save writes what it says,
\* and changes nothing that was not edited (store/settings.rs;
\* account_settings.rs, effective and set_overrides; bridge/settings.rs).
SettingsKept ==
  /\ [](part = "prefs" => Prefs!ShownIsUsed)
  /\ [][part = "prefs" => Prefs!LeavesTheRest /\ Prefs!SavedIsSaved]_allVars

\* The body shows all its text and no image that was not allowed, its images and
\* the mail's parts are each met once (sanitize.rs, inline.rs; feed.rs,
\* message_json), and it can be read and fits the page (html/reader.rs).
PageKept ==
  /\ [](/\ part = "view" => /\ View!ShowsTheText /\ View!PlainHasIt /\ View!SanitizedStays /\ View!ImagesAsAllowed
                              /\ View!EmbeddedOrMissing /\ View!EveryPartOnce /\ View!CardsHold
        /\ part = "look" => Paint!StaysReadable /\ Paint!FitsThePage)
  /\ [][part = "view" => View!NewlyShown]_allVars

\* The card over a report says the worst of it and finds the original, and a
\* mail is sent again to those it failed for only (report.rs; answer.rs,
\* resend_draft).  The cards of calendar and contact files say what the first
\* event and the first contact in them say (calendar.rs, vcard.rs).
CardsKept ==
  /\ [](/\ part = "notice" => Report!CardSaysWorst /\ Report!ResendsTheFailed /\ Report!CardFindsOriginal
        /\ part = "event" => Dates!EventAsWritten /\ Dates!NamesWhole
        /\ part = "contact" => People!CardAsWritten /\ People!EntriesKept)
  /\ [][part = "notice" => Report!DraftOfThere]_allVars

\* A given alias stays, who was written to is not cleaned away, and neither list
\* hides the other's matches (contacts.rs).
ContactsKept ==
  part = "book" => Book!AliasKept /\ Book!WrittenToStay /\ Book!PhoneFirst /\ Book!BothKept

\* Nobody is named twice or lost by an answer, everyone named gets the mail, the
\* hidden ones unseen, and a held mail is opened as it was (compose/answer.rs,
\* compose/form.rs, outbox.rs).
LettersKept ==
  /\ [](part = "letter" => Letters!NamedOnce /\ Letters!NobodyLost /\ Letters!EveryoneReached)
  /\ [][part = "letter" /\ row # NoEntry /\ form' # NoEntry =>
          Letters!Keys(form'.to \o form'.cc \o form'.bcc) = row.envelope /\ Letters!Enqueues(form')]_allVars

\* "two writers for the same message could both see the old rows and insert
\* duplicates" (attachments.rs, replace_attachments).
NoDuplicates == part = "rows" => Rows!NoDuplicates

\* "The composer form for a stored draft, so editing can continue" with the same
\* recipients (api/composer.rs, draft_form).
DraftKeepsRecipients == part = "letter" => Letters!DraftKeepsRecipients

\* The search field shows what its words mean, the list's filters agree with it,
\* and a server search leaves nothing out but what its caps cut off, the oldest
\* (feed.rs, search_json; list_filter.rs; engine/search.rs); no subscribed
\* folder is out of reach in the sidebar, and a chevron opens something (feed.rs,
\* sidebar_rows).
ListsKept ==
  /\ [](part = "side" => Side!NothingHidden /\ Side!ChevronWorks)
  /\ [](part = "field" => Field!HitsHonest /\ Field!FiltersAgree /\ Field!NothingLeft)
  /\ [][part = "field" => \A m \in cached' \ cached, n \in Mailbox \ cached' :
          n.folder = m.folder /\ n \in Field!ServerHits(Field!Parse(asking.query), n.folder)
            => n.uid < m.uid]_allVars
=============================================================================
