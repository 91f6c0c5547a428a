------------------------------ MODULE MailView ------------------------------
(***************************************************************************)
(* One mail in the reader: its body as it is shown, the files listed under *)
(* it and the cards above it (mailcore feed.rs sanitized_bodies and        *)
(* message_json, attached.rs, store/messages/attachments.rs; MessageView   *)
(* .qml for "Show once").                                                  *)
(***************************************************************************)
EXTENDS Sanitizer, FiniteSets

CONSTANTS Mails     \* the mails: [html, parts]

VARIABLES mail,     \* the mail's HTML and its parts, with what of them is cached
          remote,   \* the setting: load remote images
          page,     \* what the reader was last given, or NoPage
          once,     \* the body with remote images of "Show once", or <<>>
          consent   \* "Show once" was chosen for this mail

vars == <<mail, remote, page, once, consent>>

\* A part: what it is a file of, whether it is marked inline, whether the body
\* can name it, its bytes ("none" while not cached, "bad" if they are not what
\* the part says) and their size.
Ids == DOMAIN mail.parts
Part(kind, inline, cid, bytes, size) ==
  [kind |-> kind, inline |-> inline, cid |-> cid, bytes |-> bytes, size |-> size]

NoPage == [shown |-> FALSE, body |-> <<>>, has_remote |-> FALSE, missing |-> 0, files |-> {}, in_card |-> {}, cards |-> <<>>]
Notice == Tag("text", "notice")

-----------------------------------------------------------------------------
\* The part the body's images name, of those with bytes that can be embedded.
ImagePart ==
  LET with == {p \in Ids : mail.parts[p].cid /\ mail.parts[p].kind = "raster" /\ mail.parts[p].bytes # "none"
                             /\ mail.parts[p].size \in 1..Whole}
  IN IF with = {} THEN Part("raster", TRUE, TRUE, "none", 0)
     ELSE mail.parts[CHOOSE p \in with : \A q \in with : p =< q]

HasContent(out) == \E k \in DOMAIN out : out[k].is # "blank"

\* The body, whether images were blocked and whether it is HTML at all.
Bodies(s) ==
  LET is_html == HasContent(s.html) \/ (HasContent(mail.html) /\ s.had_remote)
  IN [html |-> IF is_html /\ ~HasContent(s.html) THEN <<Notice>> ELSE s.html,
      had_remote |-> s.had_remote, is_html |-> is_html]
sanitized_bodies(allow) == Bodies(sanitize(mail.html, allow))

\* Faulty: every part the sender did not mark inline.
listed_attachments_Marked == {p \in Ids : ~mail.parts[p].inline}

\* Neither the parts marked inline nor those an image of the body names.
listed_attachments == {p \in Ids : ~mail.parts[p].inline /\ ~(mail.parts[p].cid /\ refers(mail.html))}

\* The first calendar file with an event in it, inline or not: attachments
\* come first.
find_calendar_event ==
  LET with == {p \in Ids : mail.parts[p].kind = "ics" /\ mail.parts[p].bytes = "good"}
      Ahead(p, q) == IF mail.parts[p].inline # mail.parts[q].inline THEN ~mail.parts[p].inline ELSE p =< q
  IN {p \in with : \A q \in with : Ahead(p, q)}

\* Faulty: a file that is no card is taken for one that is not here yet.
CardOf_Any(kind) == {p \in listed_attachments : mail.parts[p].kind = kind}

\* Contacts and attached mails: a pending card while the bytes are not here,
\* none for bytes that do not parse.
CardOf(kind) == {p \in listed_attachments : mail.parts[p].kind = kind /\ mail.parts[p].bytes # "bad"}

\* A delivery report covers its status part and the original's headers.
Covered ==
  LET First(kind) == {p \in listed_attachments : mail.parts[p].kind = kind
                        /\ \A q \in listed_attachments : mail.parts[q].kind = kind => p =< q}
  IN IF First("status") = {} THEN {} ELSE First("status") \cup First("headers")

Carded == find_calendar_event \cup CardOf("vcf") \cup CardOf("eml") \cup Covered

Given(s, e) ==
  [shown |-> TRUE, body |-> e.html, has_remote |-> s.had_remote /\ s.is_html, missing |-> e.missing,
   files |-> listed_attachments, in_card |-> listed_attachments \cap Carded,
   cards |-> <<find_calendar_event, CardOf("vcf"), CardOf("eml"), Covered>>]
Embedded(s) == Given(s, IF s.is_html THEN inline_cid_images(s.html, ImagePart) ELSE [html |-> s.html, missing |-> 0])
message_json == Embedded(sanitized_bodies(remote))

message_html(allow) == inline_cid_images(sanitized_bodies(allow).html, ImagePart).html

-----------------------------------------------------------------------------
Init ==
  /\ mail \in Mails
  /\ remote \in BOOLEAN
  /\ page = NoPage
  /\ once = <<>>
  /\ consent = FALSE

\* A feed that brings another body drops the one-shot copy, but not once it
\* was asked for.
Received(p) ==
  /\ page' = p
  /\ once' = IF p.body # page.body /\ ~consent THEN <<>> ELSE once
  /\ UNCHANGED consent

Open ==
  /\ Received(message_json)
  /\ UNCHANGED <<mail, remote>>

showRemoteOnce ==
  /\ page.shown
  /\ page.has_remote
  /\ ~remote /\ ~consent
  /\ once' = message_html(TRUE)
  /\ consent' = TRUE
  /\ UNCHANGED <<mail, remote, page>>

\* A part's bytes come, as a file opened or saved or with the missing images.
Download ==
  \E p \in Ids :
    /\ page.shown
    /\ mail.parts[p].bytes = "none"
    /\ \E b \in {"good", "bad"} : mail' = [mail EXCEPT !.parts[p].bytes = b]
    /\ UNCHANGED <<remote, page, once, consent>>

SetRemote ==
  /\ remote' = ~remote
  /\ UNCHANGED <<mail, page, once, consent>>

Next == Open \/ showRemoteOnce \/ Download \/ SetRemote

Spec == Init /\ [][Next]_vars

shownHtml == IF once # <<>> THEN once ELSE page.body

-----------------------------------------------------------------------------
(* What a body should come to, said of the document as a whole.             *)

Count(is, name, k) == Cardinality({j \in 1..k : mail.html[j].is = is /\ mail.html[j].name = name})
Texts(out) == SelectSeq(out, LAMBDA t : t.is = "text" /\ t.name = "")

\* Styles, titles and forms are closed in the order they were opened in; a
\* head need not be closed.
Nested ==
  LET n == Len(mail.html)
      Kinds == DropContent \ {"head"} IN
  /\ \A name \in Kinds : \A k \in 1..n : Count("close", name, k) =< Count("open", name, k)
  /\ \A i, k \in 1..n : \A a \in DropContent, b \in Kinds :
       a # b /\ i < k /\ mail.html[i] = Tag("open", b) /\ mail.html[k] = Tag("close", a)
         /\ (\E h \in 1..(i - 1) : mail.html[h] = Tag("open", a)) =>
       \E j \in i..k : mail.html[j] = Tag("close", b)

\* Token k stands inside a style, a title or a form.
Inside(k) == \E name \in DropContent \ {"head"} : Count("open", name, k - 1) > Count("close", name, k - 1)

EndsHead(t) ==
  \/ t.is = "text"
  \/ t.is = "close" /\ t.name \in {"head", "body", "br"}
  \/ t.is \in {"open", "self"} /\ t.name \notin HeadChild

\* It stands in a head that nothing ended.
InHead(k) ==
  \E i \in 1..(k - 1) :
    /\ mail.html[i] = Tag("open", "head") /\ ~Inside(i)
    /\ \A j \in (i + 1)..k : EndsHead(mail.html[j]) => Inside(j)

Visible(k) == ~Inside(k) /\ ~InHead(k)

Deep == \E k \in DOMAIN mail.html : Count("open", "p", k) + Count("open", "td", k) > MaxOpen

\* Every tag written is closed, in the order they were opened in.
WellFormed(out) ==
  LET left == FoldLeft(LAMBDA open, t : IF t.is = "open" /\ t.name \notin Void THEN Append(open, t.name)
                                        ELSE IF t.is # "close" THEN open
                                        ELSE IF LastOf(open) = t.name THEN Front(open)
                                        ELSE Append(open, "wrong"), <<>>, out)
  IN left = <<>>

\* What is written is well formed (up to the nesting that is remembered), and
\* all the text outside of heads, styles, titles and forms is shown, none of
\* that inside: also when the head is never closed (sanitize.rs sanitize).
ShowsTheText ==
  LET out == sanitize(mail.html, remote).html IN
  /\ ~Deep => WellFormed(out)
  /\ Nested => Len(Texts(out)) = Cardinality({k \in DOMAIN mail.html : mail.html[k].is = "text" /\ Visible(k)})

\* The plain text of a mail without one holds at least what its HTML shows
\* (text.rs html_to_text and sanitize.rs drop different tags).
PlainHasIt ==
  Nested => Len(Texts(sanitize(mail.html, remote).html)) =< Len(Texts(html_to_text(mail.html)))

\* Without images to block, what was sanitized stays as it is when sanitized
\* again, as when a mail is answered or its draft opened (sanitize.rs).
SanitizedStays ==
  LET s == sanitize(mail.html, remote) IN
  ~Deep /\ (\A k \in DOMAIN s.html : s.html[k] # Badge) =>
    sanitize(s.html, remote).html = s.html

-----------------------------------------------------------------------------
Images(out, srcs) == {k \in DOMAIN out : out[k].is = "open" /\ out[k].name = "img" /\ out[k].src \in srcs}
Web == {"web", "lan"}

\* What is newly shown loads no image the user did not allow.
NewlyShown ==
  shownHtml' # shownHtml /\ Images(shownHtml', Web) # {} => remote' \/ consent'

\* No body loads an image of the user's own network, whatever was allowed, and
\* when images were left out the reader knows it, so that they can be asked
\* for; asked for, all public ones are there (feed.rs sanitized_bodies, urls.rs).
ImagesAsAllowed ==
  /\ Images(shownHtml, {"lan"}) = {}
  /\ Nested =>
       LET hidden == {k \in Images(mail.html, Web) : Visible(k)}
           public == {k \in hidden : mail.html[k].src = "web"}
           left   == IF remote THEN hidden \ public ELSE hidden
       IN /\ message_json.has_remote <=> left # {}
          /\ Cardinality(Images(message_html(TRUE), Web)) = Cardinality(public)

\* Every image of the mail's own that the body shows is either embedded or
\* counted as missing, so that it can be downloaded, and what is embedded
\* stays within the budget of one body (inline.rs inline_cid_images).
EmbeddedOrMissing ==
  LET s == sanitize(mail.html, remote).html
      e == inline_cid_images(s, ImagePart)
      own == Cardinality(Images(e.html, {"data"})) - Cardinality(Images(s, {"data"}))
  IN /\ own + e.missing = Cardinality(Images(s, {"cid"}))
     /\ own * ImagePart.size =< Budget
     /\ Images(e.html, {"cid"}) = {}

\* The body shows an image that names the part.
BodyShows == \E k \in Images(mail.html, {"cid"}) : Visible(k)
RefersOnlyOutside == refers(mail.html) /\ ~BodyShows

\* Every part that is not marked inline is met exactly once: as a file, on one
\* card, or in the body, where it is embedded or said to be missing; a file
\* left out of the list for its card has that card.  A body whose images name
\* the part only where they are not shown hides it (feed.rs listed_attachments).
MetOnce(p) ==
  LET Cards(i) == {c \in DOMAIN p.cards : i \in p.cards[c]}
      InBody(i) == mail.parts[i].cid /\ BodyShows
  IN /\ \A i \in p.in_card : Cardinality(Cards(i)) = 1
     /\ Nested =>
        \A i \in {j \in Ids : ~mail.parts[j].inline} :
          \/ mail.parts[i].cid /\ RefersOnlyOutside
          \/ InBody(i) /\ i \notin p.files /\ (p.missing > 0 \/ Images(p.body, {"data"}) # {})
          \/ ~InBody(i) /\ i \in p.files /\ (i \in p.in_card <=> Cards(i) # {})
EveryPartOnce == MetOnce(message_json)

\* A part whose bytes are not what it says is an ordinary file again, and one
\* that waits for its bytes can be opened from its card (feed.rs contact_cards,
\* attached.rs for_attachment).
Filed(p) ==
  \A i \in p.files :
    /\ mail.parts[i].kind \in {"ics", "vcf", "eml"} /\ mail.parts[i].bytes = "bad" => i \notin p.in_card
    /\ mail.parts[i].kind \in {"vcf", "eml"} /\ mail.parts[i].bytes # "bad" => i \in p.in_card
CardsHold == Filed(message_json)
=============================================================================
