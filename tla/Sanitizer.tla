----------------------------- MODULE Sanitizer ------------------------------
(***************************************************************************)
(* What of a mail's HTML is kept (mailcore html/sanitize.rs with tags.rs,  *)
(* urls.rs and css.rs), what plain text is made of it (html/text.rs), and  *)
(* which of its images the reader embeds (html/inline.rs).                 *)
(*                                                                         *)
(* A body is a sequence of tokens, as the tokenizer finds them; one name   *)
(* stands for each kind of tag.  What comes out is such a sequence again.  *)
(***************************************************************************)
EXTENDS Naturals, SequencesExt

CONSTANTS MaxOpen,     \* tags whose end is remembered (64)
          Budget,      \* how much of its images one body embeds
          Whole        \* a size, the largest image embedded

\* A token: what it is, its tag's name, an image's source and its alternative
\* text ("none", "empty" or "some").  A text is "text" or "blank"; what the
\* tokenizer drops whole (a comment, a doctype, an unfinished tag) is "none",
\* even when it reads like an image.
Token(is, name, src, alt) == [is |-> is, name |-> name, src |-> src, alt |-> alt]
Tag(is, name) == Token(is, name, "", "none")
Text == Tag("text", "")
Blank == Tag("blank", "")
Image(src, alt) == Token("open", "img", src, alt)
\* The badge of an image that is not shown.
Badge == Tag("text", "badge")

\* Tags whose content goes with them; tags a head may hold; tags that stay.
DropContent == {"head", "style", "title", "form"}
HeadChild   == {"style", "title", "meta"}
Allowed     == {"p", "td", "img", "br"}
Void        == {"br", "img"}

-----------------------------------------------------------------------------
(* Sources of images: "web" a public host, "lan" a private one, "cid" a     *)
(* part of the mail, "data" an embedded picture, "svg" any other data.      *)

IsHttp(src) == src \in {"web", "lan"}

\* No address, literal or by name, of the user's own machine or network.
is_public_remote(src) == src = "web"

\* Faulty: a private host is loaded with the others.
safe_img_src_AnyHost(src, allow_remote) == src \in {"cid", "data"} \/ (IsHttp(src) /\ allow_remote)

safe_img_src(src, allow_remote) == src \in {"cid", "data"} \/ (is_public_remote(src) /\ allow_remote)

-----------------------------------------------------------------------------
(* The walk.  A state has the open tags whose content is dropped, the open *)
(* tags that were written, what was written, and whether an image was      *)
(* blocked.                                                                *)

LastOf(s) == IF s = <<>> THEN "" ELSE s[Len(s)]
PosOf(s, name) ==   \* of its last occurrence, 0 without one
  LET at == {k \in DOMAIN s : s[k] = name} IN IF at = {} THEN 0 ELSE CHOOSE k \in at : \A j \in at : j <= k

\* Faulty: only its own end tag ends a head.
ends_head_Closed(t) == t.is = "close" /\ t.name = "head"

\* Anything that cannot stand in a head ends it, as a parser does.
ends_head(t) ==
  IF t.is = "close" THEN t.name \in {"head", "body", "br"} ELSE t.name \notin HeadChild

\* Faulty: any end tag of a dropped kind ends the innermost one.
Undropped_Any(dropping, t) == Front(dropping)

\* An end tag ends its own kind, with all that was opened inside; a stray one nothing.
Undropped(dropping, t) ==
  LET k == PosOf(dropping, t.name) IN IF k = 0 THEN dropping ELSE SubSeq(dropping, 1, k - 1)

\* The written tags an end tag closes, innermost first, and those that stay open.
Closing(open, name) == Reverse(SubSeq(open, PosOf(open, name), Len(open)))
Ends(names) == [k \in DOMAIN names |-> Tag("close", names[k])]

WriteImage(s, t, allow) ==
  IF safe_img_src(t.src, allow) THEN [s EXCEPT !.out = Append(@, t)]
  ELSE LET blocked == s.had_remote \/ IsHttp(t.src) IN
       [s EXCEPT !.had_remote = blocked, !.out = IF t.alt = "some" \/ (t.alt = "none" /\ blocked) THEN Append(@, Badge) ELSE @]

Write(s, t, allow) ==
  IF t.name \notin Allowed THEN s
  ELSE IF t.is = "close"
  THEN IF t.name \in Void \/ PosOf(s.open, t.name) = 0 THEN s
       ELSE [s EXCEPT !.out = @ \o Ends(Closing(s.open, t.name)),
                      !.open = SubSeq(@, 1, PosOf(@, t.name) - 1)]
  ELSE IF t.name = "img" THEN WriteImage(s, t, allow)
  ELSE IF t.name \in Void THEN [s EXCEPT !.out = Append(@, t)]
  ELSE [s EXCEPT !.out = Append(@, Tag("open", t.name)),
                 !.open = LET o == Append(@, t.name) IN IF Len(o) > MaxOpen THEN Tail(o) ELSE o]

Headless(s, yes) == IF yes /\ LastOf(s.dropping) = "head" THEN [s EXCEPT !.dropping = Front(@)] ELSE s

Kept(s, t, allow) ==
  CASE t.is = "none" -> s
    [] t.is \in {"text", "blank"} -> IF s.dropping = <<>> THEN [s EXCEPT !.out = Append(@, t)] ELSE s
    [] t.name \in DropContent ->
         [s EXCEPT !.dropping = IF t.is = "open" THEN Append(@, t.name)
                                ELSE IF t.is = "close" THEN Undropped(@, t) ELSE @]
    [] OTHER -> IF s.dropping = <<>> THEN Write(s, t, allow) ELSE s

Take(s, t, allow) ==
  Kept(Headless(s, IF t.is \in {"open", "close", "self"} THEN ends_head(t) ELSE t.is = "text"), t, allow)

Walked(raw, allow) ==
  FoldLeft(LAMBDA s, t : Take(s, t, allow), [dropping |-> <<>>, open |-> <<>>, out |-> <<>>, had_remote |-> FALSE], raw)

\* Tags still open are closed at the end.
sanitize(raw, allow) ==
  LET s == Walked(raw, allow) IN [html |-> s.out \o Ends(Reverse(s.open)), had_remote |-> s.had_remote]

-----------------------------------------------------------------------------
(* Plain text: only styles and scripts are left out.                       *)

\* Faulty: whatever the sanitizer drops is left out.
NotText_All == DropContent
NotText == {"style"}

html_to_text(raw) ==
  FoldLeft(LAMBDA s, t :
             IF t.name \in NotText
             THEN [s EXCEPT !.depth = IF t.is = "open" THEN @ + 1 ELSE IF t.is = "close" /\ @ > 0 THEN @ - 1 ELSE @]
             ELSE IF t.is \in {"text", "blank"} /\ s.depth = 0 THEN [s EXCEPT !.out = Append(@, t)] ELSE s,
           [depth |-> 0, out |-> <<>>], raw).out

-----------------------------------------------------------------------------
(* Inline images: parts of the mail, [name, kind, size], 0 without bytes.  *)

Embeds(p) == p.kind = "raster" /\ p.size \in 1..Whole

\* Faulty: no image takes from what the body may embed.
Spent_Never(left, p) == left
Spent(left, p) == left - p.size

\* Each reference in turn takes its part's bytes, or becomes a badge if there
\* is none, if they cannot be embedded or the budget is spent.
inline_cid_images(html, part) ==
  FoldLeft(LAMBDA s, t :
             IF t.name # "img" \/ t.src # "cid" THEN [s EXCEPT !.html = Append(@, t)]
             ELSE IF Embeds(part) /\ part.size <= s.left
             THEN [s EXCEPT !.html = Append(@, [t EXCEPT !.src = "data"]), !.left = Spent(@, part)]
             ELSE [s EXCEPT !.html = IF t.alt = "some" THEN Append(@, Badge) ELSE @, !.missing = @ + 1],
           [html |-> <<>>, left |-> Budget, missing |-> 0], html)

\* img_cid_references looks at the body as it was sent, whatever is dropped of it.
refers(raw) == \E k \in DOMAIN raw : raw[k].name = "img" /\ raw[k].src = "cid"
=============================================================================
