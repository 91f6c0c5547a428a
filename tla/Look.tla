-------------------------------- MODULE Look --------------------------------
(***************************************************************************)
(* How a mail's HTML is painted: as sent, in the theme's colours or        *)
(* darkened, and with its fixed widths loosened on a narrow page           *)
(* (mailcore html/reader.rs with reader/dark.rs and reader/fit.rs;         *)
(* MessageView.qml decides when).                                          *)
(*                                                                         *)
(* A mail is one element in another, the outer first.  A colour is its     *)
(* three channels, <<>> one that is not set.                               *)
(***************************************************************************)
EXTENDS Integers, Sequences, FiniteSets

CONSTANTS Designs,   \* the mails: pairs of elements
          Pages      \* widths of the page, in pixels

VARIABLES design, dark, keep, wide    \* the mail, the theme, "as sent", the page's width

vars == <<design, dark, keep, wide>>

None == <<>>
White == <<255, 255, 255>>
Black == <<0, 0, 0>>
Ink == <<32, 33, 36>>          \* the light sheet's text
DarkPaper == <<22, 24, 29>>    \* the dark theme
DarkText == <<230, 232, 235>>

\* An element: colours of its style and of its attributes, its fixed width (0
\* for none), whether that is a minimum, and whether it is a table's cell.
Plain == [color |-> None, background |-> None, fgattr |-> None, bgcolor |-> None, width |-> 0, min |-> FALSE, cell |-> FALSE]

-----------------------------------------------------------------------------
Clamp(n) == IF n < 0 THEN 0 ELSE IF n > 255000 THEN 255 ELSE (n + 500) \div 1000

\* invert(1) hue-rotate(180deg).
inverted(c) ==
  <<Clamp(255000 + 574 * c[1] - 1430 * c[2] - 144 * c[3]),
    Clamp(255000 - 426 * c[1] - 430 * c[2] - 144 * c[3]),
    Clamp(255000 - 426 * c[1] - 1430 * c[2] + 856 * c[3])>>

convert_value(c) == IF c = None THEN None ELSE inverted(c)

\* Faulty: an element with a bgcolor keeps its color.
darken_colors_Either(e) ==
  [e EXCEPT !.color = convert_value(@), !.background = convert_value(@), !.bgcolor = convert_value(@),
            !.fgattr = IF e.bgcolor = None THEN convert_value(@) ELSE @]

darken_colors(e) ==
  [e EXCEPT !.color = convert_value(@), !.background = convert_value(@), !.bgcolor = convert_value(@),
            !.fgattr = convert_value(@)]

has_own_colors ==
  \E k \in DOMAIN design : \E c \in {"color", "background", "fgattr", "bgcolor"} : design[k][c] # None

paint == IF ~has_own_colors THEN "theme" ELSE IF dark /\ ~keep THEN "darkened" ELSE "original"

\* Faulty: darkened mail is written on the sheet's own paper.
palette_Sheet ==
  CASE paint = "theme"    -> IF dark THEN [paper |-> DarkPaper, ink |-> DarkText] ELSE [paper |-> White, ink |-> Ink]
    [] paint = "original" -> [paper |-> White, ink |-> Ink]
    [] paint = "darkened" -> [paper |-> White, ink |-> inverted(Ink)]

palette ==
  CASE paint = "theme"    -> IF dark THEN [paper |-> DarkPaper, ink |-> DarkText] ELSE [paper |-> White, ink |-> Ink]
    [] paint = "original" -> [paper |-> White, ink |-> Ink]
    [] paint = "darkened" -> [paper |-> DarkPaper, ink |-> inverted(Ink)]

-----------------------------------------------------------------------------
Margin == 16

layout_width(d) ==
  LET widths == {0} \cup {d[k].width : k \in DOMAIN d} IN CHOOSE w \in widths : \A v \in widths : v =< w

\* Faulty: the page's own margins are forgotten.
fit_below_Bare(d) == layout_width(d)

fit_below(d) == IF layout_width(d) = 0 THEN 0 ELSE layout_width(d) + 2 * Margin

\* Faulty: a minimum becomes a cap as well, and stays a minimum.
fit_widths_Min(e) == IF e.min THEN e ELSE [e EXCEPT !.width = 0]

\* Cells and minimums lose their width, others keep it as a cap.
fit_widths(e) == [e EXCEPT !.width = 0]

fit == ~keep /\ fit_below(design) > 0 /\ wide < fit_below(design)

body ==
  LET Fitted(e) == IF fit THEN fit_widths(e) ELSE e
      Painted(e) == IF paint = "darkened" THEN darken_colors(e) ELSE e
  IN [k \in DOMAIN design |-> Painted(Fitted(design[k]))]

can_toggle_colors == has_own_colors /\ (dark \/ fit_below(design) > 0)

-----------------------------------------------------------------------------
Init ==
  /\ design \in Designs
  /\ dark \in BOOLEAN
  /\ keep = FALSE
  /\ wide \in Pages

\* The toggle of the reader.
Toggle ==
  /\ can_toggle_colors
  /\ keep' = ~keep
  /\ UNCHANGED <<design, dark, wide>>

SwitchTheme ==
  /\ dark' = ~dark
  /\ UNCHANGED <<design, keep, wide>>

Resize ==
  /\ wide' \in Pages \ {wide}
  /\ UNCHANGED <<design, dark, keep>>

Next == Toggle \/ SwitchTheme \/ Resize

Spec == Init /\ [][Next]_vars

-----------------------------------------------------------------------------
Own(e, style, attr) == IF e[style] # None THEN e[style] ELSE e[attr]
\* What an element of a body is seen in: its own colour, the outer's, the page's.
Seen(b, k, style, attr, default) ==
  LET set == {j \in 1..k : Own(b[j], style, attr) # None} IN
  IF set = {} THEN default ELSE Own(b[CHOOSE j \in set : \A i \in set : i =< j], style, attr)

Luma(c) == (213 * c[1] + 715 * c[2] + 72 * c[3]) \div 1000
Gap(b, k, p) ==
  LET n == Luma(Seen(b, k, "color", "fgattr", p.ink)) - Luma(Seen(b, k, "background", "bgcolor", p.paper))
  IN IF n < 0 THEN -n ELSE n

AsSent == [paper |-> White, ink |-> Ink]

\* Text that could be read as it was sent can be read as it is painted, each
\* colour whether set or inherited, by style or attribute: the contrast is the
\* sender's up to what a saturated colour loses by being cut off (reader.rs
\* paint_for, palette, dark.rs darken_colors).
StaysReadable ==
  \A k \in DOMAIN design : Gap(design, k, AsSent) >= 128 => Gap(body, k, palette) >= 64

\* Nothing is wider than the page it is on, unless it is shown as sent
\* (reader.rs fit_below, fit.rs fit_widths).
FitsThePage ==
  ~keep => \A k \in DOMAIN body : body[k].width + (IF body[k].width > 0 THEN 2 * Margin ELSE 0) =< wide
=============================================================================
