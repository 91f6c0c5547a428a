------------------------------ MODULE Sidebar -------------------------------
(* The folder list both frontends paint: which folders of the tree show and   *)
(* what a collapsed one counts for (feed.rs).  A path is the sequence of its   *)
(* segments.                                                                  *)
EXTENDS Integers, FiniteSetsExt, SequencesExt

CONSTANTS
  Paths,      \* paths a server may have
  Role,       \* their roles
  Hierarchy,  \* FALSE: the server reports no delimiter
  MaxMail,    \* mails a folder holds at most
  MaxSteps    \* arrivals, reads and changes of the folder list

VARIABLES
  stored,     \* folders in the cache
  subscribed, \* those the user shows
  unread, total,  \* cached counts
  open,       \* folders the user expanded; kept by the frontend
  steps

vars == <<stored, subscribed, unread, total, open, steps>>

-----------------------------------------------------------------------------
folder_depth(p) == IF Hierarchy THEN Len(p) - 1 ELSE 0
Up(p, k) == SubSeq(p, 1, k)

\* The folders that are folded: a parent outside them counts as none.
visible == stored \cap subscribed

HasParent(p) == folder_depth(p) > 0 /\ Front(p) \in visible

folder_always_visible(p) ==
  \/ Role[p] # "custom"
  \/ HasParent(p) /\ Role[Front(p)] = "inbox"

Anchored(p) == folder_depth(p) = 0 \/ folder_always_visible(p) \/ ~HasParent(p)

\* Shown while every ancestor up to the nearest anchored one is expanded.
is_shown(p) ==
  LET top == Max({k \in 1..Len(p) : Anchored(Up(p, k)) /\ \A j \in k..Len(p) : Up(p, j) \in visible})
  IN Hierarchy => \A j \in top..(Len(p) - 1) : Up(p, j) \in open

is_under(row, p) ==
  Hierarchy /\ Len(row) < Len(p) /\ \A j \in Len(row)..Len(p) : Up(p, j) \in visible /\ Up(p, Len(row)) = row

\* Faulty variant: whatever has a child gets one.
Collapsible_AnyChild(p) == \E c \in visible : HasParent(c) /\ Front(c) = p

\* Only a folder whose toggle hides something gets a chevron.
Collapsible(p) ==
  \E c \in visible : HasParent(c) /\ Front(c) = p /\ ~folder_always_visible(c)

\* Trash never carries an unread pill.
folder_unread(p) == IF Role[p] = "trash" THEN 0 ELSE unread[p]

\* Faulty variant: only the children, not what is below them.
Carried_ChildrenOnly(row) ==
  {row} \cup (IF Collapsible(row) /\ row \notin open
              THEN {p \in visible : ~is_shown(p) /\ is_under(row, p) /\ Len(p) = Len(row) + 1} ELSE {})

\* The folders whose counts a painted row has.
Carried(row) ==
  {row} \cup (IF Collapsible(row) /\ row \notin open
              THEN {p \in visible : ~is_shown(p) /\ is_under(row, p)} ELSE {})

shown == {p \in visible : is_shown(p)}

sidebar_rows ==
  [p \in shown |->
     [collapsible |-> Collapsible(p), open |-> p \in open,
      unread |-> MapThenSumSet(folder_unread, Carried(p)),
      total |-> MapThenSumSet(LAMBDA q : total[q], Carried(p))]]

-----------------------------------------------------------------------------
Init ==
  /\ stored \in {Paths} \cup {Paths \ {p} : p \in Paths}
  /\ subscribed \in {stored, stored \ {p \in stored : Len(p) = 2}}
  /\ total = [p \in Paths |-> IF p \in stored THEN Len(p) - 1 ELSE 0]
  /\ unread = total
  /\ open = {} /\ steps = 0

Steps == steps < MaxSteps /\ steps' = steps + 1

\* The rows are painted anew after every change; what is expanded is the
\* frontend's.
Toggle(p) ==
  /\ p \in shown /\ Collapsible(p)
  /\ open' = IF p \in open THEN open \ {p} ELSE open \cup {p}
  /\ UNCHANGED <<stored, subscribed, unread, total, steps>>

Arrive(p) ==
  /\ Steps /\ p \in stored /\ total[p] < MaxMail
  /\ total' = [total EXCEPT ![p] = @ + 1] /\ unread' = [unread EXCEPT ![p] = @ + 1]
  /\ UNCHANGED <<stored, subscribed, open>>

Read(p) ==
  /\ Steps /\ p \in stored /\ unread[p] > 0
  /\ unread' = [unread EXCEPT ![p] = @ - 1]
  /\ UNCHANGED <<stored, subscribed, total, open>>

\* Discovery brings a folder, or the user shows or hides one.
Discover(p) ==
  /\ Steps /\ p \notin stored
  /\ stored' = stored \cup {p} /\ subscribed' = subscribed \cup {p}
  /\ UNCHANGED <<unread, total, open>>

ToggleShown(p) ==
  /\ Steps /\ p \in stored
  /\ subscribed' = IF p \in subscribed THEN subscribed \ {p} ELSE subscribed \cup {p}
  /\ UNCHANGED <<stored, unread, total, open>>

Next ==
  \/ \E p \in Paths :
       Toggle(p) \/ Arrive(p) \/ Read(p) \/ Discover(p) \/ ToggleShown(p)

Spec == Init /\ [][Next]_vars

-----------------------------------------------------------------------------
\* "so no unread pill disappears": every shown folder's counts are in some
\* painted row, its own or a collapsed ancestor's (feed.rs, sidebar_rows).
NothingHidden ==
  \A p \in visible : \E r \in shown : p \in Carried(r)

\* Only what folds away ever hides, and a chevron always does something: a row
\* that offers one changes what is painted (feed.rs, sidebar_rows).
ChevronWorks ==
  \A p \in visible :
    /\ folder_always_visible(p) => p \in shown
    /\ p \in shown /\ Collapsible(p) =>
         (p \notin open <=> \E c \in visible \ shown : HasParent(c) /\ Front(c) = p)

=============================================================================
