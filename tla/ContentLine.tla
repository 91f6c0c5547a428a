---------------------------- MODULE ContentLine -----------------------------
(***************************************************************************)
(* The lines of calendar and contact files (mailcore content_line.rs).     *)
(* A file is a sequence of physical lines, a line a sequence of tokens:     *)
(* words in one spelling and the characters ":", ";", "=", "\"", "\\", and  *)
(* " " for blanks and tabs.                                                 *)
(***************************************************************************)
EXTENDS Naturals, SequencesExt

Word(w) == <<w>>
Starts(line, c) == line # <<>> /\ line[1] = c

\* Without the blanks around it.
Solid(v) == {k \in DOMAIN v : v[k] # " "}
Between(v, ks) == IF ks = {} THEN <<>> ELSE SubSeq(v, Min(ks), Max(ks))
Trim(v) == Between(v, Solid(v))
TrimEnd(v) == SubSeq(v, 1, Max({0} \cup Solid(v)))

\* Cut at the characters in those places.
Split(v, places) ==
  LET cuts == SetToSortSeq({0, Len(v) + 1} \cup places, LAMBDA a, b : a < b)
  IN [k \in 1..(Len(cuts) - 1) |-> SubSeq(v, cuts[k] + 1, cuts[k + 1] - 1)]

\* Faulty: a blank at its start is all that tells a line apart; it is trimmed away.
unfold_Lines(file) == file

\* A line that starts with a blank goes on with the one before it.
unfold(file) ==
  FoldLeft(LAMBDA out, line :
             IF out # <<>> /\ Starts(line, " ")
             THEN [out EXCEPT ![Len(out)] = @ \o Tail(line)] ELSE Append(out, line),
           <<>>, file)

\* The first token after a backslash stands for itself, "n" for a line break.
unescape_text(v) ==
  LET Read(s, c) ==
        IF s.escaped THEN [escaped |-> FALSE, out |-> Append(s.out, IF c = "n" THEN "\n" ELSE c)]
        ELSE IF c = "\\" THEN [s EXCEPT !.escaped = TRUE] ELSE [s EXCEPT !.out = Append(@, c)]
      all == FoldLeft(Read, [escaped |-> FALSE, out |-> <<>>], v)
  IN IF all.escaped THEN Append(all.out, "\\") ELSE all.out

Quoted(line, k) == Len(SelectSeq(SubSeq(line, 1, k - 1), LAMBDA c : c = "\"")) % 2 = 1

\* Faulty: quotes do not hide a colon.
Marks_Bare(line, c) == {k \in DOMAIN line : line[k] = c}

\* Where character c stands outside quotes.
Marks(line, c) == {k \in DOMAIN line : line[k] = c /\ ~Quoted(line, k)}

\* A parameter's value, out of its quotes.
Unquoted(t) == IF Len(t) > 1 /\ Starts(t, "\"") /\ t[Len(t)] = "\"" THEN SubSeq(t, 2, Len(t) - 1) ELSE t
param_value(v) == Unquoted(Trim(v))

\* A parameter without "=" is kept with an empty value.
Param(p) ==
  LET k == Min({Len(p) + 1} \cup {j \in DOMAIN p : p[j] = "="})
  IN [name |-> Trim(SubSeq(p, 1, k - 1)), value |-> param_value(SubSeq(p, k + 1, Len(p)))]

NoLine == [name |-> <<>>, params |-> <<>>, value |-> <<>>]

\* Name, parameters and value; NoLine without a name or a colon.
Fields(parts, value) ==
  LET given == SelectSeq(Tail(parts), LAMBDA p : p # <<>>)
  IN IF Head(parts) = <<>> THEN NoLine
     ELSE [name |-> Head(parts), params |-> [k \in DOMAIN given |-> Param(given[k])], value |-> value]
At_colon(line, colon) ==
  LET parts == Split(SubSeq(line, 1, colon - 1), {k \in Marks(line, ";") : k < colon})
  IN Fields([k \in DOMAIN parts |-> Trim(parts[k])], SubSeq(line, colon + 1, Len(line)))
parse_content_line(line) ==
  LET colons == Marks(line, ":") IN IF colons = {} THEN NoLine ELSE At_colon(line, Min(colons))

Has(cl, name) == \E k \in DOMAIN cl.params : cl.params[k].name = Word(name)

\* The first parameter of that name.
param(cl, name) ==
  IF Has(cl, name)
  THEN cl.params[CHOOSE k \in DOMAIN cl.params :
                   cl.params[k].name = Word(name) /\ \A j \in 1..(k - 1) : cl.params[j].name # Word(name)].value
  ELSE <<>>
-----------------------------------------------------------------------------
(* What a file says, read by counting, for the properties: its lines, each   *)
(* with those after it that start with a blank, and for each line the        *)
(* begins before it from which on more begin than end.                       *)
Whole(file) ==
  LET heads == {k \in DOMAIN file : k = 1 \/ ~Starts(file[k], " ")}
      Rest(k) == {j \in DOMAIN file : j > k /\ (k + 1)..j \cap heads = {}}
  IN [k \in heads |-> file[k] \o FlattenSeq([j \in 1..Cardinality(Rest(k)) |-> Tail(file[k + j])])]

Around(k, begins, ends) ==
  {j \in begins : j < k /\ \A m \in j..(k - 1) : Cardinality(begins \cap (j..m)) > Cardinality(ends \cap (j..m))}
=============================================================================
