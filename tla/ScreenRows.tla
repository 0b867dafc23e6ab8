-------------------------------- MODULE ScreenRows --------------------------------
(***************************************************************************)
(* What the parsers of server/parsers tell apart in a row of the terminal   *)
(* (the helpers on rows of claude_parser.py and codex_parser.py).           *)
(*                                                                          *)
(* A row has the class of the character in its first column, with its       *)
(* indicator's character and colour as one number (mark), whether that      *)
(* character blinks and its tone, the text (a number; 0 is none), the one   *)
(* phrase in it that a rule looks for, the number of an option, the         *)
(* option's cursor, a count of agents, and whether it has a background.     *)
(***************************************************************************)
EXTENDS Integers, Sequences, SequencesExt, FiniteSets, FiniteSetsExt

Blank == [col0 |-> "", mark |-> 0, blink |-> FALSE, tone |-> "", text |-> 0, says |-> "",
          num |-> 0, cursor |-> FALSE, count |-> 0, bg |-> FALSE]

\* nothing is left of the row's text when spaces are stripped
IsEmpty(row) == row.col0 = "" /\ row.text = 0 /\ row.says = "" /\ row.num = 0

\* a navigation hint between or after options
IsHint(row) == row.says \in {"nav", "select"}

\* the numbers of a set, up to n, in order
InOrder(set, n) == SelectSeq([i \in 1..n |-> i], LAMBDA i : i \in set)

Numbered(rows) == {i \in DOMAIN rows : rows[i].num > 0}

HasNumberedOptions(rows) ==
    /\ \E i \in Numbered(rows) : rows[i].cursor
    /\ Cardinality(Numbered(rows)) >= 2

\* variant: another number does not end the chain
Chain_NoStop(lines, path, number, step) ==
    LET scan(found, i) ==
            IF lines[i].num > 0 /\ ~IsHint(lines[i]) /\ lines[i].num = found.next
            THEN [found EXCEPT !.edge = i, !.next = @ + step]
            ELSE found
    IN  FoldLeft(scan, [edge |-> 0, next |-> number + step, on |-> TRUE], path).edge

\* From row i on, towards `next`: the last row of the chain of consecutive numbers.
\* Hints, empty rows and descriptions do not break it; another number does.
Chain(lines, path, number, step) ==
    LET scan(found, i) ==
            IF found.on /\ lines[i].num > 0 /\ ~IsHint(lines[i])
            THEN IF lines[i].num = found.next
                 THEN [found EXCEPT !.edge = i, !.next = @ + step]
                 ELSE [found EXCEPT !.on = FALSE]
            ELSE found
    IN  FoldLeft(scan, [edge |-> 0, next |-> number + step, on |-> TRUE], path).edge

\* the options around the first cursor: [cursor, first, last], 0 without a cursor
FindContiguous(lines) ==
    LET found(c, up, down) == [cursor |-> c, first |-> IF up = 0 THEN c ELSE up,
                               last |-> IF down = 0 THEN c ELSE down]
        around(c) == found(c, Chain(lines, [i \in 1..(c - 1) |-> c - i], lines[c].num, -1),
                           Chain(lines, [i \in 1..(Len(lines) - c) |-> c + i], lines[c].num, 1))
        cursors == {i \in Numbered(lines) : lines[i].cursor}
    IN  IF cursors = {} THEN [cursor |-> 0, first |-> 0, last |-> 0] ELSE around(Min(cursors))

NoOption == [sub |-> "", tag |-> 0, question |-> 0, values |-> <<>>, selected |-> 0]
NoPanel == [type |-> "", count |-> 0, texts |-> <<>>]
NoStatus == [row |-> 0, timed |-> FALSE]

Texts(rows) == LET said == SelectSeq(rows, LAMBDA r : r.text # 0)
               IN  [i \in DOMAIN said |-> said[i].text]
=============================================================================
