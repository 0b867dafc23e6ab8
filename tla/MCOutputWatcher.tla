----------------------------- MODULE MCOutputWatcher ------------------------------
(* Small instances of OutputWatcher for TLC. *)
EXTENDS OutputWatcher

\* Lines around a cursor: numbers 0 (a description) to 3, hints, and the row of the cursor.
SmallLines ==
    {[i \in DOMAIN row |-> [num |-> row[i].num, says |-> row[i].says, cursor |-> i = c]] :
        c \in 1..4, row \in UNION {[1..n -> [num : 0..3, says : {"", "nav"}]] : n \in 1..4}}

\* the numbered lines that count, above or below row c, the nearest first
Near(lines, c, up) ==
    LET counts == {i \in DOMAIN lines : /\ IF up THEN i < c ELSE i > c
                                        /\ lines[i].num > 0 /\ lines[i].says = ""}
        down   == InOrder(counts, Len(lines))
    IN  IF up THEN Reverse(down) ELSE down

\* how many of them go on with the numbers of row c
ChainLength(lines, c, up) ==
    LET near == Near(lines, c, up)
        goes(j) == lines[near[j]].num = IF up THEN lines[c].num - j ELSE lines[c].num + j
    IN  Max({k \in 0..Len(near) : \A j \in 1..k : goes(j)})

\* The options found around the first cursor are the longest run of consecutive numbers
\* through it; descriptions and hints do not end it, any other number does
\* (_find_contiguous_options in both parsers).  A law of the operator: said where a run begins.
OptionsAreOneRun ==
    steps = 0 /\ frames = <<>> => \A lines \in SmallLines :
        LET found == FindContiguous(lines)
            c     == found.cursor
            edge(up) == LET k == ChainLength(lines, c, up)
                        IN  IF k = 0 THEN c ELSE Near(lines, c, up)[k]
        IN  c # 0 => found.first = edge(TRUE) /\ found.last = edge(FALSE)
=============================================================================
