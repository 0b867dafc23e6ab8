------------------------------- MODULE ClaudeParser -------------------------------
(***************************************************************************)
(* What Claude Code's screen says (server/parsers/claude_parser.py).        *)
(*                                                                          *)
(* A screen is the rows from the first one of the history on, and the row   *)
(* of the cursor.  The last two rules divide it into what was said, the     *)
(* input area and the bottom bar; what was said is cut into blocks at the   *)
(* rows with a character in their first column.  Between two screens the    *)
(* parser keeps the layout, the rows that began with a dot (a dot that      *)
(* blinks is invisible half of the time), and the star characters of each   *)
(* row with their age (a star that turns is a status, one that does not is  *)
(* a line of the system).                                                   *)
(***************************************************************************)
EXTENDS ScreenRows, TLC

CONSTANT StarWindow     \* the 1.5 seconds of the star history, in ticks

NewCache == [mode |-> "normal", dots |-> <<>>, stars |-> <<>>, attrs |-> <<>>]

-----------------------------------------------------------------------------
(* Regions. *)

IsDivider(row) == row.says = "line" /\ row.col0 \in {"", "line"}

ScanLimit(screen) == Min({screen.cursor + 5, Len(screen.rows)})

IsWelcomeTop(rows, i) == rows[i].says = "welcome"

\* the row after the box that begins at row i
AfterBox(rows, i, last) ==
    LET ends == {j \in i..last : rows[j].col0 = "bottom"}
    IN  IF ends = {} THEN last + 1 ELSE Min(ends) + 1

\* the first of the rows up to `last` that belongs to what was said
TrimWelcome(rows, last) ==
    LET keep[i \in 1..(last + 1)] ==
            IF i = last + 1 THEN i
            ELSE IF rows[i].col0 = "" THEN keep[i + 1]
            ELSE IF rows[i].col0 = "top" /\ IsWelcomeTop(rows, i)
                 THEN keep[AfterBox(rows, i + 1, last)]
            ELSE i
    IN  keep[1]

SplitRegions(screen) ==
    LET limit == ScanLimit(screen)
        rules == {i \in 1..limit : IsDivider(screen.rows[i])}
        below == Max(rules)
        above == Max(rules \ {below})
        said(last) == TrimWelcome(screen.rows, last)..last
    IN  IF Cardinality(rules) >= 2
        THEN [output |-> said(above - 1), input |-> (above + 1)..(below - 1),
              bottom |-> (below + 1)..limit]
        ELSE IF rules # {}
        THEN [output |-> said(below - 1), input |-> {}, bottom |-> (below + 1)..limit]
        ELSE [output |-> said(limit), input |-> {}, bottom |-> {}]

\* the rows of a region, from the top
RowsOf(screen, region) ==
    LET at == InOrder(region, Len(screen.rows)) IN [i \in DOMAIN at |-> screen.rows[at[i]]]

LayoutMode(input, bottom) ==
    LET says == {bottom[i].says : i \in DOMAIN bottom}
    IN  IF input # <<>> THEN IF HasNumberedOptions(input) THEN "option" ELSE "normal"
        ELSE IF HasNumberedOptions(bottom) THEN "option"
        ELSE IF "toggle" \in says THEN "detail"
        ELSE IF says \cap {"tasks", "select"} # {} THEN "agent_list"
        ELSE IF "back" \in says THEN "agent_detail"
        ELSE "normal"

-----------------------------------------------------------------------------
(* Blocks. *)

\* a change of the layout forgets all that was seen
SwitchMode(cache, mode) ==
    IF mode = cache.mode THEN cache ELSE [NewCache EXCEPT !.mode = mode]

CleanupCache(cache, rows, output) ==
    [cache EXCEPT
        !.dots = [i \in {j \in DOMAIN @ \cap output : rows[j].col0 \in {"", "dot"}} |-> @[i]],
        !.stars = [i \in DOMAIN @ \cap output |-> @[i]]]

\* the first and the last row of every block
ParseOutputArea(rows, output, dots) ==
    LET last  == Max(output)
        tops  == {i \in output : rows[i].col0 = "top"}
        boxed(i) == \E t \in tops : t < i /\ i < AfterBox(rows, t, last)
        heads == {i \in output : (rows[i].col0 # "" \/ i \in DOMAIN dots) /\ ~boxed(i)}
        end(h) == IF rows[h].col0 = "top" THEN Min({AfterBox(rows, h, last) - 1, last})
                  ELSE Min({i - 1 : i \in {j \in heads : j > h}} \cup {last})
    IN  IF output = {} THEN <<>>
        ELSE LET at == InOrder(heads, last)
             IN  [n \in DOMAIN at |-> [first |-> at[n], last |-> end(at[n])]]

\* Frames drawn inside a block are taken away when both their edges are there.
StripInlineBoxes(lines) ==
    LET scan(acc, i) ==
            IF lines[i].says = "itop" THEN [acc EXCEPT !.open = Append(@, i)]
            ELSE IF lines[i].says = "ibottom" /\ acc.open # <<>>
            THEN [open |-> Front(acc.open), boxes |-> acc.boxes \cup {<<Last(acc.open), i>>}]
            ELSE acc
        boxes == FoldLeft(scan, [open |-> <<>>, boxes |-> {}], [i \in DOMAIN lines |-> i]).boxes
        edges == UNION {{b[1], b[2]} : b \in boxes}
        inside(i) == \E b \in boxes : b[1] < i /\ i < b[2]
        kept == SelectSeq([i \in DOMAIN lines |-> i], LAMBDA i : i \notin edges)
    IN  [n \in DOMAIN kept |->
            IF inside(kept[n]) /\ lines[kept[n]].says = "iside"
            THEN [lines[kept[n]] EXCEPT !.says = ""] ELSE lines[kept[n]]]

\* what a block says; a frame that stays is text too
Content(lines) ==
    LET frame(r) == r.says \in {"itop", "iside", "ibottom"}
        said == SelectSeq(StripInlineBoxes(lines), LAMBDA r : r.text # 0 \/ frame(r))
    IN  [i \in DOMAIN said |-> IF frame(said[i]) THEN -said[i].text ELSE said[i].text]

Lines(rows, block) == SubSeq(rows, block.first, block.last)

\* a plan is what its frame holds
PlanBlock(rows, block) ==
    [kind |-> "plan", row |-> block.first, streaming |-> FALSE,
     texts |-> Texts(SelectSeq(Lines(rows, block), LAMBDA r : r.col0 = "side"))]

SystemBlock(rows, block) ==
    [kind |-> "system", row |-> block.first, streaming |-> FALSE,
     texts |-> Texts(Lines(rows, block))]

StatusBlock(rows, block) ==
    [row |-> block.first, timed |-> rows[block.first].says \in {"timed", "interrupt"}]

LastStatus(statuses) == IF statuses = <<>> THEN NoStatus ELSE Last(statuses)

UserBlock(rows, block) ==
    [kind |-> "user", row |-> block.first, streaming |-> FALSE,
     texts |-> Texts(Lines(rows, block))]

OutputBlock(rows, block, blink) ==
    [kind |-> "output", row |-> block.first, streaming |-> blink,
     texts |-> Content(Lines(rows, block))]

\* a dot that is hidden: its row as it was when the dot showed, and what is below it
HiddenBlock(rows, block, cached) ==
    [kind |-> "output", row |-> block.first, streaming |-> cached.blink,
     texts |-> Content(<<cached>> \o SubSeq(rows, block.first + 1, block.last))]

IsSpinning(row, history) == row.blink \/ \E h \in history : h.mark # row.mark

\* the star characters seen in a row not too long ago
StarsOf(cache, rows, i) ==
    {h \in IF i \in DOMAIN cache.stars THEN cache.stars[i] ELSE {} : h.age < StarWindow}
        \cup {[mark |-> rows[i].mark, age |-> 0]}

\* What a block is: nothing, a status, or one of the blocks.
Classify(rows, cache, block) ==
    LET row == rows[block.first]
    IN  CASE row.col0 = "" -> <<HiddenBlock(rows, block, cache.dots[block.first])>>
          [] row.col0 = "top" -> <<PlanBlock(rows, block)>>
          [] row.col0 = "star" ->
                IF IsSpinning(row, StarsOf(cache, rows, block.first))
                THEN <<StatusBlock(rows, block)>> ELSE <<SystemBlock(rows, block)>>
          [] row.col0 = "user" ->
                IF row.text = 0 \/ row.says = "line" THEN <<>> ELSE <<UserBlock(rows, block)>>
          [] row.col0 = "dot" -> <<OutputBlock(rows, block, row.blink)>>
          [] OTHER -> <<>>

\* the rows that were classified as beginning with a dot or a star are remembered
Remember(cache, rows, blocks) ==
    LET at(class) == {b.first : b \in {c \in ToSet(blocks) : rows[c.first].col0 = class}}
    IN  [cache EXCEPT
            !.dots = [i \in DOMAIN @ \cup at("dot") |-> IF i \in at("dot") THEN rows[i] ELSE @[i]],
            !.stars = [i \in DOMAIN @ \cup at("star") |->
                          IF i \in at("star") THEN StarsOf(cache, rows, i) ELSE @[i]]]

-----------------------------------------------------------------------------
(* The input area, dialogs and panels. *)

\* at most two options that went on below the second rule
DetectOverflow(options, bottom) ==
    LET last == IF Numbered(options) = {} THEN 0 ELSE options[Max(Numbered(options))].num
        goes(n) == n <= Len(bottom) /\ bottom[n].num = last + n
    IN  IF last = 0 \/ ~goes(1) THEN <<>>
        ELSE IF goes(2) THEN SubSeq(bottom, 1, 2) ELSE SubSeq(bottom, 1, 1)

Values(rows) == LET options == SelectSeq(rows, LAMBDA r : r.num > 0 /\ ~IsHint(r))
                IN  [i \in DOMAIN options |-> options[i].num]

\* the value of the last option with the cursor
Selected(rows) == LET at == {i \in Numbered(rows) : rows[i].cursor}
                  IN  IF at = {} THEN 0 ELSE rows[Max(at)].num

\* what is said before the options: a tag and a question, or one of them
ParseInputArea(input, overflow) ==
    LET option(said, rows) ==
            [sub      |-> "option",
             tag      |-> IF said = <<>> \/ (Len(said) = 1 /\ said[1].says = "asks")
                          THEN 0 ELSE said[1].text,
             question |-> IF said = <<>> \/ (Len(said) = 1 /\ said[1].says # "asks")
                          THEN 0 ELSE Last(said).text,
             values   |-> Values(rows),
             selected |-> Selected(rows)]
        around(found) ==
            option(SelectSeq(SubSeq(input, 1, found.first - 1),
                             LAMBDA r : ~IsEmpty(r) /\ ~IsHint(r)),
                   SubSeq(input, found.first, found.last) \o overflow)
    IN  IF input = <<>> \/ ~HasNumberedOptions(input) THEN NoOption
        ELSE around(FindContiguous(input))

Overflow(input, bottom) ==
    LET found == FindContiguous(input)
    IN  IF input = <<>> \/ ~HasNumberedOptions(input) THEN <<>>
        ELSE DetectOverflow(SubSeq(input, found.first, found.last), bottom)

\* the text after the prompt and the rows it goes on in
ExtractInput(input) ==
    LET starts == {i \in DOMAIN input : input[i].col0 = "user" /\ input[i].text # 0
                                           /\ input[i].says # "line"}
        s == Min(starts)
        stops == {i \in (s + 1)..Len(input) : input[i].col0 # ""}
        e == IF stops = {} THEN Len(input) ELSE Min(stops) - 1
    IN  IF starts = {} THEN <<>> ELSE Texts(SubSeq(input, s, e))

ParsePermission(bottom) ==
    LET option(said, rows) ==
            IF Cardinality(Numbered(rows)) < 2 THEN NoOption
            ELSE [sub      |-> "permission",
                  tag      |-> IF Len(said) < 2 THEN 0 ELSE said[1].text,
                  question |-> IF said = <<>> THEN 0 ELSE Last(said).text,
                  values   |-> Values(rows),
                  selected |-> Selected(rows)]
        around(lines, found) ==
            IF found.cursor = 0 THEN NoOption
            ELSE option(SelectSeq(SubSeq(lines, 1, found.first - 1), LAMBDA r : ~IsHint(r)),
                        SubSeq(lines, found.first, found.last))
        filled(lines) == around(lines, FindContiguous(lines))
    IN  filled(SelectSeq(bottom, LAMBDA r : ~IsEmpty(r)))

\* the agents, and how many the title says there are
AgentList(bottom) ==
    LET lines  == SelectSeq(bottom, LAMBDA r : ~IsEmpty(r) /\ ~IsHint(r))
        titles == {i \in DOMAIN lines : lines[i].count > 0}
        agents == SelectSeq(lines, LAMBDA r : r.says = "agent")
    IN  IF \A i \in DOMAIN bottom : IsEmpty(bottom[i]) THEN NoPanel
        ELSE [type  |-> "list", texts |-> Texts(agents),
              count |-> IF titles = {} THEN Len(agents) ELSE lines[Max(titles)].count]

\* the agent's name and what is below the title of a section
AgentDetail(bottom) ==
    LET lines  == SelectSeq(bottom, LAMBDA r : ~IsEmpty(r) /\ r.says # "back")
        titles == {i \in DOMAIN lines : lines[i].says \in {"progress", "prompt"}}
        below  == IF titles = {} THEN <<>> ELSE SubSeq(lines, Min(titles) + 1, Len(lines))
        names  == SelectSeq(lines, LAMBDA r : r.says = "crumb")
    IN  IF \A i \in DOMAIN bottom : IsEmpty(bottom[i]) THEN NoPanel
        ELSE [type |-> "detail", count |-> 0,
              texts |-> Texts(SubSeq(names, 1, Min({1, Len(names)}))) \o Texts(below)]

\* how many agents the bottom bar tells of
BarAgents(bottom) ==
    LET manage == {i \in DOMAIN bottom : bottom[i].says = "manage"}
    IN  IF manage = {} THEN 0 ELSE bottom[Min(manage)].count

-----------------------------------------------------------------------------
(* A screen. *)

\* What was said and the last status, and what is kept for the next screen.
ParseOutput(rows, cache, blocks) ==
    LET said(found) ==
            [cache  |-> Remember(cache, rows, blocks),
             blocks |-> SelectSeq(found, LAMBDA c : "kind" \in DOMAIN c),
             status |-> LastStatus(SelectSeq(found, LAMBDA c : "timed" \in DOMAIN c))]
    IN  said(FlattenSeq([n \in DOMAIN blocks |-> Classify(rows, cache, blocks[n])]))

\* What is below: options, or else a panel, or else the bottom bar.
ParseOption(input, bottom, mode, overflow) ==
    IF input # <<>> THEN ParseInputArea(input, overflow)
    ELSE IF mode = "option" THEN ParsePermission(bottom) ELSE NoOption

ParsePanel(bottom, mode, option) ==
    IF option # NoOption THEN NoPanel
    ELSE IF mode = "agent_list" THEN AgentList(bottom)
    ELSE IF mode = "agent_detail" THEN AgentDetail(bottom) ELSE NoPanel

BarRows(bottom, overflow) ==
    SelectSeq(SubSeq(bottom, Len(overflow) + 1, Len(bottom)), LAMBDA r : ~IsEmpty(r))

ParseBelow(bottom, mode, overflow, option) ==
    LET below(panel, bar) ==
            [option |-> option, panel |-> panel,
             bar    |-> IF option # NoOption \/ panel # NoPanel THEN <<>> ELSE Texts(bar),
             agents |-> IF option # NoOption \/ panel # NoPanel THEN 0 ELSE BarAgents(bar)]
    IN  below(ParsePanel(bottom, mode, option), BarRows(bottom, overflow))

\* the rows of the three regions one after the other, in the layout they give
ParseRegions(rows, output, input, bottom, mode, cache, overflow) ==
    ParseOutput(rows, cache, ParseOutputArea(rows, output, cache.dots))
        @@ ParseBelow(bottom, mode, overflow, ParseOption(input, bottom, mode, overflow))
        @@ [input |-> ExtractInput(input)]

\* What a screen says, and what is kept for the next one.
Parse(screen, before) ==
    LET rows == screen.rows
        layout(output, input, bottom, mode) ==
            ParseRegions(rows, output, input, bottom, mode,
                         CleanupCache(SwitchMode(before, mode), rows, output),
                         Overflow(input, bottom))
        divided(output, input, bottom) ==
            layout(output, input, bottom, LayoutMode(input, bottom))
        parsed(regions) == divided(regions.output, RowsOf(screen, regions.input),
                                   RowsOf(screen, regions.bottom))
    IN  parsed(SplitRegions(screen))
=============================================================================
