------------------------------- MODULE CodexParser --------------------------------
(***************************************************************************)
(* What the Codex CLI's screen says (server/parsers/codex_parser.py, which  *)
(* began as a copy of the other parser: what it shares is that one's).      *)
(*                                                                          *)
(* There are no rules.  The input area is a zone with a background between  *)
(* two rows that have nothing but it; without one the last prompt that is   *)
(* bright, or that nothing follows, is the input area; without a prompt the *)
(* rows with a background at the bottom are the bottom bar.  A dot that     *)
(* blinks, changes or says how to interrupt is a status, and any other dot  *)
(* begins a block.                                                          *)
(***************************************************************************)
EXTENDS ScreenRows, TLC

CONSTANT StarWindow

LOCAL Claude == INSTANCE ClaudeParser

IsPureBg(row) == row.bg /\ IsEmpty(row)

\* the background of the characters of a row
HasDominantBg(row) == row.bg /\ ~IsEmpty(row)

\* The colours of a prompt: the plain ANSI white is white and not bright, and a light blue one
\* is that of a row that is light blue throughout.
IsBrightColor(tone) == tone = "bright"
IsWhiteColor(tone) == tone \in {"white", "bright"}
IsLightBlueColor(tone) == tone = "blue"

-----------------------------------------------------------------------------
(* Regions. *)

\* the first and the last row of the lowest zone that has room between its edges
FindBgRegion(rows, limit) ==
    LET filled == {i \in 1..limit : rows[i].bg}
        zone == {i \in filled : i..Max(filled) \subseteq filled}
        pure == {i \in zone : IsPureBg(rows[i])}
    IN  IF Cardinality(pure) >= 2 /\ Max(pure) - Min(pure) >= 2
        THEN <<Min(pure), Max(pure)>> ELSE <<>>

\* above the zone: an empty row, a rule, an empty row
HasOptionContextAbove(rows, start) ==
    /\ start >= 4
    /\ IsEmpty(rows[start - 1]) /\ IsEmpty(rows[start - 3])
    /\ rows[start - 2].says = "line" /\ ~rows[start - 2].bg

DetermineInputMode(rows, start, content) ==
    LET prompts == {i \in DOMAIN content : content[i].col0 = "user"}
    IN  IF content = <<>> \/ (1 \in prompts /\ (\/ IsWhiteColor(content[1].tone)
                                                \/ IsBrightColor(content[1].tone))) THEN "normal"
        ELSE IF \/ HasOptionContextAbove(rows, start)
                \/ \E i \in prompts : IsLightBlueColor(content[i].tone)
                \/ HasNumberedOptions(content)
             THEN "option" ELSE "normal"

\* the first of the lowest rows that have text on a background; 0 is none
FindChromeBoundary(rows, limit) ==
    LET chrome == {i \in 1..limit : \A j \in i..limit : HasDominantBg(rows[j])}
    IN  IF chrome = {} THEN 0 ELSE Min(chrome)

\* the title and the settings are inside the box, in one of its first rows
IsWelcomeBox(rows, top, last) ==
    \E j \in (top + 1)..Min({top + 5, last}) :
        /\ \A i \in (top + 1)..j : rows[i].col0 # "bottom"
        /\ HasDominantBg(rows[j]) \/ rows[j].says = "welcome"

TrimWelcome(rows, last) ==
    LET keep[i \in 1..(last + 1)] ==
            IF i = last + 1 THEN i
            ELSE IF rows[i].col0 = "" THEN keep[i + 1]
            ELSE IF rows[i].col0 = "top" /\ IsWelcomeBox(rows, i, last)
                 THEN keep[Claude!AfterBox(rows, i + 1, last)]
            ELSE i
    IN  keep[1]

\* the last prompt that is bright, or else the last one if no block follows it
PromptRow(rows, limit) ==
    LET prompts == {i \in 1..limit : rows[i].col0 = "user"}
        bright  == {i \in prompts : IsBrightColor(rows[i].tone)}
        free    == {i \in prompts : \A j \in (i + 1)..limit :
                                        rows[j].col0 \notin {"dot", "user", "star"}}
    IN  IF bright # {} THEN Max(bright) ELSE IF free # {} THEN Max(free) ELSE 0

\* The regions, and the layout if the zone of the input area gives it.
SplitRegions(screen) ==
    LET rows   == screen.rows
        limit  == Claude!ScanLimit(screen)
        zone   == FindBgRegion(rows, limit)
        prompt == PromptRow(rows, limit)
        chrome == FindChromeBoundary(rows, limit)
        said(last) == TrimWelcome(rows, last)..last
    IN  IF zone # <<>>
        THEN [output |-> said(zone[1] - 1), input |-> (zone[1] + 1)..(zone[2] - 1),
              bottom |-> (zone[2] + 1)..limit,
              mode   |-> DetermineInputMode(rows, zone[1],
                                            SubSeq(rows, zone[1] + 1, zone[2] - 1))]
        ELSE IF prompt # 0
        THEN [output |-> said(prompt - 1), input |-> {prompt},
              bottom |-> (prompt + 1)..limit, mode |-> ""]
        ELSE IF chrome > 1
        THEN [output |-> said(chrome - 1), input |-> {}, bottom |-> chrome..limit, mode |-> ""]
        ELSE [output |-> said(limit), input |-> {}, bottom |-> {}, mode |-> ""]

-----------------------------------------------------------------------------
(* Blocks. *)

CleanupCache(cache, rows, output) == Claude!CleanupCache(cache, rows, output)
ParseOutputArea(rows, output, dots) == Claude!ParseOutputArea(rows, output, dots)
PlanBlock(rows, block) == Claude!PlanBlock(rows, block)
SystemBlock(rows, block) == Claude!SystemBlock(rows, block)
StatusBlock(rows, block) == Claude!StatusBlock(rows, block)

\* variant: a dot is a status only while it blinks
IsStatusDot_Blink(rows, attrs, i) == rows[i].blink

\* a dot that blinks, is not the one of before, or says how to interrupt
IsStatusDot(rows, attrs, i) ==
    \/ rows[i].blink
    \/ i \in DOMAIN attrs /\ attrs[i] # rows[i].mark
    \/ rows[i].says = "interrupt"

Classify(rows, cache, block) ==
    LET row == rows[block.first]
    IN  CASE row.col0 = "" -> <<Claude!HiddenBlock(rows, block, cache.dots[block.first])>>
          [] row.col0 = "top" -> <<PlanBlock(rows, block)>>
          [] row.col0 = "star" ->
                IF Claude!IsSpinning(row, Claude!StarsOf(cache, rows, block.first))
                THEN <<StatusBlock(rows, block)>> ELSE <<SystemBlock(rows, block)>>
          [] row.col0 = "user" ->
                IF row.text = 0 \/ row.says = "line" THEN <<>>
                ELSE <<Claude!UserBlock(rows, block)>>
          [] row.col0 = "dot" ->
                IF IsStatusDot(rows, cache.attrs, block.first)
                THEN <<StatusBlock(rows, block)>> ELSE <<Claude!OutputBlock(rows, block, FALSE)>>
          [] OTHER -> <<>>

\* the look of every dot, also that of a status, which is not a block's dot
Remember(cache, rows, blocks) ==
    LET dots == {b.first : b \in {c \in ToSet(blocks) : rows[c.first].col0 = "dot"}}
        kept == Claude!Remember(cache, rows, SelectSeq(blocks,
                    LAMBDA b : b.first \notin dots \/ ~IsStatusDot(rows, cache.attrs, b.first)))
    IN  [kept EXCEPT !.attrs =
            [i \in DOMAIN @ \cup dots |-> IF i \in dots THEN rows[i].mark ELSE @[i]]]

-----------------------------------------------------------------------------
(* The input area, dialogs and panels. *)

\* Only the cursor ">" is known here: an option at another one has no number.
DetectOverflow(options, bottom) ==
    Claude!DetectOverflow(
        [i \in DOMAIN options |-> IF options[i].cursor THEN Blank ELSE options[i]],
        [i \in DOMAIN bottom |-> IF bottom[i].cursor THEN Blank ELSE bottom[i]])

Overflow(input, bottom) ==
    LET found == FindContiguous(input)
    IN  IF input = <<>> \/ ~HasNumberedOptions(input) THEN <<>>
        ELSE DetectOverflow(SubSeq(input, found.first, found.last), bottom)

ParseInputArea(input, overflow) == Claude!ParseInputArea(input, overflow)
ParsePermission(bottom) == Claude!ParsePermission(bottom)
AgentList(bottom) == Claude!AgentList(bottom)
AgentDetail(bottom) == Claude!AgentDetail(bottom)

\* nothing is being typed while there are options
ExtractInput(input, mode) == IF mode = "option" THEN <<>> ELSE Claude!ExtractInput(input)

-----------------------------------------------------------------------------
(* A screen. *)

\* What was said and the last status, and what is kept for the next screen.
ParseOutput(rows, cache, blocks) ==
    LET said(found) ==
            [cache  |-> Remember(cache, rows, blocks),
             blocks |-> SelectSeq(found, LAMBDA c : "kind" \in DOMAIN c),
             status |-> Claude!LastStatus(SelectSeq(found, LAMBDA c : "timed" \in DOMAIN c))]
    IN  said(FlattenSeq([n \in DOMAIN blocks |-> Classify(rows, cache, blocks[n])]))

ParseOption(input, bottom, mode, overflow) ==
    IF input # <<>> THEN ParseInputArea(input, overflow)
    ELSE IF mode = "option" THEN ParsePermission(bottom) ELSE NoOption

ParsePanel(bottom, mode, option) ==
    IF option # NoOption THEN NoPanel
    ELSE IF mode = "agent_list" THEN AgentList(bottom)
    ELSE IF mode = "agent_detail" THEN AgentDetail(bottom) ELSE NoPanel

\* What is below: as there, but the bar is also there with options, and tells of no agents.
ParseBelow(bottom, mode, overflow, option) ==
    LET below(panel, bar) ==
            [option |-> option, panel |-> panel,
             bar    |-> IF panel # NoPanel THEN <<>> ELSE Texts(bar), agents |-> 0]
    IN  below(ParsePanel(bottom, mode, option), Claude!BarRows(bottom, overflow))

ParseRegions(rows, output, input, bottom, mode, cache, overflow) ==
    ParseOutput(rows, cache, ParseOutputArea(rows, output, cache.dots))
        @@ ParseBelow(bottom, mode, overflow, ParseOption(input, bottom, mode, overflow))
        @@ [input |-> ExtractInput(input, mode)]

\* What a screen says, and what is kept for the next one.
Parse(screen, before) ==
    LET rows == screen.rows
        layout(output, input, bottom, mode) ==
            ParseRegions(rows, output, input, bottom, mode,
                         CleanupCache(Claude!SwitchMode(before, mode), rows, output),
                         Overflow(input, bottom))
        divided(output, input, bottom, mode) ==
            layout(output, input, bottom,
                   IF mode # "" THEN mode ELSE Claude!LayoutMode(input, bottom))
        parsed(regions) == divided(regions.output, Claude!RowsOf(screen, regions.input),
                                   Claude!RowsOf(screen, regions.bottom), regions.mode)
    IN  parsed(SplitRegions(screen))
=============================================================================
