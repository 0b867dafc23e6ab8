--------------------------------- MODULE CliScreen ---------------------------------
(***************************************************************************)
(* The screen of a CLI as the parsers of server/parsers describe it: the    *)
(* rows it draws for what it is doing (Draw) and what a snapshot of them    *)
(* ought to say (Truth).  The CLI is not part of the repository.            *)
(*                                                                          *)
(* ui.log is what was said, ui.busy whether it is at work, ui.spin the      *)
(* phase of its spinner, ui.hidden whether the dot of the block it works    *)
(* at is invisible, ui.mode the dialog that is open, ui.picked the option   *)
(* with the cursor, ui.typed whether there is text at the prompt.  Claude   *)
(* Code draws one style, Codex three: with a background, and without one    *)
(* with a bright or a dim prompt.                                           *)
(***************************************************************************)
EXTENDS ScreenRows

CONSTANT Height     \* rows of the screen, the history's included

Styles == {"claude", "themed", "bright", "dim"}
Dialogs(style) == IF style = "claude" THEN {"option", "permission", "list", "agent", "detail"}
                  ELSE IF style = "themed" THEN {"option", "permission"} ELSE {}

Said(text) == [Blank EXCEPT !.text = text]
Tells(text, says) == [Blank EXCEPT !.text = text, !.says = says]
At(col0, text) == [Blank EXCEPT !.text = text, !.col0 = col0]
Rule == [Blank EXCEPT !.col0 = "line", !.says = "line"]
Filled(row) == [row EXCEPT !.bg = TRUE]
Pure == Filled(Blank)
Option(num, ui) == [Said(40 + num) EXCEPT !.num = num, !.cursor = ui.picked = num]

Welcome(style) ==
    IF style = "claude"
    THEN <<[At("top", 90) EXCEPT !.says = "welcome"], At("side", 91), At("bottom", 92)>>
    ELSE <<At("top", 90), [At("side", 91) EXCEPT !.says = "welcome"], At("bottom", 92)>>

\* what is below the first row of a block: nothing, a row, or a row in a frame
Body(entry) ==
    CASE entry.body = 0 -> <<>>
      [] entry.body = 1 -> <<Said(70 + entry.text)>>
      [] OTHER -> <<Tells(99, "itop"), Tells(70 + entry.text, "iside"), Tells(99, "ibottom")>>

EntryRows(entry, ui) ==
    CASE entry.kind = "user" ->
            IF ui.style = "themed" THEN <<Pure, Filled(At("user", entry.text)), Pure>>
            ELSE <<At("user", entry.text)>>
      [] entry.kind = "system" -> <<[At("star", entry.text) EXCEPT !.mark = 3]>>
      [] entry.kind = "plan" -> <<At("top", 93), At("side", entry.text), At("bottom", 94)>>
      [] OTHER ->
            <<IF entry.live /\ ui.hidden THEN Said(entry.text)
              ELSE [At("dot", entry.text) EXCEPT
                      !.mark = 1, !.blink = entry.live /\ ui.style = "claude"]>>
                \o Body(entry)

\* the spinner and what it says of the time
Spinner(ui) ==
    IF ~ui.busy \/ ui.mode # "normal" THEN <<>>
    ELSE IF ui.style = "claude"
    THEN <<[At("star", 80) EXCEPT !.mark = 1 + ui.spin, !.says = "timed"]>>
    ELSE <<[At("dot", 80) EXCEPT !.mark = 2 + ui.spin, !.says = "interrupt"]>>

Typed(ui) == IF ui.typed THEN <<50, 51>> ELSE <<>>
Prompt(ui) == [At("user", IF ui.typed THEN 50 ELSE 0) EXCEPT
                 !.tone = IF ui.style \in {"themed", "bright"} THEN "bright" ELSE ""]
GoesOn(ui) == IF ui.typed THEN <<Said(51)>> ELSE <<>>
Bar(ui) == IF ui.style = "claude" THEN [Tells(60, "manage") EXCEPT !.count = 2] ELSE Said(60)

Before(ui) ==
    Welcome(ui.style) \o FlattenSeq([i \in DOMAIN ui.log |-> EntryRows(ui.log[i], ui)])
        \o Spinner(ui)

\* empty rows, so that the last `n` rows are those at the bottom of the screen
Room(ui, n) == [i \in 1..(Height - n - Len(Before(ui))) |-> Blank]

Questions == <<Said(30), Tells(31, "asks")>>

\* the input area or the dialog in its place
Area(ui) ==
    CASE ui.style = "claude" /\ ui.mode = "normal" ->
            <<Rule, Prompt(ui)>> \o GoesOn(ui) \o <<Rule, Bar(ui)>>
      [] ui.style = "claude" /\ ui.mode = "option" ->
            <<Rule>> \o Questions \o <<Option(1, ui), Said(45), Option(2, ui), Rule,
              Option(3, ui), Tells(61, "nav")>>
      [] ui.style = "claude" /\ ui.mode = "permission" ->
            <<Rule>> \o Questions \o <<Option(1, ui), Option(2, ui), Tells(61, "nav")>>
      [] ui.mode = "list" ->
            <<Rule, Tells(62, "tasks"), [Said(63) EXCEPT !.count = 2], Tells(64, "agent"),
              Tells(65, "agent"), Tells(61, "select")>>
      [] ui.mode = "agent" ->
            <<Rule, Tells(64, "crumb"), Tells(66, "progress"), Said(67), Tells(61, "back")>>
      [] ui.mode = "detail" -> <<Rule, Tells(68, "toggle")>>
      [] ui.style = "themed" /\ ui.mode = "normal" ->
            <<Blank, Pure, Filled(Prompt(ui))>> \o GoesOn([ui EXCEPT !.typed = FALSE])
              \o (IF ui.typed THEN <<Filled(Said(51))>> ELSE <<>>) \o <<Pure, Bar(ui)>>
      [] ui.style = "themed" /\ ui.mode = "option" ->
            <<Blank, Pure, Filled(Said(30)), Filled(Tells(31, "asks")), Filled(Option(1, ui)),
              Filled(Option(2, ui)), Pure, Option(3, ui), Bar(ui)>>
      [] ui.style = "themed" /\ ui.mode = "permission" ->
            Room(ui, 5) \o <<Filled(Said(30)), Filled(Tells(31, "asks")), Filled(Option(1, ui)),
                             Filled(Option(2, ui)), Filled(Tells(61, "nav"))>>
      [] OTHER -> <<Prompt([ui EXCEPT !.typed = FALSE]), Bar(ui)>>

Draw(ui) ==
    LET drawn(above, rows) ==
            LET at == {i \in DOMAIN rows : \/ rows[i].cursor
                                           \/ i > above /\ rows[i].col0 = "user"}
            IN  [rows   |-> [i \in 1..Height |-> IF i <= Len(rows) THEN rows[i] ELSE Blank],
                 cursor |-> IF at = {} THEN above + 2 ELSE Min(at)]
    IN  drawn(Len(Before(ui)), Before(ui) \o Area(ui))

\* the rows in which two drawings differ
Changed(old, new) == {i \in 1..Height : old.rows[i] # new.rows[i]}

-----------------------------------------------------------------------------
(* What it says. *)

SaidBy(entry) ==
    [kind |-> entry.kind, streaming |-> FALSE,
     texts |-> <<entry.text>> \o IF entry.kind = "output" /\ entry.body > 0
                                 THEN <<70 + entry.text>> ELSE <<>>]

TrueOption(ui) ==
    CASE ui.mode = "option" ->
            [sub |-> "option", tag |-> 30, question |-> 31, values |-> <<1, 2, 3>>,
             selected |-> ui.picked]
      [] ui.mode = "permission" ->
            [sub |-> "permission", tag |-> 30, question |-> 31, values |-> <<1, 2>>,
             selected |-> ui.picked]
      [] OTHER -> NoOption

TruePanel(ui) ==
    CASE ui.mode = "list" -> [type |-> "list", count |-> 2, texts |-> <<64, 65>>]
      [] ui.mode = "agent" -> [type |-> "detail", count |-> 0, texts |-> <<64, 67>>]
      [] ui.mode = "normal" /\ ui.style = "claude" ->
            [type |-> "summary", count |-> 2, texts |-> <<>>]
      [] OTHER -> NoPanel

\* text can be typed over two rows where the input area has room for them
TrueInput(ui) == IF ui.mode = "normal" /\ ui.style \in {"claude", "themed"} THEN Typed(ui) ELSE <<>>

Truth(ui) == [blocks |-> [i \in DOMAIN ui.log |-> SaidBy(ui.log[i])],
              option |-> TrueOption(ui), panel |-> TruePanel(ui), input |-> TrueInput(ui)]
=============================================================================
