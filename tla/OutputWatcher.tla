------------------------------ MODULE OutputWatcher ------------------------------
(***************************************************************************)
(* The server's own view of the CLI's screen and the file in which other    *)
(* processes read it (server/server.py OutputWatcher, shared_state.py).     *)
(*                                                                          *)
(* The CLI repaints the rows that changed, from the top; the server reads   *)
(* any part of what it has written, and flushes after every read: it        *)
(* parses the screen as it is then and writes a snapshot.  The status and   *)
(* the streaming mark of a snapshot are smoothed over the screens of the    *)
(* last Window ticks, and a timer that every read sets anew flushes once    *)
(* more when the CLI is quiet.                                              *)
(*                                                                          *)
(* Time goes on between two steps of a tick: a screen seen Window ticks ago *)
(* is out of the window.  Only the one flushed after the last read may      *)
(* still be in it when the timer comes: both are as old as that read.  What *)
(* can be in no window any more is forgotten at once.  The writing process  *)
(* does nothing else while it writes.                                       *)
(***************************************************************************)
EXTENDS CliScreen

CONSTANTS Window,     \* WINDOW_SECONDS, in ticks
          StarWindow, \* the 1.5 seconds of the parsers' star history
          MaxLog,     \* blocks said
          MaxSteps,   \* changes of the CLI's screen
          CliStyles   \* the CLIs

ASSUME WatcherAssumption ==
    /\ {Window, StarWindow, MaxLog, MaxSteps} \subseteq Nat \ {0} /\ Window < StarWindow
    /\ CliStyles \subseteq Styles

Claude == INSTANCE ClaudeParser
Codex == INSTANCE CodexParser

VARIABLES
    ui,        \* what the CLI shows
    steps,     \* how often it changed
    todo,      \* rows it has painted that the server has not read
    owes,      \* it has been told of another size and has not redrawn
    screen,    \* the renderer's screen
    cache,     \* what the parser keeps
    pending,   \* a flush is scheduled
    timer,     \* ticks until the screen is flushed once more, or Off
    frames,    \* observations, the oldest first, with their age in ticks
    snapshot,  \* the last snapshot
    writing,   \* its text is in the shared file and its length is not
    length,    \* the length in the header of the shared file
    history    \* of the run: what the properties except

cli == <<ui, steps, todo, owes>>
parsed == <<cache, frames, snapshot>>
vars == <<ui, steps, todo, owes, screen, cache, pending, timer, frames, snapshot, writing, length,
          history>>

Off == Window + 1
NoScreen == [rows |-> [i \in 1..Height |-> Blank], cursor |-> 1]

NoSnapshot == [blocks |-> <<>>, status |-> NoStatus, option |-> NoOption, panel |-> NoPanel,
               bar |-> <<>>, input |-> <<>>]

\* the length of a snapshot's text
LengthOf(s) == 1 + Len(s.blocks)

Init ==
    /\ ui \in [log : {<<>>}, busy : {FALSE}, spin : {0}, hidden : {FALSE}, mode : {"normal"},
               picked : {1}, typed : {FALSE}, style : CliStyles]
    /\ steps = 0 /\ todo = {} /\ owes = FALSE
    /\ screen = Draw(ui)
    /\ cache = Claude!NewCache
    /\ pending = TRUE /\ timer = Window /\ frames = <<>>
    /\ snapshot = NoSnapshot /\ writing = FALSE /\ length = 0
    /\ history = [moved |-> FALSE, blanked |-> FALSE, misread |-> FALSE, spun |-> {}, turned |-> 0]

-----------------------------------------------------------------------------
(* The CLI: it changes what it shows and paints what that changes. *)

SpinnerRow(u) == IF Spinner(u) = <<>> THEN 0 ELSE Len(Before(u))

\* (once the server has read all it painted before, so that no two changes are read as one)
Show(new) ==
    LET old  == Draw(ui)
        next == Draw(new)
    IN
    /\ ~writing /\ steps < MaxSteps /\ todo = {}
    /\ ui' = new
    /\ steps' = steps + 1
    /\ todo' = Changed(old, next)
    /\ history' = [history EXCEPT !.spun = @ \cup ({SpinnerRow(new)} \ {0}),
                   \* rows that began a block lie elsewhere now
                   !.moved = @ \/ \E i \in 1..Height : /\ old.rows[i].col0 = "dot"
                                                       /\ next.rows[i].col0 = ""
                                                       /\ ~new.hidden]
    /\ UNCHANGED <<owes, screen, parsed, pending, timer, writing, length>>

Ended(log) == [i \in DOMAIN log |-> [log[i] EXCEPT !.live = FALSE]]
Say(kind, live) == Append(Ended(ui.log), [kind |-> kind, text |-> Len(ui.log) + 1, body |-> 0,
                                          live |-> live])

Ask == /\ ~ui.busy /\ ui.mode = "normal" /\ Len(ui.log) < MaxLog
       /\ Show([ui EXCEPT !.log = Say("user", FALSE), !.busy = TRUE, !.typed = FALSE])

Answer == \E kind \in {"output", "plan"} :
             /\ ui.busy /\ ui.mode = "normal" /\ Len(ui.log) < MaxLog
             /\ Show([ui EXCEPT !.log = Say(kind, kind = "output"), !.hidden = FALSE])

IsLive == \E i \in DOMAIN ui.log : ui.log[i].live

\* the spinner turns, and the dot of the block at work goes or comes
Spin == /\ ui.busy /\ ui.mode = "normal"
        /\ Show([ui EXCEPT !.spin = 1 - @, !.hidden = IsLive /\ ~@ /\ ui.style = "claude"])

\* rows of a block's body come, or go and move what is below them
SetBody == \E i \in DOMAIN ui.log, n \in {0, 1, 3} :
              /\ ui.log[i].kind = "output" /\ ui.log[i].body # n
              /\ n > ui.log[i].body => i = Len(ui.log)
              /\ Show([ui EXCEPT !.log[i].body = n])

\* it is done, and may say how long it took where the spinner was
Finish == \E tells \in BOOLEAN :
             /\ ui.busy /\ ui.mode = "normal" /\ (tells => Len(ui.log) < MaxLog)
             /\ Show([ui EXCEPT !.busy = FALSE, !.hidden = FALSE,
                                !.log = IF tells THEN Say("system", FALSE) ELSE Ended(@)])

Open == \E mode \in Dialogs(ui.style), picked \in 1..2 :
           /\ ui.mode = "normal"
           /\ \A i \in {Len(ui.log)} \ {0} : ui.log[i].kind \in {"output", "plan"}
           /\ picked = 1 \/ mode \in {"option", "permission"}
           /\ Show([ui EXCEPT !.mode = mode, !.picked = picked, !.hidden = FALSE,
                              !.log = Ended(@)])

Close == /\ ui.mode # "normal"
         /\ Show([ui EXCEPT !.mode = "normal", !.picked = 1])

Type == /\ ui.mode = "normal" /\ ui.style \in {"claude", "themed"} /\ ~ui.typed
        /\ Show([ui EXCEPT !.typed = TRUE])

\* it is told of its new size and draws everything
Redraw ==
    /\ ~writing /\ owes
    /\ owes' = FALSE /\ todo' = 1..Height
    /\ UNCHANGED <<ui, steps, screen, parsed, pending, timer, writing, length, history>>

-----------------------------------------------------------------------------
(* The server: output, the flushes it causes, and sizes. *)

\* the screens that were flushed before
Earlier == LET young == SelectSeq(frames, LAMBDA f : f.age < Window)
           IN  [i \in DOMAIN young |-> [young[i] EXCEPT !.last = FALSE]]

\* variant: the timer of an earlier output goes on
Feed_KeepTimer ==
    /\ pending' = TRUE
    /\ timer' = IF timer = Off THEN Window ELSE timer
    /\ frames' = Earlier

\* feed: a flush is scheduled unless one is, and the timer is set anew
Feed ==
    /\ pending' = TRUE
    /\ timer' = Window
    /\ frames' = Earlier

\* a read ends where the output ends, or in the middle of it
Cuts == {k \in todo : LET read == Cardinality({i \in todo : i <= k})
                      IN  read = Cardinality(todo) \/ 2 * read \in {Cardinality(todo), Cardinality(todo) + 1}}

\* what was written up to row `k` is read
ReadPty == \E k \in Cuts :
    LET drawn == Draw(ui)
        read  == {i \in todo : i <= k}
    IN
    /\ ~writing
    /\ todo' = todo \ read
    /\ screen' = [rows   |-> [i \in 1..Height |-> IF i \in read THEN drawn.rows[i] ELSE screen.rows[i]],
                  cursor |-> IF todo' = {} THEN drawn.cursor ELSE k]
    /\ history' = IF todo = 1..Height /\ todo' = {} THEN [history EXCEPT !.blanked = FALSE]
                  ELSE history
    /\ Feed
    /\ UNCHANGED <<ui, steps, owes, cache, snapshot, writing, length>>

\* _handle_resize: an empty screen and no flush; the CLI is told only of another size
HandleResize == \E same \in BOOLEAN :
    /\ ~writing /\ steps < MaxSteps
    /\ screen' = NoScreen
    /\ owes' = (owes \/ ~same)
    /\ steps' = steps + 1
    /\ history' = [history EXCEPT !.blanked = TRUE]
    /\ UNCHANGED <<ui, todo, parsed, pending, timer, writing, length>>

\* _do_reflush
Reflush ==
    /\ ~writing /\ timer = 0
    /\ timer' = Off /\ pending' = TRUE
    /\ UNCHANGED <<cli, screen, parsed, writing, length, history>>

\* what is written is read, and a flush that is scheduled comes, before the time goes on
Tick ==
    /\ ~writing /\ ~pending /\ todo = {} /\ timer # 0
    /\ \/ timer # Off
       \/ \E i \in DOMAIN frames : frames[i].age < Window
       \/ \E r \in DOMAIN cache.stars : cache.stars[r] # {}
    /\ timer' = IF timer = Off THEN Off ELSE timer - 1
    /\ frames' = LET may == SelectSeq(frames, LAMBDA f : f.last \/ f.age + 1 < Window)
                 IN  [i \in DOMAIN may |->
                        [may[i] EXCEPT !.age = IF @ < Window THEN @ + 1 ELSE @]]
    /\ cache' = [cache EXCEPT !.stars =
                   [r \in DOMAIN @ |-> {[h EXCEPT !.age = @ + 1] :
                                           h \in {k \in @[r] : k.age + 1 < StarWindow}}]]
    /\ history' = [history EXCEPT !.turned = Min({@, 1})]
    /\ UNCHANGED <<cli, screen, pending, snapshot, writing, length>>

\* what a parsed screen shows: the status, and the last block that may be worked at
Observe(page) ==
    LET outputs == SelectSeq(page.blocks, LAMBDA b : b.kind = "output")
        row == IF outputs = <<>> THEN 0 ELSE Last(outputs).row
    IN  [status |-> page.status, row |-> row,
         blink  |-> outputs # <<>> /\ Last(outputs).streaming,
         mark   |-> IF row = 0 THEN 0 ELSE screen.rows[row].mark,
         age    |-> 0, last |-> TRUE]

\* one more observation; it takes the place of one that showed the same
Seen(observed) ==
    LET same == frames # <<>> /\ [Last(frames) EXCEPT !.age = 0, !.last = TRUE] = observed
    IN  Append(IF same THEN Front(frames) ELSE frames, observed)

\* what is not older than the window; `late` keeps what is just as old
InWindow(seen, late) ==
    SelectSeq(seen, LAMBDA f : f.age < Window \/ (late /\ f.last))

\* the newest status that says the CLI is at work, or else the newest there is
DisplayStatus(seen) ==
    LET newest(S) == seen[Max(S)].status
        timed == {i \in DOMAIN seen : seen[i].status.timed}
        any   == {i \in DOMAIN seen : seen[i].status # NoStatus}
    IN  IF timed # {} THEN newest(timed) ELSE IF any # {} THEN newest(any) ELSE NoStatus

\* a dot that blinks, or one of the same block that has changed
IsActive(seen) ==
    \/ \E i \in DOMAIN seen : seen[i].blink
    \/ \E i \in DOMAIN seen : /\ Last(seen).row # 0 /\ seen[i].row = Last(seen).row
                              /\ seen[i].mark # Last(seen).mark

\* the last block that may be worked at is marked
Marked(blocks, active) ==
    LET outputs == {i \in DOMAIN blocks : blocks[i].kind = "output"}
    IN  IF active /\ outputs # {} THEN [blocks EXCEPT ![Max(outputs)].streaming = TRUE] ELSE blocks

\* agents in the bottom bar are a panel when no other is open
PanelOf(page) ==
    IF page.panel = NoPanel /\ page.agents > 0
    THEN [type |-> "summary", count |-> page.agents, texts |-> <<>>] ELSE page.panel

\* History: a row where the spinner was is taken for a status; the spinner has been seen to turn.
Noted(page, status) ==
    [history EXCEPT
        !.misread = SpinnerRow(ui) = 0 /\ ~status.timed /\ status.row \in history.spun,
        !.turned = IF todo # {} \/ SpinnerRow(ui) = 0 THEN 0
                   ELSE IF ui.style # "claude" THEN 2
                   ELSE LET row == SpinnerRow(ui)
                            old == IF row \in DOMAIN cache.stars THEN cache.stars[row] ELSE {}
                        IN  IF \E h \in old : h.age < StarWindow /\ h.mark \in {1, 2}
                                                /\ h.mark # screen.rows[row].mark
                               /\ cache.mode = page.cache.mode
                            THEN 2 ELSE 1]

\* _flush: the screen is parsed, smoothed, and written
Flush == \E page \in {IF ui.style = "claude" THEN Claude!Parse(screen, cache)
                      ELSE Codex!Parse(screen, cache)} :
    /\ ~writing /\ pending
    /\ pending' = FALSE
    /\ cache' = page.cache
    /\ \E seen \in {InWindow(Seen(Observe(page)), late) : late \in BOOLEAN} :
         /\ frames' = seen
         /\ snapshot' = [blocks |-> Marked(page.blocks, IsActive(seen)),
                         status |-> DisplayStatus(seen), option |-> page.option,
                         panel  |-> PanelOf(page), bar |-> page.bar, input |-> page.input]
         /\ history' = Noted(page, DisplayStatus(seen))
    /\ writing' = TRUE
    /\ UNCHANGED <<cli, screen, timer, length>>

-----------------------------------------------------------------------------
(* The shared file. *)

\* write_snapshot: the text is written over the old one, and then its length
WriteHeader ==
    /\ writing
    /\ length' = LengthOf(snapshot)
    /\ writing' = FALSE
    /\ UNCHANGED <<cli, screen, parsed, pending, timer, history>>

\* read: what another process makes of as many bytes as the header says.  A text that is cut
\* or has the rest of another one behind it is nothing, and neither is one being written.
Read ==
    IF length = 0 THEN NoSnapshot
    ELSE IF length = LengthOf(snapshot) THEN snapshot ELSE NoSnapshot

Next ==
    \/ Ask \/ Answer \/ Spin \/ SetBody \/ Finish \/ Open \/ Close \/ Type \/ Redraw
    \/ ReadPty \/ HandleResize \/ Reflush \/ Tick \/ Flush
    \/ WriteHeader

Spec == Init /\ [][Next]_vars

-----------------------------------------------------------------------------
(* Properties. *)

\* No output is on its way into the file.
Quiet == todo = {} /\ ~owes /\ ~pending /\ timer = Off /\ ~writing

\* A CLI that is at work goes on painting: it rests only when it is done or asks.
AtRest == ~IsLive /\ Spinner(ui) = <<>>

Claimed(s) == [blocks |-> [i \in DOMAIN s.blocks |->
                              [kind |-> s.blocks[i].kind, streaming |-> s.blocks[i].streaming,
                               texts |-> s.blocks[i].texts]],
               option |-> s.option, panel |-> s.panel, input |-> s.input]

\* In Claude's option dialog the option with the cursor is taken for typed text; Codex does
\* not see an option below the zone when the one with the cursor is the zone's last.
KnownGap == ui.mode = "option" /\ (ui.style = "claude" \/ ui.picked = 2)

\* When the CLI rests and all its output has been read and flushed, a reader of the shared file
\* gets what the screen says: the blocks in order and unmarked, the dialog, panel and input, and
\* no status (OutputWatcher.feed, _do_reflush, _flush, write_snapshot, read and both parsers).  Not said: after a resize to the
\* same size, after rows moved under a remembered dot, where a line stands in the spinner's row.
SnapshotIsScreen ==
    (Quiet /\ AtRest /\ ~history.blanked /\ ~history.moved /\ ~KnownGap)
        => IF history.misread THEN Read.option = TrueOption(ui)
           ELSE /\ Claimed(Read) = Truth(ui)
                /\ Read.status = NoStatus

\* While the spinner turns and a whole screen has been flushed, the snapshot shows a status with
\* its time, and the block worked at is marked (both parsers' indicator rules, _flush 4b, 4c).
WorkIsShown ==
    (history.turned = 2 /\ todo = {} /\ ~pending /\ ~history.blanked /\ ~history.moved)
        => /\ snapshot.status.timed
           /\ IsLive /\ ~ui.hidden /\ ui.style = "claude"
                => \E i \in DOMAIN snapshot.blocks : snapshot.blocks[i].streaming
=============================================================================
