------------------------------ MODULE StreamCards ------------------------------
(***************************************************************************)
(* The rolling cards that show the output of a CLI session in a chat        *)
(* (lark_client/shared_memory_poller.py) and the ways the handler ends or   *)
(* restarts them (lark_client/lark_handler.py).                             *)
(*                                                                          *)
(* The output is a growing sequence of blocks, read from the session's      *)
(* shared file once per poll.  A card shows a window of it; a card that has *)
(* too many blocks or is too big is frozen and followed by a new one.  The  *)
(* poll task waits for Lark at every call; stopping it cancels the task,    *)
(* while a call that is on its way to Lark (in a thread) goes on.  One chat. *)
(***************************************************************************)
EXTENDS Integers, FiniteSets, Sequences, SequencesExt

CONSTANTS CardBlocks,    \* MAX_CARD_BLOCKS
          Window,        \* INITIAL_WINDOW
          SizeLimit,     \* CARD_SIZE_LIMIT
          Big,           \* which blocks may be big: sets of numbers of blocks
          BigSize,       \* what a big block adds to the size of a card; another adds 1
          MaxBlocks,     \* bound: blocks ever written
          MaxEdits,      \* bound: changes of the last block, rounds of work, restarts of the output
          MaxStops,      \* bound: times the chat is detached or attached again
          Faults,        \* subset of AllFaults
          MaxFaults      \* bound: how many

AllFaults == {"fail", "lost reply", "elements"}

ASSUME ConstantsAssumption ==
    /\ CardBlocks \in Nat \ {0} /\ Window \in 1..CardBlocks
    /\ BigSize \in Nat \ {0} /\ SizeLimit \in Nat /\ Faults \subseteq AllFaults

VARIABLES
    output,    \* the shared file: blocks, is the CLI at work
    tracker,   \* StreamTracker of the chat, or NoTracker
    poll,      \* the poll task: where it waits, and its local variables
    hand,      \* the handler's own update of a card that it has stopped
    detached,  \* _detached_slices
    lark,      \* the cards of the chat as Lark has them
    strays,    \* calls of a cancelled task that are still on their way
    kept,      \* history: cards that no call turned off: id of each
    missed,    \* history: blocks that a step of the code leaves out of every card
    refused,   \* history: updates of a running task or handler that Lark found out of order
    past,      \* history of the present tracker: the first block of the output its cards show
    budget

vars == <<output, tracker, poll, hand, detached, lark, strays, kept, missed, refused, past, budget>>

NoTracker == [cards |-> <<>>, hash |-> <<>>, ready |-> TRUE, on |-> FALSE]
NewTracker == [NoTracker EXCEPT !.on = TRUE]
Idle == [at |-> "off", blocks |-> <<>>, busy |-> FALSE, start |-> 0, id |-> 0, why |-> "new", notify |-> FALSE]
NoHand == [at |-> "none", id |-> 0, seq |-> 0, start |-> 0, form |-> "none"]

\* variant: the status line is left out of the comparison
Content_NoStatus(blocks, busy) == [blocks |-> blocks, busy |-> FALSE]
Content(blocks, busy) == [blocks |-> blocks, busy |-> busy]
From(start) == IF start < Len(poll.blocks) THEN SubSeq(poll.blocks, start + 1, Len(poll.blocks)) ELSE <<>>

\* which block an output begins with
First(blocks) == IF blocks = <<>> THEN 0 ELSE blocks[1].id

SizeOf(blocks) == FoldLeft(LAMBDA n, b : n + b.size, 0, blocks)
\* whether a card of these blocks is small enough; without any it is
Fits(blocks) == blocks = <<>> \/ SizeOf(blocks) <= SizeLimit

\* the start of a window cut from its head until the card fits (one block stays)
Trimmed(start) ==
    LET n == Len(poll.blocks)
        good == {k \in start..n : k = start \/ k < n}
    IN  CHOOSE k \in good : /\ Fits(From(k)) \/ k >= n - 1
                            /\ \A j \in good : j < k => ~Fits(From(j))

\* how many blocks a frozen card holds: the longest prefix that fits
FreezeCount(blocks) ==
    CHOOSE n \in 1..Len(blocks) :
        /\ n = 1 \/ Fits(SubSeq(blocks, 1, n))
        /\ \A k \in (n + 1)..Len(blocks) : ~Fits(SubSeq(blocks, 1, k))

Active == IF tracker.cards # <<>> /\ ~Last(tracker.cards).frozen THEN Len(tracker.cards) ELSE 0

ShownBlocks == UNION {ToSet(lark[tracker.cards[i].id].blocks) : i \in 1..Len(tracker.cards)}
\* the blocks before a position that no card of the tracker shows
Unshown(upto) == {poll.blocks[i] : i \in 1..upto} \ ShownBlocks

Spend(what, max) ==
    /\ budget[what] < max
    /\ budget' = [budget EXCEPT ![what] = @ + 1]
Fault(what) == what \in Faults /\ Spend("faults", MaxFaults)

Init ==
    /\ \E big \in Big : output = [blocks |-> <<>>, busy |-> FALSE, next |-> 1, big |-> big]
    /\ tracker = NoTracker /\ poll = Idle /\ hand = NoHand /\ detached = NoHand
    /\ lark = <<>> /\ strays = {} /\ kept = {} /\ missed = {} /\ refused = {}
    /\ past = 0
    /\ budget = [edits |-> 0, stops |-> 0, faults |-> 0]

-----------------------------------------------------------------------------
(* The session writes its shared file (external to this module). *)

chat == <<tracker, poll, hand, detached, lark, strays, kept, refused>>

NextBlock == [id |-> output.next, size |-> IF output.next \in output.big THEN BigSize ELSE 1, ver |-> 0]

\* a block is added; the CLI is at work while it is
Grow ==
    /\ output.next <= MaxBlocks
    /\ output' = [output EXCEPT !.blocks = Append(@, NextBlock), !.next = @ + 1, !.busy = TRUE]
    /\ UNCHANGED <<chat, missed, past, budget>>

Amend ==
    /\ output.blocks # <<>> /\ output.busy
    /\ Spend("edits", MaxEdits)
    /\ output' = [output EXCEPT !.blocks[Len(output.blocks)].ver = @ + 1]
    /\ UNCHANGED <<chat, missed, past>>

Finish ==
    /\ output.busy
    /\ output' = [output EXCEPT !.busy = FALSE]
    /\ UNCHANGED <<chat, missed, past, budget>>

\* the CLI starts over: its blocks are counted from the beginning again
StartOver ==
    /\ output.blocks # <<>> /\ output.next <= MaxBlocks
    /\ Spend("edits", MaxEdits)
    /\ output' = [output EXCEPT !.blocks = <<NextBlock>>, !.next = @ + 1, !.busy = TRUE]
    /\ UNCHANGED <<chat, missed, past>>

-----------------------------------------------------------------------------
(* Lark's side of a call. *)

\* an update is taken if its sequence number is above the last one taken
Takes(id, seq) == seq > lark[id].seq
Put(id, seq, form, content) ==
    IF Takes(id, seq)
    THEN [lark EXCEPT ![id] = [@ EXCEPT !.form = form, !.blocks = content.blocks, !.busy = content.busy, !.seq = seq]]
    ELSE lark

Created(content) ==
    Append(lark, [form |-> "live", blocks |-> content.blocks, busy |-> content.busy, seq |-> 0, sent |-> FALSE])

\* "ok": taken and reported; "fail": neither; "lost": taken, and reported as failed
Outcome(o) ==
    \/ o = "ok" /\ UNCHANGED budget
    \/ o = "fail" /\ Fault("fail")
    \/ o = "lost" /\ Fault("lost reply")
Reached == {"ok", "lost"}

-----------------------------------------------------------------------------
(* One poll: _poll_once and what it calls up to the first call of Lark.  A poll  *)
(* that finds no snapshot, or cannot read it, does nothing.                      *)

Go(p, t) == poll' = p /\ tracker' = t
Rest == [Idle EXCEPT !.at = "wait"]

\* after the card: the ready notification, if one is due
Finally(p) == IF p.notify THEN [p EXCEPT !.at = "notify"] ELSE Rest

Ready(busy) == ~busy

\* the new tracker of a poll has read the snapshot and compared readiness
Snapshot ==
    [Rest EXCEPT !.blocks = output.blocks, !.busy = output.busy,
                 !.notify = Ready(output.busy) /\ ~tracker.ready]

LastWindow(n) == IF n > Window THEN n - Window ELSE 0

\* where a new card starts: the last blocks, or after what the frozen card held
NewStart(n) ==
    IF tracker.cards = <<>> THEN LastWindow(n)
    ELSE LET s == Last(tracker.cards).start + CardBlocks IN IF s >= n THEN 0 ELSE s

Poll ==
    /\ poll.at = "wait"
    /\ UNCHANGED <<output, hand, detached, lark, strays, kept, refused, budget>>
    /\ LET p == Snapshot
           n == Len(p.blocks)
           a == Active
           t == [tracker EXCEPT !.ready = Ready(p.busy)]
           again == a > 0 /\ n < tracker.cards[a].start
           u == IF again THEN [t EXCEPT !.cards[a].start = 0, !.hash = <<>>] ELSE t
           slice == IF a = 0 THEN <<>> ELSE SubSeq(p.blocks, u.cards[a].start + 1, n)
           content == Content(slice, p.busy)
       IN  /\ past' = IF a > 0 /\ slice = <<>> THEN past ELSE First(p.blocks)
           /\ missed' = IF a = 0 \/ First(p.blocks) = past THEN missed
                        ELSE missed \cup {p.blocks[i] : i \in 1..u.cards[a].start}
           /\ \/ /\ a = 0
                 /\ Go([p EXCEPT !.at = "create", !.start = NewStart(n)], t)
              \/ /\ a > 0 /\ (Len(slice) > CardBlocks \/ (content # u.hash /\ ~Fits(slice)))
                 /\ Go([p EXCEPT !.at = "freeze", !.why = "split",
                                 !.start = u.cards[a].start + IF Len(slice) > CardBlocks THEN CardBlocks
                                                              ELSE FreezeCount(slice)],
                       [u EXCEPT !.cards[a].seq = @ + 1])
              \/ /\ a > 0 /\ Len(slice) <= CardBlocks /\ content = u.hash
                 /\ Go(Finally(p), u)
              \/ /\ a > 0 /\ Len(slice) <= CardBlocks /\ content # u.hash /\ Fits(slice)
                 /\ Go([p EXCEPT !.at = "update"], [u EXCEPT !.cards[a].seq = @ + 1])

\* _update_ready_state happens before the card, the notification after it
NotifyAnswered ==
    /\ poll.at = "notify"
    /\ poll' = Rest
    /\ UNCHANGED <<output, tracker, hand, detached, lark, strays, kept, missed, refused, past, budget>>

-----------------------------------------------------------------------------
(* Answers of Lark to the poll task. *)

lookOn == <<output, hand, detached, strays, past>>

\* _create_new_card, or the new card of _freeze_and_split and _handle_element_limit:
\* a window too big is cut from its head
CreateAnswered ==
    /\ poll.at = "create"
    /\ LET start == IF poll.why = "elements" THEN poll.start ELSE Trimmed(poll.start)
           content == Content(From(start), poll.busy)
       IN \E o \in {"ok", "fail", "lost"} :
            /\ Outcome(o)
            /\ lark' = IF o \in Reached THEN Created(content) ELSE lark
            /\ poll' = IF o = "ok" THEN [poll EXCEPT !.at = "send", !.start = start, !.id = Len(lark) + 1]
                       ELSE Finally(poll)
            /\ missed' = IF o # "ok" THEN missed
                         ELSE missed \cup {poll.blocks[i] : i \in (poll.start + 1)..start}
                                     \cup (IF poll.why = "split" THEN {} ELSE Unshown(poll.start))
    /\ UNCHANGED <<lookOn, tracker, kept, refused>>

\* send_card's result is not looked at
SendAnswered ==
    /\ poll.at = "send"
    /\ \E o \in {"ok", "fail", "lost"} :
         /\ Outcome(o)
         /\ lark' = IF o \in Reached THEN [lark EXCEPT ![poll.id].sent = TRUE] ELSE lark
    /\ tracker' = [tracker EXCEPT
                     !.cards = Append(@, [id |-> poll.id, seq |-> 0, start |-> poll.start, frozen |-> FALSE]),
                     !.hash = Content(From(poll.start), poll.busy)]
    /\ poll' = Finally(poll)
    /\ UNCHANGED <<lookOn, kept, missed, refused>>

FreezeAnswered_Short ==
    /\ poll.at = "freeze"
    /\ LET a == Active
           card == tracker.cards[a]
           held == SubSeq(poll.blocks, card.start + 1, IF poll.why = "elements" THEN Len(poll.blocks) ELSE poll.start - 1)
       IN  /\ \E o \in {"ok", "fail", "lost"} :
                /\ Outcome(o)
                /\ lark' = IF o \in Reached THEN Put(card.id, card.seq, "frozen", Content(held, FALSE)) ELSE lark
                /\ kept' = IF o = "fail" THEN kept \cup {card.id} ELSE kept
                /\ missed' = IF o = "fail" THEN missed \cup ToSet(held) ELSE missed
                /\ refused' = IF o # "fail" /\ ~Takes(card.id, card.seq) THEN refused \cup {card.id} ELSE refused
           /\ tracker' = [tracker EXCEPT !.cards[a].frozen = TRUE]
           /\ poll' = IF From(poll.start) = <<>> THEN Finally(poll)
                      ELSE [poll EXCEPT !.at = "create"]
    /\ UNCHANGED lookOn
\* the frozen card holds the blocks up to the new start; its result is not looked at
FreezeAnswered ==
    /\ poll.at = "freeze"
    /\ LET a == Active
           card == tracker.cards[a]
           held == SubSeq(poll.blocks, card.start + 1, IF poll.why = "elements" THEN Len(poll.blocks) ELSE poll.start)
       IN  /\ \E o \in {"ok", "fail", "lost"} :
                /\ Outcome(o)
                /\ lark' = IF o \in Reached THEN Put(card.id, card.seq, "frozen", Content(held, FALSE)) ELSE lark
                /\ kept' = IF o = "fail" THEN kept \cup {card.id} ELSE kept
                /\ missed' = IF o = "fail" THEN missed \cup ToSet(held) ELSE missed
                /\ refused' = IF o # "fail" /\ ~Takes(card.id, card.seq) THEN refused \cup {card.id} ELSE refused
           /\ tracker' = [tracker EXCEPT !.cards[a].frozen = TRUE]
           /\ poll' = IF From(poll.start) = <<>> THEN Finally(poll)
                      ELSE [poll EXCEPT !.at = "create"]
    /\ UNCHANGED lookOn

\* an update in place; after a failure a new card takes the place of the old one
UpdateAnswered ==
    /\ poll.at = "update"
    /\ LET card == tracker.cards[Active]
           content == Content(From(card.start), poll.busy)
       IN \E o \in {"ok", "fail", "lost"} :
            /\ Outcome(o)
            /\ lark' = IF o \in Reached THEN Put(card.id, card.seq, "live", content) ELSE lark
            /\ refused' = IF o # "fail" /\ ~Takes(card.id, card.seq) THEN refused \cup {card.id} ELSE refused
            /\ IF o = "ok"
               THEN Go(Finally(poll), [tracker EXCEPT !.hash = content])
               ELSE Go([poll EXCEPT !.at = "replace"], tracker)
    /\ UNCHANGED <<lookOn, kept, missed>>

\* the card has too many elements: it is frozen with all its blocks, and a new one
\* begins with the last of them (_handle_element_limit)
ElementLimit ==
    /\ poll.at = "update"
    /\ Fault("elements")
    /\ Go([poll EXCEPT !.at = "freeze", !.why = "elements", !.start = LastWindow(Len(poll.blocks))],
          [tracker EXCEPT !.cards[Active].seq = @ + 1])
    /\ UNCHANGED <<lookOn, lark, refused, kept, missed>>

\* without a new card the old one stays, and the change counts as shown
ReplaceAnswered ==
    /\ poll.at = "replace"
    /\ LET a == Active
           content == Content(From(tracker.cards[a].start), poll.busy)
       IN \E o \in {"ok", "fail", "lost"} :
            /\ Outcome(o)
            /\ lark' = IF o \in Reached THEN Created(content) ELSE lark
            /\ IF o = "ok" THEN Go([poll EXCEPT !.at = "resend", !.id = Len(lark) + 1], tracker)
               ELSE Go(Finally(poll), [tracker EXCEPT !.hash = content])
            /\ missed' = IF o = "ok" THEN missed ELSE missed \cup ToSet(content.blocks)
    /\ UNCHANGED <<lookOn, kept, refused>>

ResendAnswered ==
    /\ poll.at = "resend"
    /\ LET a == Active
       IN  /\ tracker' = [tracker EXCEPT !.cards[a].id = poll.id, !.cards[a].seq = 0,
                            !.hash = Content(From(tracker.cards[a].start), poll.busy)]
           /\ kept' = kept \cup {tracker.cards[a].id}
    /\ \E o \in {"ok", "fail", "lost"} :
         /\ Outcome(o)
         /\ lark' = IF o \in Reached THEN [lark EXCEPT ![poll.id].sent = TRUE] ELSE lark
    /\ poll' = Finally(poll)
    /\ UNCHANGED <<lookOn, missed, refused>>

-----------------------------------------------------------------------------
(* The handler starts and stops the poller. *)

\* attach: once the old tracker is stopped and its card was turned off
Start ==
    /\ ~tracker.on /\ hand.at = "none"
    /\ Spend("stops", MaxStops)
    /\ tracker' = NewTracker /\ poll' = Rest
    /\ detached' = NoHand
    /\ past' = 0
    /\ missed' = {}
    /\ UNCHANGED <<output, hand, lark, strays, kept, refused>>

\* the call the task waits for goes on without it
CutShort ==
    CASE poll.at \in {"update", "freeze"} ->
           LET card == tracker.cards[Active]
               end == IF poll.at = "freeze" /\ poll.why # "elements" THEN poll.start ELSE Len(poll.blocks)
           IN  {[call |-> "put", id |-> card.id, seq |-> card.seq,
                 form |-> IF poll.at = "update" THEN "live" ELSE "frozen",
                 content |-> Content(SubSeq(poll.blocks, card.start + 1, end), poll.busy /\ poll.at = "update")]}
      [] poll.at \in {"send", "resend"} ->
           {[call |-> "send", id |-> poll.id, seq |-> 0, form |-> "live", content |-> Content(<<>>, FALSE)]}
      [] OTHER -> {}

\* variant: the open card is forgotten
Stop_Forgets(how) ==
    /\ tracker.on /\ hand.at = "none"
    /\ tracker' = NoTracker /\ poll' = Idle
    /\ strays' = strays \cup CutShort
    /\ LET card == IF Active = 0 THEN [id |-> 0] ELSE tracker.cards[Active]
       IN  /\ hand' = IF how = "button" /\ Active = 0 THEN [NoHand EXCEPT !.at = "offline"]
                      ELSE IF TRUE \/ how = "quiet" THEN NoHand
                      ELSE [at |-> "update", id |-> card.id, seq |-> card.seq + 1, start |-> card.start, form |-> how]
           /\ kept' = kept \cup (IF Active # 0 /\ how = "quiet" THEN {card.id} ELSE {})
                           \cup (IF poll.at \in {"send", "resend"} THEN {poll.id} ELSE {})
    /\ UNCHANGED <<output, detached, lark, missed, refused, past, budget>>
\* stop_and_get_active_slice and the three things callers do with the slice:
\* turn the card off (the connection is lost, killed, or another is attached),
\* turn it off and remember it (the card's own button), or nothing (/detach)
Stop(how) ==
    /\ tracker.on /\ hand.at = "none"
    /\ tracker' = NoTracker /\ poll' = Idle
    /\ strays' = strays \cup CutShort
    /\ LET card == IF Active = 0 THEN [id |-> 0] ELSE tracker.cards[Active]
       IN  /\ hand' = IF how = "button" /\ Active = 0 THEN [NoHand EXCEPT !.at = "offline"]
                      ELSE IF Active = 0 \/ how = "quiet" THEN NoHand
                      ELSE [at |-> "update", id |-> card.id, seq |-> card.seq + 1, start |-> card.start, form |-> how]
           /\ kept' = kept \cup (IF Active # 0 /\ how = "quiet" THEN {card.id} ELSE {})
                           \cup (IF poll.at \in {"send", "resend"} THEN {poll.id} ELSE {})
    /\ UNCHANGED <<output, detached, lark, missed, refused, past, budget>>

\* _update_card_disconnected and the tail of _handle_stream_detach: the blocks
\* are read afresh; a lost connection and the card's button fall back to a card
\* of its own, a kill and an attach do not
HandAnswered ==
    /\ hand.at = "update"
    /\ LET n == Len(output.blocks)
           content == Content(SubSeq(output.blocks, hand.start + 1, n), FALSE)
       IN \E o \in {"ok", "fail", "lost"} :
            /\ Outcome(o)
            /\ lark' = IF o \in Reached THEN Put(hand.id, hand.seq, "off", content) ELSE lark
            /\ refused' = IF o # "fail" /\ ~Takes(hand.id, hand.seq) THEN refused \cup {hand.id} ELSE refused
            /\ kept' = IF o = "fail" THEN kept \cup {hand.id} ELSE kept
            /\ detached' = IF o = "ok" /\ hand.form = "button" THEN hand ELSE detached
            /\ \/ hand' = NoHand /\ (o = "ok" \/ hand.form = "off")
               \/ hand' = [hand EXCEPT !.at = "offline"] /\ o # "ok"
    /\ UNCHANGED <<output, tracker, poll, strays, missed, past>>

OfflineCard ==
    /\ hand.at = "offline"
    /\ lark' = Append(lark, [form |-> "off", blocks |-> <<>>, busy |-> FALSE, seq |-> 0, sent |-> TRUE])
    /\ hand' = NoHand
    /\ UNCHANGED <<output, tracker, poll, detached, strays, kept, missed, refused, past, budget>>

\* variant: the number of the last update is used again
Reconnect_SameNumber ==
    /\ ~tracker.on /\ hand.at = "none" /\ detached.at = "update"
    /\ \E o \in {"ok", "fail", "lost"} :
         /\ Outcome(o)
         /\ LET seq == detached.seq IN
              /\ lark' = IF o \in Reached THEN Put(detached.id, seq, "frozen", Content(<<>>, FALSE)) ELSE lark
              /\ refused' = IF o # "fail" /\ ~Takes(detached.id, seq) THEN refused \cup {detached.id} ELSE refused
    /\ detached' = NoHand
    /\ UNCHANGED <<output, tracker, poll, hand, strays, kept, missed, past>>
\* _handle_stream_reconnect freezes the card that was turned off, then attaches
Reconnect ==
    /\ ~tracker.on /\ hand.at = "none" /\ detached.at = "update"
    /\ \E o \in {"ok", "fail", "lost"} :
         /\ Outcome(o)
         /\ LET seq == detached.seq + 1 IN
              /\ lark' = IF o \in Reached THEN Put(detached.id, seq, "frozen", Content(<<>>, FALSE)) ELSE lark
              /\ refused' = IF o # "fail" /\ ~Takes(detached.id, seq) THEN refused \cup {detached.id} ELSE refused
    /\ detached' = NoHand
    /\ UNCHANGED <<output, tracker, poll, hand, strays, kept, missed, past>>

\* a call of a cancelled task reaches Lark, or never does
StrayEnds ==
    /\ \E c \in strays :
         /\ strays' = strays \ {c}
         /\ lark' \in {lark, IF c.call = "send" THEN [lark EXCEPT ![c.id].sent = TRUE]
                             ELSE Put(c.id, c.seq, c.form, c.content)}
    /\ UNCHANGED <<output, tracker, poll, hand, detached, kept, missed, refused, past, budget>>

Session == Grow \/ Amend \/ Finish \/ StartOver
Answered ==
    CreateAnswered \/ SendAnswered \/ FreezeAnswered \/ UpdateAnswered \/ ElementLimit
    \/ ReplaceAnswered \/ ResendAnswered \/ NotifyAnswered
Handler == Start \/ (\E how \in {"quiet", "off", "button"} : Stop(how)) \/ Reconnect

Next == Session \/ Poll \/ Answered \/ Handler \/ HandAnswered \/ OfflineCard \/ StrayEnds

-----------------------------------------------------------------------------
(* Properties. *)

\* the poll task rests and has seen what the output is now
CaughtUp ==
    /\ poll.at = "wait" /\ Active # 0
    /\ tracker.hash = Content(SubSeq(output.blocks, tracker.cards[Active].start + 1, Len(output.blocks)), output.busy)

\* the blocks of the output, but for those before the window of the open card if the
\* output has started over under it
Awaited ==
    LET from == IF First(output.blocks) = past THEN 1 ELSE tracker.cards[Active].start + 1
    IN  {output.blocks[i] : i \in from..Len(output.blocks)}

\* Once the poll task has caught up, every block of the output is on one of the
\* tracker's cards as Lark has them, except the blocks that the code leaves out:
\* those before the first window, cut from a window too big, skipped after a
\* failure, or before the window of a card when the output starts over
\* (_do_card_update, _freeze_and_split, _handle_element_limit).
NothingLeftOut ==
    CaughtUp => Awaited \subseteq ShownBlocks \cup missed

\* A card that still looks connected in the chat is the tracker's open card, or
\* the one the handler is turning off; otherwise its last update failed, it was
\* replaced after a failure, or the poller was stopped without a word or while
\* the card was being sent.  A late call of a cancelled task turns no card on.
OneLiveCard ==
    {i \in 1..Len(lark) : lark[i].sent /\ lark[i].form = "live"}
        \subseteq kept \cup {hand.id} \cup (IF Active = 0 THEN {} ELSE {tracker.cards[Active].id})
                 \cup (IF poll.at = "resend" THEN {poll.id} ELSE {})

\* Lark never finds an update of the poll task or of the handler out of order,
\* whatever calls of cancelled tasks are still on their way: the sequence
\* numbers of a card are counted on by whoever takes the card over.
NoneOutOfOrder == refused = {}

\* In the end the open card of an attached chat shows the output as it is, if no
\* replacement of the card failed: nothing is left behind by a poll, a freeze or a
\* failed creation.
ShowsOutput ==
    LET card == tracker.cards[Active]
        window == SubSeq(output.blocks, card.start + 1, Len(output.blocks))
    IN  Active # 0 /\ (\/ lark[card.id].blocks = window /\ lark[card.id].busy = output.busy
                      \/ ToSet(window) \cap missed # {})
Settles == <>[](tracker.on => ShowsOutput)

Spec == Init /\ [][Next]_vars

\* the poll loop goes round, Lark answers (a refusal is an answer)
FairSpec == Spec /\ WF_vars(Poll) /\ WF_vars(Answered)
=============================================================================
