# im-agent-bridge in TLA+

Specifications of im-agent-bridge, the program that shows Codex Desktop tasks and
terminal sessions of Claude Code and Codex as cards in Lark chats: what its parts
do when their tasks interleave, calls fail and the process dies, model-checked on
small instances and, for what matters most, proved for all.

## 1. The system

### Parts and how they work together

```
 Codex Desktop ──IPC socket── desktop_ipc ─┐                       ┌─ Lark
      │ writes                             ├─ desktop_bridge ── card_service
 rollout files ───── desktop_notifications ┘        │
                                            lark_handler (commands, clicks)
                                                    │
 terminal clients ── server (PTY) ── .mq file ── shared_memory_poller
                        └─ socket ──────────── session_bridge
```

One process, `lark_client`, runs everything but `server` and the terminal clients on
**one asyncio event loop**. Each Lark event becomes a task of it (`main.py`), so two
commands of one chat run concurrently unless something says otherwise, and each
`await` is a place where every other task may run. Blocking calls (Lark's HTTP API,
reading rollout files) run in worker threads.

| part | state | operations | hard to get right |
|---|---|---|---|
| completion monitor `desktop_notifications.py` | registered users, a cursor per rollout file, outbox, delivered keys; all of it in one JSON file | `register_target`, `poll_once` (scan, save, deliver), restart | crash between send and save; a baseline taken while Desktop writes; files archived, replaced, half written |
| desktop bridge, cards `desktop_bridge.py` | `_bindings` (saved), `_states`, dirty set, pending state and flush task per chat, chosen turn | `attach`, `detach`, `select_turn`, `refresh_card`, `_on_state_change`, sub-agent refresh, `_publish_card` | a slow file read against a newer broadcast; two publishers of one card; commands that overlap; thread shared by chats |
| desktop bridge, messages | recent messages, resolved requests, operation locks | `send_message`, `handle_approval`, `handle_input` | retried Lark events; two chats answering one approval; a turn that starts between steer and start |
| Desktop IPC `desktop_ipc.py` | connection and generation, requests in flight, followed threads, revision per thread, resync tasks | connect, reconnect, follow, unfollow, request, resync | follow against unfollow; an old reader closing a new connection; a reader that waits for itself |
| App Server client `codex_app_server.py` | subprocess, generation, requests in flight | request, list, unarchive | the process dies under requests; two unarchive clicks |
| CLI stream cards `shared_memory_poller.py` | per chat the cards sent, their first block, frozen or not, content hash | create, update, freeze and split, replace | creation fails after a freeze; blocks that shrink; stop during a poll |
| Lark handler and CLI sessions `lark_handler.py`, `session_bridge.py` | bridge and session of a chat, saved bindings, processed message ids | attach, detach, disconnect, start, kill, forward | two attaches at once; backend exclusivity; a late disconnect |
| card service `card_service.py` | active card of a chat, sequence per card | create, update, reuse, send | lost answers; sequence numbers |
| proxy server `server.py`, `shared_state.py`, `client.py` | clients, history ring, PTY, snapshot file | read and broadcast, join, input, resize, shutdown | join during a broadcast; shutdown twice; a torn snapshot |
| watcher and parsers `server.py`, `parsers/` | the renderer's screen, remembered rows, window of screens, timer | feed, flush, reflush, resize, parse | half-painted screens; a remembered row that holds something else; the last flush |
| projection `desktop_card.py` | turns, cached items by path, turn ids, request, status | normalise a snapshot, follow patches | places in a list that move; a turn in two containers |
| command line `remote_claude.py`, `session.py` | pid and socket files, tmux sessions | start, list, kill | processes that start, end and kill by name at once |
| card rendering, set-up, statistics, scripts | configuration | format, install, count | texts, not states |

Interactions: Desktop's broadcasts reach `_on_state_change` as one task each, in order
but not atomically; the monitor asks the bridge for the current and archived threads
(`_notification_sources`) and reads the same rollout files; the handler calls `attach`,
`detach` and the notification registration; all of them share the card service's
active card of a chat, and the bridge's chat lock orders who updates it.

### What makes each part correct

* **monitor**: no completion of a registered user is dropped, none is sent again that was
  delivered or confirmed, none of a sub-agent or under a wrong thread's name, none from
  before the registration; all that across crashes.
* **cards**: at rest each bound chat's card shows its thread as it is; a projection
  never gives way to an older one; Desktop sends the threads some chat is bound to and
  no others; the saved bindings are the real ones.
* **projection**: patches leave what a snapshot would show, and nothing that is private.
* **messages**: Desktop takes a message once, in order, or its user is told; what the bridge
  takes for resolved has been decided.
* **IPC**: a connection has a reader; Desktop follows what the client believes, also after a
  reconnect; no gap in a thread's revisions goes unnoticed; every call ends.
* **stream cards**: every block is on some card; one card at most looks connected; updates of
  a card are in order; in the end it shows the output.
* **handler**: the records of a chat agree, its messages go to the session it sees, and no chat
  stays bound to a dead session.
* **command line**: one server of a name runs in tmux, is found by its files, and ends when it
  is killed.
* **proxy server**: a client sees every chunk after it joined once and in order; the server
  ends when the CLI has.
* **watcher and parsers**: when a screen rests, readers of the shared file get what it says;
  while the CLI works, that is shown.

## 2. Modules

| module | what it is |
|---|---|
| `NotificationOutbox` | abstract: what the monitor promises for a pair (completion, user) |
| `CompletionMonitor` | the monitor of `desktop_notifications.py`, and a refinement of it |
| `CompletionMonitorProofs` | its type invariant, what is settled, confirmed and whose, that no completion is lost or taken for history, and the refinement |
| `DesktopCards` | bindings, projections, flush tasks and cards of `desktop_bridge.py` |
| `DesktopCardsProofs` | its theorems |
| `DesktopProjection` | the functions of `desktop_card.py` that project a snapshot or patches |
| `DesktopState` | a thread that changes by patches, and the bridge's projection of it |
| `DesktopIpc` | the client of Desktop's socket, `desktop_ipc.py` |
| `DesktopIpcProofs` | its theorems |
| `DesktopSend` | messages, approvals and answers on their way to the owner of a thread |
| `DesktopSendProofs` | its theorems |
| `StreamCards` | the cards of a CLI session, `shared_memory_poller.py` |
| `StreamCardsProofs` | its theorems |
| `CliSessions` | which session a chat is connected to, `lark_handler.py`, `session_bridge.py` |
| `CliSessionsProofs` | its theorems |
| `SessionFiles` | servers of one name, their files and tmux, `remote_claude.py`, `session.py` |
| `SessionFilesProofs` | its theorems |
| `ProxyServer` | clients, history, input and the end of `server.py` |
| `ProxyServerProofs` | its theorem |
| `ScreenRows` | what the parsers tell apart in a row of the terminal |
| `ClaudeParser`, `CodexParser` | the parsers of `server/parsers` as functions of a screen |
| `CliScreen` | what the CLIs draw, and what it means (external) |
| `OutputWatcher` | the server's watcher and the shared file, over both parsers |
| `MC...` | model values, and in `MCOutputWatcher` a law of an operator, for the instances |

An action is the stretch between two awaits of one coroutine, or of one process where
processes share files. A definition named like another with a suffix (`Owners_Everybody`,
`FlushPublished_Once`) is a faulty variant of it, used in no specification: with it in
place of the original the property it was written for fails, which shows that the
property watches that piece of code. History variables record what a property exempts;
each of them stands for a hazard that PROJECT.json lists at its line.

How the modules divide the system: `DesktopCards` takes follow and unfollow as single
frames and a projection as a version number. `DesktopIpc` is what those frames do over
connections that are lost, and `DesktopState` what a projection says. `DesktopSend`
takes a connection that stands. `StreamCards` is one chat's cards, which `CliSessions`
reduces to whether a poller runs. `SessionFiles` is the life of the servers of a name
that `CliSessions` sees as sessions that are up, `ProxyServer` one server with its
clients, and `OutputWatcher` its view of the screen.

### CompletionMonitor

*State.* `mem` is the monitor's fields and `disk` what `_save_state` wrote; both are of
the set `Stores`. `file[t]` is the rollout of thread t: where it lies, its inode, birth
and modification time, whether its first line is complete, its completion rows and
possibly a row still being written. A path is a rollout and the place it lies at, so that
a record can name a file that has gone, or another thread's (`At`). `pc` says where the coroutine that holds
`self._lock` stands, `reg` and `poll` are the locals of `register_target` and
`poll_once`. `inbox` is what Lark has shown.

*Actions.* `RegisterBegin … RegisterCommit` is `register_target`: the cutoff is taken
first, then the first user's baseline is read, file by file, and both become active
together. `PollBegin`, `PreservePendingSources`, `ScanFile(t)`, `PollSave`, then
`DeliverDrop / DeliverDefer / DeliverBegin(k)`, `SendAccepted / SendFailed(u)`,
`DeliverEnd` is `poll_once`. The code sends one event to its users one after the other;
the model lets the order be any. `Eligibility(t, path)` is decided by the first line of the
file at the path, as in `_completion_source_eligibility`: a sub-agent's flag, the file's
own id against the thread, or no answer while that line is torn or the path leads nowhere.
The provider may answer with nothing, or (`Misfiled`) list under a thread the rollout of one
that carries its session id and whose first line was not readable as a sub-agent's, since
`_rollout_metadata` then goes by the session id. `Own(k)` says that a turn ran in the very
thread it is reported for, and that this is no sub-agent's.
`Crash` and `Restart` may come at any point; `Save` writes the whole store or fails
silently, as the code's `except OSError` does. Desktop appends rows in two steps,
archives, replaces or truncates files. `LegacyStore` is what an older version may have
left: an entry without a source, under its own thread or under the thread whose rollout
the older version took it for. *Assumed* of it: if the cursor is still there, it is of the
scan that found the entry.

*Abstracted.* Lines that report no completion; the streaming parser of oversized lines;
wording. A back-off is a flag that time clears (`BackoffOver`). Time moves when a user
registers, since nothing else compares times. `blind` is a history variable: the
threads whose file the first baseline missed, or which shrank in place. `told` is another,
kept with each store: whom Lark confirmed which completion, as far as that store has come.

### DesktopCards

*State.* `desk[t]` is the public version of thread t and whether its sub-agent has
finished; `follow` and `snap` are Desktop's own view of who listens. A projection
(`_states[t]`) is a record of thread, version shown (`pub`, with `Partial` for one that
misses something), sub-agent flag (`kid`) and identity: `rev` and `made` tell apart the
objects the code compares with `is`. `dirty`, `pending`, `flush`, `task`, `active`,
`views`, `bindings` and `saved` are the fields of the manager and of the card service.
`changes` holds the handlers of broadcasts that wait for a worker thread and `refresh`
the refresh loop's lookup. `queue[c]` is the lock of chat c: its head holds it, and the
job says which call to Lark is in flight. `cards[c]` is what Lark shows, with the last
sequence it saw; `late` are requests in flight whose caller was cancelled: the HTTP call
goes on in its thread.

*Actions.* `OnStateChange`, `ChangeRead`, `ChangeDone` are the stretches of
`_on_state_change`; `RefreshBegin / Read / Done` those of the refresh loop.
`FlushWake`, `FlushPublished`, `FlushCancelled` are `flush()` of
`_schedule_card_publish`, several of which may be alive for a chat, since the `finally`
clause of a cancelled one forgets its successor. `PublishBegin … PublishFailed` is
`_publish_card`: clicked card, else active card, else new card. `AttachBegin …
AttachDone` and `DetachBegin … DetachDone` are `attach` and `detach`, one action per
await, and `View` is `select_turn`, `_return_to_latest_turn` and `refresh_card`.

*Abstracted.* What a projection says beyond its version; sleeping times, and with them
`immediate`; the image cache. *Assumed of the outside* (external in the map): Desktop
sends a snapshot after it was asked to follow, and broadcasts changes of the threads it
was asked for in order; Lark applies an update only with a sequence above the last. The
IPC client writes one frame at a time in call order, so an unfollow that was called
earlier is sent before a follow (`AttachFollow`). *Not modelled*: `start`, `close` and a
crash in between; `Init` is the state after `start` restored the bindings.

### DesktopProjection and DesktopState

*State.* `doc` is Desktop's document: the container of the current turn, the history,
the open requests, the runtime status. `public` is the normalised state the bridge
keeps, with the cached items by path (`_patch_items`) and the turn ids (`_patch_turn_ids`).
*Actions.* A batch of patches as Desktop sends it for a turn that begins, ends or is
archived, an item that comes, changes or goes, a request that is made or answered
(external); each is applied to `doc` by `ApplyImmerPatches` and, unless the batch is
missed, followed by `NormalizePatchOnlyUpdate`, which is the whole of
`normalize_patch_only_update` patch by patch. `Snapshot` replaces the projection.
*Abstracted.* Texts are numbers; images, limits on texts, messages and turns, options
and details of requests. One user's text, one agent's message, one sub-agent and one
item of no known type stand for the items of their kind.

### DesktopIpc

*State.* `conn` is the fields of the connection (generation, reader, writer, closing),
`lock[p]` who was before p in the queue of the connect lock, `followed`, `rev` and `attempts` the client's tables,
`wire` what is under way between it and Desktop, `desk` what Desktop follows, and a
program counter for every call, reader, reconnect and resync task. *Actions.* `connect`
(acquire, open, initialize, restore), the read loop frame by frame, `_transport_lost`,
`disconnect`, `set_following`, requests with their time-outs, resync. *Assumed.* A write
into the socket does not wait, frames arrive in order, and a lost transport is closed
before another is open. A snapshot that does not come is a fault. When the very first
connect is refused the code schedules no reconnect: its caller gets the error.

### DesktopSend

*State.* A call per slot with where it stands, the operation lock of each chat, the
messages remembered (`recent`), the resolved requests, the owner of each thread as the
client knows it and as it is, the turns and questions of Desktop and what the projection
shows of them. *Actions.* `Deliver` (Lark, also again), `MessageEnters`, `Click`,
`ClickEnters`, `Interrupt`, `Discover`, `Answered`, `GiveUp`; Desktop takes a request,
also late, ends or starts a turn, asks, is answered there, or moves a thread to another
window. *Histories.* `given`: a request was given up unanswered, so that neither side
knows; `dropped`: the text went to a question that was answered already.

### StreamCards

*State.* `output` is the blocks in the shared file, `tracker` and `poll` the fields and
the locals of the poll loop, `lark` the cards as Lark has them, `hand` and `strays` the
calls of the handler and of cancelled tasks that are still on their way. *Actions.* One
per stretch of `_poll_once`, `_do_card_update`, `_freeze_and_split`,
`_handle_element_limit`, the replacement, and `stop`, `stop_and_get_active_slice`,
attach and reconnect of the handler. *Histories.* `missed`: blocks the code leaves out;
`kept`: cards that were given up without being turned off; `past`: the first block of the
output the cards were made for. An output that starts over can reach the length at which
the window of the open card begins before the next poll, which then takes it for the old
one: its first blocks are on no card, and the property exempts them.

### CliSessions

*State.* `mem` is the handler's dictionaries (bridge, session and poller of a chat,
bindings, groups), `saved` their file, `wire` the bridges and their sockets, `op` the
commands under way, `up` the sessions on the list. A connection is `"adrift"` when its
server went off the list and runs on. *Actions.* One per await of
each command; `Disconnected`, the bridge's callback; `HealthCheck`; a server that dies
or is slow to start, or loses its files to an older one of its name that ends; a restart
of the Lark process. `KillNext` removes the bindings and the files and leaves the
connections adrift: a server in tmux ends then (`AdriftEnds`), one started from Lark (`Popen`)
may run on as long as it likes, so that step has no fairness. *Histories.* `crossed`: chats that
were attached and taken off, or attached twice, at the same time; `astray`: chats one of
whose messages went to another session than the one they showed. Two attaches of
one chat that overlap leave the first one's connection open and known to nobody; that
is one of the cases in `crossed`.

### SessionFiles

*State.* `server[v]` is the phase of the v-th server process, `files` whose number and
socket the files hold, `tmux` the server in the tmux session, `starts` and `lark` the
commands that wait. *Actions.* `StartChecked`, `TmuxCreate`, `Started` and `StartTimeout`
are `cmd_start`, `LarkStart` and `LarkStarted` that of the handler, `Boots`, `Listens`,
`CliExits`, `ShutDown`, `Crash` the server, `List`, `CmdKill`, `LarkKill`. *Histories.*
`killed`, `doubled` (two servers of a name), `swept` (files removed by an earlier one).

### ProxyServer

*State.* What the CLI wrote, what has been read, the history, the clients in order, what
waits for each, and where the task of each connection and the broadcast stand.
*Actions.* A read with its broadcast, one client at a time; join with its history; input;
leaving; a client that hangs; the end of the PTY; a signal; shutdown.

### ScreenRows, ClaudeParser, CodexParser, CliScreen, OutputWatcher

A row is what the parsers' helpers see of it: the class of its first character, its mark,
whether it blinks, its tone, its text as a number, a phrase that some rule looks for, an
option's number and cursor, its background. The parsers are the pure functions `Parse`
of a screen and of what they remembered. `CliScreen` draws what a CLI is doing (`Draw`)
and says what a snapshot of it ought to hold (`Truth`); it is external and follows the
screens in the parsers' comments and tests. `OutputWatcher` paints the rows of a change
from the top, lets the server read any part, and flushes, ticks, resizes and reads as the
server does; `Read` is what another process makes of the shared file. *Abstracted.* A
read ends in the middle or at the end of the output; a change begins when the last one
has been read; time passes when nothing is scheduled. The window is one tick and the
parser's star history two, in the order of 1.0 and 1.5 seconds.

## 3. Runs

Sizes are of the instances in the .cfg files. Every run turns the deadlock check off:
the systems may rest when nobody does anything any more, and the bounds on what users,
Desktop and the CLIs do stop them too. What should go on by itself is stated as liveness.

| run | instance | shows |
|---|---|---|
| `MonitorUsers` | a root thread, two users registering at different times, two turns, two faults of seven kinds | `NoLostCompletion`, `SettledStaysOut`, `ConfirmedNotOwed`, `HistoryNotShown` |
| `MonitorLegacy` | a root and a sub-agent with its session id, a turn of each, an outbox of an older version, one user, two faults of seven kinds, fairness | `NoChildNotified`, `ImplementsOutbox`, `EveryCompletionShown` |
| `CardsViews` | one chat, two changes, one click on the views, one failing update, fairness | `ProjectionNeverOlder`, `CardsCatchUp` |
| `CardsShared` | three chats, two of them on one thread, two threads, two commands at once, two flush tasks of a chat, one failing follow, card or owner | `FollowsBound`, `QuietCardCurrent` |
| `Patches` | three batches, two turns, three items, from a snapshot or nothing, batches missed | `PublicFollows`, `OnlyPublic` |
| `Ipc` | two calls of four kinds, five connections, two faults, a change, a status request, fairness | `ConnectedIsRead`, `FollowedByDesktop`, `GapNoticed`, `CallsEnd`, `Reconnects` |
| `Send` | a chat, two threads, two messages, two calls at once, a question, two changes of turns, one event | `TakenOnce`, `NoSilentLoss`, `InOrder`, `ResolvedDecided` |
| `Stream` | three blocks, two per card, a big one, two edits, a stop, one fault, fairness | `NothingLeftOut`, `OneLiveCard`, `NoneOutOfOrder`, `Settles` |
| `Sessions` | a private chat and a group, two sessions, three commands of nine kinds, one event, fairness | `OneConnection`, `RightSession`, `BoundWhereConnected`, `FilesCurrent`, `DeadUnbound` |
| `Files` | three servers, two starts, both kinds of start and kill, two events | `OneInTmux`, `Found`, `KilledInTmux` |
| `Server` | two clients, three chunks, a history of one, an input, one event, fairness | `NoGap`, `EverythingReaches`, `ExitEnds` |
| `Screens` | four styles of CLI, three changes of the screen or size, two blocks | `SnapshotIsScreen`, `WorkIsShown`, `OptionsAreOneRun` |

*Why the bounds are enough.* Monitor: two turns suffice for an order between completions
and for one to be delivered while another arrives; two faults for a crash that meets a
lost answer or a failed save; in `MonitorUsers` the memory of delivered keys holds one and
forgets the other, in `MonitorLegacy` it does not roll over. Two faults are also an index that
lists the sub-agent's torn file under the root and one thing more, or a file that moves away
and back. `MonitorLegacy` has no fork that carries no sub-agent's flag; that the file's own id
settles those is in the theorem alone. Cards: two changes let one broadcast
overtake another's file read; two commands cover every pair of overlapping ones, one
fault each failing call at each place, and the third chat lets one come to a thread that
another one leaves. Where a command cancels
a flush task that is at work, a second one lets the next update be scheduled before it
has ended (`CardsShared`); with one slot (`CardsViews`) the step is disabled, which only
leaves behaviours out. Patches: three batches suffice to
move a place, patch it and remove it, and to end a turn, archive it and begin the next.
Ipc: five connections outlast two faults, so that `Reconnects` is not cut short. Send:
two calls are a message and its repetition, or the next message. Stream: three blocks
with two per card make a split and a second card, two edits an output that starts over
and then changes. Sessions: three commands are two that
overlap and one that finds what they left. Files: three servers are two from terminals
and one from Lark. Server: with a history of one and `Water` 1 the history is cut and a
broadcast waits. Screens: three changes are one that is remembered, one that moves or
hides it and one more; each change may be read half-way.

*Where a run leaves something out, and why.* `CardsViews` has no `attach` and no switch.
In `CardsShared`, `QuietCardCurrent` says nothing once an owner did not answer, a follow
failed or a card could not be posted (`GivenUp`): after those the code gives an update up.
`CardsShared` does not let commands of one chat overlap (a detach that overlaps an attach
leaves a thread followed for nobody), and `FollowsBound` says only of behaviours without
faults and overlaps that no other thread is followed; its other half is proved for both.
The exemptions in the properties (`stranded`, `blind`, `mixed`, `given`, `dropped`,
`missed`, `kept`, `crossed`, `doubled`, `swept`, `hung`, `moved`, `blanked`, `misread`,
`KnownGap`, `late`, `answered`) are cases in which the code does not do what the property
says; the next section names those that matter.

*Fairness.* Weak fairness of every task the event loop runs (`asyncio` runs what is ready,
and HTTP calls and requests time out), of the poll and refresh loops and of the
reconnect and resync timers, which are loops of the code; of the restart of a dead
monitor by its service manager; of Desktop finishing a row it began, of the snapshot it
owes and of the frames it handles. Strong fairness of the end of a back-off (time passes
although polls, which disable the step while they deliver, come in between) and of the
health check, which a command may delay but not for ever. In `Server` a client that is
not hung reads. None of what users, Desktop and the CLIs choose to do, nor of faults,
which are bounded.

### Known divergences

No run is expected to fail. While modelling, these cases came up in which the code does
not keep what its commands, comments or tests promise; each is exempt from a property or
left out of a run, and is listed among the hazards with its line.

1. *A completion can be taken for history*: if the first registration's snapshot misses
   a file, the next scan starts at its end (`desktop_notifications.py:190`).
2. *A detached thread can be followed for nobody*: `attach` does not look at the binding
   again after it has sent the card (`desktop_bridge.py:247`); and in `desktop_ipc.py:461`
   and `:1025` a follow that overlaps an unfollow, or a late patch, follows it again.
   *And a bound one by nobody*: when `follow` fails, `attach` restores the previous binding
   without following it (`desktop_bridge.py:248`), although another chat may have left that
   thread, and unfollowed it, while the binding made in advance hid that it is still used.
3. *An update comes after its thread was left*: `attach` and `detach` cancel the pending
   update (`desktop_bridge.py:211`, `:267`) and change the binding after an await. What a
   broadcast schedules in between is published over the card of the new thread, where it
   stays until something public changes there (`crossed`), or as a new, active card of a
   chat bound to nothing, which `tests/test_desktop_bridge.py:1354` excludes when the update was pending before.
   *And a projection is dropped under a chat that has just come*: `detach` removes it after
   it has waited for `unfollow` (`desktop_bridge.py:277`), although another chat may have bound
   itself to the thread meanwhile. If another `attach` then makes it anew from the
   rollout (`:237`), what changed in between is in the projection and not on that
   chat's card, and the next broadcast compares as equal (`crossed`).
4. *The second of two answers is lost*: a text sent while the card still shows a question
   that has been answered is reported as sent (`desktop_bridge.py:983`).
5. *A session started from Lark survives its kill* (`lark_handler.py:891`): it runs
   outside tmux, and the kill only removes its files. Its connections stay open, and a chat
   that attached while the kill waited for another chat's card stays connected without a
   binding (`:884`), which `BoundWhereConnected` exempts while the connection is adrift.
6. *Blocks can be left out of the cards* after a creation failed (`shared_memory_poller.py:358`),
   and a stale card can stay when its replacement failed (`:329`).
7. *A client that hangs stops the session for all* (`server.py:1166`).
8. *Remembered rows*: after rows moved, or a resize to the same size, a snapshot can stay
   wrong (`claude_parser.py:586`); an option with the cursor can be taken for typed text, or
   not be seen (`codex_parser.py:1575`).
9. *Waiting status*: after a request was answered the card waits until the next status, and
   one of two requests that is answered hides the other (`desktop_card.py:1511`).

## 4. Proofs

TLAPS proves for every value of the constants that satisfies the assumptions:

* `TypeCorrect`: `Spec => []TypeOK` of the monitor. One lemma per group of actions
  (`DesktopType`, `RegistrationType`, `PollingType`, `OtherType`), on lemmas about the
  operators (`RememberType`: what is left of the delivered keys is a sequence of keys;
  `SaveType`; `WrittenType`).
* `SettledTheorem`: `Spec => []SettledStaysOut`. Not inductive by itself: during a
  delivery the locals hold keys that are about to be settled. `SettledInv` adds that the
  queue and the key being sent are of the outbox and not of the delivered ones
  (`QueueInv`), and that a save copies a store in which the two are disjoint.
* `ConfirmedTheorem`: `Spec => []ConfirmedNotOwed`. `ToldInv`: a confirmed completion is
  known to the store that has the confirmation, in its outbox without that user or among the
  delivered, so that no scan enters it anew; and it is the thread's own, so that no
  clean-up of other threads' entries takes it off the outbox and lets it be found again.
* `NoChildTheorem`: `Spec => []NoChildNotified`. `PinInv`: the path an entry goes by, its own or
  the cursor's of an older version's, names the rollout its turn ran in (`GoesBy`), and an
  entry that is marked as verified is the thread's own. Hence a file that answers for an entry
  answers for the right thread, and the file listed now answers only for a verified one,
  for any forks that share a session id, flagged as sub-agents or not. `_preserve_pending_sources`
  must therefore pin an old entry before the scan moves the cursor.
* `NoLossTheorem`: `Spec => []NoLostCompletion`. `LossInv` with `PinInv`; it says of memory and of
  disk alike what makes a cursor safe to scan from: its inode is never ahead of the file's;
  if it is the file's, it lies within its complete rows; a file without a cursor is younger than the first registration
  or was the scan's to pass over; and what a cursor has passed, or the delivered keys
  hold, was owed or shown to everybody it concerns. The threads of `blind` are exempt, as in
  the property. During a registration and a scan the locals carry the same promises
  (`RegOK`, `ScanOK`), during a delivery the event being sent does (`SendOK`).
* `HistoryTheorem`: `Spec => HistoryNotShown`, an action property. `HistInv`: a turn is in a
  file once, and whoever is owed a completion was registered when it finished.
* `OutboxTheorem`: `Saves => (Spec => ImplementsOutbox)`: every step of the monitor maps to a
  step of `NotificationOutbox` or to a stutter. An entry that is dropped is somebody else's
  (`PinInv`), which the abstract outbox may withdraw; `SavedInv` compares memory and disk
  during a scan. The mapping reads what is owed from the
  disk, hence the hypothesis `Saves` that no save fails: a failed one is retried only
  with the next change, and what is sent meanwhile is shown before the disk owes it.
  `MonitorLegacy` has the same restriction; `NoLossTheorem` does without it.
* `NeverOlderTheorem`: `Spec => ProjectionNeverOlder` of the cards, an action property.
  The identity check in `ChangeDone` does not give it alone, for the projection put in
  place must not be older than the one it was made from. `Inv` follows the sub-agent's
  flag: no projection is ahead of its thread (`StatesInv`), and what was read from the
  file lies between the projection it was read for and the thread (`Vouched`). `Store`
  is the one lemma about storing a projection, used by broadcasts, handlers, the refresh
  loop and `attach`; `Targets` carries the thread a command was given to the action that
  seeds it. The theorem holds for overlapping commands too.
* `FollowsBoundTheorem`: `Spec => []FollowsBound` of the cards, for any number of chats,
  threads, commands and failures, with and without overlapping commands. The property
  speaks of the moments when no command runs; `FollowInv` says what holds in between: a
  bound chat is followed, exempt, or inside an `attach` that is yet to follow (`Heard`),
  and a followed thread is bound, or the previous one of an `attach` that is yet to leave
  it (`Needed`). That `attach` follows the thread its chat is bound to is `PhaseInv`; that
  it gets there only from its own publisher, which is in the queue of the chat's lock once
  and only while `attach` waits for it, is `QueueInv`, on lemmas about queues that grow, are
  served and lose a cancelled job (`LineAppend`, `LineHead`, `LineTail`, `LineRemove`). The
  history `stranded` came out of this proof: without it the property was false beyond the
  two chats that the run then had on two threads.
* `QuietCardCurrentTheorem`: `~Overlap => (Spec => []QuietCardCurrent)` of the cards, for any
  number of chats, threads, changes, clicks, flush tasks and failures; the commands of one
  chat follow one another, those of different chats overlap as they like. The property
  speaks of rest; `CardInv` says, as long as nothing was given up, who has yet to bring a
  card up to date. `FreshInv`: a thread some chat has settled on has the projection that
  Desktop's state calls for, or is owed a snapshot. `PromiseInv`: the newest projection
  on its way to a chat (pending, with its last publisher, or on its card) is the thread's
  present one, or the thread is dirty and the handler of its present projection is still
  to run. `LocalInv` follows a chat's update to Lark: what is pending has a task that is yet
  to take it (`TaskOK`), a publisher waits, or is in a call with a number above all others
  of its card (`JobsOK`, `CardsOK`), no publisher is left of a chat bound to nothing
  that no command crosses (`UnboundOK`), and the last one has the chosen view or will take it (`ViewOK`). `LateInv`:
  no request whose caller was cancelled has a number above what its card has counted, so
  that it cannot undo a later one. There is one lemma per action, on lemmas about what an action does
  to one chat (`OneChat`, `ChatStep`) and to its queue: the head makes a step (`HeadStep`),
  a publisher joins (`Joined`), an update is scheduled (`Scheduled`). The second exemption of
  the property, a projection dropped and made anew (`Reseeded`), came out of this proof:
  it takes three commands, one more than the run has. Overlapping commands of
  one chat are left out because of divergences 2 and 3 above.
* `OneServerInTmux`, `RunningIsFound`, `KilledInTmuxEnds` and `TypeCorrect` of the session
  files, for any number of servers, starts, kills and crashes. The three properties are
  one inductive invariant `IInv` with what they lack: the tmux session of the name is
  that of the server in tmux which runs (`TmuxNames`; without it a kill by name could
  hit another), two servers that run at once are both noted as such (`RunningAlone`),
  what the files say from the moment the process number is written (`Named`), and
  histories of launched servers only (`Launched`).
* `OneConnectionTheorem`, `RightSessionTheorem`, `BoundWhereConnectedTheorem` and
  `FilesCurrentTheorem` of `CliSessions`, for any number of chats, groups, sessions, bridges,
  commands under way and events. Most of them speak of a chat on which no command is at
  work; `IInv` says what a command that is at work owes. A command that takes a chat off
  is at its card or at its closing connection until it has cleared what is noted of the
  chat (`Taking`). Unless somebody attached the chat meanwhile (`crossed`), it finds the chat
  as it left it, so `ChatOK`: the connection is gone once it is closing, and with no such
  command a chat without a connection has no session and no poller either. The connection
  that an attach is making is nobody else's (`MakingOK`), one that the handler has is of its
  chat (`WiresOK`), one to a session on the list is of a chat bound to it, one that a kill set
  adrift need not be, the files lag behind memory only while groups are being disbanded
  (`SavedOK`), and a message goes astray only in a chat with commands that crossed
  (`astray \subseteq crossed`).
* `NoGapTheorem`: `Spec => []NoGap` of the proxy server, for any number of clients, chunks,
  inputs and events and any size of the history and of the buffers. `NoGap` says nothing of
  a client whose task in the broadcast has not run, nor of what a new client is sent. The
  invariant does: the history ends with what was read (`HistoryInv`), so does the chunk of
  the broadcast (`ChunkInv`), and a client that is still to be sent it is behind by exactly
  that chunk (`SentInv`). It rests on lemmas about sequences of consecutive numbers: what
  comes next may be put behind (`EndsAtConcat`), and a history that is cut at its old end
  still ends where it did (`EndsAtRest`, `RememberedEnds`).
* `TakenOnceTheorem`, `NoSilentLossTheorem`, `InOrderTheorem`, `ResolvedDecidedTheorem` and
  `LockTheorem` of `DesktopSend`, for any chats, threads, messages and calls at once, and any
  mixture of redelivery, moved threads, requests without answer and answers that come late.
  One invariant, because they lean on each other. `LockInv`: each call of a chat is in the
  queue of its lock once, and all but the first wait. `OnceInv`: while no request of a
  message was given up, the message is in one call and remembered, and once taken its call
  can only return (`Done`); so a redelivery finds it remembered and no repetition sends it
  again. `LossInv`: a call that can only return had its message taken or dropped.
  `OrderInv`: behind the call of a message waits the call of every later one of the chat;
  so when Desktop takes a message, the later ones are not past the lock. One lemma says what
  the invariant needs of a step for each thing a step can do to a call (`ChangeLock`,
  `JoinLock`, `EndsLock` for the queue, `CallStep`, `TakeStep`, `TakeLateStep`, `ArriveStep`
  for the messages), and one per action picks among them.
* `ConnectedIsReadTheorem`, `FollowedByDesktopTheorem` and `GapNoticedTheorem` of `DesktopIpc`,
  for any number of calls, threads, connections, refusals, time-outs and lost frames. The last
  two properties speak of rest only, so the invariant says what will be true once the frames
  under way have been taken. `LockInv`: of two coroutines in `connect` one was before the
  other, and one that is past the wait has nobody before it. `ConnInv`: reader and writer
  come and go together, and a connection that is ready has a reader that has not ended.
  `FollowInv`: nothing was asked for on a connection that is not ready (`RawInv`); once it is,
  what Desktop will follow when it has taken the frames to it is `followed` (`ToldInv`); and
  a call that waits for the connection still means what it will say (`WaitInv`). `RevInv`:
  the last the messages to the client say of a thread's revision is what Desktop sent last,
  and the client has it, will read it or has asked for a snapshot (`Caught`). `SaysConcat` and
  its like are the lemmas about frames put behind others and taken off, on which the steps rest.
* `NothingLeftOutTheorem`, `OneLiveCardTheorem` and `NoneOutOfOrderTheorem` of `StreamCards`,
  for any output, any number of cards, failures and stops. `SeqInv`: Lark knows no number
  above that of the open card, none of its calls is on its way while the poll task has it,
  and the handler that takes it over has a number above all that are. With `refused = {}` it
  is the last property. `LiveInv`: a call on its way can turn on only a card that is kept or
  in the handler's hand, or comes too late; the last is what the step that turns a card off
  leaves behind. `ShownInv`: what comes before the window of the open card, or of one that is
  to come, is on cards that are done with (`Covered`, `Done`), where the poll's snapshot is
  the present output but for its last block and what was added (`Continues`). So a window
  begins before the last block it was made for, and a block that still changes is in it.
  `TrimmedStart` and `FreezeCounts` show that the choices of a window's start and of a
  frozen card's length exist; `PutTaken`, `DoneStays` and `StraysLate` say what an update
  leaves as it was. The history `past` came out of the proof: without it the property
  exempts too little once an output has started over, which takes two changes of the
  output to show, as the run has them.

*Assumptions.* The named assumption of each module about its constants, evaluated by TLC in
every run. The users, threads, chats, servers and clients need not be finite.

*Only model-checked.* The properties of `Patches` and `Screens`, `DeadUnbound`, and all
liveness. Liveness and induction over
data (what the parsers and projections, which are folds and searches over sequences,
compute for every input) are out of the prover's reach. Type invariants are stated where
a proof uses one.

## 5. Not modelled

* *Listing and reading rollouts* (`desktop_bridge.py` 1500 ff., `desktop_subagents.py`) and
  the *streaming scanner* of oversized lines: they read files and format what these say;
  what the other parts take from them is an input of theirs.
* *App Server client*: its requests over a subprocess repeat the generations, futures and
  reader of the IPC client; nothing else holds state for it.
* *Building of cards* (the second half of `desktop_card.py`, `card_builder.py` and the
  helpers), ANSI colours, Markdown, images: JSON and text computed from a projection.
* *Lark client process, set-up, statistics, scripts, tests.*
* Inside modelled parts, PROJECT.json says of each component what is left out.

What could come next, in this order: `DesktopCards` over `DesktopIpc` in place of its
single-frame follow and unfollow; `start` and `close` of the bridge with a crash in
between.
