------------------------------ MODULE CliSessions ------------------------------
(***************************************************************************)
(* Which CLI session a Lark chat is connected to                            *)
(* (lark_client/lark_handler.py with lark_client/session_bridge.py): attach, *)
(* detach, start, kill, groups made for a session, recovery from a saved    *)
(* binding, and the periodic check for dead sessions.                       *)
(*                                                                          *)
(* Every command is a coroutine without a lock; an action is the stretch    *)
(* between two awaits.  The cards are abstracted to the fact that a poller  *)
(* runs (module StreamCards); the calls of Lark's group API block the loop  *)
(* and are no points of interleaving.  A loop over chats may be interrupted *)
(* between two of them.                                                     *)
(***************************************************************************)
EXTENDS Integers, FiniteSets, Sequences

CONSTANTS Private,      \* private chats
          Groups,       \* chats that may be created as groups of a session
          Sessions,
          Slots,        \* bound: commands under way
          Commands,     \* which commands are given: subset of AllCommands
          MaxCommands,  \* bound: how many
          MaxBridges,   \* bound: connections that exist at a time
          Events,       \* subset of AllEvents
          MaxEvents     \* bound: how many

AllCommands == {"attach", "detach", "list detach", "start", "new group", "kill", "disband", "message", "desktop"}
\* a session ends, one boots too slowly, the client restarts
AllEvents == {"die", "slow", "restart"}

Chats == Private \cup Groups
None == "none"

ASSUME ConstantsAssumption ==
    /\ Private \cap Groups = {} /\ Commands \subseteq AllCommands /\ Events \subseteq AllEvents
    /\ None \notin Chats \cup Sessions
    /\ MaxBridges \in Nat
Bridges == 1..MaxBridges

VARIABLES
    up,       \* sessions whose server listens (list_active_sessions)
    boots,    \* server processes launched and not listening yet: session -> how many
    mem,      \* LarkHandler: _bridges, _chat_sessions, the pollers, _chat_bindings,
              \* _group_chat_ids, _starting_sessions
    saved,    \* the files of the bindings and of the groups
    wire,     \* SessionBridge objects: chat, session, and "none" (free, new or closed),
              \* "open", "adrift" (open to a server that is off the list and runs on), "eof" (the
              \* read loop has ended, its callback is to run), or "dead"
    desk,     \* chats attached to a Desktop task
    op,       \* the commands under way
    crossed,  \* history: chats with commands that crossed: attached while taken off, or by two at once
    astray,   \* history: chats with a message typed into a session they do not show
    budget

handler == <<mem, saved>>
history == <<crossed, astray>>
vars == <<up, boots, handler, wire, desk, op, history, budget>>

Free == [kind |-> None, at |-> "free", chat |-> None, sess |-> None, bridge |-> 0,
         why |-> None, desk |-> FALSE, todo |-> {}]
Busy == {k \in Slots : op[k].at # "free"}
On(c) == {k \in Busy : op[k].chat = c \/ c \in op[k].todo}

Runs(b) == b # 0 /\ wire[b].end \in {"open", "adrift"}
NoWire == [chat |-> None, sess |-> None, end |-> "none"]
Used == {b \in Bridges : wire[b].end # "none" \/ \E k \in Busy : op[k].bridge = b}

Init ==
    /\ up = Sessions /\ boots = [s \in Sessions |-> 0]
    /\ mem = [bridge |-> [c \in Chats |-> 0], session |-> [c \in Chats |-> None],
              stream |-> [c \in Chats |-> None], bind |-> [c \in Chats |-> None],
              groups |-> {}, starting |-> {}]
    /\ saved = [bind |-> mem.bind, groups |-> {}]
    /\ wire = [b \in Bridges |-> NoWire]
    /\ desk = {} /\ op = [k \in Slots |-> Free]
    /\ crossed = {} /\ astray = {}
    /\ budget = [commands |-> 0, events |-> 0]

Spend(what, max) ==
    /\ budget[what] < max
    /\ budget' = [budget EXCEPT ![what] = @ + 1]
Event(what) == what \in Events /\ Spend("events", MaxEvents)

\* a command is given and takes a free slot
Slot == CHOOSE k \in Slots : k \notin Busy
Given(what) == what \in Commands /\ Busy # Slots /\ Spend("commands", MaxCommands)

-----------------------------------------------------------------------------
(* Steps that several commands share: on the handler's memory. *)

Save(m) == [bind |-> m.bind, groups |-> m.groups]
\* _remove_binding_by_chat: a group keeps its binding unless forced
Unbound(m, c, force) == IF ~force /\ c \in m.groups THEN m ELSE [m EXCEPT !.bind[c] = None]
\* variant: the chat still counts as connected
Cleared_KeepsSession(m, c) == [m EXCEPT !.stream[c] = None]

Cleared(m, c) == [m EXCEPT !.session[c] = None, !.stream[c] = None]
Keeps(k, rec) == op' = [op EXCEPT ![k] = rec]
Ends(k) == Keeps(k, Free)

\* the bindings are written with every change, but for the groups disbanded with a
\* session, which are written together at the end
Writes(rec) ==
    saved' = IF rec.kind = "disband" \/ mem'.bind = mem.bind THEN saved ELSE [saved EXCEPT !.bind = mem'.bind]

\* what a command does once the old connection is closed
After(k, m, rec) ==
    LET c == rec.chat
    IN  /\ \/ /\ rec.kind = "attach"
              /\ mem' = [m EXCEPT !.session[c] = None]
              /\ \E b \in Bridges \ Used :
                   /\ \A d \in Bridges \ Used : b <= d
                   /\ Keeps(k, [rec EXCEPT !.at = "connect", !.bridge = b])
           \/ /\ rec.kind = "detach"
              /\ mem' = Cleared(m, c)
              /\ Ends(k)
           \/ /\ rec.kind \in {"kill", "health"}
              /\ mem' = Unbound(Cleared(m, c), c, TRUE)
              /\ Keeps(k, [rec EXCEPT !.at = "loop", !.chat = None])
           \/ /\ rec.kind = "lapse"
              /\ mem' = [Unbound(Cleared(m, c), c, TRUE) EXCEPT !.groups = @ \ {c}]
              /\ Keeps(k, [rec EXCEPT !.kind = "disband", !.at = "loop", !.chat = None, !.todo = mem'.groups])
           \/ /\ rec.kind = "disband"
              /\ mem' = [m EXCEPT !.session[c] = None]
              /\ Keeps(k, [rec EXCEPT !.at = "loop", !.chat = None])
        /\ UNCHANGED <<wire, crossed>>

\* the chat's connection is taken out and closed, which takes time; the command
\* goes on afterwards, or at once if there is none
Drop(k, m, rec) ==
    LET b == m.bridge[rec.chat]
    IN  /\ IF b = 0 THEN After(k, m, rec)
           ELSE /\ mem' = [m EXCEPT !.bridge[rec.chat] = 0]
                /\ wire' = [wire EXCEPT ![b] = NoWire]
                /\ Keeps(k, [rec EXCEPT !.at = "close"])
                /\ UNCHANGED crossed
        /\ Writes(rec)

Closed(k) ==
    /\ op[k].at = "close"
    /\ After(k, mem, op[k]) /\ Writes(op[k])
    /\ UNCHANGED <<up, boots, desk, astray, budget>>

-----------------------------------------------------------------------------
(* _attach *)

\* the poller is stopped; an open card of the old session is turned off first
Enter(k, m, rec) ==
    LET c == rec.chat
        r == [rec EXCEPT !.kind = "attach", !.desk = c \in desk]
        stopped == [m EXCEPT !.stream[c] = None]
    IN  \/ /\ m.stream[c] # None /\ m.session[c] # None
           /\ mem' = stopped /\ Keeps(k, [r EXCEPT !.at = "card"])
           /\ UNCHANGED <<saved, wire, crossed>>
        \/ Drop(k, stopped, r)

\* the card is turned off (or Lark refuses): on with the command
CardOff(k) ==
    /\ op[k].at = "card"
    /\ Drop(k, IF op[k].kind = "detach" THEN Unbound(mem, op[k].chat, FALSE) ELSE mem, op[k])
    /\ UNCHANGED <<up, boots, desk, astray, budget>>

\* the text of a message is written to the connection; Enter follows 50 ms later
Types(k, rec, b) ==
    /\ Keeps(k, [rec EXCEPT !.kind = "message", !.at = "enter", !.bridge = b])
    /\ astray' = IF \/ mem'.stream[rec.chat] = wire'[b].sess
                    \/ mem'.stream[rec.chat] = None /\ On(rec.chat) \ {k} # {}
                 THEN astray ELSE astray \cup {rec.chat}

\* variants: a message's own attach shows no output; a start saves no binding
Recorded_NoPoller(m, rec) ==
    [m EXCEPT !.bridge[rec.chat] = rec.bridge, !.session[rec.chat] = rec.sess,
              !.stream[rec.chat] = IF rec.why = "message" THEN @ ELSE rec.sess,
              !.bind[rec.chat] = IF rec.why \in {"attach", "start"} THEN rec.sess ELSE @,
              !.starting = IF rec.why = "start" THEN @ \ {rec.sess} ELSE @]
Recorded_StartUnbound(m, rec) ==
    [m EXCEPT !.bridge[rec.chat] = rec.bridge, !.session[rec.chat] = rec.sess, !.stream[rec.chat] = rec.sess,
              !.bind[rec.chat] = IF rec.why = "attach" THEN rec.sess ELSE @,
              !.starting = IF rec.why = "start" THEN @ \ {rec.sess} ELSE @]

\* what the handler notes of an attach that succeeded; the commands write the binding
Recorded(m, rec) ==
    [m EXCEPT !.bridge[rec.chat] = rec.bridge, !.session[rec.chat] = rec.sess, !.stream[rec.chat] = rec.sess,
              !.bind[rec.chat] = IF rec.why \in {"attach", "start"} THEN rec.sess ELSE @,
              !.starting = IF rec.why = "start" THEN @ \ {rec.sess} ELSE @]

Attached(k) ==
    LET rec == op[k]
        c == rec.chat
    IN  /\ mem' = Recorded(mem, rec)
        /\ saved' = IF rec.why \in {"attach", "start"} THEN [saved EXCEPT !.bind = mem'.bind] ELSE saved
        \* another command is taking the chat off, its binding has changed under an
        \* attach that writes none, or the session ended while the task was let go
        /\ crossed' = IF \/ mem.bind[c] # rec.sess /\ rec.why \in {"message", "new group"}
                         \/ \E j \in On(c) \ {k} : op[j].at \in {"card", "close"}
                         \/ wire'[rec.bridge].end \notin {"open", "adrift"}
                      THEN crossed \cup {c} ELSE crossed
        /\ IF rec.why = "message" THEN Types(k, rec, rec.bridge) ELSE Ends(k) /\ UNCHANGED astray

\* the connection is open; a Desktop task that was attached is let go first
Connected(k) ==
    /\ op[k].at = "connect" /\ op[k].sess \in up
    /\ wire' = [wire EXCEPT ![op[k].bridge] = [chat |-> op[k].chat, sess |-> op[k].sess, end |-> "open"]]
    /\ IF op[k].desk THEN Keeps(k, [op[k] EXCEPT !.at = "desk"]) /\ UNCHANGED <<handler, history>>
       ELSE Attached(k)
    /\ UNCHANGED <<up, boots, desk, budget>>

DesktopLetGo(k) ==
    /\ op[k].at = "desk"
    /\ UNCHANGED wire /\ Attached(k)
    /\ desk' = desk \ {op[k].chat}
    /\ UNCHANGED <<up, boots, budget>>

\* the session does not answer; if it is gone, a message that wanted to come back
\* to it takes the binding away, from every group of the session too (_ensure_bridge)
Refused(k) ==
    /\ op[k].at = "connect" /\ op[k].sess \notin up
    /\ LET rec == [op[k] EXCEPT !.kind = "lapse"]
           m == [mem EXCEPT !.stream[rec.chat] = None]
       IN  IF rec.why = "message" THEN Drop(k, m, rec)
           ELSE /\ mem' = [mem EXCEPT !.starting = IF rec.why = "start" THEN @ \ {rec.sess} ELSE @]
                /\ Ends(k) /\ UNCHANGED <<saved, wire, crossed>>
    /\ UNCHANGED <<up, boots, desk, astray, budget>>

-----------------------------------------------------------------------------
(* The commands. *)

CmdAttach(c, s) ==
    /\ s \in up /\ Given("attach")
    /\ Enter(Slot, mem, [Free EXCEPT !.chat = c, !.sess = s, !.why = "attach"])
    /\ UNCHANGED <<up, boots, desk, astray>>

\* /detach
CmdDetach(c) ==
    /\ c \notin desk /\ (mem.bridge[c] # 0 \/ mem.session[c] # None)
    /\ Given("detach")
    /\ Drop(Slot, Unbound(mem, c, FALSE), [Free EXCEPT !.kind = "detach", !.chat = c])
    /\ UNCHANGED <<up, boots, desk, astray>>

\* the button of the list, which turns the card off first, and that of the card
ButtonDetach(c) ==
    /\ Given("list detach")
    /\ LET rec == [Free EXCEPT !.kind = "detach", !.chat = c]
           m == [mem EXCEPT !.stream[c] = None]
       IN  \/ /\ mem.stream[c] # None
              /\ mem' = m /\ Keeps(Slot, [rec EXCEPT !.at = "card"]) /\ UNCHANGED <<saved, wire, crossed>>
           \/ Drop(Slot, Unbound(m, c, FALSE), rec)
    /\ UNCHANGED <<up, boots, desk, astray>>

\* one boot at a time of a session (_starting_sessions)
CmdStart(c, s) ==
    /\ s \notin up /\ s \notin mem.starting
    /\ Given("start")
    /\ mem' = [mem EXCEPT !.starting = @ \cup {s}]
    /\ boots' = [boots EXCEPT ![s] = @ + 1]
    /\ Keeps(Slot, [Free EXCEPT !.kind = "attach", !.at = "boot", !.chat = c, !.sess = s, !.why = "start"])
    /\ UNCHANGED <<up, saved, wire, desk, history>>

\* the socket is there; or the boot takes longer than 12 s and is given up
Booted(k) ==
    /\ op[k].at = "boot" /\ op[k].sess \in up
    /\ Enter(k, mem, op[k])
    /\ UNCHANGED <<up, boots, desk, astray, budget>>

BootGivenUp(k) ==
    /\ op[k].at = "boot" /\ op[k].sess \notin up
    /\ Event("slow")
    /\ mem' = [mem EXCEPT !.starting = @ \ {op[k].sess}]
    /\ Ends(k) /\ UNCHANGED <<up, boots, saved, wire, desk, history>>

\* a group is made for a session and attached to it
CmdNewGroup(g, s) ==
    /\ s \in up
    /\ g \notin mem.groups /\ mem.bind[g] = None /\ mem.bridge[g] = 0 /\ mem.session[g] = None /\ On(g) = {}
    /\ Given("new group")
    /\ LET m == [mem EXCEPT !.bind[g] = s, !.groups = @ \cup {g}]
           k == Slot
       IN  /\ saved' = Save(m)
           /\ After(k, m, [Free EXCEPT !.kind = "attach", !.chat = g, !.sess = s, !.why = "new group", !.desk = g \in desk])
    /\ UNCHANGED <<up, boots, desk, astray>>

\* all chats that show the session are taken off it, then its bindings are removed and
\* it goes off the list; the groups were disbanded before
CmdKill(s) ==
    /\ s \in up
    /\ Given("kill")
    /\ Keeps(Slot, [Free EXCEPT !.kind = "kill", !.at = "loop", !.sess = s,
                               !.todo = {c \in Chats : mem.session[c] = s}])
    /\ UNCHANGED <<up, boots, handler, wire, desk, history>>

\* the connections of a session: its server has ended, or runs on without its files
Turned(s, end) ==
    [b \in Bridges |-> IF wire[b].end = "open" /\ wire[b].sess = s THEN [wire[b] EXCEPT !.end = end] ELSE wire[b]]
Hangup(s) == Turned(s, "eof")
Adrift(s) == Turned(s, "adrift")

\* variant: the bindings removed at the end are not written
KillNext_Unsaved(k) ==
    /\ op[k].kind = "kill" /\ op[k].at = "loop"
    /\ IF op[k].todo = {}
       THEN LET dead == {c \in Chats : mem.bind[c] = op[k].sess}
            IN  /\ mem' = [mem EXCEPT !.bind = [c \in Chats |-> IF c \in dead THEN None ELSE @[c]],
                                     !.groups = @ \ dead]
                /\ UNCHANGED saved
                /\ up' = up \ {op[k].sess} /\ wire' = Adrift(op[k].sess)
                /\ UNCHANGED crossed
                /\ Ends(k)
       ELSE /\ UNCHANGED up
            /\ \E c \in op[k].todo :
                 LET rec == [op[k] EXCEPT !.chat = c, !.todo = @ \ {c}]
                     m == [mem EXCEPT !.stream[c] = None]
                 IN  \/ /\ mem.stream[c] # None
                        /\ mem' = m /\ Keeps(k, [rec EXCEPT !.at = "card"]) /\ UNCHANGED <<saved, wire, crossed>>
                     \/ Drop(k, m, rec)
    /\ UNCHANGED <<boots, desk, astray, budget>>

\* the files go; the server ends with its tmux session (AdriftEnds), but one that was
\* started from Lark has none and keeps the connections it has
KillNext(k) ==
    /\ op[k].kind = "kill" /\ op[k].at = "loop"
    /\ IF op[k].todo = {}
       THEN LET dead == {c \in Chats : mem.bind[c] = op[k].sess}
            IN  /\ mem' = [mem EXCEPT !.bind = [c \in Chats |-> IF c \in dead THEN None ELSE @[c]],
                                     !.groups = @ \ dead]
                /\ saved' = Save(mem')
                /\ up' = up \ {op[k].sess} /\ wire' = Adrift(op[k].sess)
                /\ UNCHANGED crossed
                /\ Ends(k)
       ELSE /\ UNCHANGED up
            /\ \E c \in op[k].todo :
                 LET rec == [op[k] EXCEPT !.chat = c, !.todo = @ \ {c}]
                     m == [mem EXCEPT !.stream[c] = None]
                 IN  \/ /\ mem.stream[c] # None
                        /\ mem' = m /\ Keeps(k, [rec EXCEPT !.at = "card"]) /\ UNCHANGED <<saved, wire, crossed>>
                     \/ Drop(k, m, rec)
    /\ UNCHANGED <<boots, desk, astray, budget>>

\* a group and its binding go, whatever Lark says
CmdDisband(g) ==
    /\ mem.bind[g] # None
    /\ Given("disband")
    /\ LET m == [Unbound(mem, g, TRUE) EXCEPT !.groups = @ \ {g}]
           k == Slot
           rec == [Free EXCEPT !.kind = "detach", !.chat = g]
       IN  /\ saved' = Save(m)
           /\ IF m.bridge[g] = 0 THEN After(k, m, rec)
              ELSE /\ mem' = [m EXCEPT !.bridge[g] = 0] /\ wire' = [wire EXCEPT ![m.bridge[g]] = NoWire]
                   /\ Keeps(k, [rec EXCEPT !.at = "close"]) /\ UNCHANGED crossed
    /\ UNCHANGED <<up, boots, desk, astray>>

\* a message: typed into the running connection, or the saved session is attached again
CmdMessage(c) ==
    /\ c \notin desk
    /\ Given("message")
    /\ LET k == Slot
           rec == [Free EXCEPT !.kind = "message", !.chat = c, !.why = "message"]
       IN  \/ /\ Runs(mem.bridge[c])
              /\ UNCHANGED <<handler, wire, crossed>>
              /\ Types(k, rec, mem.bridge[c])
           \/ /\ ~Runs(mem.bridge[c]) /\ mem.bind[c] # None
              /\ Enter(k, mem, [rec EXCEPT !.sess = mem.bind[c]])
              /\ UNCHANGED astray
    /\ UNCHANGED <<up, boots, desk>>

\* Enter follows the text, unless the connection was closed meanwhile
Entered(k) ==
    /\ op[k].at = "enter"
    /\ Ends(k)
    /\ UNCHANGED <<up, boots, handler, wire, desk, history, budget>>

\* a Desktop task is attached to the chat; a CLI session it had when that began is let go
CmdDesktop(c) ==
    /\ Given("desktop")
    /\ Keeps(Slot, [Free EXCEPT !.kind = "detach", !.at = "desktop", !.chat = c,
                               !.desk = mem.bridge[c] # 0 \/ mem.session[c] # None])
    /\ UNCHANGED <<up, boots, handler, wire, desk, history>>

DesktopAttached(k) ==
    /\ op[k].at = "desktop"
    /\ desk' = desk \cup {op[k].chat}
    /\ IF op[k].desk THEN Drop(k, Unbound(mem, op[k].chat, TRUE), op[k])
       ELSE Ends(k) /\ UNCHANGED <<handler, wire, crossed>>
    /\ UNCHANGED <<up, boots, astray, budget>>

-----------------------------------------------------------------------------
(* What happens by itself. *)

\* on_disconnect: only if the connection is still the chat's own
Disconnected(b) ==
    /\ wire[b].end = "eof"
    /\ LET c == wire[b].chat
       IN  mem' = IF mem.bridge[c] = b THEN [Cleared(mem, c) EXCEPT !.bridge[c] = 0] ELSE mem
    /\ wire' = [wire EXCEPT ![b] = IF \E k \in Busy : op[k].at = "desk" /\ op[k].bridge = b
                                  THEN [@ EXCEPT !.end = "dead"]
                                  ELSE NoWire]
    /\ UNCHANGED <<up, boots, saved, desk, op, crossed, astray, budget>>

\* variant: the groups are passed over
HealthCheck_NoGroups(s) ==
    /\ s \notin up /\ \E c \in Chats : mem.bind[c] = s
    /\ Busy # Slots /\ \A k \in Busy : op[k].why # "health"
    /\ Keeps(Slot, [Free EXCEPT !.kind = "disband", !.at = "loop", !.sess = s, !.why = "health", !.todo = {}])
    /\ UNCHANGED <<up, boots, handler, wire, desk, history, budget>>

\* the health check finds a session dead that chats are bound to
HealthCheck(s) ==
    /\ s \notin up /\ \E c \in Chats : mem.bind[c] = s
    /\ Busy # Slots /\ \A k \in Busy : op[k].why # "health"
    /\ Keeps(Slot, [Free EXCEPT !.kind = "disband", !.at = "loop", !.sess = s, !.why = "health", !.todo = mem.groups])
    /\ UNCHANGED <<up, boots, handler, wire, desk, history, budget>>

\* _disband_groups_for_session: the next group still bound to it
DisbandNext(k) ==
    /\ op[k].kind = "disband" /\ op[k].at = "loop"
    /\ LET bound == {g \in op[k].todo : mem.bind[g] = op[k].sess}
       IN  IF bound = {}
           THEN /\ saved' = Save(mem)
                /\ IF op[k].why # "health" THEN Ends(k)
                   ELSE Keeps(k, [op[k] EXCEPT !.kind = "health",
                                    !.todo = {c \in Chats \ mem.groups : mem.bind[c] = op[k].sess}])
                /\ UNCHANGED <<mem, wire, crossed>>
           ELSE \E g \in bound :
                  LET m == [Unbound(mem, g, TRUE) EXCEPT !.groups = @ \ {g}, !.stream[g] = None]
                  IN  Drop(k, m, [op[k] EXCEPT !.chat = g, !.todo = @ \ {g}])
    /\ UNCHANGED <<up, boots, desk, astray, budget>>

\* the private chats of the dead session, if they are still bound to it
HealthNext(k) ==
    /\ op[k].kind = "health" /\ op[k].at = "loop"
    /\ LET bound == {c \in op[k].todo : c \notin mem.groups /\ mem.bind[c] = op[k].sess}
       IN  IF bound = {} THEN Ends(k) /\ UNCHANGED <<handler, wire, crossed>>
           ELSE \E c \in bound :
                  Drop(k, [mem EXCEPT !.stream[c] = None], [op[k] EXCEPT !.chat = c, !.todo = @ \ {c}])
    /\ UNCHANGED <<up, boots, desk, astray, budget>>

\* a server that is off the list ends after all
AdriftEnds(b) ==
    /\ wire[b].end = "adrift"
    /\ wire' = [wire EXCEPT ![b].end = "eof"]
    /\ UNCHANGED <<up, boots, handler, desk, op, history, budget>>

\* a server that was launched listens; a session ends, or loses its files to an older
\* server of its name that ends
ServerUp(s) ==
    /\ boots[s] > 0
    /\ boots' = [boots EXCEPT ![s] = @ - 1]
    /\ up' = up \cup {s}
    /\ UNCHANGED <<handler, wire, desk, op, history, budget>>

ServerDies(s) ==
    /\ s \in up
    /\ Event("die")
    /\ up' = up \ {s} /\ wire' \in {Hangup(s), Adrift(s)}
    /\ UNCHANGED <<boots, handler, desk, op, history>>

\* the client stops and starts again, with the bindings of the files
Restart ==
    /\ Event("restart")
    /\ mem' = [bridge |-> [c \in Chats |-> 0], session |-> [c \in Chats |-> None],
               stream |-> [c \in Chats |-> None], bind |-> saved.bind, groups |-> saved.groups, starting |-> {}]
    /\ wire' = [b \in Bridges |-> NoWire]
    /\ op' = [k \in Slots |-> Free]
    /\ crossed' = {} /\ astray' = {}
    /\ UNCHANGED <<up, boots, saved, desk>>

Step(k) ==
    \/ Closed(k) \/ CardOff(k) \/ Connected(k) \/ Refused(k) \/ DesktopLetGo(k) \/ Booted(k)
    \/ KillNext(k) \/ DisbandNext(k) \/ HealthNext(k) \/ Entered(k) \/ DesktopAttached(k)

Command ==
    \/ \E c \in Chats :
         CmdDetach(c) \/ ButtonDetach(c) \/ CmdMessage(c) \/ CmdDesktop(c)
         \/ \E s \in Sessions : CmdAttach(c, s) \/ CmdStart(c, s)
    \/ \E g \in Groups : CmdDisband(g) \/ \E s \in Sessions : CmdNewGroup(g, s)
    \/ \E s \in Sessions : CmdKill(s)

Next ==
    \/ Command
    \/ \E k \in Slots : Step(k) \/ BootGivenUp(k)
    \/ \E b \in Bridges : Disconnected(b) \/ AdriftEnds(b)
    \/ \E s \in Sessions : HealthCheck(s) \/ ServerUp(s) \/ ServerDies(s)
    \/ Restart

Spec == Init /\ [][Next]_vars

\* the event loop runs every command and callback; the check comes round
FairSpec ==
    /\ Spec
    /\ \A k \in Slots : WF_vars(Step(k))
    /\ \A b \in Bridges : WF_vars(Disconnected(b))
    /\ \A s \in Sessions : SF_vars(HealthCheck(s)) /\ WF_vars(ServerUp(s))

-----------------------------------------------------------------------------
(* Properties. *)

Quiet(c) == On(c) = {} /\ \A b \in Bridges : wire[b].chat = c => wire[b].end # "eof"

\* The three records the handler keeps of a chat agree while nothing is under way
\* for it: a running connection, the session it is to, and the poller that shows
\* it; unless it was attached and taken off at the same time.
OneConnection ==
    \A c \in Chats \ crossed : Quiet(c) =>
        /\ mem.session[c] = mem.stream[c]
        /\ (mem.session[c] # None) = (mem.bridge[c] # 0)
        /\ mem.bridge[c] # 0 => Runs(mem.bridge[c]) /\ wire[mem.bridge[c]].sess = mem.session[c]

\* What a user types goes to the session whose output the chat shows, or showed
\* until a command that is under way.
RightSession == astray \subseteq crossed

\* A chat that is connected is bound to that session, so that it finds it again after a
\* restart or a lost connection; unless the session is off the list and runs on: a kill
\* takes the binding of a chat that attached while it took others off, not its connection.
BoundWhereConnected ==
    \A c \in Chats \ crossed :
      Quiet(c) /\ mem.session[c] # None /\ wire[mem.bridge[c]].end # "adrift" => mem.bind[c] = mem.session[c]

\* With no command under way the files say what the memory says.
FilesCurrent == Busy = {} => saved = Save(mem)

\* No chat stays bound to a session that has ended.
DeadUnbound == \A c \in Chats, s \in Sessions : (mem.bind[c] = s /\ s \notin up) ~> (mem.bind[c] # s \/ s \in up)
=============================================================================
