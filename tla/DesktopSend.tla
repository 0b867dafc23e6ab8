------------------------------ MODULE DesktopSend ------------------------------
(***************************************************************************)
(* What users send to Desktop tasks through the bridge                      *)
(* (lark_client/desktop_bridge.py: send_message, interrupt, handle_approval,*)
(* handle_input) and the requests to the owner of a thread it makes         *)
(* (lark_client/desktop_ipc.py: start_turn, steer_turn, _owner_request).    *)
(* Lark may deliver a message again; Desktop may answer late or not at all, *)
(* hand a thread from one window to another, or be a version that knows     *)
(* only the old form of start-turn.                                         *)
(*                                                                          *)
(* Each call is a coroutine, one action being the stretch between two       *)
(* awaits; calls of one chat take the chat's operation lock.  Windows of    *)
(* Desktop are told apart by number.  Every message is under an hour old.   *)
(***************************************************************************)
EXTENDS Integers, FiniteSets, Sequences, SequencesExt

CONSTANTS Chats, Threads,
          Msgs,          \* messages of Lark
          Home(_),       \* the chat a message is written in
          Slots,         \* bound: calls that may run at once, 1..n
          AskKinds,      \* what Desktop may ask for: subset of AllKinds
          Legacy,        \* may Desktop be a version before start-turn v2? subset of BOOLEAN
          MaxCalls,      \* messages delivered, requests answered, turns stopped
          MaxAsks,       \* requests of Desktop
          MaxChanges,    \* turns started or ended, requests made or answered in Desktop
          Events,        \* subset of AllEvents
          MaxEvents      \* how many of them

AllKinds == {"command", "file", "permissions", "input", "unsupported"}

\* a request without answer, a thread taken over, a chat attached elsewhere
AllEvents == {"give up", "move", "rebind"}

ASSUME ConstantsAssumption ==
    /\ \A m \in Msgs : Home(m) \in Chats
    /\ AskKinds \subseteq AllKinds /\ Events \subseteq AllEvents /\ Legacy \subseteq BOOLEAN
    /\ Slots \subseteq Nat \ {0}

None == 0
NoThread == "no thread"
Asks == 1..MaxAsks

VARIABLES
    desk,     \* Desktop's threads: window, turn, is it running, pending request and its kind
    seen,     \* _states: the bridge's projection of each
    owner,    \* _owners: the window the client believes in, 0 = none
    bound,    \* _bindings
    older,    \* _turn_views: chats that look at an older turn
    recent,   \* _recent_messages
    resolved, \* _resolved_requests
    lock,     \* _operation_locks: the calls of a chat in order, the first holds it
    call,     \* the running calls
    legacy,   \* is Desktop a version that knows start-turn v1 only
    late,     \* requests given up that Desktop may still take
    taken,    \* history: messages in the order Desktop took them
    decided,  \* history: requests of Desktop that a call of the bridge decided
    arrived,  \* history: messages remembered, in order
    refused,  \* history: messages whose user was told that sending failed
    given,    \* history: messages with a request that was given up
    dropped,  \* history: messages taken for the answer of a resolved request
    budget

desktop == <<desk, legacy, late, taken, decided>>
bridge == <<seen, owner, bound, older, recent, resolved>>
calls == <<lock, call>>
history == <<arrived, refused, given, dropped>>
vars == <<desktop, bridge, calls, history, budget>>

Free == [op |-> "none", chat |-> None, thread |-> NoThread, msg |-> None, ask |-> None,
         turn |-> None, at |-> "free", kind |-> "none", to |-> None, again |-> FALSE, wire |-> "none"]

Running == {k \in Slots : call[k].at # "free"}

\* the calls that have asked for the lock of their chat, each once, and the
\* first of them alone is past it
LockOK ==
    \A c \in Chats :
      /\ IsInjective(lock[c])
      /\ ToSet(lock[c]) = {k \in Running : call[k].chat = c /\ call[k].op # "interrupt"}
      /\ \A i \in 2..Len(lock[c]) : call[lock[c][i]].at = "lock"

Init ==
    /\ \E running \in BOOLEAN :
         desk = [t \in Threads |-> [window |-> 1, turn |-> 1, running |-> running, ask |-> None, kind |-> "none"]]
    /\ seen = desk
    /\ owner = [t \in Threads |-> None]
    /\ legacy \in Legacy
    /\ \E t \in Threads : bound = [c \in Chats |-> t]
    /\ older = Chats
    /\ recent = {} /\ resolved = {} /\ late = {}
    /\ lock = [c \in Chats |-> <<>>]
    /\ call = [k \in Slots |-> Free]
    /\ taken = <<>> /\ decided = {} /\ arrived = <<>> /\ refused = {} /\ given = {}
    /\ dropped = {}
    /\ budget = [calls |-> 0, asks |-> 0, changes |-> 0, events |-> 0]

Spend(what, max) ==
    /\ budget[what] < max
    /\ budget' = [budget EXCEPT ![what] = @ + 1]
Event(what) == what \in Events /\ Spend("events", MaxEvents)

-----------------------------------------------------------------------------
(* The lock of a chat, and requests to the owner of a thread. *)

\* one that is free, always the same
Slot == CHOOSE s \in Slots \ Running : TRUE

\* a call begins and joins the queue of its chat's lock
Join(rec) ==
    /\ Running # Slots
    /\ call' = [call EXCEPT ![Slot] = rec]
    /\ lock' = [lock EXCEPT ![rec.chat] = Append(@, Slot)]

\* Mutant: each call has a lock of its own.
Holds_Always(k) == call[k].at # "free"

Holds(k) == call[k].at # "free" /\ lock[call[k].chat] # <<>> /\ Head(lock[call[k].chat]) = k

\* a call returns; async with lets the next of the chat in
Ends(k) ==
    /\ call' = [call EXCEPT ![k] = Free]
    /\ lock' = IF call[k].op = "interrupt" THEN lock
               ELSE [lock EXCEPT ![call[k].chat] = Tail(@)]

\* _owner_for: the cached owner, or ask who it is
Where(t) == IF owner[t] # None THEN "rpc" ELSE "discover"
Wire(t) == IF owner[t] # None THEN "sent" ELSE "none"

\* call k, in the form rec, requests a kind from the owner of its thread
Asking(k, rec, kind, again) ==
    /\ call' = [call EXCEPT ![k] = [rec EXCEPT !.kind = kind, !.again = again,
                  !.at = Where(rec.thread), !.wire = Wire(rec.thread), !.to = owner[rec.thread]]]
    /\ UNCHANGED lock

\* steer_turn, start_turn in its two forms, the approvals and user input, and
\* interrupt, which takes no lock
Steer(k, rec) == Asking(k, rec, "steer", FALSE)
Start(k, rec) == Asking(k, rec, "start", FALSE)
StartOld(k, rec) == Asking(k, rec, "start v1", FALSE)
Submit(k, rec) == Asking(k, rec, "answer", FALSE)
Stop(rec) == Running # Slots /\ Asking(Slot, rec, "interrupt", FALSE)

\* the answer to a client-discovery names the owner
Discover(k) ==
    /\ call[k].at = "discover"
    /\ LET w == desk[call[k].thread].window IN
       /\ owner' = [owner EXCEPT ![call[k].thread] = w]
       /\ call' = [call EXCEPT ![k].at = "rpc", ![k].wire = "sent", ![k].to = w]
    /\ UNCHANGED <<desktop, seen, bound, older, recent, resolved, lock, history, budget>>

-----------------------------------------------------------------------------
(* The calls. *)

PendingIs(t, ask) == t # NoThread /\ ask # None /\ seen[t].ask = ask
Key(t, ask) == <<t, seen[t].turn, ask>>

\* Mutant: a message is not remembered while it is being sent.
Deliver_Again(m) ==
    LET c == Home(m) IN
    /\ Spend("calls", MaxCalls)
    /\ bound[c] # NoThread
    /\ arrived' = Append(arrived, m)
    /\ Join([Free EXCEPT !.op = "message", !.chat = c, !.thread = bound[c], !.msg = m, !.at = "lock"])
    /\ UNCHANGED <<desktop, bridge, refused, given, dropped>>

\* Lark delivers a message, for the first time or again: one it remembers the
\* bridge reports as sent.
Deliver(m) ==
    LET c == Home(m) IN
    /\ Spend("calls", MaxCalls)
    /\ bound[c] # NoThread
    /\ IF m \in recent THEN UNCHANGED <<recent, arrived, calls>>
       ELSE /\ recent' = recent \cup {m}
            /\ arrived' = Append(arrived, m)
            /\ Join([Free EXCEPT !.op = "message", !.chat = c, !.thread = bound[c],
                                 !.msg = m, !.at = "lock"])
    /\ UNCHANGED <<desktop, seen, owner, bound, older, resolved, refused, given, dropped>>

\* sending failed: forget the message, so that it can be sent again
Fail(k) ==
    /\ IF call[k].op = "message"
         THEN recent' = recent \ {call[k].msg} /\ refused' = refused \cup {call[k].msg}
         ELSE UNCHANGED <<recent, refused>>
    /\ Ends(k)

\* _return_to_latest_turn, under the lock: publish if the chat was elsewhere
Latest(k) ==
    LET c == call[k].chat IN
    /\ older' = older \ {c}
    /\ IF c \in older /\ bound[c] = call[k].thread
         THEN call' = [call EXCEPT ![k].at = "publish", ![k].wire = "none"] /\ UNCHANGED lock
         ELSE Ends(k)

Published(k) ==
    /\ call[k].at = "publish"
    /\ Ends(k)
    /\ UNCHANGED <<desktop, bridge, history, budget>>

\* The chat's lock is free: a message answers the question the thread waits
\* with, if the chat still shows it, or is steered into the running turn.
MessageEnters(k) ==
    LET t == call[k].thread
        ask == seen[t].ask
        question == ask # None /\ seen[t].kind \in {"input", "unsupported"}
        b == bound[call[k].chat]
        unanswerable == seen[t].kind = "unsupported" \/ ~PendingIs(b, ask)
        known == question /\ ~unanswerable /\ Key(b, ask) \in resolved
    IN  /\ call[k].op = "message" /\ call[k].at = "lock" /\ Holds(k)
        /\ \/ question /\ unanswerable /\ Fail(k) /\ UNCHANGED older
           \/ known /\ Latest(k) /\ UNCHANGED <<recent, refused>>
           \/ /\ question /\ ~unanswerable /\ ~known
              /\ Submit(k, [call[k] EXCEPT !.thread = b, !.ask = ask, !.turn = seen[b].turn])
              /\ UNCHANGED <<recent, refused, older>>
           \/ ~question /\ Steer(k, call[k]) /\ UNCHANGED <<recent, refused, older>>
        /\ dropped' = IF known THEN dropped \cup {call[k].msg} ELSE dropped
        /\ UNCHANGED <<desktop, seen, owner, bound, resolved, arrived, given, budget>>

\* A click on the card of chat c answers the request it shows; what is
\* resolved already counts as done.
Click(c, ask) ==
    LET t == bound[c] IN
    /\ Spend("calls", MaxCalls)
    /\ PendingIs(t, ask)
    /\ IF Key(t, ask) \in resolved THEN UNCHANGED calls
       ELSE Join([Free EXCEPT !.op = "answer", !.chat = c, !.thread = t, !.ask = ask,
                              !.turn = seen[t].turn, !.at = "lock"])
    /\ UNCHANGED <<desktop, bridge, history>>

\* Mutant: the request is noted as resolved before Desktop has the answer.
ClickEnters_Early(k) ==
    LET key == <<call[k].thread, call[k].turn, call[k].ask>> IN
    /\ call[k].op = "answer" /\ call[k].at = "lock" /\ Holds(k)
    /\ resolved' = resolved \cup {key}
    /\ IF key \in resolved THEN Ends(k) ELSE Submit(k, call[k])
    /\ UNCHANGED <<desktop, seen, owner, bound, older, recent, history, budget>>

\* under the lock: another click may have resolved it, and approving a change
\* of files, or permissions without the original data, is left to Desktop
ClickEnters(k) ==
    /\ call[k].op = "answer" /\ call[k].at = "lock" /\ Holds(k)
    /\ IF <<call[k].thread, call[k].turn, call[k].ask>> \in resolved THEN Ends(k)
       ELSE Submit(k, call[k]) \/ Ends(k)
    /\ UNCHANGED <<desktop, bridge, history, budget>>

\* A click on stop, on a card that shows the expected turn (0: a command)
Interrupt(c, expected) ==
    LET t == bound[c]
        current == IF seen[t].running THEN seen[t].turn ELSE None
    IN  /\ Spend("calls", MaxCalls)
        /\ t # NoThread
        /\ expected # None => expected = current
        /\ Stop([Free EXCEPT !.op = "interrupt", !.chat = c, !.thread = t, !.ask = expected,
                             !.turn = current])
        /\ UNCHANGED <<desktop, bridge, history>>

\* Mutant: a refused steer counts as sent.
Answered_Steered(k) ==
    LET r == call[k] IN
    /\ r.at = "rpc" /\ r.wire \in {"ok", "inactive"}
    /\ IF r.op = "message" THEN Latest(k) ELSE Ends(k) /\ UNCHANGED older
    /\ resolved' = IF r.kind = "answer" THEN resolved \cup {<<r.thread, r.turn, r.ask>>} ELSE resolved
    /\ UNCHANGED <<desktop, seen, owner, bound, recent, history, budget>>

\* The answer of the owner: done; or no turn to steer, so start one; or the
\* owner is gone, so find it and try again, once, and then start-turn in the
\* form of an older Desktop; or an error.
Answered(k) ==
    LET r == call[k]
        retry == r.wire = "gone" /\ ~r.again
        older1 == r.wire = "gone" /\ r.again /\ r.kind = "start"
        start == r.wire = "inactive"
    IN  /\ r.at = "rpc" /\ r.wire # "sent"
        /\ \/ /\ r.wire = "ok"
              /\ IF r.op = "message" THEN Latest(k) ELSE Ends(k) /\ UNCHANGED older
              /\ resolved' = IF r.kind # "answer" THEN resolved
                             ELSE resolved \cup {<<r.thread, r.turn, r.ask>>}
              /\ UNCHANGED <<owner, recent, refused>>
           \/ /\ start /\ Start(k, r)
              /\ UNCHANGED <<owner, older, recent, resolved, refused>>
           \/ /\ retry
              /\ owner' = [owner EXCEPT ![r.thread] = None]
              /\ call' = [call EXCEPT ![k].at = "discover", ![k].again = TRUE, ![k].wire = "none"]
              /\ UNCHANGED <<lock, older, recent, resolved, refused>>
           \/ /\ older1 /\ StartOld(k, r)
              /\ UNCHANGED <<owner, older, recent, resolved, refused>>
           \/ /\ r.wire \in {"gone", "error"} /\ ~retry /\ ~older1
              /\ Fail(k)
              /\ UNCHANGED <<owner, older, resolved>>
        /\ UNCHANGED <<desktop, seen, bound, arrived, given, dropped, budget>>

\* No answer in time, or the transport is lost and the owners forgotten: the
\* call fails, and what it sent Desktop may take all the same.
GiveUp(k) ==
    LET r == call[k] IN
    /\ r.at \in {"discover", "rpc"}
    /\ Event("give up")
    /\ late' = IF r.wire = "sent" THEN late \cup {r} ELSE late
    /\ given' = IF r.op = "message" THEN given \cup {r.msg} ELSE given
    /\ owner' \in {owner, [t \in Threads |-> None]}
    /\ Fail(k)
    /\ UNCHANGED <<desk, legacy, taken, decided, seen, bound, older, resolved, arrived, dropped>>

-----------------------------------------------------------------------------
(* Desktop. *)

\* Desktop's answer to r and what it does with it
Handle(r, answer) ==
    LET d == desk[r.thread] IN
    \/ /\ (r.to # d.window \/ (legacy /\ r.kind = "start"))
       /\ answer = "gone" /\ UNCHANGED <<desk, taken, decided>>
    \/ /\ r.to = d.window /\ r.kind = "steer" /\ ~d.running
       /\ answer = "inactive" /\ UNCHANGED <<desk, taken, decided>>
    \/ /\ r.to = d.window /\ r.kind = "steer" /\ d.running
       /\ answer = "ok" /\ taken' = Append(taken, r.msg)
       /\ UNCHANGED <<desk, decided>>
    \/ /\ r.to = d.window /\ ((r.kind = "start" /\ ~legacy) \/ r.kind = "start v1")
       /\ answer = "ok" /\ taken' = Append(taken, r.msg)
       /\ desk' = [desk EXCEPT ![r.thread].turn = IF d.running THEN @ ELSE @ + 1,
                               ![r.thread].running = TRUE]
       /\ UNCHANGED decided
    \/ /\ r.to = d.window /\ r.kind = "answer" /\ d.ask = r.ask
       /\ answer = "ok" /\ decided' = decided \cup {r.ask}
       /\ taken' = IF r.op = "message" THEN Append(taken, r.msg)
                   ELSE taken
       /\ desk' = [desk EXCEPT ![r.thread].ask = None, ![r.thread].kind = "none"]
    \/ /\ r.to = d.window /\ r.kind = "interrupt" /\ d.running /\ r.turn \in {None, d.turn}
       /\ answer = "ok" /\ desk' = [desk EXCEPT ![r.thread] =
                             [@ EXCEPT !.running = FALSE, !.ask = None, !.kind = "none"]]
       /\ UNCHANGED <<taken, decided>>
    \/ /\ r.to = d.window
       /\ \/ r.kind = "answer" /\ d.ask # r.ask
          \/ r.kind = "interrupt" /\ ~(d.running /\ r.turn \in {None, d.turn})
       /\ answer = "error" /\ UNCHANGED <<desk, taken, decided>>

Answers == {"ok", "inactive", "gone", "error"}

Takes(k) ==
    /\ call[k].at = "rpc" /\ call[k].wire = "sent"
    /\ \E answer \in Answers : Handle(call[k], answer) /\ call' = [call EXCEPT ![k].wire = answer]
    /\ UNCHANGED <<legacy, late, bridge, lock, history, budget>>

TakesLate(r) ==
    /\ r \in late
    /\ \E answer \in Answers : Handle(r, answer)
    /\ late' = late \ {r}
    /\ UNCHANGED <<legacy, bridge, calls, history, budget>>

\* a turn ends or its user starts one; it asks, or its user answers in Desktop
TurnEnds(t) ==
    /\ desk[t].running /\ desk[t].ask = None
    /\ Spend("changes", MaxChanges)
    /\ desk' = [desk EXCEPT ![t].running = FALSE]
    /\ UNCHANGED <<legacy, late, taken, decided, bridge, calls, history>>
TurnStarts(t) ==
    /\ ~desk[t].running
    /\ Spend("changes", MaxChanges)
    /\ desk' = [desk EXCEPT ![t].running = TRUE, ![t].turn = @ + 1]
    /\ UNCHANGED <<legacy, late, taken, decided, bridge, calls, history>>
AsksUser(t, kind) ==
    /\ desk[t].running /\ desk[t].ask = None
    /\ budget.changes < MaxChanges /\ budget.asks < MaxAsks
    /\ budget' = [budget EXCEPT !.asks = @ + 1, !.changes = @ + 1]
    /\ desk' = [desk EXCEPT ![t].ask = budget'.asks, ![t].kind = kind]
    /\ UNCHANGED <<legacy, late, taken, decided, bridge, calls, history>>
AnsweredThere(t) ==
    /\ desk[t].ask # None
    /\ Spend("changes", MaxChanges)
    /\ desk' = [desk EXCEPT ![t].ask = None, ![t].kind = "none"]
    /\ UNCHANGED <<legacy, late, taken, decided, bridge, calls, history>>
\* another window takes the thread over
Moves(t) ==
    /\ Event("move")
    /\ desk' = [desk EXCEPT ![t].window = 3 - @]
    /\ UNCHANGED <<legacy, late, taken, decided, bridge, calls, history>>

\* a change of the thread reaches the bridge, from its owner
Broadcast(t) ==
    /\ seen[t] # desk[t] \/ owner[t] # desk[t].window
    /\ seen' = [seen EXCEPT ![t] = desk[t]]
    /\ owner' = [owner EXCEPT ![t] = desk[t].window]
    /\ UNCHANGED <<desktop, bound, older, recent, resolved, calls, history, budget>>

\* the chat is attached to another thread, or detached (DesktopCards)
Rebind(c, t) ==
    /\ t # bound[c]
    /\ Event("rebind")
    /\ bound' = [bound EXCEPT ![c] = t]
    /\ older' = older \ {c}
    /\ UNCHANGED <<desktop, seen, owner, recent, resolved, calls, history>>

Next ==
    \/ \E k \in Slots : \/ MessageEnters(k) \/ ClickEnters(k) \/ Discover(k) \/ Takes(k)
                        \/ Answered(k) \/ Published(k) \/ GiveUp(k)
    \/ \E m \in Msgs : Deliver(m)
    \/ \E c \in Chats, ask \in Asks : Click(c, ask)
    \/ \E c \in Chats, t \in Threads : Interrupt(c, None) \/ Interrupt(c, seen[t].turn)
    \/ \E c \in Chats, t \in Threads \cup {NoThread} : Rebind(c, t)
    \/ \E r \in late : TakesLate(r)
    \/ \E t \in Threads : TurnEnds(t) \/ TurnStarts(t) \/ AnsweredThere(t) \/ Moves(t) \/ Broadcast(t)
    \/ \E t \in Threads, kind \in AskKinds : AsksUser(t, kind)

Spec == Init /\ [][Next]_vars

-----------------------------------------------------------------------------
Sending(m) == \E k \in Running : call[k].msg = m
Taken(m) == \E i \in DOMAIN taken : taken[i] = m

\* However often Lark delivers a message, and however the thread's owner and
\* its turns change between steer-turn, start-turn and their repetitions,
\* Desktop takes it once. Only one with a request nobody answered in time may
\* be taken again.
TakenOnce ==
    \A i, j \in DOMAIN taken :
        taken[i] = taken[j] /\ taken[i] \notin given => i = j

\* A message the bridge is through with has been taken by Desktop, or its user
\* was told that it has not, or its thread's question had an answer already.
NoSilentLoss ==
    \A i \in DOMAIN arrived : LET m == arrived[i] IN
        Sending(m) \/ Taken(m) \/ m \in refused \cup dropped

\* Two messages of a chat are taken in the order they came, through steer-turn,
\* start-turn, answers and repetitions.
InOrder ==
    \A i, j \in DOMAIN arrived, x, y \in DOMAIN taken :
        LET m == arrived[i]  n == arrived[j] IN
        /\ i < j /\ Home(m) = Home(n)
        /\ taken[x] = m /\ taken[y] = n
        /\ {m, n} \cap (given \cup refused) = {}
        => x < y

\* What the bridge holds for resolved, Desktop has decided by its answer: a
\* request that could not be submitted can be answered again.
ResolvedDecided == \A key \in resolved : key[3] \in decided

=============================================================================
