------------------------------ MODULE DesktopIpc ------------------------------
(***************************************************************************)
(* The client of Codex Desktop's local socket (lark_client/desktop_ipc.py): *)
(* one connection at a time, numbered by _generation, that any coroutine    *)
(* may find lost and make anew; the threads it follows, restored on each    *)
(* new connection; requests in flight; and the revision of each thread's    *)
(* stream, with the resync that asks for a snapshot after a gap.            *)
(*                                                                          *)
(* An action is the stretch of one coroutine between two awaits. A write    *)
(* into the socket does not wait (its frames are far below the buffer's     *)
(* high-water mark), so neither does the write lock, and closing a lost     *)
(* transport is over before another one is open.                            *)
(***************************************************************************)
EXTENDS Integers, FiniteSets, Sequences, SequencesExt

CONSTANTS Threads,        \* Desktop tasks
          Calls,          \* coroutines of the bridge that call the client
          Ops,            \* which public operations they call
          MaxOps,         \* how many of them in all
          MaxConnections, \* bound on _generation
          MaxFaults,      \* transports lost, opens refused, snapshots missing, answers late
          MaxStatus,      \* status requests Desktop broadcasts
          MaxChanges,     \* changes of threads
          ResyncLimit     \* resyncs without a snapshot before a thread is given up

AllOps == {"follow", "unfollow", "request", "disconnect"}

ASSUME ConstantsAssumption ==
    /\ Ops \subseteq AllOps
    /\ {MaxOps, MaxConnections, MaxFaults, MaxStatus, MaxChanges, ResyncLimit} \subseteq Nat
    /\ ResyncLimit > 0

Call(c) == <<"call", c>>
Reader(g) == <<"reader", g>>
Resync(t) == <<"resync", t>>
Reconnect == <<"reconnect", 0>>

Readers == {Reader(g) : g \in 1..MaxConnections}
Resyncs == {Resync(t) : t \in Threads}
Procs == {Call(c) : c \in Calls} \cup Readers \cup Resyncs \cup {Reconnect}

VARIABLES
    conn,     \* _writer and _reader_task (as connection numbers, 0 = None), _generation, _ready, _closing
    lock,     \* _connect_lock: who came before each coroutine that holds it or waits for it
    pc,       \* where each coroutine stands
    job,      \* the call a coroutine is in: operation, thread, number
    followed, \* _followed
    rev,      \* _state_cache: the revision of each thread, 0 = none
    attempts, \* _resync_attempts
    wire,     \* the current transport: is it up, frames to Desktop, messages from it
    desk,     \* threads Desktop follows for this connection
    line,     \* Desktop's revision of each thread
    sent,     \* the last revision Desktop sent on this connection
    ops, faults, status,
    mixed     \* history: threads with a follow and an unfollow at the same time

client == <<conn, lock, pc, job, followed, rev, attempts>>
desktop == <<desk, line, sent>>
budget == <<ops, faults, status>>
history == <<mixed>>
vars == <<client, wire, desktop, budget, history>>

None == 0
NoJob == [op |-> "none", t |-> None, n |-> 0]
Idle == {"idle", "done"}

Connecting == {"connect", "opening", "init", "inited", "initfail", "abandon"}

Queue(place) == {p \in Procs : place[p] \in Connecting}

\* the lock when the coroutines stand at place: who enters connect() is behind all that are in it,
\* and who leaves it is before nobody any more
Turns(place) ==
    [p \in Procs |-> CASE p \notin Queue(place) -> {}
                      [] p \in Queue(place) \cap Queue(pc) -> lock[p] \cap Queue(place)
                      [] p \in Queue(place) \ Queue(pc) -> Queue(place) \ {p}]

Init ==
    /\ conn = [writer |-> None, reader |-> None, gen |-> 0, ready |-> FALSE, closing |-> FALSE]
    /\ lock = [p \in Procs |-> {}]
    /\ pc = [p \in Procs |-> "idle"]
    /\ job = [p \in Procs |-> NoJob]
    /\ followed = {} /\ mixed = {} /\ desk = {}
    /\ rev = [t \in Threads |-> 0] /\ sent = rev
    /\ line = [t \in Threads |-> 1]
    /\ attempts = [t \in Threads |-> 0]
    /\ wire = [up |-> FALSE, out |-> <<>>, in |-> <<>>]
    /\ ops = 0 /\ faults = 0 /\ status = 0

-----------------------------------------------------------------------------
(* Sending. *)

Connected == conn.ready /\ conn.writer # None

Alive(p) == pc[p] \notin Idle

Frame(kind, t, n) == [kind |-> kind, t |-> t, n |-> n]

\* frames into the socket; a transport that is down swallows them
Wrote(frames) == [wire EXCEPT !.out = IF wire.up THEN @ \o frames ELSE @]

\* what a coroutine sends once it is connected
Wants(p, j) ==
    CASE p \in Readers \cup Resyncs -> <<Frame("follow", j.t, 0)>>
      [] j.op \in {"follow", "unfollow", "request"} -> <<Frame(j.op, j.t, j.n)>>
      [] OTHER -> <<>>

\* a coroutine that has ended has no call
Settled(place) == [p \in Procs |-> IF place[p] \in Idle THEN NoJob ELSE job[p]]

\* where it goes then
Sent(p, j) == CASE p \in Readers -> "reading" [] j.op = "request" -> "answer" [] OTHER -> "idle"

\* ... and with an error: the reader's loop ends (its finally clause follows), the reconnect loop
\* sleeps again unless there is nothing to do
Failed(p) ==
    CASE p \in Readers -> "cancelled"
      [] p = Reconnect /\ ~conn.closing /\ ~Connected -> "sleep"
      [] OTHER -> "idle"

\* a coroutine that is connected sends its frame behind the ones written already (before); a
\* follow and a resync note the thread afterwards. Without a transport it fails.
Emit(p, j, before, known, place) ==
    LET follows == p \in Resyncs \/ j.op = "follow"
    IN  /\ wire' = Wrote(before \o Wants(p, j))
        /\ pc' = [place EXCEPT ![p] = Sent(p, j)]
        /\ job' = [Settled(place) EXCEPT ![p] = IF Sent(p, j) = "answer" THEN j ELSE NoJob]
        /\ followed' = IF follows THEN known \cup {j.t} ELSE known

-----------------------------------------------------------------------------
(* The public calls. *)

\* t, when some other coroutine is on its way to tell Desktop the opposite
Overlapping(p, j) ==
    {t \in Threads : \E q \in Procs \ ({p} \cup Resyncs) :
        /\ Alive(q) /\ pc[q] # "reading" /\ j.t = t /\ job[q].t = t
        /\ \E m \in ToSet(Wants(p, j)), k \in ToSet(Wants(q, job[q])) :
              {m.kind, k.kind} = {"follow", "unfollow"}}

\* request_response(), broadcast(), set_following() up to their first await: when connected they
\* write at once, otherwise they wait for the connect lock. An unfollow forgets the thread first.
Begin(c, op, t) ==
    LET p == Call(c)
        j == [op |-> op, t |-> t, n |-> ops + 1]
        drop == op = "unfollow"
        known == IF drop THEN followed \ {t} ELSE followed
        place == IF drop THEN [pc EXCEPT ![Resync(t)] = "idle"] ELSE pc
    IN  /\ pc[p] = "idle" /\ op \in Ops \ {"disconnect"} /\ ops < MaxOps
        /\ ops' = ops + 1
        /\ mixed' = mixed \cup Overlapping(p, j)
        /\ rev' = IF drop THEN [rev EXCEPT ![t] = 0] ELSE rev
        /\ attempts' = IF drop THEN [attempts EXCEPT ![t] = 0] ELSE attempts
        /\ IF Connected
             THEN Emit(p, j, <<>>, known, place)
             ELSE /\ pc' = [place EXCEPT ![p] = "connect"]
                  /\ job' = [Settled(place) EXCEPT ![p] = j]
                  /\ followed' = known
                  /\ UNCHANGED wire
        /\ lock' = Turns(pc')
        /\ UNCHANGED <<conn, desktop, faults, status>>

\* the wait for an answer is over without one
RequestTimeout(c) ==
    /\ pc[Call(c)] = "answer"
    /\ pc' = [pc EXCEPT ![Call(c)] = "idle"]
    /\ job' = Settled(pc')
    /\ UNCHANGED <<conn, lock, followed, rev, attempts, wire, desktop, budget, history>>

-----------------------------------------------------------------------------
(* connect(). *)

Down == [up |-> FALSE, out |-> <<>>, in |-> <<>>]

\* a cancelled reader runs its finally clause, except when it is there already
Cancelled(place, g, p) ==
    IF g = None \/ Reader(g) = p \/ place[Reader(g)] \in Idle THEN place
    ELSE [place EXCEPT ![Reader(g)] = IF @ = "gather" THEN "done" ELSE "cancelled"]

\* some reader is still closing its transport: whoever cancelled it waits
Leaving == \E p \in Readers : pc[p] \in {"cancelled", "gather", "closing"}

\* _close_transport(cancel_reader=True) by p, up to the wait for the reader
Close(p, closing) ==
    conn' = [conn EXCEPT !.ready = FALSE, !.reader = None, !.writer = None, !.closing = closing]

\* the lock is free for p: somebody else may have connected meanwhile
Acquire(p) ==
    /\ pc[p] = "connect" /\ lock[p] = {}
    /\ IF Connected
         THEN /\ Emit(p, job[p], <<>>, followed, pc)
              /\ UNCHANGED conn
         ELSE /\ Close(p, FALSE)
              /\ pc' = [Cancelled(pc, conn.reader, p) EXCEPT ![p] = "opening"]
              /\ wire' = Down
              /\ UNCHANGED <<job, followed>>
    /\ lock' = Turns(pc')
    /\ UNCHANGED <<rev, attempts, desktop, budget, mixed>>

\* the socket is open: a generation begins, its reader starts, initialize is sent
Open(p) ==
    /\ pc[p] = "opening" /\ ~Leaving /\ conn.gen < MaxConnections
    /\ LET g == conn.gen + 1
       IN  /\ conn' = [conn EXCEPT !.gen = g, !.writer = g, !.reader = g]
           /\ pc' = [pc EXCEPT ![p] = "init", ![Reader(g)] = "reading"]
    /\ wire' = [up |-> TRUE, out |-> <<Frame("init", None, 0)>>, in |-> <<>>]
    /\ desk' = {} /\ sent' = [t \in Threads |-> 0]
    /\ UNCHANGED <<lock, job, followed, rev, attempts, line, budget, history>>

\* Desktop refuses or does not answer
OpenRefused(p) ==
    /\ pc[p] = "opening" /\ ~Leaving /\ faults < MaxFaults
    /\ faults' = faults + 1
    /\ pc' = [pc EXCEPT ![p] = Failed(p)]
    /\ job' = Settled(pc')
    /\ lock' = Turns(pc')
    /\ UNCHANGED <<conn, followed, rev, attempts, wire, desktop, ops, status, history>>

Restored_Nothing == <<>>

\* _restore_following: the subscriptions of the last connection, asked for again
Restored == [i \in 1..Cardinality(followed) |-> Frame("follow", SetToSeq(followed)[i], 0)]

\* initialize is answered: ready, _restore_following, and on with what the caller wanted
Initialized(p) ==
    /\ pc[p] = "inited"
    /\ conn' = [conn EXCEPT !.ready = TRUE]
    /\ IF conn.writer # None
         THEN Emit(p, job[p], IF conn.closing THEN <<>> ELSE Restored, followed, pc)
         ELSE /\ pc' = [pc EXCEPT ![p] = IF p \in Readers THEN "cancelled" ELSE "idle"]
              /\ job' = Settled(pc')
              /\ UNCHANGED <<wire, followed>>
    /\ lock' = Turns(pc')
    /\ UNCHANGED <<rev, attempts, desktop, budget, mixed>>

InitializeTimeout_Never(p) == FALSE /\ UNCHANGED vars

\* initialize takes too long; without its reader it always does
InitializeTimeout(p) ==
    /\ pc[p] = "init"
    /\ IF pc[Reader(conn.gen)] = "reading" /\ wire.up
         THEN faults < MaxFaults /\ faults' = faults + 1
         ELSE faults' = faults
    /\ pc' = [pc EXCEPT ![p] = "initfail"]
    /\ UNCHANGED <<conn, lock, job, followed, rev, attempts, wire, desktop, ops, status, history>>

\* connect()'s except clause cancels the reader ...
InitializeFailed(p) ==
    /\ pc[p] = "initfail"
    /\ Close(p, conn.closing)
    /\ pc' = [Cancelled(pc, conn.reader, p) EXCEPT ![p] = "abandon"]
    /\ lock' = Turns(pc')
    /\ wire' = Down
    /\ UNCHANGED <<job, followed, rev, attempts, desktop, budget, history>>

\* ... and raises
ConnectFailed(p) ==
    /\ pc[p] = "abandon" /\ ~Leaving
    /\ pc' = [pc EXCEPT ![p] = Failed(p)]
    /\ job' = Settled(pc')
    /\ lock' = Turns(pc')
    /\ UNCHANGED <<conn, followed, rev, attempts, wire, desktop, budget, history>>

-----------------------------------------------------------------------------
(* The reader. *)

Gap_Silent(t, place) == pc' = place /\ UNCHANGED <<attempts, job>>

\* a revision gap: one resync at a time, no more than ResyncLimit without a snapshot
Gap(t, place) ==
    IF place[Resync(t)] = "idle" /\ attempts[t] < ResyncLimit
    THEN /\ attempts' = [attempts EXCEPT ![t] = @ + 1]
         /\ pc' = [place EXCEPT ![Resync(t)] = "sleep"]
         /\ job' = [job EXCEPT ![Resync(t)] = [op |-> "none", t |-> t, n |-> 0]]
    ELSE pc' = place /\ UNCHANGED <<attempts, job>>

\* _accept_state_change without cached states: a snapshot settles the thread, a patch must
\* continue the revision that is known
StateChange(m) ==
    \/ /\ m.kind = "snapshot"
       /\ rev' = [rev EXCEPT ![m.t] = m.n]
       /\ attempts' = [attempts EXCEPT ![m.t] = 0]
       /\ pc' = [pc EXCEPT ![Resync(m.t)] = "idle"]
       /\ lock' = Turns(pc')
       /\ job' = Settled(pc')
    \/ /\ m.kind = "patch"
       /\ IF rev[m.t] = m.n - 1
            THEN rev' = [rev EXCEPT ![m.t] = m.n] /\ UNCHANGED <<attempts, pc, job>>
            ELSE Gap(m.t, pc) /\ UNCHANGED rev
       /\ UNCHANGED lock

\* a response wakes the coroutine that waits for it, if it still does
Response(m) ==
    /\ m.kind \in {"inited", "answer"}
    /\ pc' = [p \in Procs |->
                CASE m.kind = "inited" /\ pc[p] = "init" -> "inited"
                  [] m.kind = "answer" /\ pc[p] = "answer" /\ job[p].n = m.n -> "idle"
                  [] OTHER -> pc[p]]
    /\ job' = Settled(pc')
    /\ UNCHANGED <<lock, rev, attempts>>

\* _reply_following_status: the reader itself sends, and so may itself have to connect
StatusRequested(g, m) ==
    /\ m.kind = "status"
    /\ IF m.t \in followed /\ ~Connected
         THEN /\ pc' = [pc EXCEPT ![Reader(g)] = "connect"]
              /\ job' = [job EXCEPT ![Reader(g)] = [op |-> "none", t |-> m.t, n |-> 0]]
              /\ lock' = Turns(pc')
         ELSE UNCHANGED <<pc, job, lock>>
    /\ UNCHANGED <<rev, attempts>>

Read(g) ==
    /\ pc[Reader(g)] = "reading" /\ g = conn.gen /\ ~conn.closing /\ wire.in # <<>>
    /\ LET m == Head(wire.in)
           reply == m.kind = "status" /\ m.t \in followed /\ Connected /\ wire.up
       IN  /\ StateChange(m) \/ Response(m) \/ StatusRequested(g, m)
           /\ wire' = [wire EXCEPT !.in = Tail(@),
                                   !.out = IF reply THEN Append(@, Frame("follow", m.t, 0)) ELSE @]
    /\ UNCHANGED <<conn, followed, desktop, budget, history>>

\* _transport_lost up to the wait for the resyncs it cancels, or else for the transport
Lost(g) ==
    LET waiting == {p \in Resyncs : Alive(p)}
    IN  /\ conn' = IF waiting # {} THEN [conn EXCEPT !.ready = FALSE]
                   ELSE [conn EXCEPT !.ready = FALSE, !.reader = None, !.writer = None]
        /\ wire' = IF waiting # {} THEN wire ELSE Down
        /\ pc' = [p \in Procs |-> CASE p = Reader(g) -> IF waiting # {} THEN "gather" ELSE "closing"
                                    [] p \in waiting -> "idle"
                                    [] OTHER -> pc[p]]
        /\ lock' = Turns(pc')
        /\ job' = Settled(pc')
        /\ UNCHANGED <<followed, rev, attempts, desktop, budget, history>>

ReaderEnds_Quietly(g) ==
    /\ \/ pc[Reader(g)] = "cancelled"
       \/ pc[Reader(g)] = "reading" /\ ~wire.up /\ wire.in = <<>>
    /\ pc' = [pc EXCEPT ![Reader(g)] = "done"]
    /\ UNCHANGED <<conn, lock, job, followed, rev, attempts, wire, desktop, budget, history>>

\* the loop's condition fails, the socket is at its end, or the reader was cancelled
ReaderEnds(g) ==
    LET p == Reader(g)
        current == g = conn.gen /\ ~conn.closing
    IN  /\ \/ pc[p] = "cancelled"
           \/ pc[p] = "reading" /\ (~current \/ (~wire.up /\ wire.in = <<>>))
        /\ IF current THEN Lost(g)
           ELSE /\ pc' = [pc EXCEPT ![p] = "done"]
                /\ UNCHANGED <<conn, lock, job, followed, rev, attempts, wire, desktop, budget, history>>

ResyncsCancelled(g) ==
    /\ pc[Reader(g)] = "gather"
    /\ conn' = [conn EXCEPT !.reader = None, !.writer = None]
    /\ wire' = Down
    /\ pc' = [pc EXCEPT ![Reader(g)] = "closing"]
    /\ UNCHANGED <<lock, job, followed, rev, attempts, desktop, budget, history>>

\* _fail_pending: whoever waits for an answer gets an error
FailPending(place) ==
    [p \in Procs |-> CASE place[p] = "answer" -> "idle" [] place[p] = "init" -> "initfail"
                       [] OTHER -> place[p]]

TransportClosed_Rests(g) ==
    /\ pc[Reader(g)] = "closing" /\ \A p \in Procs : pc[p] # "inited"
    /\ pc' = [FailPending(pc) EXCEPT ![Reader(g)] = "done"]
    /\ job' = Settled(pc')
    /\ UNCHANGED <<conn, lock, followed, rev, attempts, wire, desktop, budget, history>>

\* the end of _transport_lost, which starts the reconnect loop; a coroutine the last answer woke
\* has run meanwhile, since closing takes more than one turn of the event loop
TransportClosed(g) ==
    /\ pc[Reader(g)] = "closing" /\ \A p \in Procs : pc[p] # "inited"
    /\ pc' = [FailPending(pc) EXCEPT
                ![Reader(g)] = "done",
                ![Reconnect] = IF @ = "idle" /\ ~conn.closing /\ ~Connected THEN "sleep" ELSE @]
    /\ job' = Settled(pc')
    /\ UNCHANGED <<conn, lock, followed, rev, attempts, wire, desktop, budget, history>>

-----------------------------------------------------------------------------
(* Timers and disconnect(). *)

ReconnectWakes ==
    /\ pc[Reconnect] = "sleep"
    /\ pc' = [pc EXCEPT ![Reconnect] = "connect"]
    /\ lock' = Turns(pc')
    /\ UNCHANGED <<conn, job, followed, rev, attempts, wire, desktop, budget, history>>

ResyncWakes(t) ==
    LET p == Resync(t)
    IN  /\ pc[p] = "sleep"
        /\ CASE conn.closing -> /\ pc' = [pc EXCEPT ![p] = "idle"]
                                /\ job' = Settled(pc')
                                /\ UNCHANGED <<lock, followed, wire>>
             [] Connected /\ ~conn.closing -> /\ Emit(p, job[p], <<>>, followed, pc)
                                             /\ UNCHANGED lock
             [] OTHER -> /\ pc' = [pc EXCEPT ![p] = "connect"]
                         /\ lock' = Turns(pc')
                         /\ UNCHANGED <<job, followed, wire>>
        /\ UNCHANGED <<conn, rev, attempts, desktop, budget, mixed>>

\* disconnect() stops the reconnect loop and the reader ...
Disconnect(c) ==
    /\ pc[Call(c)] = "idle" /\ "disconnect" \in Ops /\ ops < MaxOps
    /\ ops' = ops + 1
    /\ Close(Call(c), TRUE)
    /\ pc' = [Cancelled(pc, conn.reader, Call(c)) EXCEPT ![Call(c)] = "dropping", ![Reconnect] = "idle"]
    /\ lock' = Turns(pc')
    /\ wire' = Down
    /\ UNCHANGED <<job, followed, rev, attempts, desktop, faults, status, history>>

\* ... then fails what is in flight and stops the resyncs
Disconnected(c) ==
    /\ pc[Call(c)] = "dropping" /\ ~Leaving
    /\ pc' = [p \in Procs |-> IF p = Call(c) \/ p \in Resyncs THEN "idle" ELSE FailPending(pc)[p]]
    /\ lock' = Turns(pc')
    /\ job' = Settled(pc')
    /\ UNCHANGED <<conn, followed, rev, attempts, wire, desktop, budget, history>>

-----------------------------------------------------------------------------
(* Codex Desktop. *)

Put(kind, t, n) == [wire EXCEPT !.in = Append(@, Frame(kind, t, n))]

\* it takes a frame, answers requests and sends a snapshot to a follower, which may be missing
DesktopFrame ==
    /\ wire.up /\ wire.out # <<>>
    /\ LET f == Head(wire.out)
           rest(w) == [w EXCEPT !.out = Tail(@)]
       IN  \/ /\ f.kind = "init" /\ wire' = rest(Put("inited", None, 0))
              /\ UNCHANGED <<desk, sent, faults>>
           \/ /\ f.kind = "request" /\ wire' = rest(Put("answer", f.t, f.n))
              /\ UNCHANGED <<desk, sent, faults>>
           \/ /\ f.kind = "unfollow" /\ wire' = rest(wire) /\ desk' = desk \ {f.t}
              /\ sent' = [sent EXCEPT ![f.t] = 0] /\ UNCHANGED faults
           \/ /\ f.kind = "follow" /\ desk' = desk \cup {f.t}
              /\ \/ /\ wire' = rest(Put("snapshot", f.t, line[f.t]))
                    /\ sent' = [sent EXCEPT ![f.t] = line[f.t]]
                    /\ UNCHANGED faults
                 \/ /\ faults < MaxFaults /\ faults' = faults + 1
                    /\ wire' = rest(wire) /\ UNCHANGED sent
    /\ UNCHANGED <<client, line, ops, status, history>>

\* a thread changes; its follower gets a patch
DesktopChange(t) ==
    /\ line[t] <= MaxChanges
    /\ line' = [line EXCEPT ![t] = @ + 1]
    /\ IF wire.up /\ t \in desk
         THEN wire' = Put("patch", t, line[t] + 1) /\ sent' = [sent EXCEPT ![t] = line[t] + 1]
         ELSE UNCHANGED <<wire, sent>>
    /\ UNCHANGED <<client, desk, budget, history>>

\* another client asks who follows the thread
DesktopStatus(t) ==
    /\ wire.up /\ status < MaxStatus
    /\ status' = status + 1
    /\ wire' = Put("status", t, 0)
    /\ UNCHANGED <<client, desktop, ops, faults, history>>

\* Desktop ends or restarts: what it has sent can still be read
DesktopGone ==
    /\ wire.up /\ faults < MaxFaults
    /\ faults' = faults + 1
    /\ wire' = [wire EXCEPT !.up = FALSE, !.out = <<>>]
    /\ UNCHANGED <<client, desktop, ops, status, history>>

-----------------------------------------------------------------------------
ConnectStep(p) ==
    \/ Acquire(p) \/ Open(p) \/ Initialized(p) \/ InitializeTimeout(p)
    \/ InitializeFailed(p) \/ ConnectFailed(p)

ReaderStep(g) == Read(g) \/ ReaderEnds(g) \/ ResyncsCancelled(g) \/ TransportClosed(g)

Next ==
    \/ \E c \in Calls :
          \/ \E op \in Ops, t \in Threads : Begin(c, op, t)
          \/ RequestTimeout(c) \/ Disconnect(c) \/ Disconnected(c)
    \/ \E p \in Procs : ConnectStep(p) \/ OpenRefused(p)
    \/ \E g \in 1..MaxConnections : ReaderStep(g)
    \/ ReconnectWakes
    \/ \E t \in Threads : ResyncWakes(t) \/ DesktopChange(t) \/ DesktopStatus(t)
    \/ DesktopFrame \/ DesktopGone

Spec == Init /\ [][Next]_vars

Fairness ==
    /\ \A c \in Calls : WF_vars(RequestTimeout(c)) /\ WF_vars(Disconnected(c))
    /\ \A p \in Procs : WF_vars(ConnectStep(p))
    /\ \A g \in 1..MaxConnections : WF_vars(ReaderStep(g))
    /\ WF_vars(ReconnectWakes) /\ WF_vars(DesktopFrame)
    /\ \A t \in Threads : WF_vars(ResyncWakes(t))

FairSpec == Spec /\ Fairness

-----------------------------------------------------------------------------
(* Properties. *)

\* Whoever sees the client connected finds it with a reader that runs: no caller can write into
\* a connection nobody reads, which no timeout of a request would ever repair.
ConnectedIsRead ==
    Connected => /\ conn.writer = conn.gen /\ conn.reader = conn.gen
                 /\ Alive(Reader(conn.gen))

\* nothing is under way
Quiet ==
    /\ Connected /\ wire.up /\ wire.in = <<>> /\ wire.out = <<>>
    /\ \A p \in Procs : Alive(p) => p = Reader(conn.gen)

\* At rest Desktop follows, on the connection there is now, the threads the client believes
\* followed: through lost connections, restored subscriptions, resyncs and status requests. A
\* follow and an unfollow of one thread that overlap are exempt.
FollowedByDesktop == Quiet => desk \ mixed = followed \ mixed

\* A gap is never taken for the current state: at rest either the revision is what Desktop sent
\* last, or a snapshot was asked for and did not come.
GapNoticed ==
    Quiet => \A t \in desk : rev[t] = sent[t] \/ attempts[t] > 0 \/ sent[t] = 0

\* Every call ends, though the reader may itself wait for the connection it reads from.
CallsEnd == \A c \in Calls : Alive(Call(c)) ~> ~Alive(Call(c))

\* Unless the client is closed, a lost connection is made anew without anybody calling.
Reconnects == []~conn.closing => ((conn.gen > 0 /\ ~Connected) ~> Connected)

=============================================================================
