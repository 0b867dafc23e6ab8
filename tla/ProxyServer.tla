------------------------------ MODULE ProxyServer ------------------------------
(***************************************************************************)
(* The server of a CLI session: it reads the terminal of the CLI, keeps a   *)
(* history, sends output to the clients and input of one client to the CLI   *)
(* and the other clients (server/server.py ProxyServer, client/client.py,    *)
(* lark_client/session_bridge.py as clients).  The watcher of the screen,   *)
(* which is fed each chunk as it is read, and the sizes clients set are in  *)
(* module OutputWatcher.                                                    *)
(*                                                                          *)
(* The server's tasks share one event loop.  Output is numbered in chunks.  *)
(* A client takes what was written to it at its own pace; a task that       *)
(* writes to one which has more than Water items waiting goes on when it    *)
(* has fewer, or is gone.                                                   *)
(***************************************************************************)
EXTENDS Naturals, Sequences, SequencesExt, FiniteSets

CONSTANTS Clients,
          Water,         \* items a client may have waiting before a writer waits
          MaxHistory,    \* chunks the history holds
          MaxChunks,     \* bound: chunks the CLI writes
          MaxInputs,     \* bound: inputs of the clients
          Events,        \* subset of AllEvents
          MaxEvents      \* bound: how many

\* a client leaves, or stops reading; the server gets a signal
AllEvents == {"leave", "hang", "signal"}

ASSUME ServerAssumption ==
    /\ Water \in Nat \ {0} /\ MaxHistory \in Nat \ {0} /\ MaxChunks \in Nat
    /\ MaxInputs \in Nat /\ MaxEvents \in Nat /\ Events \subseteq AllEvents

VARIABLES
    cli,       \* chunks the CLI has written, and whether it has exited
    read,      \* chunks the server has read
    history,   \* the last chunks
    clients,   \* self.clients
    conn,      \* client -> "none", "open", "gone" (its end of the connection)
    sent,      \* client -> chunks written to it
    told,      \* client -> inputs of others written to it
    taken,     \* client -> items of both it has read
    chunk,     \* the chunks of the current broadcast
    sends,     \* its send tasks that have not run
    draining,  \* those that wait for their client
    handler,   \* client -> "none", "history", "reading", "echo", "over"
    left,      \* client -> those its input is still to be told to
    at,        \* client -> the one its handler waits for, or itself
    inbox,     \* client -> keys not read
    keys,      \* history: who typed the keys written to the CLI
    serving,   \* running, and not shut down
    hung,      \* history: clients that read no more
    used       \* events and inputs so far

net == <<clients, conn, sent, told, taken, chunk, sends, draining, handler, left, at, inbox, keys>>
vars == <<cli, read, history, net, serving, hung, used>>

Init ==
    /\ cli = [wrote |-> 0, exited |-> FALSE] /\ read = 0 /\ history = <<>>
    /\ clients = {} /\ conn = [c \in Clients |-> "none"]
    /\ sent = [c \in Clients |-> <<>>] /\ told = [c \in Clients |-> <<>>]
    /\ taken = [c \in Clients |-> 0]
    /\ chunk = <<>> /\ sends = {} /\ draining = {}
    /\ handler = [c \in Clients |-> "none"] /\ left = [c \in Clients |-> {}]
    /\ at = [c \in Clients |-> c] /\ inbox = [c \in Clients |-> 0] /\ keys = <<>>
    /\ serving = TRUE /\ hung = {}
    /\ used = [events |-> 0, inputs |-> 0]

Event(what) ==
    /\ what \in Events /\ used.events < MaxEvents
    /\ used' = [used EXCEPT !.events = @ + 1]

Waiting(c) == Len(sent[c]) + Len(told[c]) - taken[c]

\* variant: a writer also waits for a client that is gone
Blocked_ByGone(c) == Waiting(c) > Water

Blocked(c) == conn[c] = "open" /\ Waiting(c) > Water

-----------------------------------------------------------------------------
(* The CLI. *)

CliWrites ==
    /\ ~cli.exited /\ cli.wrote < MaxChunks
    /\ cli' = [cli EXCEPT !.wrote = @ + 1]
    /\ UNCHANGED <<read, history, net, serving, hung, used>>

CliExits ==
    /\ ~cli.exited
    /\ cli' = [cli EXCEPT !.exited = TRUE]
    /\ UNCHANGED <<read, history, net, serving, hung, used>>

-----------------------------------------------------------------------------
(* Output. *)

\* variant: a full history keeps its oldest chunks
Remembered_First(chunks) == SubSeq(history \o chunks, 1, MaxHistory)

Remembered(chunks) ==
    LET all == history \o chunks
    IN  SubSeq(all, IF Len(all) > MaxHistory THEN Len(all) - MaxHistory + 1 ELSE 1, Len(all))

Chunks(k) == [i \in 1..k |-> read + i]

\* _read_pty and _broadcast_output: what there is goes as one to the history, the
\* watcher and the clients of this moment
ReadPty ==
    /\ serving /\ sends = {} /\ draining = {}
    /\ \E k \in 1..(cli.wrote - read) :
        /\ read' = read + k
        /\ history' = Remembered(Chunks(k))
        /\ sends' = clients
        /\ chunk' = IF clients = {} THEN <<>> ELSE Chunks(k)
    /\ UNCHANGED <<cli, clients, conn, sent, told, taken, draining, handler, left, at, inbox,
                   keys, serving, hung, used>>

\* ClientConnection.send, in a task of its own
SendOutput(c) ==
    /\ serving /\ c \in sends
    /\ sends' = sends \ {c} /\ draining' = draining \cup {c}
    /\ sent' = IF conn[c] = "open" THEN [sent EXCEPT ![c] = @ \o chunk] ELSE sent
    /\ UNCHANGED <<cli, read, history, clients, conn, told, taken, chunk, handler,
                   left, at, inbox, keys, serving, hung, used>>

Drained(c) ==
    /\ serving /\ c \in draining /\ ~Blocked(c)
    /\ draining' = draining \ {c}
    /\ chunk' = IF sends = {} /\ draining = {c} THEN <<>> ELSE chunk
    /\ UNCHANGED <<cli, read, history, clients, conn, sent, told, taken, sends,
                   handler, left, at, inbox, keys, serving, hung, used>>

-----------------------------------------------------------------------------
(* A client and its handler. *)

\* connect and run of the client, which may send before it is served
Connect(c) ==
    /\ serving /\ conn[c] = "none"
    /\ conn' = [conn EXCEPT ![c] = "open"]
    /\ UNCHANGED <<cli, read, history, clients, sent, told, taken, chunk, sends, draining,
                   handler, left, at, inbox, keys, serving, hung, used>>

\* _handle_client: the client is registered and is written the history
Join(c) ==
    /\ serving /\ conn[c] # "none" /\ handler[c] = "none"
    /\ clients' = clients \cup {c}
    /\ sent' = IF conn[c] = "open" THEN [sent EXCEPT ![c] = history] ELSE sent
    /\ handler' = [handler EXCEPT ![c] = "history"]
    /\ UNCHANGED <<cli, read, history, conn, told, taken, chunk, sends, draining, left, at,
                   inbox, keys, serving, hung, used>>

HistoryDrained(c) ==
    /\ serving /\ handler[c] = "history" /\ ~Blocked(c)
    /\ handler' = [handler EXCEPT ![c] = "reading"]
    /\ UNCHANGED <<cli, read, history, clients, conn, sent, told, taken, chunk, sends,
                   draining, left, at, inbox, keys, serving, hung, used>>

\* _send_input of the client
ClientSends(c) ==
    /\ conn[c] = "open" /\ used.inputs < MaxInputs
    /\ inbox' = [inbox EXCEPT ![c] = @ + 1]
    /\ used' = [used EXCEPT !.inputs = @ + 1]
    /\ UNCHANGED <<cli, read, history, clients, conn, sent, told, taken, chunk, sends,
                   draining, handler, left, at, keys, serving, hung>>

\* _handle_input: the CLI's terminal takes it, the others of this moment are told
HandleInput(c) ==
    /\ serving /\ handler[c] = "reading" /\ inbox[c] > 0
    /\ inbox' = [inbox EXCEPT ![c] = @ - 1]
    /\ keys' = Append(keys, c)
    /\ left' = [left EXCEPT ![c] = clients \ {c}]
    /\ handler' = [handler EXCEPT ![c] = "echo"]
    /\ UNCHANGED <<cli, read, history, clients, conn, sent, told, taken, chunk, sends,
                   draining, at, serving, hung, used>>

Input(c) == CHOOSE i \in DOMAIN keys : keys[i] = c /\ \A j \in DOMAIN keys : keys[j] = c => j <= i

\* one client after the other, each until it has taken enough
Echo(c) ==
    /\ serving /\ handler[c] = "echo" /\ ~Blocked(at[c])
    /\ IF left[c] = {}
       THEN /\ handler' = [handler EXCEPT ![c] = "reading"] /\ at' = [at EXCEPT ![c] = c]
            /\ UNCHANGED <<left, told>>
       ELSE \E p \in left[c] :
              /\ told' = IF conn[p] = "open" THEN [told EXCEPT ![p] = Append(@, Input(c))] ELSE told
              /\ left' = [left EXCEPT ![c] = @ \ {p}]
              /\ at' = [at EXCEPT ![c] = p] /\ UNCHANGED handler
    /\ UNCHANGED <<cli, read, history, clients, conn, sent, taken, chunk, sends,
                   draining, inbox, keys, serving, hung, used>>

\* the end of the connection, behind the client's last inputs
HandlerEnds(c) ==
    /\ serving /\ handler[c] = "reading" /\ conn[c] = "gone" /\ inbox[c] = 0
    /\ handler' = [handler EXCEPT ![c] = "over"]
    /\ clients' = clients \ {c}
    /\ UNCHANGED <<cli, read, history, conn, sent, told, taken, chunk, sends,
                   draining, left, at, inbox, keys, serving, hung, used>>

Take(c) ==
    /\ conn[c] = "open" /\ c \notin hung /\ Waiting(c) > 0
    /\ taken' = [taken EXCEPT ![c] = @ + 1]
    /\ UNCHANGED <<cli, read, history, clients, conn, sent, told, chunk, sends,
                   draining, handler, left, at, inbox, keys, serving, hung, used>>

\* Ctrl-D, a detach, or the server's end of the connection after all else was read
Leave(c) ==
    /\ conn[c] = "open" /\ c \notin hung
    /\ IF serving THEN Event("leave") ELSE Waiting(c) = 0 /\ UNCHANGED used
    /\ conn' = [conn EXCEPT ![c] = "gone"]
    /\ UNCHANGED <<cli, read, history, clients, sent, told, taken, chunk, sends,
                   draining, handler, left, at, inbox, keys, serving, hung>>

Hang(c) ==
    /\ conn[c] = "open" /\ c \notin hung
    /\ Event("hang")
    /\ hung' = hung \cup {c}
    /\ UNCHANGED <<cli, read, history, net, serving>>

-----------------------------------------------------------------------------
(* The end. *)

\* _shutdown: the connections and the terminal are closed (what still waits in the server
\* for a client may not get out before the process ends, so no property is about it)
Shutdown ==
    /\ serving' = FALSE /\ clients' = {}
    /\ cli' = [cli EXCEPT !.exited = TRUE]
    /\ chunk' = <<>> /\ sends' = {} /\ draining' = {}
    /\ UNCHANGED <<read, history, conn, sent, told, taken, handler, left, at, inbox, keys, hung>>

\* _read_pty finds the terminal closed, when it has read what was in it
PtyClosed ==
    /\ serving /\ cli.exited /\ read = cli.wrote /\ sends = {} /\ draining = {}
    /\ Shutdown /\ UNCHANGED used

Signal == serving /\ Event("signal") /\ Shutdown

ServerStep(c) ==
    \/ SendOutput(c) \/ Drained(c) \/ HistoryDrained(c) \/ HandleInput(c) \/ Echo(c)
    \/ HandlerEnds(c) \/ Join(c)

Next ==
    \/ CliWrites \/ CliExits \/ ReadPty \/ PtyClosed \/ Signal
    \/ \E c \in Clients :
         ServerStep(c) \/ Connect(c) \/ ClientSends(c) \/ Take(c) \/ Leave(c) \/ Hang(c)

Spec == Init /\ [][Next]_vars

\* The tasks of the event loop go on, and a client that is not hung reads.
FairSpec ==
    /\ Spec
    /\ WF_vars(ReadPty) /\ WF_vars(PtyClosed)
    /\ \A c \in Clients : WF_vars(ServerStep(c)) /\ WF_vars(Take(c))

-----------------------------------------------------------------------------
(* Properties. *)

\* A client that joins at any moment gets output without a gap and nothing twice: what
\* the history held, then every chunk broadcast since.
NoGap ==
    /\ \A c \in Clients : \A i \in 1..(Len(sent[c]) - 1) : sent[c][i + 1] = sent[c][i] + 1
    /\ \A c \in clients \ sends :
         conn[c] = "open" => (read = 0 \/ (sent[c] # <<>> /\ Last(sent[c]) = read))

\* In the end every client that reads has all of the output, whoever left meanwhile; if
\* one client hangs, nobody has (the broadcast waits for it).
EverythingReaches ==
    <>[](hung # {} \/ \A c \in Clients :
            conn[c] = "open" /\ serving => read = cli.wrote /\ Waiting(c) = 0)

\* When the CLI has exited the server ends, after it has read the last output.
ExitEnds == (cli.exited /\ serving) ~> (~serving \/ hung # {})
=============================================================================
