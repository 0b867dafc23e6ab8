------------------------------ MODULE SessionFiles ------------------------------
(***************************************************************************)
(* The server processes of one session name, the files they are found by,  *)
(* and the commands that start, list and kill them (remote_claude.py,       *)
(* lark_client/lark_handler.py, utils/session.py, server/server.py).        *)
(*                                                                          *)
(* Servers are numbered in the order they are launched.  The commands and   *)
(* the servers are processes of their own that share the directory of the   *)
(* files and tmux; the file operations of one call are one step, process    *)
(* numbers are not used again, and what goes through the socket is in       *)
(* module ProxyServer.                                                      *)
(***************************************************************************)
EXTENDS Naturals, FiniteSets

CONSTANTS MaxServers,    \* bound: servers launched
          MaxStarts,     \* bound: starts from the command line under way
          Starts,        \* who starts and kills: subset of {"terminal", "lark"}
          Kills,
          Events,        \* subset of AllEvents
          MaxEvents      \* bound: how many

\* a CLI exits, a server is killed without warning, a boot takes longer than the wait
AllEvents == {"exit", "crash", "slow"}

ASSUME ConstantsAssumption ==
    /\ MaxServers \in Nat /\ MaxStarts \in Nat /\ MaxEvents \in Nat
    /\ Starts \subseteq {"terminal", "lark"} /\ Kills \subseteq {"terminal", "lark"}
    /\ Events \subseteq AllEvents

Servers == 1..MaxServers

VARIABLES
    server,   \* server -> its phase
    inTmux,   \* servers that run in a tmux session
    tmux,     \* the server in the tmux session of this name, or 0
    files,    \* .sock and .pid: the server they are of, or 0
    starts,   \* cmd_start calls: "create" (checks passed), or "wait" for the server
    lark,     \* the server /start of Lark waits for, or 0 (_starting_sessions)
    killed,   \* history: servers of the session when it was killed
    doubled,  \* history: servers booted while another of the name was running
    swept,    \* history: servers whose files another one's shutdown removed
    events

history == <<killed, doubled, swept>>
vars == <<server, inTmux, tmux, files, starts, lark, history, events>>

Phases == {"none", "boot", "pid", "listens", "closing", "ended"}
Alive(v) == v # 0 /\ server[v] \notin {"none", "ended"}
NoFiles == [sock |-> 0, pid |-> 0]

TypeOK ==
    /\ server \in [Servers -> Phases] /\ inTmux \subseteq Servers
    /\ tmux \in Servers \cup {0} /\ (tmux # 0 => server[tmux] \notin {"none", "ended"})
    /\ files \in [sock : Servers \cup {0}, pid : Servers \cup {0}]
    /\ \A v \in {files.sock, files.pid} \ {0} : server[v] # "none"
    /\ lark \in Servers \cup {0} /\ (lark # 0 => server[lark] # "none")
    /\ starts \subseteq [id : 1..MaxStarts, at : {"create", "wait"}, server : Servers \cup {0}]
    /\ killed \subseteq Servers /\ doubled \subseteq Servers /\ swept \subseteq Servers
    /\ events \in 0..MaxEvents

Init ==
    /\ server = [v \in Servers |-> "none"] /\ inTmux = {} /\ tmux = 0
    /\ files = NoFiles
    /\ starts = {} /\ lark = 0
    /\ killed = {} /\ doubled = {} /\ swept = {} /\ events = 0

Event(what) == what \in Events /\ events < MaxEvents /\ events' = events + 1

Fresh(v) == server[v] = "none" /\ \A u \in Servers : u < v => server[u] # "none"
Running == {v \in Servers : server[v] \in {"boot", "pid", "listens"}}

\* is_session_active
Active == files.sock # 0 /\ Alive(files.pid)

-----------------------------------------------------------------------------
(* Starting a session. *)

\* remote-claude start: no session and no tmux session of the name is there
StartChecked(i) ==
    /\ "terminal" \in Starts /\ Cardinality(starts) < MaxStarts /\ i \notin {s.id : s \in starts}
    /\ ~Active /\ tmux = 0
    /\ starts' = starts \cup {[id |-> i, at |-> "create", server |-> 0]}
    /\ UNCHANGED <<server, inTmux, tmux, files, lark, history, events>>

\* variant: tmux takes a second session of the name
TmuxCreate_Any(s, v) ==
    /\ s \in starts /\ s.at = "create" /\ Fresh(v)
    /\ tmux' = v /\ inTmux' = inTmux \cup {v}
    /\ server' = [server EXCEPT ![v] = "boot"]
    /\ doubled' = IF Running = {} THEN doubled ELSE doubled \cup Running \cup {v}
    /\ starts' = (starts \ {s}) \cup {[s EXCEPT !.at = "wait", !.server = v]}
    /\ UNCHANGED <<files, lark, killed, swept, events>>

\* tmux new-session, which fails if the name is taken by then
TmuxCreate(s, v) ==
    /\ s \in starts /\ s.at = "create" /\ Fresh(v)
    /\ \/ /\ tmux # 0
          /\ starts' = starts \ {s} /\ UNCHANGED <<server, inTmux, tmux, doubled>>
       \/ /\ tmux = 0
          /\ tmux' = v /\ inTmux' = inTmux \cup {v}
          /\ server' = [server EXCEPT ![v] = "boot"]
          /\ doubled' = IF Running = {} THEN doubled ELSE doubled \cup Running \cup {v}
          /\ starts' = (starts \ {s}) \cup {[s EXCEPT !.at = "wait", !.server = v]}
    /\ UNCHANGED <<files, lark, killed, swept, events>>

\* a socket of the name is there, whoever listens: the terminal is connected
Started(s) ==
    /\ s \in starts /\ s.at = "wait" /\ files.sock # 0
    /\ starts' = starts \ {s}
    /\ UNCHANGED <<server, inTmux, tmux, files, lark, history, events>>

\* SIGHUP: a server that has not begun to serve ends, another one shuts down
HungUp(v) == IF server[v] = "boot" THEN "ended" ELSE IF Alive(v) THEN "closing" ELSE server[v]

\* none after 5 s: the tmux session is killed, whoever runs in it
StartTimeout(s) ==
    /\ s \in starts /\ s.at = "wait" /\ files.sock = 0
    /\ Event("slow")
    /\ starts' = starts \ {s}
    /\ IF tmux = 0 THEN UNCHANGED <<server, killed>>
       ELSE server' = [server EXCEPT ![tmux] = HungUp(tmux)] /\ killed' = killed \cup {tmux}
    /\ tmux' = 0
    /\ UNCHANGED <<inTmux, files, lark, doubled, swept>>

\* list_active_sessions: a socket whose process is gone, or that has none, is removed
Listed ==
    IF files.sock = 0 \/ Alive(files.pid) THEN files
    ELSE IF files.pid # 0 THEN NoFiles ELSE [files EXCEPT !.sock = 0]

List ==
    /\ Listed # files
    /\ files' = Listed
    /\ UNCHANGED <<server, inTmux, tmux, starts, lark, history, events>>

\* /start of Lark: the server is a process of its own, outside tmux
LarkStart(v) ==
    /\ "lark" \in Starts /\ lark = 0 /\ ~Active /\ Fresh(v)
    /\ files' = Listed
    /\ server' = [server EXCEPT ![v] = "boot"]
    /\ doubled' = IF Running = {} THEN doubled ELSE doubled \cup Running \cup {v}
    /\ lark' = v
    /\ UNCHANGED <<inTmux, tmux, starts, killed, swept, events>>

\* a socket of the name is there, or the server has ended, or 12 s have passed
LarkStarted ==
    /\ lark # 0
    /\ files.sock # 0 \/ server[lark] = "ended" \/ "slow" \in Events
    /\ lark' = 0
    /\ UNCHANGED <<server, inTmux, tmux, files, starts, history, events>>

-----------------------------------------------------------------------------
(* A server. *)

\* variant: the process number is not written
Boots_NoPid(v) ==
    /\ server[v] = "boot"
    /\ server' = [server EXCEPT ![v] = "pid"]
    /\ files' = [files EXCEPT !.sock = 0]
    /\ UNCHANGED <<inTmux, tmux, starts, lark, history, events>>

\* an old socket is removed, the CLI is started in its terminal, the number is written
Boots(v) ==
    /\ server[v] = "boot"
    /\ server' = [server EXCEPT ![v] = "pid"]
    /\ files' = [sock |-> 0, pid |-> v]
    /\ UNCHANGED <<inTmux, tmux, starts, lark, history, events>>

Listens(v) ==
    /\ server[v] = "pid"
    /\ server' = [server EXCEPT ![v] = "listens"]
    /\ files' = [files EXCEPT !.sock = v]
    /\ UNCHANGED <<inTmux, tmux, starts, lark, history, events>>

\* the terminal of the CLI is closed
CliExits(v) ==
    /\ server[v] = "listens"
    /\ Event("exit")
    /\ server' = [server EXCEPT ![v] = "closing"]
    /\ UNCHANGED <<inTmux, tmux, files, starts, lark, history>>

\* _shutdown once the clients are gone: the files of the name are removed
ShutDown(v) ==
    /\ server[v] = "closing"
    /\ server' = [server EXCEPT ![v] = "ended"]
    /\ tmux' = IF tmux = v THEN 0 ELSE tmux
    /\ files' = NoFiles
    /\ swept' = swept \cup ((Running \cap {files.sock, files.pid}) \ {v})
    /\ UNCHANGED <<inTmux, starts, lark, killed, doubled, events>>

Crash(v) ==
    /\ Alive(v)
    /\ Event("crash")
    /\ server' = [server EXCEPT ![v] = "ended"]
    /\ tmux' = IF tmux = v THEN 0 ELSE tmux
    /\ UNCHANGED <<inTmux, files, starts, lark, history>>

-----------------------------------------------------------------------------
(* Killing a session. *)

\* variant: tmux is left alone
Terminated_NoTmux ==
    /\ UNCHANGED <<server, tmux>>
    /\ files' = NoFiles
    /\ killed' = killed \cup ({tmux, files.pid, files.sock} \cap Running)

\* the tmux session of the name is killed, and the files are removed
Terminated ==
    /\ server' = IF tmux = 0 THEN server ELSE [server EXCEPT ![tmux] = HungUp(tmux)]
    /\ tmux' = 0
    /\ files' = NoFiles
    /\ killed' = killed \cup ({tmux, files.pid, files.sock} \cap Running)

\* remote-claude kill
CmdKill ==
    /\ "terminal" \in Kills /\ (Active \/ tmux # 0)
    /\ Terminated
    /\ UNCHANGED <<inTmux, starts, lark, doubled, swept, events>>

\* /kill of Lark, for a session the list shows
LarkKill ==
    /\ "lark" \in Kills /\ Active
    /\ Terminated
    /\ UNCHANGED <<inTmux, starts, lark, doubled, swept, events>>

Next ==
    \/ \E i \in 1..MaxStarts : StartChecked(i)
    \/ \E s \in starts : Started(s) \/ StartTimeout(s) \/ \E v \in Servers : TmuxCreate(s, v)
    \/ \E v \in Servers :
         LarkStart(v) \/ Boots(v) \/ Listens(v) \/ CliExits(v) \/ ShutDown(v) \/ Crash(v)
    \/ LarkStarted \/ List \/ CmdKill \/ LarkKill

Spec == Init /\ [][Next]_vars

-----------------------------------------------------------------------------
(* Properties. *)

\* However many starts are given at once from terminals, one server of a name is
\* running in tmux.
OneInTmux == \A u, v \in inTmux \cap Running : u = v

\* A session that runs is listed and can be attached: its server is the one the
\* files name.  It loses them only if it is killed, if another server of the name is
\* launched while it runs, or by the late end of an earlier one.
Found ==
    \A v \in Servers \ (killed \cup doubled \cup swept) :
        server[v] = "listens" => files = [sock |-> v, pid |-> v]

\* A server in tmux that was killed does not serve any more.
KilledInTmux == \A v \in killed \cap inTmux : server[v] \in {"closing", "ended"}

=============================================================================
