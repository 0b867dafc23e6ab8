--------------------------- MODULE SessionFilesProofs ---------------------------
(***************************************************************************)
(* Proofs about SessionFiles for any number of servers, starts and events:  *)
(* one server of a name in tmux, a kill that ends what runs in tmux, and a  *)
(* running session that is found by its files.                              *)
(*                                                                          *)
(* The inductive invariant adds to the three properties that the tmux       *)
(* session of the name is that of the server in tmux which is running       *)
(* (TmuxNames), that two servers that run at once are both noted as such    *)
(* (RunningAlone), what the files say before the socket is there (Named),   *)
(* and that the histories hold launched servers only (Launched).            *)
(***************************************************************************)
EXTENDS SessionFiles, TLAPS

TmuxNames == \A v \in inTmux \cap Running : tmux = v

RunningAlone == \A u, v \in Running : u # v => u \in doubled /\ v \in doubled

Named ==
    \A v \in Servers \ (killed \cup doubled \cup swept) :
        /\ server[v] = "listens" => files = [sock |-> v, pid |-> v]
        /\ server[v] = "pid" => files = [sock |-> 0, pid |-> v]

Launched == \A v \in inTmux \cup killed : server[v] # "none"

IInv == TypeOK /\ TmuxNames /\ RunningAlone /\ Named /\ Launched /\ KilledInTmux

-----------------------------------------------------------------------------
LEMMA TypeInit == Init => TypeOK
BY ConstantsAssumption DEF Init, TypeOK, Servers, Phases, NoFiles

\* A hung up server is closing or has ended.
LEMMA HungUpPhase ==
    ASSUME TypeOK, NEW v \in Servers, server[v] \notin {"none", "ended"}
    PROVE  HungUp(v) \in {"closing", "ended"}
BY DEF TypeOK, HungUp, Alive, Phases, Servers

\* The files after the sessions were listed name launched servers.
LEMMA ListedType ==
    ASSUME TypeOK
    PROVE  /\ Listed \in [sock : Servers \cup {0}, pid : Servers \cup {0}]
           /\ \A v \in {Listed.sock, Listed.pid} \ {0} : server[v] # "none"
BY DEF TypeOK, Listed, NoFiles, Alive, Servers

LEMMA TypeStep == TypeOK /\ [Next]_vars => TypeOK'
<1> SUFFICES ASSUME TypeOK, [Next]_vars PROVE TypeOK'
  OBVIOUS
<1> USE DEF TypeOK, Phases, Servers, history
<1>1. CASE UNCHANGED vars
  BY <1>1 DEF vars
<1>2. ASSUME NEW i \in 1..MaxStarts, StartChecked(i) PROVE TypeOK'
  BY <1>2 DEF StartChecked
<1>3. ASSUME NEW s \in starts, Started(s) PROVE TypeOK'
  BY <1>3 DEF Started
<1>4. ASSUME NEW s \in starts, StartTimeout(s) PROVE TypeOK'
  <2>1. server' \in [Servers -> Phases] /\ \A v \in Servers : server[v] # "none" => server'[v] # "none"
    BY <1>4, HungUpPhase DEF StartTimeout
  <2>2. events' \in 0..MaxEvents
    BY <1>4, ConstantsAssumption DEF StartTimeout, Event
  <2> QED BY <1>4, <2>1, <2>2 DEF StartTimeout
<1>5. ASSUME NEW s \in starts, NEW v \in Servers, TmuxCreate(s, v) PROVE TypeOK'
  <2>1. CASE tmux # 0
    BY <1>5, <2>1 DEF TmuxCreate
  <2>2. CASE tmux = 0
    <3>1. [s EXCEPT !.at = "wait", !.server = v]
             \in [id : 1..MaxStarts, at : {"create", "wait"}, server : Servers \cup {0}]
      OBVIOUS
    <3>2. starts' \subseteq [id : 1..MaxStarts, at : {"create", "wait"}, server : Servers \cup {0}]
      BY <1>5, <2>2, <3>1, Zenon DEF TmuxCreate, TypeOK
    <3>3. server' \in [Servers -> Phases] /\ server'[v] = "boot"
          /\ \A w \in Servers : server[w] # "none" => server'[w] # "none"
      BY <1>5, <2>2 DEF TmuxCreate
    <3>4. doubled' \subseteq Servers
      BY <1>5, <2>2 DEF TmuxCreate, Running
    <3>5. /\ tmux' = v /\ inTmux' = inTmux \cup {v} /\ files' = files /\ lark' = lark
          /\ killed' = killed /\ swept' = swept /\ events' = events
      BY <1>5, <2>2 DEF TmuxCreate
    <3> HIDE DEF Phases
    <3> QED BY <3>2, <3>3, <3>4, <3>5
  <2> QED BY <2>1, <2>2
<1>6. ASSUME NEW v \in Servers, LarkStart(v) PROVE TypeOK'
  BY <1>6, ListedType DEF LarkStart, Fresh, Running
<1>7. ASSUME NEW v \in Servers, Boots(v) PROVE TypeOK'
  BY <1>7 DEF Boots
<1>8. ASSUME NEW v \in Servers, Listens(v) PROVE TypeOK'
  BY <1>8 DEF Listens
<1>9. ASSUME NEW v \in Servers, CliExits(v) PROVE TypeOK'
  BY <1>9, ConstantsAssumption DEF CliExits, Event
<1>10. ASSUME NEW v \in Servers, ShutDown(v) PROVE TypeOK'
  BY <1>10 DEF ShutDown, NoFiles, Running
<1>11. ASSUME NEW v \in Servers, Crash(v) PROVE TypeOK'
  BY <1>11, ConstantsAssumption DEF Crash, Event, Alive
<1>12. CASE LarkStarted
  BY <1>12 DEF LarkStarted
<1>13. CASE List
  BY <1>13, ListedType DEF List
<1>14. ASSUME Terminated, UNCHANGED <<inTmux, starts, lark, doubled, swept, events>> PROVE TypeOK'
  <2>1. server' \in [Servers -> Phases] /\ \A v \in Servers : server[v] # "none" => server'[v] # "none"
    BY <1>14, HungUpPhase DEF Terminated
  <2> QED BY <1>14, <2>1 DEF Terminated, NoFiles, Running
<1> QED
  BY <1>1, <1>2, <1>3, <1>4, <1>5, <1>6, <1>7, <1>8, <1>9, <1>10, <1>11, <1>12, <1>13, <1>14 DEF Next, CmdKill, LarkKill

-----------------------------------------------------------------------------
(* The parts of the invariant. *)

\* What a launch does to the running servers and to those noted as running at once.
Launches(v) ==
    /\ Fresh(v)
    /\ server' = [server EXCEPT ![v] = "boot"]
    /\ doubled' = IF Running = {} THEN doubled ELSE doubled \cup Running \cup {v}

\* Apart from a launch, no server begins to run, and no note is lost.
NoneLaunched == Running' \subseteq Running /\ doubled \subseteq doubled'

\* Killing the tmux session makes no server run, and ends the one that runs in it.
LEMMA HangUpStep ==
    ASSUME TypeOK, tmux # 0, server' = [server EXCEPT ![tmux] = HungUp(tmux)]
    PROVE  /\ Running' \subseteq Running /\ tmux \notin Running'
           /\ server'[tmux] \in {"closing", "ended"}
           /\ \A v \in Servers : v # tmux => server'[v] = server[v]
BY HungUpPhase DEF TypeOK, Running, Servers

\* The server a launch starts was launched by no one before.
LEMMA LaunchStep ==
    ASSUME TypeOK, NEW v \in Servers, Launches(v)
    PROVE  /\ v \notin Running /\ Running' = Running \cup {v} /\ doubled \subseteq doubled'
           /\ Running # {} => Running \cup {v} \subseteq doubled'
           /\ \A w \in Servers : w # v => server'[w] = server[w]
           /\ server'[v] = "boot" /\ server[v] = "none"
BY DEF TypeOK, Launches, Fresh, Running, Servers

\* Every step launches one server or none.
LEMMA LaunchOrNot ==
    ASSUME TypeOK, [Next]_vars
    PROVE  NoneLaunched \/ \E v \in Servers : Launches(v)
<1> USE DEF TypeOK, NoneLaunched, Running, Phases, history
<1>1. CASE UNCHANGED vars
  BY <1>1 DEF vars
<1>2. ASSUME NEW i \in 1..MaxStarts, StartChecked(i) PROVE NoneLaunched
  BY <1>2 DEF StartChecked
<1>3. ASSUME NEW s \in starts, Started(s) PROVE NoneLaunched
  BY <1>3 DEF Started
<1>4. ASSUME NEW s \in starts, StartTimeout(s) PROVE NoneLaunched
  <2>1. CASE tmux = 0
    BY <1>4, <2>1 DEF StartTimeout
  <2>2. CASE tmux # 0
    BY <1>4, <2>2, HangUpStep DEF StartTimeout
  <2> QED BY <2>1, <2>2
<1>5. ASSUME NEW s \in starts, NEW v \in Servers, TmuxCreate(s, v)
      PROVE  NoneLaunched \/ Launches(v)
  BY <1>5 DEF TmuxCreate, Launches
<1>6. ASSUME NEW v \in Servers, LarkStart(v) PROVE Launches(v)
  BY <1>6 DEF LarkStart, Launches
<1>7. ASSUME NEW v \in Servers, Boots(v) PROVE NoneLaunched
  BY <1>7 DEF Boots
<1>8. ASSUME NEW v \in Servers, Listens(v) PROVE NoneLaunched
  BY <1>8 DEF Listens
<1>9. ASSUME NEW v \in Servers, CliExits(v) \/ ShutDown(v) \/ Crash(v) PROVE NoneLaunched
  BY <1>9 DEF CliExits, ShutDown, Crash
<1>10. CASE LarkStarted \/ List
  BY <1>10 DEF LarkStarted, List
<1>11. ASSUME Terminated, UNCHANGED <<inTmux, starts, lark, doubled, swept, events>>
       PROVE NoneLaunched
  <2>1. CASE tmux = 0
    BY <1>11, <2>1 DEF Terminated
  <2>2. CASE tmux # 0
    BY <1>11, <2>2, HangUpStep DEF Terminated
  <2> QED BY <2>1, <2>2
<1> QED
  BY <1>1, <1>2, <1>3, <1>4, <1>5, <1>6, <1>7, <1>8, <1>9, <1>10, <1>11 DEF Next, CmdKill, LarkKill

LEMMA RunningAloneStep == TypeOK /\ RunningAlone /\ [Next]_vars => RunningAlone'
<1> SUFFICES ASSUME TypeOK, RunningAlone, [Next]_vars PROVE RunningAlone'
  OBVIOUS
<1>1. CASE NoneLaunched
  BY <1>1 DEF NoneLaunched, RunningAlone
<1>2. ASSUME NEW v \in Servers, Launches(v) PROVE RunningAlone'
  BY <1>2, LaunchStep DEF RunningAlone
<1> QED BY <1>1, <1>2, LaunchOrNot

\* The server that runs in tmux is the one its session names.
LEMMA TmuxNamesStep == TypeOK /\ Launched /\ TmuxNames /\ [Next]_vars => TmuxNames'
<1> SUFFICES ASSUME TypeOK, Launched, TmuxNames, [Next]_vars PROVE TmuxNames'
  OBVIOUS
<1> USE DEF TmuxNames, TypeOK, Running, Phases, history
<1>1. CASE UNCHANGED vars
  BY <1>1 DEF vars
<1>2. ASSUME NEW i \in 1..MaxStarts, StartChecked(i) PROVE TmuxNames'
  BY <1>2 DEF StartChecked
<1>3. ASSUME NEW s \in starts, Started(s) PROVE TmuxNames'
  BY <1>3 DEF Started
<1>4. ASSUME NEW s \in starts, StartTimeout(s) PROVE TmuxNames'
  <2>1. CASE tmux = 0
    BY <1>4, <2>1 DEF StartTimeout, Servers
  <2>2. CASE tmux # 0
    BY <1>4, <2>2, HangUpStep DEF StartTimeout
  <2> QED BY <2>1, <2>2
<1>5. ASSUME NEW s \in starts, NEW v \in Servers, TmuxCreate(s, v) PROVE TmuxNames'
  <2>1. CASE tmux # 0
    BY <1>5, <2>1 DEF TmuxCreate
  <2>2. CASE tmux = 0
    <3>1. /\ tmux' = v /\ inTmux' = inTmux \cup {v}
          /\ server' = [server EXCEPT ![v] = "boot"]
      BY <1>5, <2>2 DEF TmuxCreate
    <3>2. inTmux \cap Running = {}
      BY <2>2 DEF Servers
    <3> QED BY <3>1, <3>2 DEF Servers
  <2> QED BY <2>1, <2>2
<1>6. ASSUME NEW v \in Servers, LarkStart(v) PROVE TmuxNames'
  <2>1. server[v] = "none" /\ server' = [server EXCEPT ![v] = "boot"]
        /\ inTmux' = inTmux /\ tmux' = tmux
    BY <1>6 DEF LarkStart, Fresh
  <2> QED BY <2>1 DEF Launched
<1>7. ASSUME NEW v \in Servers, Boots(v) PROVE TmuxNames'
  BY <1>7 DEF Boots
<1>8. ASSUME NEW v \in Servers, Listens(v) PROVE TmuxNames'
  BY <1>8 DEF Listens
<1>9. ASSUME NEW v \in Servers, CliExits(v) \/ ShutDown(v) \/ Crash(v) PROVE TmuxNames'
  BY <1>9 DEF CliExits, ShutDown, Crash
<1>10. CASE LarkStarted \/ List
  BY <1>10 DEF LarkStarted, List
<1>11. ASSUME Terminated, UNCHANGED <<inTmux, starts, lark, doubled, swept, events>>
       PROVE TmuxNames'
  <2>1. CASE tmux = 0
    BY <1>11, <2>1 DEF Terminated, Servers
  <2>2. CASE tmux # 0
    BY <1>11, <2>2, HangUpStep DEF Terminated
  <2> QED BY <2>1, <2>2
<1> QED
  BY <1>1, <1>2, <1>3, <1>4, <1>5, <1>6, <1>7, <1>8, <1>9, <1>10, <1>11 DEF Next, CmdKill, LarkKill

\* Only launched servers are in tmux or have been killed.
LEMMA LaunchedStep == TypeOK /\ Launched /\ [Next]_vars => Launched'
<1> SUFFICES ASSUME TypeOK, Launched, [Next]_vars PROVE Launched'
  OBVIOUS
<1> USE DEF Launched, TypeOK, Running, Phases, history
<1>1. CASE UNCHANGED vars
  BY <1>1 DEF vars
<1>2. ASSUME NEW i \in 1..MaxStarts, StartChecked(i) PROVE Launched'
  BY <1>2 DEF StartChecked
<1>3. ASSUME NEW s \in starts, Started(s) PROVE Launched'
  BY <1>3 DEF Started
<1>4. ASSUME NEW s \in starts, StartTimeout(s) PROVE Launched'
  <2>1. CASE tmux = 0
    BY <1>4, <2>1 DEF StartTimeout
  <2>2. CASE tmux # 0
    BY <1>4, <2>2, HangUpStep DEF StartTimeout
  <2> QED BY <2>1, <2>2
<1>5. ASSUME NEW s \in starts, NEW v \in Servers, TmuxCreate(s, v) PROVE Launched'
  BY <1>5 DEF TmuxCreate
<1>6. ASSUME NEW v \in Servers, LarkStart(v) PROVE Launched'
  BY <1>6 DEF LarkStart
<1>7. ASSUME NEW v \in Servers, Boots(v) PROVE Launched'
  BY <1>7 DEF Boots
<1>8. ASSUME NEW v \in Servers, Listens(v) PROVE Launched'
  BY <1>8 DEF Listens
<1>9. ASSUME NEW v \in Servers, CliExits(v) \/ ShutDown(v) \/ Crash(v) PROVE Launched'
  BY <1>9 DEF CliExits, ShutDown, Crash
<1>10. CASE LarkStarted \/ List
  BY <1>10 DEF LarkStarted, List
<1>11. ASSUME Terminated, UNCHANGED <<inTmux, starts, lark, doubled, swept, events>>
       PROVE Launched'
  <2>1. CASE tmux = 0
    BY <1>11, <2>1 DEF Terminated
  <2>2. CASE tmux # 0
    BY <1>11, <2>2, HangUpStep DEF Terminated
  <2> QED BY <2>1, <2>2
<1> QED
  BY <1>1, <1>2, <1>3, <1>4, <1>5, <1>6, <1>7, <1>8, <1>9, <1>10, <1>11 DEF Next, CmdKill, LarkKill

\* A killed server in tmux does not serve: the tmux session ended it, and no server
\* is launched twice.
LEMMA KilledStep == TypeOK /\ TmuxNames /\ Launched /\ KilledInTmux /\ [Next]_vars => KilledInTmux'
<1> SUFFICES ASSUME TypeOK, TmuxNames, Launched, KilledInTmux, [Next]_vars PROVE KilledInTmux'
  OBVIOUS
<1> USE DEF KilledInTmux, TypeOK, Phases, history
<1>1. CASE UNCHANGED vars
  BY <1>1 DEF vars
<1>2. ASSUME NEW i \in 1..MaxStarts, StartChecked(i) PROVE KilledInTmux'
  BY <1>2 DEF StartChecked
<1>3. ASSUME NEW s \in starts, Started(s) PROVE KilledInTmux'
  BY <1>3 DEF Started
<1>4. ASSUME NEW s \in starts, StartTimeout(s) PROVE KilledInTmux'
  <2>1. CASE tmux = 0
    BY <1>4, <2>1 DEF StartTimeout
  <2>2. CASE tmux # 0
    BY <1>4, <2>2, HangUpStep DEF StartTimeout
  <2> QED BY <2>1, <2>2
<1>5. ASSUME NEW s \in starts, NEW v \in Servers, TmuxCreate(s, v) PROVE KilledInTmux'
  BY <1>5 DEF TmuxCreate, Fresh, Launched
<1>6. ASSUME NEW v \in Servers, LarkStart(v) PROVE KilledInTmux'
  BY <1>6 DEF LarkStart, Fresh, Launched
<1>7. ASSUME NEW v \in Servers, Boots(v) PROVE KilledInTmux'
  BY <1>7 DEF Boots
<1>8. ASSUME NEW v \in Servers, Listens(v) PROVE KilledInTmux'
  BY <1>8 DEF Listens
<1>9. ASSUME NEW v \in Servers, CliExits(v) \/ ShutDown(v) \/ Crash(v) PROVE KilledInTmux'
  BY <1>9 DEF CliExits, ShutDown, Crash
<1>10. CASE LarkStarted \/ List
  BY <1>10 DEF LarkStarted, List
<1>11. ASSUME Terminated, UNCHANGED <<inTmux, starts, lark, doubled, swept, events>>
       PROVE KilledInTmux'
  <2>1. \A v \in (killed' \ killed) \cap inTmux : v = tmux /\ tmux # 0
    BY <1>11 DEF Terminated, TmuxNames, Running, Servers
  <2>2. CASE tmux = 0
    BY <1>11, <2>1, <2>2 DEF Terminated
  <2>3. CASE tmux # 0
    BY <1>11, <2>1, <2>3, HangUpStep DEF Terminated
  <2> QED BY <2>2, <2>3
<1> QED
  BY <1>1, <1>2, <1>3, <1>4, <1>5, <1>6, <1>7, <1>8, <1>9, <1>10, <1>11 DEF Next, CmdKill, LarkKill

\* What the files say of a server that starts or runs, unless it was killed, ran with
\* another one or lost its files to the end of one.
LEMMA NamedStep == TypeOK /\ RunningAlone /\ Named /\ [Next]_vars => Named'
<1> SUFFICES ASSUME TypeOK, RunningAlone, Named, [Next]_vars PROVE Named'
  OBVIOUS
<1> USE DEF Named, TypeOK, Running, Phases, history
<1>1. CASE UNCHANGED vars
  BY <1>1 DEF vars
<1>2. ASSUME NEW i \in 1..MaxStarts, StartChecked(i) PROVE Named'
  BY <1>2 DEF StartChecked
<1>3. ASSUME NEW s \in starts, Started(s) PROVE Named'
  BY <1>3 DEF Started
<1>4. ASSUME NEW s \in starts, StartTimeout(s) PROVE Named'
  <2>1. CASE tmux = 0
    BY <1>4, <2>1 DEF StartTimeout
  <2>2. CASE tmux # 0
    BY <1>4, <2>2, HangUpStep DEF StartTimeout
  <2> QED BY <2>1, <2>2
<1>5. ASSUME NEW s \in starts, NEW v \in Servers, TmuxCreate(s, v) PROVE Named'
  BY <1>5 DEF TmuxCreate
<1>6. ASSUME NEW v \in Servers, LarkStart(v) PROVE Named'
  BY <1>6 DEF LarkStart, Fresh, Listed, Alive, NoFiles
<1>7. ASSUME NEW v \in Servers, Boots(v) PROVE Named'
  BY <1>7 DEF Boots, RunningAlone
<1>8. ASSUME NEW v \in Servers, Listens(v) PROVE Named'
  BY <1>8 DEF Listens, RunningAlone
<1>9. ASSUME NEW v \in Servers, CliExits(v) \/ Crash(v) PROVE Named'
  <2>1. /\ server' = [server EXCEPT ![v] = "closing"] \/ server' = [server EXCEPT ![v] = "ended"]
        /\ files' = files /\ killed' = killed /\ doubled' = doubled /\ swept' = swept
    BY <1>9 DEF CliExits, Crash
  <2> QED BY <2>1
<1>10. ASSUME NEW v \in Servers, ShutDown(v) PROVE Named'
  BY <1>10 DEF ShutDown
<1>11. CASE LarkStarted \/ List
  <2>1. /\ UNCHANGED <<server, killed, doubled, swept>>
        /\ files' # files => List
    BY <1>11 DEF LarkStarted, List
  <2>2. ASSUME List, NEW w \in Servers, server[w] \in {"pid", "listens"}, files.pid = w
        PROVE  files.sock # 0 => files' = files
    BY <2>2 DEF List, Listed, Alive, Servers
  <2>3. ASSUME List PROVE files.sock # 0
    BY <2>3 DEF List, Listed
  <2> QED BY <2>1, <2>2, <2>3
<1>12. ASSUME Terminated, UNCHANGED <<inTmux, starts, lark, doubled, swept, events>>
       PROVE Named'
  <2>1. CASE tmux = 0
    BY <1>12, <2>1 DEF Terminated
  <2>2. CASE tmux # 0
    BY <1>12, <2>2, HangUpStep DEF Terminated
  <2> QED BY <2>1, <2>2
<1> QED
  BY <1>1, <1>2, <1>3, <1>4, <1>5, <1>6, <1>7, <1>8, <1>9, <1>10, <1>11, <1>12 DEF Next, CmdKill, LarkKill

-----------------------------------------------------------------------------
(* The theorems. *)

LEMMA InvInit == Init => IInv
BY TypeInit DEF Init, IInv, TmuxNames, RunningAlone, Named, Launched, KilledInTmux, Running, Servers

LEMMA InvStep == IInv /\ [Next]_vars => IInv'
BY TypeStep, TmuxNamesStep, RunningAloneStep, NamedStep, LaunchedStep, KilledStep DEF IInv

LEMMA Inductive == Spec => []IInv
BY InvInit, InvStep, PTL DEF Spec

\* Files, tmux and the commands keep to servers that were launched: the type invariant
\* of the model of remote_claude.py and server.py.
THEOREM TypeCorrect == Spec => []TypeOK
BY Inductive, PTL DEF IInv

\* However many starts there are, one server of a name runs in tmux (utils/session.py:
\* tmux takes a name once).
THEOREM OneServerInTmux == Spec => []OneInTmux
<1>1. IInv => OneInTmux
  BY DEF IInv, TmuxNames, OneInTmux
<1> QED BY <1>1, Inductive, PTL

\* A server that listens is the one the .sock and .pid files name, unless it was
\* killed, ran with another one, or an earlier one ended late (server.py _start_pty,
\* start, _shutdown).
THEOREM RunningIsFound == Spec => []Found
<1>1. IInv => Found
  BY DEF IInv, Named, Found
<1> QED BY <1>1, Inductive, PTL

\* No server that was killed in tmux serves (remote_claude.py cmd_kill).
THEOREM KilledInTmuxEnds == Spec => []KilledInTmux
<1>1. IInv => KilledInTmux
  BY DEF IInv
<1> QED BY <1>1, Inductive, PTL
=============================================================================
