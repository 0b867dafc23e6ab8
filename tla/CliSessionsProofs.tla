--------------------------- MODULE CliSessionsProofs ---------------------------
(***************************************************************************)
(* Safety of the handler's sessions for every number of chats, sessions,   *)
(* commands under way and events.  The argument: a command that takes a    *)
(* chat off is at its card or at its closing connection until it has       *)
(* cleared what the handler notes of the chat (Taking); whoever attaches   *)
(* the chat meanwhile crosses it, and no promise is made of the chat.      *)
(* Otherwise nobody attaches, so that the command finds the chat as it     *)
(* left it; and when no command takes the chat off, its records agree      *)
(* with the connection it has, if that is still open.                      *)
(***************************************************************************)
EXTENDS CliSessions, TLAPS

Chat0 == Chats \cup {None}
Sess0 == Sessions \cup {None}
Memories == [bridge : [Chats -> 0..MaxBridges], session : [Chats -> Sess0],
             stream : [Chats -> Sess0], bind : [Chats -> Sess0],
             groups : SUBSET Chats, starting : SUBSET Sessions]
Files == [bind : [Chats -> Sess0], groups : SUBSET Chats]
Wires == [chat : Chat0, sess : Sess0, end : {"none", "open", "adrift", "eof", "dead"}]
Live == {"open", "adrift"}

Kinds == {None, "attach", "detach", "kill", "health", "lapse", "disband", "message"}
Places == {"free", "boot", "card", "close", "connect", "desk", "enter", "loop", "desktop"}
Reasons == {None, "attach", "start", "new group", "message", "health"}
Ops == [kind : Kinds, at : Places, chat : Chat0, sess : Sess0, bridge : 0..MaxBridges,
        why : Reasons, desk : BOOLEAN, todo : SUBSET Chats]

TypeOK ==
  /\ up \subseteq Sessions /\ boots \in [Sessions -> Int]
  /\ mem \in Memories /\ saved \in Files
  /\ wire \in [Bridges -> Wires] /\ op \in [Slots -> Ops]
  /\ desk \subseteq Chats /\ crossed \subseteq Chats /\ astray \subseteq Chats

\* What a command knows at each place.
PlaceOK(rec) ==
  /\ rec.at = "free" => rec.kind = None
  /\ rec.at = "enter" => rec.kind = "message"
  /\ rec.at = "desktop" => rec.kind = "detach"
  /\ rec.at \in {"boot", "connect", "desk"} => rec.kind = "attach"
  /\ rec.at = "card" => rec.kind \in {"attach", "detach", "kill"}
  /\ rec.at = "close" => rec.kind \in {"attach", "detach", "kill", "health", "lapse", "disband"}
  /\ rec.at \notin {"free", "loop"} => rec.chat \in Chats
  /\ rec.kind \in {"attach", "kill", "health", "lapse", "disband"} => rec.sess \in Sessions
  /\ rec.kind = "attach" => rec.why \in {"attach", "start", "new group", "message"}
  /\ rec.at \in {"connect", "desk"} => rec.bridge \in Bridges

\* The connection a command is making is nobody else's.
Making == {k \in Slots : op[k].at \in {"connect", "desk"}}
MakingOK(k) ==
  LET w == wire[op[k].bridge]
  IN  /\ op[k].at = "connect" => w.end = "none"
      /\ op[k].at = "desk" => w.end # "none" /\ w.chat = op[k].chat /\ w.sess = op[k].sess
      /\ \A j \in Busy \ {k} : op[j].bridge # op[k].bridge
      /\ \A c \in Chats : mem.bridge[c] # op[k].bridge

\* A connection that is not free has a chat and a session; one the handler has is of its chat.
WiresOK ==
  /\ \A b \in Bridges : wire[b].end # "none" => wire[b].chat \in Chats /\ wire[b].sess \in Sessions
  /\ \A c \in Chats : mem.bridge[c] # 0 =>
       wire[mem.bridge[c]].end # "none" /\ wire[mem.bridge[c]].chat = c

\* The commands that are taking a chat off.
Taking(c) == {k \in Slots : op[k].chat = c /\ op[k].at \in {"card", "close"}}

\* Those that leave the poller to their end have stopped it at their beginning.
Stopped(c) == \A k \in Taking(c) : op[k].kind \in {"attach", "lapse", "disband"} => mem.stream[c] = None

ChatOK(c) ==
  LET b == mem.bridge[c]
      w == wire[b]
  IN  /\ Stopped(c)
      /\ (\E k \in Taking(c) : op[k].at = "close") => b = 0
      /\ b # 0 => w.end \in Live \cup {"eof"}
      /\ b # 0 /\ w.end \in Live => mem.stream[c] \in {None, w.sess}
      /\ Taking(c) = {} /\ b = 0 => mem.session[c] = None /\ mem.stream[c] = None
      /\ Taking(c) = {} /\ b # 0 /\ w.end \in Live => mem.session[c] = w.sess /\ mem.stream[c] = w.sess
      /\ Taking(c) = {} /\ b # 0 /\ w.end = "open" => mem.bind[c] = w.sess

\* The files lag behind the memory while groups are disbanded with their session.
SavedOK == (\A k \in Slots : op[k].kind # "disband") => saved = Save(mem)

IInv ==
  /\ TypeOK
  /\ \A k \in Slots : PlaceOK(op[k])
  /\ \A k \in Making : MakingOK(k)
  /\ WiresOK
  /\ \A c \in Chats \ crossed : ChatOK(c)
  /\ astray \subseteq crossed
  /\ SavedOK


-----------------------------------------------------------------------------
(* What a step must do to keep the invariant. *)

\* Two memories say the same of the chats other than c.
Elsewhere(n, m, c) ==
  \A d \in Chats \ {c} : /\ n.bridge[d] = m.bridge[d] /\ n.session[d] = m.session[d]
                         /\ n.stream[d] = m.stream[d] /\ n.bind[d] = m.bind[d]

\* Slot k goes on with r, in whose hand is no connection another command makes.
Goes(k, r) ==
  /\ r \in Ops /\ PlaceOK(r) /\ op' = [op EXCEPT ![k] = r]
  /\ r.at # "desk"
  /\ r.at = "connect" => r.bridge \in Bridges \ Used
  /\ \/ r.bridge = 0
     \/ op[k].at # "free" /\ r.bridge = op[k].bridge
     \/ r.bridge \in Bridges \ Used
     \/ \E c \in Chats : r.bridge = mem.bridge[c]

\* What comes of the variables no promise is about.
RestOK ==
  /\ up' \subseteq Sessions /\ boots' \in [Sessions -> Int] /\ desk' \subseteq Chats
  /\ saved' \in Files

LEMMA NoWireType == NoWire \in Wires /\ NoWire.end = "none"
  BY DEF NoWire, Wires, Chat0, Sess0

LEMMA FreeType == Free \in Ops /\ PlaceOK(Free) /\ Free.at = "free" /\ Free.kind = None
  BY ConstantsAssumption DEF Free, Ops, Kinds, Places, Reasons, Chat0, Sess0, PlaceOK, None

LEMMA BridgesNotZero == Bridges = (0..MaxBridges) \ {0} /\ 0 \notin Bridges
  BY ConstantsAssumption DEF Bridges

\* A connection nobody uses is free, in no hand and in no record.
LEMMA UnusedFree ==
  ASSUME IInv, NEW b \in Bridges \ Used
  PROVE  /\ wire[b].end = "none"
         /\ \A k \in Busy : op[k].bridge # b
         /\ \A c \in Chats : mem.bridge[c] # b
<1>1. wire[b].end = "none" /\ \A k \in Busy : op[k].bridge # b
  BY DEF Used
<1>2. ASSUME NEW c \in Chats PROVE mem.bridge[c] # b
  BY <1>1, BridgesNotZero DEF IInv, WiresOK
<1> QED BY <1>1, <1>2

\* The commands that make a connection keep it to themselves.
LEMMA MakingStep ==
  ASSUME IInv, NEW k \in Slots, NEW r, Goes(k, r), mem' \in Memories,
         \A c \in Chats : mem'.bridge[c] \in {0, mem.bridge[c]},
         \A b \in Bridges : \/ wire'[b] = wire[b]
                            \/ \E c \in Chats : mem.bridge[c] = b /\ b # 0
  PROVE  \A j \in Making' : MakingOK(j)'
<1> SUFFICES ASSUME NEW j \in Making' PROVE MakingOK(j)'
  OBVIOUS
<1> DEFINE b == op'[j].bridge
<1>1. j \in Slots /\ op'[k] = r /\ \A i \in Slots \ {k} : op'[i] = op[i]
  BY DEF Making, Goes, IInv, TypeOK
<1>2. CASE j = k
  <2>1. r.at = "connect" /\ b = r.bridge /\ b \in Bridges \ Used
    BY <1>1, <1>2 DEF Making, Goes
  <2>2. /\ wire[b].end = "none" /\ \A i \in Busy : op[i].bridge # b
        /\ \A c \in Chats : mem.bridge[c] # b
    BY <2>1, UnusedFree
  <2>3. wire'[b] = wire[b]
    BY <2>1, <2>2
  <2>4. \A c \in Chats : mem'.bridge[c] # b
    BY <2>1, <2>2, BridgesNotZero
  <2>5. \A i \in Busy' \ {j} : op'[i].bridge # b
    BY <1>1, <1>2, <2>2 DEF Busy
  <2> QED BY <1>1, <1>2, <2>1, <2>2, <2>3, <2>4, <2>5 DEF MakingOK
<1>3. CASE j # k
  <2>1. j \in Making /\ op'[j] = op[j] /\ MakingOK(j) /\ j \in Busy
    BY <1>1, <1>3 DEF Making, IInv, Busy
  <2>2. b \in Bridges /\ b # 0
    <3>1. PlaceOK(op[j]) /\ op[j].at \in {"connect", "desk"}
      BY <2>1 DEF Making, IInv
    <3> QED BY <2>1, <3>1, BridgesNotZero DEF PlaceOK
  <2>3. \A c \in Chats : mem.bridge[c] # b /\ mem'.bridge[c] # b
    BY <2>1, <2>2 DEF MakingOK
  <2>4. wire'[b] = wire[b]
    BY <2>2, <2>3
  <2>5. r.bridge # b
    <3>1. op[k].at # "free" => op[k].bridge # b
      BY <1>3, <2>1 DEF MakingOK, Busy
    <3>2. r.bridge \in Bridges \ Used => r.bridge # b
      BY <2>1 DEF Used
    <3> QED BY <2>2, <2>3, <3>1, <3>2 DEF Goes
  <2>6. \A i \in Busy' \ {j} : op'[i].bridge # b
    <3> SUFFICES ASSUME NEW i \in Busy' \ {j} PROVE op'[i].bridge # b
      OBVIOUS
    <3>1. CASE i = k
      BY <1>1, <2>5, <3>1
    <3>2. CASE i # k
      BY <1>1, <2>1, <3>2 DEF Busy, MakingOK
    <3> QED BY <3>1, <3>2
  <2> QED BY <2>1, <2>3, <2>4, <2>6 DEF MakingOK
<1> QED BY <1>2, <1>3

\* A chat no command of the step is about is as it was.
LEMMA OthersOK ==
  ASSUME IInv, NEW d \in Chats, ChatOK(d), Taking(d)' = Taking(d),
         \A j \in Taking(d) : op'[j] = op[j],
         mem'.bridge[d] = mem.bridge[d], mem'.session[d] = mem.session[d],
         mem'.stream[d] = mem.stream[d], mem'.bind[d] = mem.bind[d],
         mem.bridge[d] # 0 => wire'[mem.bridge[d]] = wire[mem.bridge[d]]
  PROVE  ChatOK(d)'
<1>1. Stopped(d)'
  BY DEF ChatOK, Stopped
<1>2. (\E k \in Taking(d)' : op'[k].at = "close") => (\E k \in Taking(d) : op[k].at = "close")
  OBVIOUS
<1> QED BY <1>1, <1>2 DEF ChatOK

\* A step of a command for chat c, whose connection it may close.
LEMMA ChatStep ==
  ASSUME IInv, NEW k \in Slots, NEW c \in Chats, NEW r, Goes(k, r), RestOK,
         mem' \in Memories, Elsewhere(mem', mem, c), mem'.bridge[c] \in {0, mem.bridge[c]},
         op[k].at \in {"card", "close"} => op[k].chat = c,
         r.at \in {"card", "close"} => r.chat = c,
         \/ wire' = wire
         \/ /\ mem.bridge[c] # 0 /\ mem'.bridge[c] = 0
            /\ wire' = [wire EXCEPT ![mem.bridge[c]] = NoWire],
         crossed' = crossed, astray' \subseteq crossed,
         c \notin crossed => ChatOK(c)',
         SavedOK'
  PROVE  IInv'
<1> DEFINE old == mem.bridge[c]
<1>1. old \in 0..MaxBridges /\ (old # 0 => old \in Bridges)
  BY BridgesNotZero DEF IInv, TypeOK, Memories
<1>2. TypeOK'
  <2>1. wire' \in [Bridges -> Wires]
    BY <1>1, NoWireType DEF IInv, TypeOK
  <2>2. op' \in [Slots -> Ops]
    BY DEF Goes, IInv, TypeOK
  <2> QED BY <2>1, <2>2 DEF IInv, TypeOK, RestOK
<1>3. \A j \in Slots : PlaceOK(op[j])'
  BY DEF Goes, IInv, TypeOK, PlaceOK
<1>4. \A j \in Making' : MakingOK(j)'
  <2>1. \A d \in Chats : mem'.bridge[d] \in {0, mem.bridge[d]}
    BY DEF Elsewhere
  <2>2. \A b \in Bridges : wire'[b] = wire[b] \/ \E d \in Chats : mem.bridge[d] = b /\ b # 0
    BY DEF IInv, TypeOK
  <2> QED BY <2>1, <2>2, MakingStep
<1>5. \A d \in Chats \ {c} : mem.bridge[d] # 0 =>
        mem.bridge[d] \in Bridges /\ wire'[mem.bridge[d]] = wire[mem.bridge[d]]
  BY BridgesNotZero DEF IInv, TypeOK, Memories, WiresOK
<1>6. WiresOK'
  <2>1. \A b \in Bridges : wire'[b].end # "none" => wire'[b] = wire[b]
    BY NoWireType DEF IInv, TypeOK
  <2>2. ASSUME NEW d \in Chats, mem'.bridge[d] # 0
        PROVE  wire'[mem'.bridge[d]].end # "none" /\ wire'[mem'.bridge[d]].chat = d
    <3>1. CASE d = c
      BY <2>2, <3>1 DEF IInv, WiresOK
    <3>2. CASE d # c
      BY <1>5, <2>2, <3>2 DEF IInv, WiresOK, Elsewhere
    <3> QED BY <3>1, <3>2
  <2> QED BY <2>1, <2>2 DEF IInv, WiresOK
<1>7. ASSUME NEW d \in Chats \ crossed PROVE ChatOK(d)'
  <2>1. CASE d = c
    BY <1>7, <2>1
  <2>2. CASE d # c
    <3>1. Taking(d)' = Taking(d) /\ \A j \in Taking(d) : op'[j] = op[j]
      BY <2>2 DEF Taking, Goes, IInv, TypeOK
    <3> QED BY <1>5, <1>7, <2>2, <3>1, OthersOK DEF Elsewhere, IInv
  <2> QED BY <2>1, <2>2
<1> QED BY <1>2, <1>3, <1>4, <1>6, <1>7 DEF IInv

\* A step of a command that leaves the records and the connections alone.
LEMMA OpStep ==
  ASSUME IInv, NEW k \in Slots, NEW r, Goes(k, r), RestOK, mem' \in Memories,
         mem'.bridge = mem.bridge, mem'.session = mem.session, mem'.stream = mem.stream,
         mem'.bind = mem.bind, wire' = wire,
         op[k].at \notin {"card", "close"}, r.at \notin {"card", "close"},
         crossed' = crossed, astray' \subseteq crossed, SavedOK'
  PROVE  IInv'
<1>1. op' \in [Slots -> Ops] /\ TypeOK'
  BY DEF Goes, IInv, TypeOK, RestOK
<1>2. \A j \in Slots : PlaceOK(op[j])'
  BY DEF Goes, IInv, TypeOK, PlaceOK
<1>3. \A j \in Making' : MakingOK(j)'
  BY MakingStep
<1>4. WiresOK'
  BY DEF IInv, WiresOK
<1>5. ASSUME NEW d \in Chats \ crossed PROVE ChatOK(d)'
  <2>1. Taking(d)' = Taking(d) /\ \A j \in Taking(d) : op'[j] = op[j]
    BY DEF Taking, Goes, IInv, TypeOK
  <2> QED BY <1>5, <2>1, OthersOK DEF IInv
<1> QED BY <1>1, <1>2, <1>3, <1>4, <1>5 DEF IInv


-----------------------------------------------------------------------------
(* Taking a chat off: Drop, After and Closed. *)

LEMMA UnboundMem ==
  ASSUME NEW m \in Memories, NEW c \in Chats, NEW force \in BOOLEAN
  PROVE  LET n == Unbound(m, c, force)
         IN  /\ n \in Memories /\ Elsewhere(n, m, c)
             /\ n.bridge = m.bridge /\ n.session = m.session /\ n.stream = m.stream
             /\ n.groups = m.groups
  BY DEF Unbound, Memories, Sess0, Elsewhere

LEMMA ClearedMem ==
  ASSUME NEW m \in Memories, NEW c \in Chats
  PROVE  LET n == Cleared(m, c)
         IN  /\ n \in Memories /\ Elsewhere(n, m, c)
             /\ n.session[c] = None /\ n.stream[c] = None
             /\ n.bridge = m.bridge /\ n.bind = m.bind /\ n.groups = m.groups
  BY DEF Cleared, Memories, Sess0, Elsewhere

LEMMA StoppedMem ==
  ASSUME NEW m \in Memories, NEW c \in Chats
  PROVE  LET n == [m EXCEPT !.stream[c] = None]
         IN  /\ n \in Memories /\ Elsewhere(n, m, c) /\ n.stream[c] = None
             /\ n.bridge = m.bridge /\ n.session = m.session /\ n.bind = m.bind
             /\ n.groups = m.groups
  BY DEF Memories, Sess0, Elsewhere

LEMMA ElsewhereTrans ==
  ASSUME NEW n, NEW m, NEW l, NEW c, Elsewhere(n, m, c), Elsewhere(m, l, c)
  PROVE  Elsewhere(n, l, c)
  BY DEF Elsewhere

\* The command of slot k, as rec, takes its chat off, with memory m.
TakesOff(k, m, rec) ==
  LET c == rec.chat
  IN  /\ m \in Memories /\ rec \in Ops /\ c \in Chats
      /\ rec.kind \in {"attach", "detach", "kill", "health", "lapse", "disband"}
      /\ rec.kind # "detach" => rec.sess \in Sessions
      /\ rec.kind = "attach" => rec.why \in {"attach", "start", "new group", "message"}
      /\ op[k].at \in {"card", "close"} => op[k].chat = c
      /\ rec.bridge = 0 \/ (op[k].at # "free" /\ rec.bridge = op[k].bridge)
      /\ m.bridge = mem.bridge /\ Elsewhere(m, mem, c)
      /\ m.stream[c] \in {None, mem.stream[c]}
      /\ c \notin crossed /\ rec.kind \in {"attach", "lapse", "disband"} => m.stream[c] = None

\* What it does once the connection is closed.
TakenOff(k, m, rec, r) ==
  LET c == rec.chat
  IN  /\ mem' \in Memories /\ Goes(k, r) /\ r.at \notin {"card", "close"}
      /\ Elsewhere(mem', m, c) /\ mem'.bridge = m.bridge /\ mem'.session[c] = None
      /\ mem'.stream[c] \in {None, m.stream[c]}
      /\ rec.kind \notin {"attach", "disband"} => mem'.stream[c] = None
      /\ rec.kind \in {"attach", "detach"} => mem'.groups = m.groups /\ mem'.bind = m.bind
      /\ r.kind # "disband" => mem'.groups = m.groups
      /\ rec.kind = "disband" => r.kind = "disband"
      /\ wire' = wire /\ crossed' = crossed

LEMMA AfterTakes ==
  ASSUME IInv, NEW k \in Slots, NEW m, NEW rec, TakesOff(k, m, rec), After(k, m, rec)
  PROVE  \E r : TakenOff(k, m, rec, r)
<1> DEFINE c == rec.chat
<1>1. /\ m \in Memories /\ rec \in Ops /\ c \in Chats
      /\ rec.bridge = 0 \/ (op[k].at # "free" /\ rec.bridge = op[k].bridge)
      /\ wire' = wire /\ crossed' = crossed
  BY DEF TakesOff, After
<1>2. ASSUME rec.kind = "attach", mem' = [m EXCEPT !.session[c] = None],
             NEW b \in Bridges \ Used, Keeps(k, [rec EXCEPT !.at = "connect", !.bridge = b])
      PROVE  \E r : TakenOff(k, m, rec, r)
  <2> DEFINE r == [rec EXCEPT !.at = "connect", !.bridge = b]
  <2>1. r \in Ops /\ PlaceOK(r) /\ r.at = "connect" /\ r.bridge = b /\ r.kind = "attach"
    BY <1>1, <1>2, BridgesNotZero DEF Ops, Places, PlaceOK, TakesOff
  <2>2. Goes(k, r)
    BY <1>2, <2>1 DEF Goes, Keeps
  <2>3. /\ mem' \in Memories /\ Elsewhere(mem', m, c) /\ mem'.bridge = m.bridge
        /\ mem'.session[c] = None /\ mem'.stream = m.stream /\ mem'.groups = m.groups
        /\ mem'.bind = m.bind
    BY <1>1, <1>2 DEF Memories, Sess0, Elsewhere
  <2>4. TakenOff(k, m, rec, r)
    BY <1>1, <1>2, <2>1, <2>2, <2>3 DEF TakenOff
  <2> QED BY <2>4
<1>3. ASSUME rec.kind = "detach", mem' = Cleared(m, c), Ends(k)
      PROVE  \E r : TakenOff(k, m, rec, r)
  <2>1. Goes(k, Free)
    BY <1>3, FreeType DEF Goes, Keeps, Ends, Free
  <2>2. TakenOff(k, m, rec, Free)
    BY <1>1, <1>3, <2>1, ClearedMem, FreeType DEF TakenOff
  <2> QED BY <2>2
<1>4. ASSUME rec.kind \in {"kill", "health"}, mem' = Unbound(Cleared(m, c), c, TRUE),
             Keeps(k, [rec EXCEPT !.at = "loop", !.chat = None])
      PROVE  \E r : TakenOff(k, m, rec, r)
  <2> DEFINE r == [rec EXCEPT !.at = "loop", !.chat = None]
             n == Cleared(m, c)
  <2>1. /\ r \in Ops /\ PlaceOK(r) /\ r.at = "loop" /\ r.bridge = rec.bridge
        /\ r.kind = rec.kind
    BY <1>1, <1>4 DEF Ops, Places, PlaceOK, TakesOff, Chat0
  <2>2. Goes(k, r)
    BY <1>1, <1>4, <2>1 DEF Goes, Keeps
  <2>3. /\ n \in Memories /\ Elsewhere(n, m, c) /\ n.session[c] = None /\ n.stream[c] = None
        /\ n.bridge = m.bridge /\ n.groups = m.groups
    BY <1>1, ClearedMem
  <2>4. /\ mem' \in Memories /\ Elsewhere(mem', n, c) /\ mem'.bridge = n.bridge
        /\ mem'.session = n.session /\ mem'.stream = n.stream /\ mem'.groups = n.groups
    BY <1>1, <1>4, <2>3, UnboundMem
  <2>5. Elsewhere(mem', m, c)
    BY <2>3, <2>4, ElsewhereTrans
  <2>6. TakenOff(k, m, rec, r)
    BY <1>1, <1>4, <2>1, <2>2, <2>3, <2>4, <2>5 DEF TakenOff
  <2> QED BY <2>6
<1>5. ASSUME rec.kind = "lapse",
             mem' = [Unbound(Cleared(m, c), c, TRUE) EXCEPT !.groups = @ \ {c}],
             Keeps(k, [rec EXCEPT !.kind = "disband", !.at = "loop", !.chat = None,
                                  !.todo = mem'.groups])
      PROVE  \E r : TakenOff(k, m, rec, r)
  <2> DEFINE r == [rec EXCEPT !.kind = "disband", !.at = "loop", !.chat = None,
                              !.todo = mem'.groups]
             n == Cleared(m, c)
             u == Unbound(n, c, TRUE)
  <2>1. /\ n \in Memories /\ Elsewhere(n, m, c) /\ n.session[c] = None /\ n.stream[c] = None
        /\ n.bridge = m.bridge
    BY <1>1, ClearedMem
  <2>2. /\ u \in Memories /\ Elsewhere(u, n, c) /\ u.bridge = n.bridge
        /\ u.session = n.session /\ u.stream = n.stream
    BY <1>1, <2>1, UnboundMem
  <2>3. /\ mem' \in Memories /\ mem'.bridge = u.bridge /\ mem'.session = u.session
        /\ mem'.stream = u.stream /\ mem'.bind = u.bind /\ mem'.groups \subseteq Chats
    BY <1>5, <2>2 DEF Memories
  <2>4. Elsewhere(mem', m, c)
    BY <2>1, <2>2, <2>3 DEF Elsewhere
  <2>5. /\ r \in Ops /\ PlaceOK(r) /\ r.at = "loop" /\ r.bridge = rec.bridge
        /\ r.kind = "disband"
    BY <1>1, <1>5, <2>3 DEF Ops, Kinds, Places, PlaceOK, TakesOff, Chat0
  <2>6. Goes(k, r)
    BY <1>1, <1>5, <2>5 DEF Goes, Keeps
  <2>7. TakenOff(k, m, rec, r)
    BY <1>1, <1>5, <2>1, <2>2, <2>3, <2>4, <2>5, <2>6 DEF TakenOff
  <2> QED BY <2>7
<1>6. ASSUME rec.kind = "disband", mem' = [m EXCEPT !.session[c] = None],
             Keeps(k, [rec EXCEPT !.at = "loop", !.chat = None])
      PROVE  \E r : TakenOff(k, m, rec, r)
  <2> DEFINE r == [rec EXCEPT !.at = "loop", !.chat = None]
  <2>1. /\ r \in Ops /\ PlaceOK(r) /\ r.at = "loop" /\ r.bridge = rec.bridge
        /\ r.kind = "disband"
    BY <1>1, <1>6 DEF Ops, Places, PlaceOK, TakesOff, Chat0
  <2>2. Goes(k, r)
    BY <1>1, <1>6, <2>1 DEF Goes, Keeps
  <2>3. /\ mem' \in Memories /\ Elsewhere(mem', m, c) /\ mem'.bridge = m.bridge
        /\ mem'.session[c] = None /\ mem'.stream = m.stream
    BY <1>1, <1>6 DEF Memories, Sess0, Elsewhere
  <2>4. TakenOff(k, m, rec, r)
    BY <1>1, <1>6, <2>1, <2>2, <2>3 DEF TakenOff
  <2> QED BY <2>4
<1> QED BY <1>2, <1>3, <1>4, <1>5, <1>6 DEF After

\* The files, after a step of a command that writes its bindings or will.
LEMMA WritesOK ==
  ASSUME IInv, NEW k \in Slots, NEW rec, NEW r, r \in Ops, op' = [op EXCEPT ![k] = r],
         mem' \in Memories, Writes(rec),
         op[k].kind = "disband" => r.kind = "disband",
         rec.kind = "disband" => r.kind = "disband",
         r.kind # "disband" => mem'.groups = mem.groups
  PROVE  saved' \in Files /\ SavedOK'
<1>1. saved' \in Files
  BY DEF Writes, IInv, TypeOK, Files, Memories
<1>2. ASSUME \A j \in Slots : op'[j].kind # "disband" PROVE saved' = Save(mem')
  <2>1. r.kind # "disband" /\ \A j \in Slots : op[j].kind # "disband"
    BY <1>2 DEF IInv, TypeOK
  <2>2. saved = Save(mem) /\ mem'.groups = mem.groups /\ rec.kind # "disband"
    BY <2>1 DEF IInv, SavedOK
  <2> QED BY <2>2 DEF Writes, Save
<1> QED BY <1>1, <1>2 DEF SavedOK

\* The chat whose connection is gone is cleared, or what takes it off goes on.
LEMMA TakenOffOK ==
  ASSUME IInv, NEW k \in Slots, NEW m, NEW rec, NEW r, TakesOff(k, m, rec),
         TakenOff(k, m, rec, r), RestOK, SavedOK', astray' \subseteq crossed,
         rec.chat \notin crossed => mem.bridge[rec.chat] = 0
  PROVE  IInv'
<1> DEFINE c == rec.chat
<1>1. /\ c \in Chats /\ mem'.bridge = mem.bridge /\ Elsewhere(mem', mem, c)
      /\ op' = [op EXCEPT ![k] = r] /\ r.at \notin {"card", "close"}
  BY ElsewhereTrans DEF TakesOff, TakenOff, Goes
<1>2. ASSUME c \notin crossed PROVE ChatOK(c)'
  <2>1. mem'.bridge[c] = 0 /\ mem'.session[c] = None
    BY <1>1, <1>2 DEF TakenOff
  <2>2. mem'.stream[c] = None
    BY <1>2 DEF TakesOff, TakenOff
  <2> QED BY <2>1, <2>2 DEF ChatOK, Stopped
<1> QED BY <1>1, <1>2, ChatStep DEF TakenOff, TakesOff

\* The connection of the chat is taken out and closes.
CloseBegins(k, m, rec) ==
  /\ m.bridge[rec.chat] # 0
  /\ mem' = [m EXCEPT !.bridge[rec.chat] = 0]
  /\ wire' = [wire EXCEPT ![m.bridge[rec.chat]] = NoWire]
  /\ op' = [op EXCEPT ![k] = [rec EXCEPT !.at = "close"]]
  /\ UNCHANGED crossed

LEMMA CloseMem ==
  ASSUME IInv, NEW k \in Slots, NEW m, NEW rec, TakesOff(k, m, rec), CloseBegins(k, m, rec)
  PROVE  LET c == rec.chat
             r == [rec EXCEPT !.at = "close"]
         IN  /\ mem' \in Memories /\ mem'.bridge[c] = 0 /\ Elsewhere(mem', m, c)
             /\ mem'.stream = m.stream /\ mem'.groups = m.groups /\ mem'.bind = m.bind
             /\ r \in Ops /\ r.at = "close" /\ r.kind = rec.kind /\ r.chat = c
             /\ r.bridge = rec.bridge /\ PlaceOK(r) /\ Goes(k, r)
<1> DEFINE c == rec.chat
           r == [rec EXCEPT !.at = "close"]
<1>1. m \in Memories /\ rec \in Ops /\ c \in Chats
  BY DEF TakesOff
<1>2. /\ mem' \in Memories /\ mem'.bridge[c] = 0 /\ Elsewhere(mem', m, c)
      /\ mem'.stream = m.stream /\ mem'.groups = m.groups /\ mem'.bind = m.bind
  BY <1>1, ConstantsAssumption DEF Memories, Elsewhere, CloseBegins
<1>3. /\ r \in Ops /\ r.at = "close" /\ r.kind = rec.kind /\ r.chat = c
      /\ r.bridge = rec.bridge /\ PlaceOK(r)
  BY <1>1 DEF Ops, Places, PlaceOK, TakesOff
<1>4. Goes(k, r)
  BY <1>3 DEF Goes, TakesOff, CloseBegins
<1> QED BY <1>2, <1>3, <1>4

LEMMA CloseIInv ==
  ASSUME IInv, NEW k \in Slots, NEW m, NEW rec, TakesOff(k, m, rec), CloseBegins(k, m, rec),
         RestOK, astray' = astray, SavedOK'
  PROVE  IInv'
<1> DEFINE c == rec.chat
           r == [rec EXCEPT !.at = "close"]
<1>1. m \in Memories /\ rec \in Ops /\ c \in Chats /\ m.bridge = mem.bridge
  BY DEF TakesOff
<1>2. /\ mem' \in Memories /\ mem'.bridge[c] = 0 /\ Elsewhere(mem', m, c)
      /\ mem'.stream = m.stream
  BY CloseMem
<1>3. /\ r \in Ops /\ r.at = "close" /\ r.kind = rec.kind /\ r.chat = c /\ Goes(k, r)
  BY CloseMem
<1>4. /\ op' = [op EXCEPT ![k] = r] /\ crossed' = crossed
      /\ wire' = [wire EXCEPT ![mem.bridge[c]] = NoWire] /\ mem.bridge[c] # 0
  BY <1>1 DEF CloseBegins
<1>5. Elsewhere(mem', mem, c)
  BY <1>2, ElsewhereTrans DEF TakesOff
<1>6. ASSUME c \notin crossed PROVE ChatOK(c)'
  <2>1. Stopped(c)'
    <3> SUFFICES ASSUME NEW j \in Taking(c)', op'[j].kind \in {"attach", "lapse", "disband"}
                 PROVE  mem'.stream[c] = None
      BY DEF Stopped
    <3>1. CASE j = k
      BY <1>2, <1>3, <1>4, <1>6, <3>1 DEF TakesOff, Taking, IInv, TypeOK
    <3>2. CASE j # k
      <4>1. j \in Taking(c) /\ op'[j] = op[j]
        BY <1>4, <3>2 DEF Taking, IInv, TypeOK
      <4>2. mem.stream[c] = None
        BY <1>1, <1>6, <4>1 DEF IInv, ChatOK, Stopped
      <4>3. m.stream[c] \in {None, mem.stream[c]}
        BY DEF TakesOff
      <4> QED BY <1>2, <4>2, <4>3
    <3> QED BY <3>1, <3>2
  <2>2. k \in Taking(c)'
    BY <1>3, <1>4 DEF Taking, IInv, TypeOK
  <2> QED BY <1>2, <2>1, <2>2 DEF ChatOK
<1>7. op[k].at \in {"card", "close"} => op[k].chat = c
  BY DEF TakesOff
<1>8. astray' \subseteq crossed
  BY DEF IInv
<1> QED BY <1>1, <1>2, <1>3, <1>4, <1>5, <1>6, <1>7, <1>8, ChatStep

LEMMA DropIInv ==
  ASSUME IInv, NEW k \in Slots, NEW m, NEW rec, TakesOff(k, m, rec), Drop(k, m, rec),
         up' \subseteq Sessions, boots' \in [Sessions -> Int], desk' \subseteq Chats,
         astray' = astray,
         op[k].kind = "disband" => rec.kind = "disband",
         rec.kind # "disband" => m.groups = mem.groups
  PROVE  IInv'
<1> DEFINE c == rec.chat
<1>1. m \in Memories /\ rec \in Ops /\ c \in Chats /\ m.bridge = mem.bridge /\ Writes(rec)
  BY DEF TakesOff, Drop
<1>2. CASE m.bridge[c] = 0
  <2>1. After(k, m, rec)
    BY <1>2 DEF Drop
  <2>2. PICK r : TakenOff(k, m, rec, r)
    BY <2>1, AfterTakes
  <2>3. /\ op' = [op EXCEPT ![k] = r] /\ mem' \in Memories /\ r \in Ops
        /\ rec.kind = "disband" => r.kind = "disband"
        /\ r.kind # "disband" => mem'.groups = mem.groups
    BY <2>2 DEF TakenOff, Goes
  <2>4. saved' \in Files /\ SavedOK'
    BY <1>1, <2>3, WritesOK
  <2> QED BY <1>1, <1>2, <2>2, <2>4, TakenOffOK DEF RestOK, IInv
<1>3. CASE m.bridge[c] # 0
  <2>1. CloseBegins(k, m, rec)
    BY <1>3 DEF Drop, Keeps, CloseBegins
  <2> DEFINE r == [rec EXCEPT !.at = "close"]
  <2>2. mem' \in Memories /\ mem'.groups = m.groups /\ r \in Ops /\ r.kind = rec.kind
    BY <2>1, CloseMem
  <2>3. op' = [op EXCEPT ![k] = r]
    BY <2>1 DEF CloseBegins
  <2>4. saved' \in Files /\ SavedOK'
    BY <1>1, <2>2, <2>3, WritesOK
  <2> QED BY <2>1, <2>4, CloseIInv DEF RestOK
<1> QED BY <1>2, <1>3

LEMMA ClosedIInv == ASSUME IInv, NEW k \in Slots, Closed(k) PROVE IInv'
<1> DEFINE rec == op[k]
           c == rec.chat
<1>1. /\ rec.at = "close" /\ rec \in Ops /\ c \in Chats /\ PlaceOK(rec) /\ mem \in Memories
      /\ After(k, mem, rec) /\ Writes(rec) /\ UNCHANGED <<up, boots, desk, astray>>
  BY DEF Closed, IInv, TypeOK, PlaceOK
<1>2. k \in Taking(c)
  BY <1>1 DEF Taking
<1>3. c \notin crossed => mem.bridge[c] = 0 /\ Stopped(c)
  BY <1>1, <1>2 DEF IInv, ChatOK
<1>4. TakesOff(k, mem, rec)
  <2>1. c \notin crossed /\ rec.kind \in {"attach", "lapse", "disband"} => mem.stream[c] = None
    BY <1>2, <1>3 DEF Stopped
  <2> QED BY <1>1, <2>1 DEF TakesOff, PlaceOK, Elsewhere
<1>5. PICK r : TakenOff(k, mem, rec, r)
  BY <1>1, <1>4, AfterTakes
<1>6. /\ op' = [op EXCEPT ![k] = r] /\ mem' \in Memories /\ r \in Ops
      /\ rec.kind = "disband" => r.kind = "disband"
      /\ r.kind # "disband" => mem'.groups = mem.groups
  BY <1>5 DEF TakenOff, Goes
<1>7. saved' \in Files /\ SavedOK'
  BY <1>1, <1>6, WritesOK
<1>8. RestOK /\ astray' \subseteq crossed
  BY <1>1, <1>7 DEF RestOK, IInv, TypeOK
<1> QED BY <1>3, <1>4, <1>5, <1>7, <1>8, TakenOffOK

\* The poller of the chat is stopped first and its card turned off.
LEMMA CardIInv ==
  ASSUME IInv, NEW k \in Slots, NEW r \in Ops, PlaceOK(r), r.at = "card",
         op[k].at \notin {"card", "close"}, r.kind # "disband", op[k].kind # "disband",
         r.bridge = 0 \/ (op[k].at # "free" /\ r.bridge = op[k].bridge),
         mem' = [mem EXCEPT !.stream[r.chat] = None], op' = [op EXCEPT ![k] = r],
         UNCHANGED <<saved, wire, crossed, up, boots, desk, astray>>
  PROVE  IInv'
<1> DEFINE c == r.chat
<1>1. c \in Chats /\ mem \in Memories
  BY DEF PlaceOK, IInv, TypeOK
<1>2. /\ mem' \in Memories /\ Elsewhere(mem', mem, c) /\ mem'.stream[c] = None
      /\ mem'.bridge = mem.bridge /\ mem'.bind = mem.bind /\ mem'.groups = mem.groups
  BY <1>1, StoppedMem
<1>3. Goes(k, r)
  BY DEF Goes
<1>4. ASSUME c \notin crossed PROVE ChatOK(c)'
  <2>1. k \in Taking(c)' /\ Stopped(c)'
    BY <1>2 DEF Taking, Stopped, IInv, TypeOK
  <2>2. ASSUME NEW j \in Taking(c)', op'[j].at = "close" PROVE mem.bridge[c] = 0
    <3>1. j \in Taking(c) /\ op[j].at = "close"
      BY <2>2 DEF Taking, IInv, TypeOK
    <3> QED BY <1>1, <1>4, <3>1 DEF IInv, ChatOK
  <2> QED BY <1>1, <1>2, <1>4, <2>1, <2>2 DEF ChatOK, IInv
<1>5. SavedOK'
  <2> SUFFICES ASSUME \A j \in Slots : op'[j].kind # "disband" PROVE saved' = Save(mem')
    BY DEF SavedOK
  <2>1. \A j \in Slots : op[j].kind # "disband"
    BY DEF IInv, TypeOK
  <2> QED BY <1>2, <2>1 DEF IInv, SavedOK, Save
<1>6. RestOK /\ astray' \subseteq crossed
  BY DEF RestOK, IInv, TypeOK
<1> QED BY <1>1, <1>2, <1>3, <1>4, <1>5, <1>6, ChatStep

LEMMA CardOffIInv == ASSUME IInv, NEW k \in Slots, CardOff(k) PROVE IInv'
<1> DEFINE rec == op[k]
           c == rec.chat
           m == IF rec.kind = "detach" THEN Unbound(mem, c, FALSE) ELSE mem
<1>1. /\ rec.at = "card" /\ rec \in Ops /\ c \in Chats /\ PlaceOK(rec) /\ mem \in Memories
      /\ Drop(k, m, rec) /\ UNCHANGED <<up, boots, desk, astray>>
  BY DEF CardOff, IInv, TypeOK, PlaceOK
<1>2. /\ m \in Memories /\ Elsewhere(m, mem, c) /\ m.bridge = mem.bridge
      /\ m.stream = mem.stream /\ m.groups = mem.groups
  <2>1. CASE rec.kind = "detach"
    BY <1>1, <2>1, UnboundMem
  <2>2. CASE rec.kind # "detach"
    BY <1>1, <2>2 DEF Elsewhere
  <2> QED BY <2>1, <2>2
<1>3. c \notin crossed /\ rec.kind \in {"attach", "lapse", "disband"} => mem.stream[c] = None
  BY <1>1 DEF IInv, ChatOK, Stopped, Taking
<1>4. TakesOff(k, m, rec)
  BY <1>1, <1>2, <1>3 DEF TakesOff, PlaceOK
<1> QED BY <1>1, <1>2, <1>4, DropIInv DEF IInv, TypeOK

LEMMA Membership == ASSUME NEW x, NEW S PROVE (x \in S) \in BOOLEAN
  BY Z3

\* _attach begins, for a command or a message.
LEMMA EnterIInv ==
  ASSUME IInv, NEW k \in Slots, NEW rec \in Ops, rec.chat \in Chats, rec.sess \in Sessions,
         rec.why \in {"attach", "start", "new group", "message"},
         op[k].at \in {"free", "boot"}, op[k].kind # "disband",
         rec.bridge = 0 \/ (op[k].at # "free" /\ rec.bridge = op[k].bridge),
         Enter(k, mem, rec), UNCHANGED <<up, boots, desk, astray>>
  PROVE  IInv'
<1> DEFINE c == rec.chat
           with(d) == [rec EXCEPT !.kind = "attach", !.desk = d]
           r == with(c \in desk)
           stopped == [mem EXCEPT !.stream[c] = None]
<1>1. /\ r \in Ops /\ r.chat = c /\ r.sess \in Sessions /\ r.bridge = rec.bridge
      /\ r.kind = "attach" /\ r.why = rec.why
  <2>1. ASSUME NEW d \in BOOLEAN
        PROVE  /\ with(d) \in Ops /\ with(d).chat = c /\ with(d).sess \in Sessions
               /\ with(d).bridge = rec.bridge /\ with(d).kind = "attach" /\ with(d).why = rec.why
    BY DEF Ops, Kinds
  <2>2. (c \in desk) \in BOOLEAN
    BY ONLY Membership
  <2> HIDE DEF with
  <2> QED BY <2>1, <2>2, Zenon
<1>2. CASE mem' = stopped /\ Keeps(k, [r EXCEPT !.at = "card"]) /\ UNCHANGED <<saved, wire, crossed>>
  <2> DEFINE q == [r EXCEPT !.at = "card"]
  <2>1. /\ q \in Ops /\ q.chat = c /\ q.at = "card" /\ q.kind = "attach" /\ q.bridge = rec.bridge
        /\ PlaceOK(q)
    BY <1>1 DEF Ops, Places, PlaceOK
  <2>2. op' = [op EXCEPT ![k] = q] /\ mem' = [mem EXCEPT !.stream[q.chat] = None]
    BY <1>2, <2>1 DEF Keeps
  <2> QED BY <1>2, <2>1, <2>2, CardIInv
<1>3. CASE Drop(k, stopped, r)
  <2>1. /\ stopped \in Memories /\ Elsewhere(stopped, mem, c) /\ stopped.stream[c] = None
        /\ stopped.bridge = mem.bridge /\ stopped.groups = mem.groups
    BY StoppedMem DEF IInv, TypeOK
  <2>2. TakesOff(k, stopped, r)
    BY <1>1, <2>1 DEF TakesOff
  <2> QED BY <1>1, <1>3, <2>1, <2>2, DropIInv DEF IInv, TypeOK
<1> QED BY <1>2, <1>3 DEF Enter

LEMMA SlotFree ==
  ASSUME Busy # Slots
  PROVE  Slot \in Slots /\ Slot \notin Busy /\ op[Slot].at = "free"
<1>1. \E k \in Slots : k \notin Busy
  BY DEF Busy
<1> QED BY <1>1 DEF Slot, Busy

\* A free slot has no command of a kind.
LEMMA SlotGiven ==
  ASSUME IInv, Busy # Slots
  PROVE  Slot \in Slots /\ op[Slot].at = "free" /\ op[Slot].kind = None
         /\ op[Slot] \in Ops /\ mem \in Memories
  BY SlotFree DEF IInv, TypeOK, PlaceOK

LEMMA CmdAttachIInv ==
  ASSUME IInv, NEW c \in Chats, NEW s \in Sessions, CmdAttach(c, s) PROVE IInv'
<1> DEFINE rec == [Free EXCEPT !.chat = c, !.sess = s, !.why = "attach"]
<1>1. /\ rec \in Ops /\ rec.chat = c /\ rec.sess = s /\ rec.why = "attach" /\ rec.bridge = 0
  BY FreeType DEF Ops, Free, Chat0, Sess0, Reasons
<1>2. Busy # Slots /\ Enter(Slot, mem, rec) /\ UNCHANGED <<up, boots, desk, astray>>
  BY DEF CmdAttach, Given
<1> QED BY <1>1, <1>2, SlotGiven, EnterIInv DEF None

LEMMA BootedIInv == ASSUME IInv, NEW k \in Slots, Booted(k) PROVE IInv'
<1>1. /\ op[k].at = "boot" /\ op[k] \in Ops /\ PlaceOK(op[k])
      /\ Enter(k, mem, op[k]) /\ UNCHANGED <<up, boots, desk, astray>>
  BY DEF Booted, IInv, TypeOK
<1> QED BY <1>1, EnterIInv DEF PlaceOK

LEMMA CmdDetachIInv == ASSUME IInv, NEW c \in Chats, CmdDetach(c) PROVE IInv'
<1> DEFINE rec == [Free EXCEPT !.kind = "detach", !.chat = c]
           m == Unbound(mem, c, FALSE)
<1>1. rec \in Ops /\ rec.chat = c /\ rec.kind = "detach" /\ rec.bridge = 0
  BY FreeType DEF Ops, Free, Chat0, Kinds
<1>2. Busy # Slots /\ Drop(Slot, m, rec) /\ UNCHANGED <<up, boots, desk, astray>>
  BY DEF CmdDetach, Given
<1>3. /\ m \in Memories /\ Elsewhere(m, mem, c) /\ m.bridge = mem.bridge
      /\ m.stream = mem.stream /\ m.groups = mem.groups
  BY <1>2, SlotGiven, UnboundMem
<1>4. TakesOff(Slot, m, rec)
  BY <1>1, <1>2, <1>3, SlotGiven DEF TakesOff
<1> QED BY <1>1, <1>2, <1>3, <1>4, SlotGiven, DropIInv DEF IInv, TypeOK, None

LEMMA ButtonDetachIInv == ASSUME IInv, NEW c \in Chats, ButtonDetach(c) PROVE IInv'
<1> DEFINE rec == [Free EXCEPT !.kind = "detach", !.chat = c]
           m == [mem EXCEPT !.stream[c] = None]
           u == Unbound(m, c, FALSE)
<1>1. rec \in Ops /\ rec.chat = c /\ rec.kind = "detach" /\ rec.bridge = 0
  BY FreeType DEF Ops, Free, Chat0, Kinds
<1>2. Busy # Slots /\ UNCHANGED <<up, boots, desk, astray>>
  BY DEF ButtonDetach, Given
<1>3. CASE mem' = m /\ Keeps(Slot, [rec EXCEPT !.at = "card"]) /\ UNCHANGED <<saved, wire, crossed>>
  <2> DEFINE r == [rec EXCEPT !.at = "card"]
  <2>1. /\ r \in Ops /\ r.chat = c /\ r.at = "card" /\ r.kind = "detach" /\ r.bridge = 0
        /\ PlaceOK(r)
    BY <1>1 DEF Ops, Places, PlaceOK
  <2>2. op' = [op EXCEPT ![Slot] = r] /\ mem' = [mem EXCEPT !.stream[r.chat] = None]
    BY <1>3, <2>1 DEF Keeps
  <2> QED BY <1>2, <1>3, <2>1, <2>2, SlotGiven, CardIInv DEF None
<1>4. CASE Drop(Slot, u, rec)
  <2>1. /\ m \in Memories /\ Elsewhere(m, mem, c) /\ m.stream[c] = None
        /\ m.bridge = mem.bridge /\ m.groups = mem.groups
    BY <1>2, SlotGiven, StoppedMem
  <2>2. /\ u \in Memories /\ Elsewhere(u, m, c) /\ u.bridge = m.bridge
        /\ u.stream = m.stream /\ u.groups = m.groups
    BY <2>1, UnboundMem
  <2>3. TakesOff(Slot, u, rec)
    BY <1>1, <1>2, <2>1, <2>2, SlotGiven, ElsewhereTrans DEF TakesOff
  <2> QED BY <1>1, <1>2, <1>4, <2>1, <2>2, <2>3, SlotGiven, DropIInv DEF IInv, TypeOK, None
<1> QED BY <1>3, <1>4 DEF ButtonDetach


\* A boot begins or ends: only the starting sessions change.
LEMMA StartingStep ==
  ASSUME IInv, NEW k \in Slots, NEW r, Goes(k, r), NEW S \in SUBSET Sessions,
         mem' = [mem EXCEPT !.starting = S], up' = up, boots' \in [Sessions -> Int],
         UNCHANGED <<saved, wire, desk, crossed, astray>>,
         op[k].at \notin {"card", "close"}, r.at \notin {"card", "close"},
         op[k].kind # "disband"
  PROVE  IInv'
<1>1. /\ mem' \in Memories /\ mem'.bridge = mem.bridge /\ mem'.session = mem.session
      /\ mem'.stream = mem.stream /\ mem'.bind = mem.bind /\ mem'.groups = mem.groups
  BY DEF IInv, TypeOK, Memories
<1>2. SavedOK'
  <2> SUFFICES ASSUME \A j \in Slots : op'[j].kind # "disband" PROVE saved' = Save(mem')
    BY DEF SavedOK
  <2>1. \A j \in Slots : op[j].kind # "disband"
    BY DEF IInv, TypeOK, Goes
  <2> QED BY <1>1, <2>1 DEF IInv, SavedOK, Save
<1>3. RestOK /\ astray' \subseteq crossed
  BY DEF RestOK, IInv, TypeOK
<1> QED BY <1>1, <1>2, <1>3, OpStep

LEMMA CmdStartIInv ==
  ASSUME IInv, NEW c \in Chats, NEW s \in Sessions, CmdStart(c, s) PROVE IInv'
<1> DEFINE r == [Free EXCEPT !.kind = "attach", !.at = "boot", !.chat = c, !.sess = s,
                             !.why = "start"]
<1>1. /\ r \in Ops /\ PlaceOK(r) /\ r.at = "boot" /\ r.bridge = 0
  BY FreeType DEF Ops, Free, Chat0, Sess0, Kinds, Places, Reasons, PlaceOK
<1>2. Busy # Slots
  BY DEF CmdStart, Given
<1>3. /\ mem' = [mem EXCEPT !.starting = mem.starting \cup {s}] /\ boots' = [boots EXCEPT ![s] = @ + 1]
      /\ op' = [op EXCEPT ![Slot] = r] /\ UNCHANGED <<up, saved, wire, desk, crossed, astray>>
  BY DEF CmdStart, Keeps, history
<1>4. boots' \in [Sessions -> Int] /\ mem.starting \cup {s} \in SUBSET Sessions
  BY <1>3 DEF IInv, TypeOK, Memories
<1>5. Goes(Slot, r)
  BY <1>1, <1>3 DEF Goes
<1>6. op[Slot].at = "free" /\ op[Slot].kind = None /\ Slot \in Slots
  BY <1>2, SlotGiven
<1>7. op[Slot].kind # "disband"
  BY <1>6 DEF None
<1> HIDE DEF r
<1> QED BY <1>1, <1>3, <1>4, <1>5, <1>6, <1>7, StartingStep

LEMMA BootGivenUpIInv == ASSUME IInv, NEW k \in Slots, BootGivenUp(k) PROVE IInv'
<1>1. /\ op[k].at = "boot" /\ mem' = [mem EXCEPT !.starting = mem.starting \ {op[k].sess}]
      /\ op' = [op EXCEPT ![k] = Free] /\ UNCHANGED <<up, boots, saved, wire, desk, crossed, astray>>
  BY DEF BootGivenUp, Ends, Keeps, history
<1>2. Goes(k, Free) /\ op[k].kind = "attach"
  BY <1>1, FreeType DEF Goes, Free, IInv, PlaceOK
<1>3. mem.starting \ {op[k].sess} \in SUBSET Sessions /\ boots' \in [Sessions -> Int]
  BY <1>1 DEF IInv, TypeOK, Memories
<1> QED BY <1>1, <1>2, <1>3, FreeType, StartingStep

LEMMA CmdNewGroupIInv ==
  ASSUME IInv, NEW g \in Groups, NEW s \in Sessions, CmdNewGroup(g, s) PROVE IInv'
<1> DEFINE m == [mem EXCEPT !.bind[g] = s, !.groups = @ \cup {g}]
           with(d) == [Free EXCEPT !.kind = "attach", !.chat = g, !.sess = s,
                                   !.why = "new group", !.desk = d]
           rec == with(g \in desk)
<1>1. /\ mem.bind[g] = None /\ On(g) = {} /\ Busy # Slots /\ saved' = Save(m)
      /\ After(Slot, m, rec) /\ UNCHANGED <<up, boots, desk, astray>>
  BY DEF CmdNewGroup, Given
<1>2. g \in Chats /\ mem \in Memories
  BY DEF Chats, IInv, TypeOK
<1>3. rec \in Ops /\ rec.chat = g /\ rec.sess = s /\ rec.kind = "attach" /\ rec.bridge = 0
      /\ rec.why = "new group"
  <2>1. ASSUME NEW d \in BOOLEAN
        PROVE  /\ with(d) \in Ops /\ with(d).chat = g /\ with(d).sess = s
               /\ with(d).kind = "attach" /\ with(d).bridge = 0 /\ with(d).why = "new group"
    BY <1>2, FreeType DEF Ops, Free, Kinds, Chat0, Sess0, Reasons
  <2>2. (g \in desk) \in BOOLEAN
    BY ONLY Membership
  <2> HIDE DEF with
  <2> QED BY <2>1, <2>2, Zenon
<1> HIDE DEF rec
<1>4. /\ m \in Memories /\ Elsewhere(m, mem, g) /\ m.bridge = mem.bridge
      /\ m.stream = mem.stream /\ m.bind[g] = s
  BY <1>2 DEF Memories, Sess0, Elsewhere
<1>5. Taking(g) = {}
  BY <1>1 DEF On, Taking, Busy
<1>6. mem.bridge[g] = 0
  BY DEF CmdNewGroup
<1>7. op[Slot].at = "free" /\ op[Slot].kind = None /\ Slot \in Slots
  BY <1>1, SlotGiven
<1>8. PICK r : /\ r \in Ops /\ PlaceOK(r) /\ Goes(Slot, r) /\ r.at \notin {"card", "close"}
               /\ op' = [op EXCEPT ![Slot] = r]
               /\ mem' = [m EXCEPT !.session[g] = None] /\ wire' = wire /\ crossed' = crossed
               /\ r.kind = "attach"
  <2>1. PICK b \in Bridges \ Used :
          /\ mem' = [m EXCEPT !.session[g] = None]
          /\ Keeps(Slot, [rec EXCEPT !.at = "connect", !.bridge = b])
    BY <1>1, <1>3 DEF After
  <2> DEFINE r == [rec EXCEPT !.at = "connect", !.bridge = b]
  <2>2. r \in Ops /\ PlaceOK(r) /\ r.at = "connect" /\ r.bridge = b /\ r.kind = "attach"
    BY <1>2, <1>3, BridgesNotZero DEF Ops, Places, PlaceOK
  <2>3. Goes(Slot, r)
    BY <2>1, <2>2 DEF Goes, Keeps
  <2> QED BY <1>1, <2>1, <2>2, <2>3 DEF After, Keeps
<1>9. /\ mem' \in Memories /\ Elsewhere(mem', mem, g) /\ mem'.bridge = mem.bridge
      /\ mem'.session[g] = None /\ mem'.stream = mem.stream /\ mem'.groups = m.groups
      /\ mem'.bind = m.bind
  BY <1>2, <1>4, <1>8 DEF Memories, Sess0, Elsewhere
<1>10. Taking(g)' = {}
  BY <1>5, <1>8 DEF Taking, IInv, TypeOK
<1>11. ASSUME g \notin crossed PROVE ChatOK(g)'
  <2>1. mem.bridge[g] = 0 => mem.stream[g] = None
    BY <1>2, <1>5, <1>11 DEF IInv, ChatOK
  <2> QED BY <1>6, <1>8, <1>9, <1>10, <1>11, <2>1 DEF ChatOK, Stopped
<1>12. saved' \in Files /\ SavedOK'
  BY <1>1, <1>4, <1>9 DEF SavedOK, Save, Files, Memories
<1>13. RestOK /\ astray' \subseteq crossed
  BY <1>1, <1>12 DEF RestOK, IInv, TypeOK
<1> QED BY <1>2, <1>7, <1>8, <1>9, <1>11, <1>12, <1>13, ChatStep

\* A step that only gives a slot another record, and no binding to write.
LEMMA RecordStep ==
  ASSUME IInv, NEW k \in Slots, NEW r, Goes(k, r),
         up' = up, boots' = boots, desk' \subseteq Chats,
         UNCHANGED <<mem, saved, wire, crossed>>, astray' \subseteq crossed,
         op[k].at \notin {"card", "close"}, r.at \notin {"card", "close"},
         op[k].kind # "disband"
  PROVE  IInv'
<1>1. SavedOK'
  <2> SUFFICES ASSUME \A j \in Slots : op'[j].kind # "disband" PROVE saved' = Save(mem')
    BY DEF SavedOK
  <2>1. \A j \in Slots : op[j].kind # "disband"
    BY DEF IInv, TypeOK, Goes
  <2> QED BY <2>1 DEF IInv, SavedOK
<1>2. RestOK /\ astray' \subseteq crossed /\ mem' \in Memories
  BY DEF RestOK, IInv, TypeOK
<1> QED BY <1>1, <1>2, OpStep

LEMMA CmdKillIInv == ASSUME IInv, NEW s \in Sessions, CmdKill(s) PROVE IInv'
<1> DEFINE todo == {c \in Chats : mem.session[c] = s}
           r == [Free EXCEPT !.kind = "kill", !.at = "loop", !.sess = s, !.todo = todo]
<1>1. /\ Busy # Slots /\ op' = [op EXCEPT ![Slot] = r]
      /\ UNCHANGED <<up, boots, mem, saved, wire, desk, crossed, astray>>
  BY DEF CmdKill, Given, Keeps, handler, history
<1>2. r \in Ops /\ PlaceOK(r) /\ r.at = "loop" /\ r.bridge = 0
  BY FreeType DEF Ops, Free, Kinds, Places, Chat0, Sess0, PlaceOK
<1>3. Goes(Slot, r)
  BY <1>1, <1>2 DEF Goes
<1>4. op[Slot].at = "free" /\ op[Slot].kind = None /\ Slot \in Slots
  BY <1>1, SlotGiven
<1> QED BY <1>1, <1>2, <1>3, <1>4, RecordStep DEF IInv, TypeOK, None


-----------------------------------------------------------------------------
(* The loops over chats, and what else commands do. *)

\* A connection is as it was, or its session has gone off the list or has ended.
Turns(b) ==
  /\ wire'[b] \in Wires /\ wire'[b].chat = wire[b].chat /\ wire'[b].sess = wire[b].sess
  /\ \/ wire'[b].end = wire[b].end
     \/ wire[b].end \in Live /\ wire'[b].end \in {"adrift", "eof"}

\* Connections may turn so, and a command may end with them, which unbinds no chat from
\* a session that keeps a connection.
LEMMA HangStep ==
  ASSUME IInv, RestOK, mem' \in Memories,
         mem'.bridge = mem.bridge, mem'.session = mem.session, mem'.stream = mem.stream,
         wire' \in [Bridges -> Wires], \A b \in Bridges : Turns(b), op' \in [Slots -> Ops],
         \A j \in Slots : op'[j] = op[j] \/ (op[j].at = "loop" /\ op'[j] = Free),
         \A c \in Chats : \/ mem'.bind[c] = mem.bind[c]
                          \/ \A b \in Bridges : wire[b].sess = mem.bind[c] => wire'[b].end # "open",
         crossed' = crossed, astray' = astray, SavedOK'
  PROVE  IInv'
<1>1. \A j \in Slots : PlaceOK(op[j])'
  <2> SUFFICES ASSUME NEW j \in Slots PROVE PlaceOK(op[j])'
    OBVIOUS
  <2>1. CASE op'[j] = op[j]
    BY <2>1 DEF IInv, PlaceOK
  <2>2. CASE op'[j] = Free
    BY <2>2, FreeType DEF PlaceOK
  <2> QED BY <2>1, <2>2
<1>2. \A b \in Bridges : Turns(b)
  OBVIOUS
<1>3. TypeOK'
  BY <1>1 DEF IInv, TypeOK, RestOK
<1>4. ASSUME NEW j \in Making' PROVE MakingOK(j)'
  <2>1. /\ j \in Making /\ MakingOK(j) /\ op'[j] = op[j] /\ op[j].bridge \in Bridges
    BY FreeType DEF Making, IInv, TypeOK, PlaceOK
  <2>2. \A i \in Busy' \ {j} : op'[i].bridge # op[j].bridge
    BY <2>1, FreeType DEF Busy, MakingOK, IInv, TypeOK
  <2> QED BY <1>2, <2>1, <2>2 DEF MakingOK, Turns, Live
<1>5. WiresOK'
  <2>1. ASSUME NEW b \in Bridges, wire'[b].end # "none"
        PROVE  wire'[b].chat \in Chats /\ wire'[b].sess \in Sessions
    BY <1>2, <2>1 DEF IInv, WiresOK, Turns, Live
  <2>2. ASSUME NEW c \in Chats, mem'.bridge[c] # 0
        PROVE  wire'[mem'.bridge[c]].end # "none" /\ wire'[mem'.bridge[c]].chat = c
    BY <1>2, <2>2, BridgesNotZero DEF IInv, TypeOK, Memories, WiresOK, Turns, Live
  <2> QED BY <2>1, <2>2 DEF WiresOK
<1>6. ASSUME NEW c \in Chats \ crossed' PROVE ChatOK(c)'
  <2> DEFINE b == mem.bridge[c]
  <2>1. Taking(c)' = Taking(c) /\ \A j \in Taking(c) : op'[j] = op[j]
    BY FreeType DEF Taking, IInv, TypeOK
  <2>2. ChatOK(c) /\ Stopped(c)
    BY <1>6 DEF IInv, ChatOK
  <2>3. Stopped(c)'
    BY <2>1, <2>2 DEF Stopped
  <2>4. (\E j \in Taking(c)' : op'[j].at = "close") => b = 0
    BY <2>1, <2>2 DEF ChatOK
  <2>5. b # 0 => b \in Bridges /\ Turns(b)
    BY <1>2, BridgesNotZero DEF IInv, TypeOK, Memories
  <2>6. b # 0 => wire'[b].end \in Live \cup {"eof"}
    BY <2>2, <2>5 DEF ChatOK, Turns, Live
  <2>7. b # 0 /\ wire'[b].end \in Live =>
          wire[b].end \in Live /\ wire'[b].sess = wire[b].sess
    BY <2>5 DEF Turns, Live
  <2>8. b # 0 /\ wire'[b].end = "open" => wire[b].end = "open" /\ wire'[b].sess = wire[b].sess
    BY <2>5 DEF Turns
  <2>9. b # 0 /\ wire'[b].end = "open" /\ Taking(c)' = {} => mem'.bind[c] = wire'[b].sess
    <3>1. b # 0 /\ wire'[b].end = "open" /\ Taking(c)' = {} => mem.bind[c] = wire[b].sess
      BY <2>1, <2>2, <2>8 DEF ChatOK
    <3>2. mem'.bind[c] = mem.bind[c] \/ (b # 0 /\ wire[b].sess = mem.bind[c] => wire'[b].end # "open")
      BY <2>5
    <3> QED BY <2>8, <3>1, <3>2
  <2> QED BY <2>1, <2>2, <2>3, <2>4, <2>6, <2>7, <2>9 DEF ChatOK
<1> QED BY <1>1, <1>3, <1>4, <1>5, <1>6 DEF IInv

\* The connections of a session turn together.
LEMMA TurnedTypes ==
  ASSUME TypeOK, NEW s \in Sessions, NEW end \in {"adrift", "eof"}, wire' = Turned(s, end)
  PROVE  /\ wire' \in [Bridges -> Wires] /\ \A b \in Bridges : Turns(b)
         /\ \A b \in Bridges : wire[b].sess = s => wire'[b].end # "open"
<1>1. \A b \in Bridges :
        /\ wire[b] \in Wires
        /\ wire'[b] = IF wire[b].end = "open" /\ wire[b].sess = s THEN [wire[b] EXCEPT !.end = end] ELSE wire[b]
  BY DEF Turned, TypeOK
<1>2. ASSUME NEW b \in Bridges PROVE Turns(b) /\ (wire[b].sess = s => wire'[b].end # "open")
  BY <1>1 DEF Turns, Wires, Live
<1>3. \A b \in Bridges : wire'[b] \in Wires
  BY <1>2 DEF Turns
<1> QED BY <1>2, <1>3 DEF Turned

LEMMA ServerDiesIInv == ASSUME IInv, NEW s \in Sessions, ServerDies(s) PROVE IInv'
<1>1. /\ up' = up \ {s} /\ wire' \in {Turned(s, "eof"), Turned(s, "adrift")}
      /\ UNCHANGED <<boots, mem, saved, desk, op, crossed, astray>>
  BY DEF ServerDies, Hangup, Adrift, handler, history
<1>2. SavedOK' /\ RestOK /\ mem' \in Memories
  BY <1>1 DEF SavedOK, Save, RestOK, IInv, TypeOK
<1>3. wire' \in [Bridges -> Wires] /\ \A b \in Bridges : Turns(b)
  BY <1>1, TurnedTypes DEF IInv
<1>4. op' \in [Slots -> Ops] /\ \A j \in Slots : op'[j] = op[j] \/ (op[j].at = "loop" /\ op'[j] = Free)
  BY <1>1 DEF IInv, TypeOK
<1>5. \A c \in Chats : \/ mem'.bind[c] = mem.bind[c]
                       \/ \A b \in Bridges : wire[b].sess = mem.bind[c] => wire'[b].end # "open"
  BY <1>1
<1> QED BY <1>1, <1>2, <1>3, <1>4, <1>5, HangStep

LEMMA AdriftEndsIInv == ASSUME IInv, NEW b \in Bridges, AdriftEnds(b) PROVE IInv'
<1>1. /\ wire[b].end = "adrift" /\ wire' = [wire EXCEPT ![b].end = "eof"]
      /\ UNCHANGED <<up, boots, mem, saved, desk, op, crossed, astray>>
  BY DEF AdriftEnds, handler, history
<1>2. SavedOK' /\ RestOK /\ mem' \in Memories
  BY <1>1 DEF SavedOK, Save, RestOK, IInv, TypeOK
<1>3. wire' \in [Bridges -> Wires] /\ \A d \in Bridges : Turns(d)
  BY <1>1 DEF IInv, TypeOK, Turns, Wires, Live
<1>4. op' \in [Slots -> Ops] /\ \A j \in Slots : op'[j] = op[j] \/ (op[j].at = "loop" /\ op'[j] = Free)
  BY <1>1 DEF IInv, TypeOK
<1>5. \A c \in Chats : \/ mem'.bind[c] = mem.bind[c]
                       \/ \A d \in Bridges : wire[d].sess = mem.bind[c] => wire'[d].end # "open"
  BY <1>1
<1> QED BY <1>1, <1>2, <1>3, <1>4, <1>5, HangStep

LEMMA KillNextIInv == ASSUME IInv, NEW k \in Slots, KillNext(k) PROVE IInv'
<1> DEFINE s == op[k].sess
<1>1. /\ op[k].kind = "kill" /\ op[k].at = "loop" /\ op[k] \in Ops /\ s \in Sessions
      /\ mem \in Memories /\ op[k].todo \subseteq Chats
      /\ UNCHANGED <<boots, desk, astray>>
  BY DEF KillNext, IInv, TypeOK, PlaceOK, Ops
<1>2. CASE op[k].todo = {}
  <2> DEFINE dead == {c \in Chats : mem.bind[c] = s}
  <2>1. /\ mem' = [mem EXCEPT !.bind = [c \in Chats |-> IF c \in dead THEN None ELSE mem.bind[c]],
                              !.groups = mem.groups \ dead]
        /\ saved' = Save(mem') /\ up' = up \ {s} /\ wire' = Turned(s, "adrift")
        /\ crossed' = crossed
        /\ op' = [op EXCEPT ![k] = Free]
    BY <1>2 DEF KillNext, Ends, Keeps, Adrift
  <2>2. /\ mem' \in Memories /\ mem'.bridge = mem.bridge /\ mem'.session = mem.session
        /\ mem'.stream = mem.stream
        /\ \A c \in Chats : mem'.bind[c] = mem.bind[c] \/ mem.bind[c] = s
    BY <1>1, <2>1 DEF Memories, Sess0
  <2>3. saved' \in Files /\ SavedOK'
    BY <2>1, <2>2 DEF SavedOK, Save, Files, Memories
  <2>4. RestOK
    BY <1>1, <2>1, <2>3 DEF RestOK, IInv, TypeOK
  <2>5. /\ op' \in [Slots -> Ops]
        /\ \A j \in Slots : op'[j] = op[j] \/ (op[j].at = "loop" /\ op'[j] = Free)
    BY <1>1, <2>1, FreeType DEF IInv, TypeOK
  <2>6. /\ wire' \in [Bridges -> Wires] /\ \A b \in Bridges : Turns(b)
        /\ \A b \in Bridges : wire[b].sess = s => wire'[b].end # "open"
    BY <1>1, <2>1, TurnedTypes DEF IInv
  <2>7. \A c \in Chats : \/ mem'.bind[c] = mem.bind[c]
                         \/ \A b \in Bridges : wire[b].sess = mem.bind[c] => wire'[b].end # "open"
    BY <2>2, <2>6
  <2> QED BY <1>1, <2>1, <2>2, <2>3, <2>4, <2>5, <2>6, <2>7, HangStep
<1>3. CASE op[k].todo # {}
  <2>1. PICK c \in op[k].todo :
          LET rec == [op[k] EXCEPT !.chat = c, !.todo = @ \ {c}]
              m == [mem EXCEPT !.stream[c] = None]
          IN  \/ /\ mem.stream[c] # None
                 /\ mem' = m /\ Keeps(k, [rec EXCEPT !.at = "card"]) /\ UNCHANGED <<saved, wire, crossed>>
              \/ Drop(k, m, rec)
    BY <1>3 DEF KillNext
  <2> DEFINE rec == [op[k] EXCEPT !.chat = c, !.todo = @ \ {c}]
             m == [mem EXCEPT !.stream[c] = None]
  <2>2. up' = up
    BY <1>3 DEF KillNext
  <2>3. /\ c \in Chats /\ rec \in Ops /\ rec.chat = c /\ rec.kind = "kill" /\ rec.sess = s
        /\ rec.bridge = op[k].bridge
    BY <1>1 DEF Ops, Chat0
  <2>4. CASE mem' = m /\ Keeps(k, [rec EXCEPT !.at = "card"]) /\ UNCHANGED <<saved, wire, crossed>>
    <3> DEFINE r == [rec EXCEPT !.at = "card"]
    <3>1. /\ r \in Ops /\ r.chat = c /\ r.at = "card" /\ r.kind = "kill"
          /\ r.bridge = op[k].bridge /\ PlaceOK(r)
      BY <1>1, <2>3 DEF Ops, Places, PlaceOK
    <3>2. op' = [op EXCEPT ![k] = r] /\ mem' = [mem EXCEPT !.stream[r.chat] = None]
      BY <2>4, <3>1 DEF Keeps
    <3> QED BY <1>1, <2>2, <2>4, <3>1, <3>2, CardIInv
  <2>5. CASE Drop(k, m, rec)
    <3>1. /\ m \in Memories /\ Elsewhere(m, mem, c) /\ m.stream[c] = None
          /\ m.bridge = mem.bridge /\ m.groups = mem.groups
      BY <1>1, <2>3, StoppedMem
    <3>2. TakesOff(k, m, rec)
      BY <1>1, <2>3, <3>1 DEF TakesOff
    <3> QED BY <1>1, <2>2, <2>3, <2>5, <3>1, <3>2, DropIInv DEF IInv, TypeOK
  <2> QED BY <2>1, <2>4, <2>5
<1> QED BY <1>2, <1>3

LEMMA CmdDisbandIInv == ASSUME IInv, NEW g \in Groups, CmdDisband(g) PROVE IInv'
<1> DEFINE u == Unbound(mem, g, TRUE)
           m == [u EXCEPT !.groups = @ \ {g}]
           rec == [Free EXCEPT !.kind = "detach", !.chat = g]
           k == Slot
<1>1. /\ Busy # Slots /\ saved' = Save(m) /\ UNCHANGED <<up, boots, desk, astray>>
      /\ \/ m.bridge[g] = 0 /\ After(k, m, rec)
         \/ CloseBegins(k, m, rec)
  BY FreeType DEF CmdDisband, Given, Keeps, CloseBegins, Free
<1>2. g \in Chats /\ k \in Slots /\ op[k].at = "free" /\ mem \in Memories
  BY <1>1, SlotGiven DEF Chats
<1>3. rec \in Ops /\ rec.chat = g /\ rec.kind = "detach" /\ rec.bridge = 0
  BY <1>2, FreeType DEF Ops, Free, Chat0, Kinds
<1>4. /\ u \in Memories /\ Elsewhere(u, mem, g) /\ u.bridge = mem.bridge
      /\ u.stream = mem.stream
  BY <1>2, UnboundMem
<1>5. /\ m \in Memories /\ m.bridge = u.bridge /\ m.session = u.session
      /\ m.stream = u.stream /\ m.bind = u.bind
  BY <1>4 DEF Memories
<1>6. Elsewhere(m, mem, g)
  BY <1>4, <1>5 DEF Elsewhere
<1> HIDE DEF rec, m, u, k
<1>7. TakesOff(k, m, rec)
  BY <1>2, <1>3, <1>4, <1>5, <1>6 DEF TakesOff
<1>8. Save(m) \in Files
  BY <1>5 DEF Save, Files, Memories
<1>9. RestOK /\ astray' \subseteq crossed
  BY <1>1, <1>8 DEF RestOK, IInv, TypeOK
<1>10. CASE m.bridge[g] = 0 /\ After(k, m, rec)
  <2>1. PICK r : TakenOff(k, m, rec, r)
    BY <1>2, <1>7, <1>10, AfterTakes
  <2>2. SavedOK'
    BY <1>1, <1>3, <2>1 DEF TakenOff, SavedOK, Save
  <2> QED BY <1>2, <1>3, <1>4, <1>5, <1>7, <1>9, <1>10, <2>1, <2>2, TakenOffOK
<1>11. CASE CloseBegins(k, m, rec)
  <2>1. mem'.bind = m.bind /\ mem'.groups = m.groups
    BY <1>2, <1>7, <1>11, CloseMem
  <2>2. SavedOK'
    BY <1>1, <2>1 DEF SavedOK, Save
  <2> QED BY <1>1, <1>2, <1>7, <1>9, <1>11, <2>2, CloseIInv
<1> QED BY <1>1, <1>10, <1>11


-----------------------------------------------------------------------------
(* Messages, Desktop tasks, and the check for dead sessions. *)

\* The text is typed where the chat's output comes from, or a command takes the chat off.
LEMMA CmdMessageIInv == ASSUME IInv, NEW c \in Chats, CmdMessage(c) PROVE IInv'
<1> DEFINE k == Slot
           rec == [Free EXCEPT !.kind = "message", !.chat = c, !.why = "message"]
           b == mem.bridge[c]
<1>1. Busy # Slots /\ UNCHANGED <<up, boots, desk>>
  BY DEF CmdMessage, Given
<1>2. k \in Slots /\ op[k].at = "free" /\ op[k].kind = None /\ k \notin Busy
      /\ mem \in Memories
  BY <1>1, SlotFree, SlotGiven
<1>3. /\ rec \in Ops /\ rec.chat = c /\ rec.kind = "message" /\ rec.bridge = 0
      /\ rec.why = "message"
  BY FreeType DEF Ops, Free, Chat0, Kinds, Reasons
<1>4. CASE Runs(b) /\ UNCHANGED <<handler, wire, crossed>> /\ Types(k, rec, b)
  <2> DEFINE r == [rec EXCEPT !.kind = "message", !.at = "enter", !.bridge = b]
  <2>1. r \in Ops /\ PlaceOK(r) /\ r.at = "enter" /\ r.bridge = b
    <3>1. b \in 0..MaxBridges
      BY <1>2 DEF Memories
    <3> HIDE DEF b, rec
    <3>2. /\ r \in Ops /\ r.at = "enter" /\ r.bridge = b /\ r.chat = c
          /\ r.kind = "message"
      BY <1>3, <3>1 DEF Ops, Kinds, Places
    <3> HIDE DEF r
    <3> QED BY <3>2 DEF PlaceOK
  <2>2. op' = [op EXCEPT ![k] = r] /\ UNCHANGED <<mem, saved, wire, crossed>>
    BY <1>4 DEF Types, Keeps, handler
  <2>3. Goes(k, r)
    BY <2>1, <2>2 DEF Goes
  <2>4. ASSUME c \notin crossed PROVE astray' = astray
    <3>1. mem.stream[c] \in {None, wire[b].sess}
      BY <1>4, <2>4 DEF Runs, IInv, ChatOK
    <3>2. CASE Taking(c) = {}
      BY <1>3, <1>4, <2>2, <2>4, <3>2 DEF Runs, IInv, ChatOK, Types
    <3>3. CASE Taking(c) # {}
      <4>1. PICK j \in Slots : op[j].chat = c /\ op[j].at \in {"card", "close"}
        BY <3>3 DEF Taking
      <4>2. j \in On(c) \ {k}
        BY <1>2, <4>1 DEF On, Busy
      <4> QED BY <1>3, <1>4, <2>2, <3>1, <4>2 DEF Types
    <3> QED BY <3>2, <3>3
  <2>5. astray' \subseteq crossed
    BY <1>3, <1>4, <2>4 DEF Types, IInv
  <2> QED BY <1>1, <1>2, <2>1, <2>2, <2>3, <2>5, RecordStep DEF None, IInv, TypeOK
<1>5. CASE mem.bind[c] # None /\ Enter(k, mem, [rec EXCEPT !.sess = mem.bind[c]]) /\ UNCHANGED astray
  <2> DEFINE r == [rec EXCEPT !.sess = mem.bind[c]]
  <2>1. /\ r \in Ops /\ r.chat = c /\ r.sess \in Sessions /\ r.bridge = 0 /\ r.why = "message"
    BY <1>2, <1>3, <1>5 DEF Ops, Memories, Sess0
  <2> QED BY <1>1, <1>2, <1>5, <2>1, EnterIInv DEF None
<1> QED BY <1>4, <1>5 DEF CmdMessage

LEMMA EnteredIInv == ASSUME IInv, NEW k \in Slots, Entered(k) PROVE IInv'
<1>1. /\ op[k].at = "enter" /\ op' = [op EXCEPT ![k] = Free]
      /\ UNCHANGED <<up, boots, mem, saved, wire, desk, crossed, astray>>
  BY DEF Entered, Ends, Keeps, handler, history
<1>2. Goes(k, Free) /\ op[k].kind = "message"
  BY <1>1, FreeType DEF Goes, Free, IInv, PlaceOK
<1> QED BY <1>1, <1>2, FreeType, RecordStep DEF IInv, TypeOK

LEMMA CmdDesktopIInv == ASSUME IInv, NEW c \in Chats, CmdDesktop(c) PROVE IInv'
<1> DEFINE with(d) == [Free EXCEPT !.kind = "detach", !.at = "desktop", !.chat = c, !.desk = d]
           had == mem.bridge[c] # 0 \/ mem.session[c] # None
           r == with(had)
<1>1. /\ Busy # Slots /\ op' = [op EXCEPT ![Slot] = r]
      /\ UNCHANGED <<up, boots, mem, saved, wire, desk, crossed, astray>>
  BY DEF CmdDesktop, Given, Keeps, handler, history
<1>2. r \in Ops /\ PlaceOK(r) /\ r.at = "desktop" /\ r.bridge = 0
  <2>1. ASSUME NEW d \in BOOLEAN
        PROVE  with(d) \in Ops /\ PlaceOK(with(d)) /\ with(d).at = "desktop" /\ with(d).bridge = 0
    BY FreeType DEF Ops, Free, Kinds, Places, Chat0, PlaceOK
  <2>2. had \in BOOLEAN
    OBVIOUS
  <2> HIDE DEF with, had
  <2> QED BY <2>1, <2>2, Zenon
<1>3. Goes(Slot, r)
  BY <1>1, <1>2 DEF Goes
<1>4. op[Slot].at = "free" /\ op[Slot].kind = None /\ Slot \in Slots
  BY <1>1, SlotGiven
<1> QED BY <1>1, <1>2, <1>3, <1>4, RecordStep DEF IInv, TypeOK, None

LEMMA DesktopAttachedIInv == ASSUME IInv, NEW k \in Slots, DesktopAttached(k) PROVE IInv'
<1> DEFINE c == op[k].chat
           m == Unbound(mem, c, TRUE)
<1>1. /\ op[k].at = "desktop" /\ op[k].kind = "detach" /\ c \in Chats /\ op[k] \in Ops
      /\ desk' = desk \cup {c} /\ UNCHANGED <<up, boots, astray>> /\ mem \in Memories
  BY DEF DesktopAttached, IInv, TypeOK, PlaceOK
<1>2. desk' \subseteq Chats
  BY <1>1 DEF IInv, TypeOK
<1>3. CASE Drop(k, m, op[k])
  <2>1. /\ m \in Memories /\ Elsewhere(m, mem, c) /\ m.bridge = mem.bridge
        /\ m.stream = mem.stream /\ m.groups = mem.groups
    BY <1>1, UnboundMem
  <2>2. TakesOff(k, m, op[k])
    BY <1>1, <2>1 DEF TakesOff
  <2> QED BY <1>1, <1>2, <1>3, <2>1, <2>2, DropIInv DEF IInv, TypeOK
<1>4. CASE Ends(k) /\ UNCHANGED <<handler, wire, crossed>>
  <2>1. op' = [op EXCEPT ![k] = Free] /\ UNCHANGED <<mem, saved, wire, crossed>>
    BY <1>4 DEF Ends, Keeps, handler
  <2>2. Goes(k, Free)
    BY <2>1, FreeType DEF Goes, Free
  <2> QED BY <1>1, <1>2, <2>1, <2>2, FreeType, RecordStep DEF IInv
<1> QED BY <1>3, <1>4 DEF DesktopAttached

LEMMA HealthCheckIInv == ASSUME IInv, NEW s \in Sessions, HealthCheck(s) PROVE IInv'
<1> DEFINE r == [Free EXCEPT !.kind = "disband", !.at = "loop", !.sess = s, !.why = "health",
                             !.todo = mem.groups]
<1>1. /\ Busy # Slots /\ op' = [op EXCEPT ![Slot] = r]
      /\ UNCHANGED <<up, boots, mem, saved, wire, desk, crossed, astray>>
  BY DEF HealthCheck, Keeps, handler, history
<1>2. op[Slot].at = "free" /\ Slot \in Slots /\ mem \in Memories
  BY <1>1, SlotGiven
<1>3. r \in Ops /\ PlaceOK(r) /\ r.at = "loop" /\ r.bridge = 0 /\ r.kind = "disband"
  BY <1>2, FreeType DEF Ops, Free, Kinds, Places, Reasons, Chat0, Sess0, PlaceOK, Memories
<1>4. Goes(Slot, r)
  BY <1>1, <1>3 DEF Goes
<1>5. SavedOK'
  BY <1>1, <1>2, <1>3 DEF SavedOK, IInv, TypeOK
<1>6. RestOK /\ astray' \subseteq crossed
  BY <1>1 DEF RestOK, IInv, TypeOK
<1> QED BY <1>1, <1>2, <1>3, <1>4, <1>5, <1>6, OpStep

LEMMA DisbandNextIInv == ASSUME IInv, NEW k \in Slots, DisbandNext(k) PROVE IInv'
<1> DEFINE s == op[k].sess
           bound == {g \in op[k].todo : mem.bind[g] = s}
<1>1. /\ op[k].kind = "disband" /\ op[k].at = "loop" /\ op[k] \in Ops /\ s \in Sessions
      /\ mem \in Memories /\ op[k].todo \subseteq Chats
      /\ UNCHANGED <<up, boots, desk, astray>>
  BY DEF DisbandNext, IInv, TypeOK, PlaceOK, Ops
<1>2. ASSUME bound = {} PROVE IInv'
  <2> DEFINE h == [op[k] EXCEPT !.kind = "health",
                     !.todo = {c \in Chats \ mem.groups : mem.bind[c] = op[k].sess}]
  <2>1. /\ saved' = Save(mem) /\ UNCHANGED <<mem, wire, crossed>>
        /\ op' = [op EXCEPT ![k] = Free] \/ op' = [op EXCEPT ![k] = h]
    BY <1>2 DEF DisbandNext, Ends, Keeps
  <2>2. PICK r : op' = [op EXCEPT ![k] = r] /\ r \in {Free, h}
    BY <2>1
  <2>3. h \in Ops /\ PlaceOK(h) /\ h.at = "loop" /\ h.bridge = op[k].bridge
    BY <1>1 DEF Ops, Kinds, PlaceOK
  <2>4. r \in Ops /\ PlaceOK(r) /\ r.at \in {"free", "loop"} /\ r.bridge \in {0, op[k].bridge}
    <3>1. Free.bridge = 0
      BY DEF Free
    <3>2. CASE r = Free
      BY <3>1, <3>2, FreeType
    <3>3. CASE r = h
      BY <2>3, <3>3
    <3> QED BY <2>2, <3>2, <3>3
  <2>5. Goes(k, r)
    BY <1>1, <2>2, <2>4 DEF Goes
  <2>6. SavedOK' /\ saved' \in Files
    BY <1>1, <2>1 DEF SavedOK, Save, Files, Memories
  <2>7. RestOK /\ astray' \subseteq crossed
    BY <1>1, <2>6 DEF RestOK, IInv, TypeOK
  <2> QED BY <1>1, <2>1, <2>4, <2>5, <2>6, <2>7, OpStep
<1>3. ASSUME NEW g \in bound,
             Drop(k, [Unbound(mem, g, TRUE) EXCEPT !.groups = @ \ {g}, !.stream[g] = None],
                  [op[k] EXCEPT !.chat = g, !.todo = @ \ {g}])
      PROVE  IInv'
  <2> DEFINE rec == [op[k] EXCEPT !.chat = g, !.todo = @ \ {g}]
             u == Unbound(mem, g, TRUE)
             m == [u EXCEPT !.groups = @ \ {g}, !.stream[g] = None]
  <2>1. /\ g \in Chats /\ rec \in Ops /\ rec.chat = g /\ rec.kind = "disband" /\ rec.sess = s
        /\ rec.bridge = op[k].bridge
    BY <1>1 DEF Ops, Chat0
  <2>2. u \in Memories /\ Elsewhere(u, mem, g) /\ u.bridge = mem.bridge
    BY <1>1, <2>1, UnboundMem
  <2>3. m \in Memories /\ Elsewhere(m, u, g) /\ m.bridge = u.bridge /\ m.stream[g] = None
    BY <2>1, <2>2 DEF Memories, Sess0, Elsewhere
  <2>4. Elsewhere(m, mem, g)
    BY <2>2, <2>3, ElsewhereTrans
  <2>5. TakesOff(k, m, rec)
    BY <1>1, <2>1, <2>2, <2>3, <2>4 DEF TakesOff
  <2> QED BY <1>1, <1>3, <2>1, <2>5, DropIInv DEF IInv, TypeOK
<1> QED BY <1>2, <1>3 DEF DisbandNext

LEMMA HealthNextIInv == ASSUME IInv, NEW k \in Slots, HealthNext(k) PROVE IInv'
<1> DEFINE s == op[k].sess
<1>1. /\ op[k].kind = "health" /\ op[k].at = "loop" /\ op[k] \in Ops /\ s \in Sessions
      /\ mem \in Memories /\ op[k].todo \subseteq Chats
      /\ UNCHANGED <<up, boots, desk, astray>>
  BY DEF HealthNext, IInv, TypeOK, PlaceOK, Ops
<1>2. CASE Ends(k) /\ UNCHANGED <<handler, wire, crossed>>
  <2>1. op' = [op EXCEPT ![k] = Free] /\ UNCHANGED <<mem, saved, wire, crossed>>
    BY <1>2 DEF Ends, Keeps, handler
  <2>2. Goes(k, Free)
    BY <2>1, FreeType DEF Goes, Free
  <2> QED BY <1>1, <2>1, <2>2, FreeType, RecordStep DEF IInv, TypeOK
<1>3. ASSUME NEW c \in op[k].todo,
             Drop(k, [mem EXCEPT !.stream[c] = None], [op[k] EXCEPT !.chat = c, !.todo = @ \ {c}])
      PROVE  IInv'
  <2> DEFINE rec == [op[k] EXCEPT !.chat = c, !.todo = @ \ {c}]
             m == [mem EXCEPT !.stream[c] = None]
  <2>1. /\ c \in Chats /\ rec \in Ops /\ rec.chat = c /\ rec.kind = "health" /\ rec.sess = s
        /\ rec.bridge = op[k].bridge
    BY <1>1 DEF Ops, Chat0
  <2>2. /\ m \in Memories /\ Elsewhere(m, mem, c) /\ m.stream[c] = None
        /\ m.bridge = mem.bridge /\ m.groups = mem.groups
    BY <1>1, <2>1, StoppedMem
  <2>3. TakesOff(k, m, rec)
    BY <1>1, <2>1, <2>2 DEF TakesOff
  <2> QED BY <1>1, <1>3, <2>1, <2>2, <2>3, DropIInv DEF IInv, TypeOK
<1> QED BY <1>2, <1>3 DEF HealthNext

LEMMA RefusedIInv == ASSUME IInv, NEW k \in Slots, Refused(k) PROVE IInv'
<1> DEFINE rec == [op[k] EXCEPT !.kind = "lapse"]
           c == rec.chat
           m == [mem EXCEPT !.stream[c] = None]
<1>1. /\ op[k].at = "connect" /\ op[k].kind = "attach" /\ op[k] \in Ops /\ op[k].sess \in Sessions
      /\ op[k].chat \in Chats /\ mem \in Memories
      /\ UNCHANGED <<up, boots, desk, astray>>
  BY DEF Refused, IInv, TypeOK, PlaceOK
<1>2. CASE Drop(k, m, rec)
  <2>1. /\ rec \in Ops /\ rec.chat = op[k].chat /\ rec.kind = "lapse" /\ rec.sess = op[k].sess
        /\ rec.bridge = op[k].bridge
    BY <1>1 DEF Ops, Kinds
  <2>2. /\ m \in Memories /\ Elsewhere(m, mem, c) /\ m.stream[c] = None
        /\ m.bridge = mem.bridge /\ m.groups = mem.groups
    BY <1>1, <2>1, StoppedMem
  <2>3. TakesOff(k, m, rec)
    BY <1>1, <2>1, <2>2 DEF TakesOff
  <2> QED BY <1>1, <1>2, <2>1, <2>2, <2>3, DropIInv DEF IInv, TypeOK
<1>3. CASE /\ mem' = [mem EXCEPT !.starting = IF rec.why = "start" THEN @ \ {rec.sess} ELSE @]
           /\ Ends(k) /\ UNCHANGED <<saved, wire, crossed>>
  <2>1. op' = [op EXCEPT ![k] = Free]
    BY <1>3 DEF Ends, Keeps
  <2>2. Goes(k, Free)
    BY <2>1, FreeType DEF Goes, Free
  <2>3. PICK S \in SUBSET Sessions : mem' = [mem EXCEPT !.starting = S]
    BY <1>1, <1>3 DEF Memories
  <2>4. boots' \in [Sessions -> Int]
    BY <1>1 DEF IInv, TypeOK
  <2> QED BY <1>1, <1>3, <2>1, <2>2, <2>3, <2>4, FreeType, StartingStep
<1> QED BY <1>2, <1>3 DEF Refused


-----------------------------------------------------------------------------
(* Servers, lost connections, the restart of the client. *)

LEMMA ServerUpIInv == ASSUME IInv, NEW s \in Sessions, ServerUp(s) PROVE IInv'
<1>1. /\ boots' = [boots EXCEPT ![s] = @ - 1] /\ up' = up \cup {s}
      /\ UNCHANGED <<mem, saved, wire, desk, op, crossed, astray>>
  BY DEF ServerUp, handler, history
<1>2. TypeOK'
  BY <1>1 DEF IInv, TypeOK
<1>3. \A k \in Making' : MakingOK(k)'
  BY <1>1 DEF IInv, Making, MakingOK, Busy
<1>4. \A c \in Chats \ crossed : ChatOK(c)'
  BY <1>1 DEF IInv, ChatOK, Stopped, Taking
<1> QED BY <1>1, <1>2, <1>3, <1>4 DEF IInv, WiresOK, SavedOK, Save

LEMMA DisconnectedIInv == ASSUME IInv, NEW b \in Bridges, Disconnected(b) PROVE IInv'
<1> DEFINE c == wire[b].chat
           dead == [wire[b] EXCEPT !.end = "dead"]
           making == \E k \in Busy : op[k].at = "desk" /\ op[k].bridge = b
<1>1. /\ wire[b].end = "eof" /\ c \in Chats /\ mem \in Memories
      /\ mem' = IF mem.bridge[c] = b THEN [Cleared(mem, c) EXCEPT !.bridge[c] = 0] ELSE mem
      /\ wire' = [wire EXCEPT ![b] = IF making THEN dead ELSE NoWire]
      /\ UNCHANGED <<up, boots, saved, desk, op, crossed, astray>>
  BY DEF Disconnected, IInv, TypeOK, WiresOK
<1>2. /\ mem' \in Memories /\ Elsewhere(mem', mem, c) /\ mem'.bind = mem.bind
      /\ mem'.groups = mem.groups
      /\ IF mem.bridge[c] = b
         THEN mem'.bridge[c] = 0 /\ mem'.session[c] = None /\ mem'.stream[c] = None
         ELSE mem' = mem
  <2>1. CASE mem.bridge[c] = b
    <3> DEFINE n == Cleared(mem, c)
    <3>1. /\ n \in Memories /\ Elsewhere(n, mem, c) /\ n.session[c] = None /\ n.stream[c] = None
          /\ n.bind = mem.bind /\ n.groups = mem.groups
      BY <1>1, ClearedMem
    <3> HIDE DEF n
    <3>2. mem' = [n EXCEPT !.bridge[c] = 0]
      BY <1>1, <2>1 DEF n
    <3> QED BY <1>1, <2>1, <3>1, <3>2, ConstantsAssumption DEF Memories, Elsewhere
  <2>2. CASE mem.bridge[c] # b
    BY <1>1, <2>2 DEF Elsewhere
  <2> QED BY <2>1, <2>2
<1>3. /\ dead \in Wires /\ dead.end = "dead" /\ dead.chat = c /\ dead.sess = wire[b].sess
      /\ wire \in [Bridges -> Wires]
  BY DEF IInv, TypeOK, Wires
<1>4. /\ wire' \in [Bridges -> Wires] /\ \A d \in Bridges \ {b} : wire'[d] = wire[d]
      /\ making => wire'[b] = dead
      /\ wire'[b].end # "none" => wire'[b] = dead
  BY <1>1, <1>3, NoWireType
<1>5. \A d \in Chats : /\ mem'.bridge[d] # b
                       /\ mem'.bridge[d] \in {0, mem.bridge[d]}
                       /\ mem'.bridge[d] # 0 => mem'.bridge[d] \in Bridges
  <2> SUFFICES ASSUME NEW d \in Chats
               PROVE  /\ mem'.bridge[d] # b
                      /\ mem'.bridge[d] \in {0, mem.bridge[d]}
                      /\ mem'.bridge[d] # 0 => mem'.bridge[d] \in Bridges
    OBVIOUS
  <2>1. mem.bridge[d] = b => d = c
    BY BridgesNotZero DEF IInv, WiresOK
  <2> QED BY <1>2, <2>1, BridgesNotZero DEF Elsewhere, Memories
<1>6. TypeOK'
  BY <1>1, <1>2, <1>4 DEF IInv, TypeOK
<1>7. ASSUME NEW j \in Making' PROVE MakingOK(j)'
  <2>1. /\ j \in Making /\ MakingOK(j) /\ op'[j] = op[j] /\ op[j].bridge \in Bridges
        /\ j \in Busy /\ Busy' = Busy
    BY <1>1, <1>7 DEF Making, Busy, IInv, PlaceOK
  <2>2. \A d \in Chats : mem'.bridge[d] # op[j].bridge
    BY <1>5, <2>1, BridgesNotZero DEF MakingOK
  <2>3. CASE op[j].bridge = b
    <3>1. op[j].at = "desk"
      BY <1>1, <2>1, <2>3 DEF Making, MakingOK
    <3>2. wire'[b] = dead
      BY <1>4, <2>1, <2>3, <3>1
    <3> QED BY <1>1, <1>3, <2>1, <2>2, <2>3, <3>1, <3>2 DEF MakingOK
  <2>4. CASE op[j].bridge # b
    BY <1>1, <1>4, <2>1, <2>2, <2>4 DEF MakingOK
  <2> QED BY <2>3, <2>4
<1>8. WiresOK'
  <2>1. ASSUME NEW d \in Bridges, wire'[d].end # "none"
        PROVE  wire'[d].chat \in Chats /\ wire'[d].sess \in Sessions
    BY <1>1, <1>3, <1>4, <2>1 DEF IInv, WiresOK
  <2>2. ASSUME NEW d \in Chats, mem'.bridge[d] # 0
        PROVE  wire'[mem'.bridge[d]].end # "none" /\ wire'[mem'.bridge[d]].chat = d
    BY <1>4, <1>5, <2>2 DEF IInv, WiresOK
  <2> QED BY <2>1, <2>2 DEF WiresOK
<1>9. ASSUME NEW d \in Chats \ crossed PROVE ChatOK(d)'
  <2>1. Taking(d)' = Taking(d) /\ \A j \in Taking(d) : op'[j] = op[j]
    BY <1>1 DEF Taking
  <2>2. CASE d = c /\ mem.bridge[c] = b
    BY <1>2, <2>1, <2>2 DEF ChatOK, Stopped
  <2>3. CASE ~(d = c /\ mem.bridge[c] = b)
    <3>1. /\ mem'.bridge[d] = mem.bridge[d] /\ mem'.session[d] = mem.session[d]
          /\ mem'.stream[d] = mem.stream[d] /\ mem'.bind[d] = mem.bind[d]
      BY <1>2, <2>3 DEF Elsewhere
    <3>2. mem.bridge[d] # 0 => wire'[mem.bridge[d]] = wire[mem.bridge[d]]
      BY <1>4, <1>5, <3>1
    <3> QED BY <1>9, <2>1, <3>1, <3>2, OthersOK DEF IInv
  <2> QED BY <2>2, <2>3
<1>10. SavedOK'
  BY <1>1, <1>2 DEF IInv, SavedOK, Save
<1> QED BY <1>1, <1>6, <1>7, <1>8, <1>9, <1>10 DEF IInv

\* What the client begins with, the first time and after a restart.
LEMMA FreshIInv ==
  ASSUME up' \subseteq Sessions, boots' \in [Sessions -> Int], desk' \subseteq Chats,
         NEW f \in Files,
         mem' = [bridge |-> [c \in Chats |-> 0], session |-> [c \in Chats |-> None],
                 stream |-> [c \in Chats |-> None], bind |-> f.bind, groups |-> f.groups,
                 starting |-> {}],
         saved' = f, wire' = [b \in Bridges |-> NoWire], op' = [k \in Slots |-> Free],
         crossed' = {}, astray' = {}
  PROVE  IInv'
<1>1. mem' \in Memories
  BY ConstantsAssumption DEF Memories, Files, Sess0
<1>2. TypeOK'
  BY <1>1, NoWireType, FreeType DEF TypeOK
<1>3. \A k \in Slots : PlaceOK(op[k])' /\ op'[k].at = "free"
  BY FreeType
<1>4. Making' = {} /\ \A c \in Chats : Taking(c)' = {}
  BY <1>3 DEF Making, Taking
<1>5. WiresOK'
  BY NoWireType DEF WiresOK
<1>6. \A c \in Chats : ChatOK(c)'
  BY <1>4 DEF ChatOK, Stopped
<1>7. SavedOK'
  BY DEF SavedOK, Save, Files
<1> QED BY <1>2, <1>3, <1>4, <1>5, <1>6, <1>7 DEF IInv

LEMMA RestartIInv == ASSUME IInv, Restart PROVE IInv'
<1>1. /\ saved \in Files /\ saved' = saved /\ up' \subseteq Sessions
      /\ boots' \in [Sessions -> Int] /\ desk' \subseteq Chats
  BY DEF Restart, IInv, TypeOK
<1> QED BY <1>1, FreshIInv DEF Restart


-----------------------------------------------------------------------------
(* Attaching a chat. *)

\* The connection the command of slot k has made is of its chat and to its session.
Made(k, w) ==
  LET b == op[k].bridge
  IN  /\ w \in [Bridges -> Wires] /\ \A d \in Bridges \ {b} : w[d] = wire[d]
      /\ w[b].chat = op[k].chat /\ w[b].sess = op[k].sess /\ w[b].end # "none"

LEMMA RecordedMem ==
  ASSUME NEW rec \in Ops, rec.chat \in Chats, rec.sess \in Sessions, mem \in Memories
  PROVE  LET n == Recorded(mem, rec)
             c == rec.chat
         IN  /\ n \in Memories /\ Elsewhere(n, mem, c)
             /\ n.bridge[c] = rec.bridge /\ n.session[c] = rec.sess /\ n.stream[c] = rec.sess
             /\ n.groups = mem.groups
             /\ IF rec.why \in {"attach", "start"} THEN n.bind[c] = rec.sess
                ELSE n.bind = mem.bind
  BY DEF Recorded, Memories, Sess0, Ops, Elsewhere

\* A chat is attached: unless that crosses another command, nobody takes it off.
LEMMA AttachedIInv ==
  ASSUME IInv, NEW k \in Making, Made(k, wire'), Attached(k),
         up' = up, boots' = boots, desk' \subseteq Chats
  PROVE  IInv'
<1> DEFINE rec == op[k]
           c == rec.chat
           b == rec.bridge
           entered == [rec EXCEPT !.kind = "message", !.at = "enter", !.bridge = b]
<1>1. /\ k \in Slots /\ rec \in Ops /\ PlaceOK(rec) /\ c \in Chats /\ rec.sess \in Sessions
      /\ b \in Bridges /\ rec.kind = "attach" /\ rec.at \in {"connect", "desk"}
      /\ MakingOK(k) /\ mem \in Memories
  BY DEF Making, IInv, TypeOK, PlaceOK
<1>2. mem' = Recorded(mem, rec)
  BY DEF Attached
<1>3. /\ mem' \in Memories /\ Elsewhere(mem', mem, c)
      /\ mem'.bridge[c] = b /\ mem'.session[c] = rec.sess /\ mem'.stream[c] = rec.sess
      /\ mem'.groups = mem.groups
      /\ IF rec.why \in {"attach", "start"} THEN mem'.bind[c] = rec.sess
         ELSE mem'.bind = mem.bind
  BY <1>1, <1>2, RecordedMem
<1>4. PICK r : op' = [op EXCEPT ![k] = r] /\ r \in {Free, entered}
  BY DEF Attached, Types, Ends, Keeps
<1>5. /\ r \in Ops /\ PlaceOK(r) /\ r.at \in {"free", "enter"} /\ r.bridge \in {0, b}
      /\ r.kind # "disband"
  <2>1. /\ entered \in Ops /\ PlaceOK(entered) /\ entered.at = "enter" /\ entered.bridge = b
        /\ entered.kind = "message"
    BY <1>1 DEF Ops, Kinds, Places, PlaceOK
  <2>2. Free.bridge = 0 /\ Free.kind # "disband"
    BY FreeType DEF Free, None
  <2> QED BY <1>4, <2>1, <2>2, FreeType
<1>6. /\ saved' = IF rec.why \in {"attach", "start"} THEN [saved EXCEPT !.bind = mem'.bind] ELSE saved
      /\ crossed \subseteq crossed' /\ crossed' \subseteq crossed \cup {c}
      /\ c \notin crossed' =>
           /\ rec.why \in {"message", "new group"} => mem.bind[c] = rec.sess
           /\ \A j \in On(c) \ {k} : op[j].at \notin {"card", "close"}
           /\ wire'[b].end \in Live
  BY DEF Attached, Live
<1>7. /\ wire' \in [Bridges -> Wires] /\ \A d \in Bridges \ {b} : wire'[d] = wire[d]
      /\ wire'[b].chat = c /\ wire'[b].sess = rec.sess /\ wire'[b].end # "none"
  BY DEF Made
<1>8. astray' \subseteq crossed'
  <2>1. astray' = astray
    BY <1>3, <1>7 DEF Attached, Types
  <2> QED BY <1>6, <2>1 DEF IInv
<1>9. TypeOK'
  <2>1. saved' \in Files
    BY <1>3, <1>6 DEF IInv, TypeOK, Files, Memories
  <2>2. crossed' \subseteq Chats
    BY <1>1, <1>6 DEF IInv, TypeOK
  <2>3. op' \in [Slots -> Ops]
    BY <1>4, <1>5 DEF IInv, TypeOK
  <2> QED BY <1>3, <1>7, <1>8, <2>1, <2>2, <2>3 DEF IInv, TypeOK
<1>10. \A j \in Slots : PlaceOK(op[j])'
  BY <1>4, <1>5 DEF IInv, TypeOK, PlaceOK
<1>11. ASSUME NEW j \in Making' PROVE MakingOK(j)'
  <2>1. j # k /\ j \in Making /\ op'[j] = op[j]
    BY <1>1, <1>4, <1>5, <1>11 DEF Making, IInv, TypeOK
  <2>2. MakingOK(j) /\ j \in Busy /\ k \in Busy /\ op[j].bridge \in Bridges
    BY <1>1, <2>1 DEF Making, Busy, IInv, PlaceOK
  <2>3. op[j].bridge # b /\ op[j].bridge # 0
    BY <2>1, <2>2, BridgesNotZero DEF MakingOK
  <2>4. \A i \in Busy' \ {j} : op'[i].bridge # op[j].bridge
    BY <1>4, <1>5, <2>2, <2>3 DEF MakingOK, Busy, IInv, TypeOK
  <2>5. \A d \in Chats : mem'.bridge[d] # op[j].bridge
    BY <1>3, <2>2, <2>3 DEF MakingOK, Elsewhere
  <2>6. wire'[op[j].bridge] = wire[op[j].bridge]
    BY <1>7, <2>2, <2>3
  <2> QED BY <2>1, <2>2, <2>4, <2>5, <2>6 DEF MakingOK
<1>12. \A d \in Chats \ {c} : /\ mem'.bridge[d] = mem.bridge[d] /\ mem.bridge[d] # b
                              /\ mem.bridge[d] # 0 => wire'[mem.bridge[d]] = wire[mem.bridge[d]]
  BY <1>1, <1>3, <1>7, BridgesNotZero DEF Elsewhere, MakingOK, Memories
<1>13. WiresOK'
  <2>1. ASSUME NEW d \in Bridges, wire'[d].end # "none"
        PROVE  wire'[d].chat \in Chats /\ wire'[d].sess \in Sessions
    BY <1>1, <1>7, <2>1 DEF IInv, WiresOK
  <2>2. ASSUME NEW d \in Chats, mem'.bridge[d] # 0
        PROVE  wire'[mem'.bridge[d]].end # "none" /\ wire'[mem'.bridge[d]].chat = d
    <3>1. CASE d = c
      BY <1>3, <1>7, <3>1
    <3>2. CASE d # c
      BY <1>12, <2>2, <3>2 DEF IInv, WiresOK
    <3> QED BY <3>1, <3>2
  <2> QED BY <2>1, <2>2 DEF WiresOK
<1>14. ASSUME NEW d \in Chats \ crossed' PROVE ChatOK(d)'
  <2>1. CASE d = c
    <3>1. Taking(d)' = {}
      <4>1. ASSUME NEW j \in Taking(d)' PROVE FALSE
        <5>1. j # k /\ op'[j] = op[j] /\ j \in Slots
          BY <1>4, <1>5, <4>1 DEF Taking, IInv, TypeOK
        <5>2. j \in On(c) \ {k} /\ op[j].at \in {"card", "close"}
          BY <2>1, <4>1, <5>1 DEF Taking, On, Busy
        <5> QED BY <1>6, <1>14, <2>1, <5>2
      <4> QED BY <4>1
    <3>2. mem'.bind[c] = rec.sess
      BY <1>1, <1>3, <1>6, <1>14, <2>1 DEF PlaceOK
    <3>3. wire'[b].end \in Live /\ b # 0
      BY <1>1, <1>6, <1>14, <2>1, BridgesNotZero
    <3> QED BY <1>3, <1>7, <2>1, <3>1, <3>2, <3>3 DEF ChatOK, Stopped
  <2>2. CASE d # c
    <3>1. Taking(d)' = Taking(d) /\ \A j \in Taking(d) : op'[j] = op[j]
      BY <1>1, <1>4, <1>5, <2>2 DEF Taking, IInv, TypeOK
    <3>2. ChatOK(d)
      BY <1>6, <1>14 DEF IInv
    <3> QED BY <1>3, <1>12, <1>14, <2>2, <3>1, <3>2, OthersOK DEF Elsewhere
  <2> QED BY <2>1, <2>2
<1>15. SavedOK'
  <2> SUFFICES ASSUME \A j \in Slots : op'[j].kind # "disband" PROVE saved' = Save(mem')
    BY DEF SavedOK
  <2>1. \A j \in Slots : op[j].kind # "disband"
    BY <1>1, <1>4 DEF IInv, TypeOK
  <2>2. saved = Save(mem)
    BY <2>1 DEF IInv, SavedOK
  <2> QED BY <1>3, <1>6, <2>2 DEF Save
<1> QED BY <1>8, <1>9, <1>10, <1>11, <1>13, <1>14, <1>15 DEF IInv

LEMMA DesktopLetGoIInv == ASSUME IInv, NEW k \in Slots, DesktopLetGo(k) PROVE IInv'
<1>1. /\ op[k].at = "desk" /\ wire' = wire /\ Attached(k) /\ desk' = desk \ {op[k].chat}
      /\ up' = up /\ boots' = boots
  BY DEF DesktopLetGo
<1>2. k \in Making /\ MakingOK(k)
  BY <1>1 DEF Making, IInv
<1>3. Made(k, wire')
  BY <1>1, <1>2 DEF MakingOK, Made, IInv, TypeOK
<1> QED BY <1>1, <1>2, <1>3, AttachedIInv DEF IInv, TypeOK

\* The connection is open; while a Desktop task is let go nobody else has it.
LEMMA ConnectedIInv == ASSUME IInv, NEW k \in Slots, Connected(k) PROVE IInv'
<1> DEFINE c == op[k].chat
           b == op[k].bridge
           opened == [chat |-> c, sess |-> op[k].sess, end |-> "open"]
<1>1. /\ op[k].at = "connect" /\ wire' = [wire EXCEPT ![b] = opened]
      /\ UNCHANGED <<up, boots, desk>>
  BY DEF Connected
<1>2. /\ k \in Making /\ MakingOK(k) /\ op[k] \in Ops /\ PlaceOK(op[k]) /\ op[k].kind = "attach"
      /\ c \in Chats /\ op[k].sess \in Sessions /\ b \in Bridges /\ wire[b].end = "none"
  BY <1>1 DEF Making, MakingOK, IInv, TypeOK, PlaceOK
<1>3. opened \in Wires /\ wire \in [Bridges -> Wires]
  BY <1>2 DEF Wires, Chat0, Sess0, IInv, TypeOK
<1>4. Made(k, wire')
  BY <1>1, <1>2, <1>3 DEF Made
<1>5. CASE Attached(k)
  BY <1>1, <1>2, <1>4, <1>5, AttachedIInv DEF IInv, TypeOK
<1>6. CASE Keeps(k, [op[k] EXCEPT !.at = "desk"]) /\ UNCHANGED <<handler, history>>
  <2> DEFINE r == [op[k] EXCEPT !.at = "desk"]
  <2>1. /\ op' = [op EXCEPT ![k] = r] /\ UNCHANGED <<mem, saved, crossed, astray>>
    BY <1>6 DEF Keeps, handler, history
  <2>2. /\ r \in Ops /\ PlaceOK(r) /\ r.at = "desk" /\ r.chat = c /\ r.sess = op[k].sess
        /\ r.bridge = b /\ r.kind = "attach"
    BY <1>2 DEF Ops, Places, PlaceOK
  <2> HIDE DEF r
  <2>3. op' \in [Slots -> Ops] /\ \A j \in Slots : PlaceOK(op[j])'
    BY <2>1, <2>2 DEF IInv, TypeOK, PlaceOK
  <2>4. wire' \in [Bridges -> Wires] /\ wire'[b] = opened
        /\ \A d \in Bridges \ {b} : wire'[d] = wire[d]
    BY <1>1, <1>2, <1>3
  <2>5. Busy' = Busy /\ Making' = Making
    BY <1>1, <2>1, <2>2 DEF Busy, Making, IInv, TypeOK
  <2>6. \A j \in Slots : op'[j].bridge = op[j].bridge /\ (j # k => op'[j] = op[j]) /\ op'[k] = r
    BY <2>1, <2>2 DEF IInv, TypeOK
  <2>7. ASSUME NEW j \in Making' PROVE MakingOK(j)'
    <3>1. MakingOK(j) /\ j \in Slots /\ op[j].bridge \in Bridges
      BY <2>5, <2>7 DEF IInv, Making, PlaceOK
    <3>2. \A i \in Busy' \ {j} : op'[i].bridge # op'[j].bridge
      BY <2>5, <2>6, <3>1 DEF MakingOK, Busy
    <3>3. CASE j = k
      BY <1>2, <2>1, <2>2, <2>4, <2>6, <3>1, <3>2, <3>3 DEF MakingOK
    <3>4. CASE j # k
      <4>1. op[j].bridge # b
        BY <1>2, <2>5, <2>7, <3>1, <3>4 DEF MakingOK, Making, Busy
      <4> QED BY <2>1, <2>4, <2>6, <3>1, <3>2, <3>4, <4>1 DEF MakingOK
    <3> QED BY <3>3, <3>4
  <2>8. WiresOK'
    <3>1. ASSUME NEW d \in Bridges, wire'[d].end # "none"
          PROVE  wire'[d].chat \in Chats /\ wire'[d].sess \in Sessions
      BY <1>2, <2>4, <3>1 DEF IInv, WiresOK
    <3>2. ASSUME NEW d \in Chats, mem'.bridge[d] # 0
          PROVE  wire'[mem'.bridge[d]].end # "none" /\ wire'[mem'.bridge[d]].chat = d
      <4>1. mem.bridge[d] # b /\ mem.bridge[d] \in Bridges
        BY <1>2, <2>1, <3>2, BridgesNotZero DEF MakingOK, IInv, TypeOK, Memories
      <4> QED BY <2>1, <2>4, <3>2, <4>1 DEF IInv, WiresOK
    <3> QED BY <3>1, <3>2 DEF WiresOK
  <2>9. ASSUME NEW d \in Chats \ crossed PROVE ChatOK(d)'
    <3>1. Taking(d)' = Taking(d) /\ \A j \in Taking(d) : op'[j] = op[j]
      BY <1>1, <2>2, <2>6 DEF Taking
    <3>2. mem.bridge[d] # 0 => wire'[mem.bridge[d]] = wire[mem.bridge[d]]
      BY <1>2, <2>4, BridgesNotZero DEF MakingOK, IInv, TypeOK, Memories
    <3> QED BY <2>1, <2>9, <3>1, <3>2, OthersOK DEF IInv
  <2>10. SavedOK'
    BY <2>1, <2>6, <2>2, <1>2 DEF IInv, SavedOK, Save
  <2> QED BY <1>1, <2>1, <2>3, <2>4, <2>7, <2>8, <2>9, <2>10 DEF IInv, TypeOK
<1> QED BY <1>5, <1>6 DEF Connected


-----------------------------------------------------------------------------
(* The theorems. *)

LEMMA InitIInv == Init => IInv
<1> SUFFICES ASSUME Init PROVE IInv
  OBVIOUS
<1>1. mem \in Memories /\ saved \in Files /\ saved = Save(mem)
  BY ConstantsAssumption DEF Init, Memories, Files, Save, Sess0
<1>2. TypeOK
  BY <1>1, NoWireType, FreeType DEF Init, TypeOK
<1>3. \A k \in Slots : PlaceOK(op[k]) /\ op[k].at = "free"
  BY FreeType DEF Init
<1>4. Making = {} /\ \A c \in Chats : Taking(c) = {}
  BY <1>3 DEF Making, Taking
<1>5. WiresOK
  BY NoWireType DEF Init, WiresOK
<1>6. \A c \in Chats : ChatOK(c)
  BY <1>4 DEF Init, ChatOK, Stopped
<1> QED BY <1>1, <1>2, <1>3, <1>4, <1>5, <1>6 DEF Init, IInv, SavedOK

LEMMA CommandIInv == ASSUME IInv, Command PROVE IInv'
<1>1. ASSUME NEW c \in Chats, CmdDetach(c) \/ ButtonDetach(c) \/ CmdMessage(c) \/ CmdDesktop(c)
      PROVE  IInv'
  BY <1>1, CmdDetachIInv, ButtonDetachIInv, CmdMessageIInv, CmdDesktopIInv
<1>2. ASSUME NEW c \in Chats, NEW s \in Sessions, CmdAttach(c, s) \/ CmdStart(c, s) PROVE IInv'
  BY <1>2, CmdAttachIInv, CmdStartIInv
<1>3. ASSUME NEW g \in Groups, CmdDisband(g) PROVE IInv'
  BY <1>3, CmdDisbandIInv
<1>4. ASSUME NEW g \in Groups, NEW s \in Sessions, CmdNewGroup(g, s) PROVE IInv'
  BY <1>4, CmdNewGroupIInv
<1>5. ASSUME NEW s \in Sessions, CmdKill(s) PROVE IInv'
  BY <1>5, CmdKillIInv
<1> QED BY <1>1, <1>2, <1>3, <1>4, <1>5 DEF Command

LEMMA StepIInv == ASSUME IInv, NEW k \in Slots, Step(k) PROVE IInv'
  BY ClosedIInv, CardOffIInv, ConnectedIInv, RefusedIInv, DesktopLetGoIInv, BootedIInv,
     KillNextIInv, DisbandNextIInv, HealthNextIInv, EnteredIInv, DesktopAttachedIInv DEF Step

LEMMA NextIInv == IInv /\ [Next]_vars => IInv'
<1> SUFFICES ASSUME IInv, [Next]_vars PROVE IInv'
  OBVIOUS
<1>1. CASE Command
  BY <1>1, CommandIInv
<1>2. ASSUME NEW k \in Slots, Step(k) \/ BootGivenUp(k) PROVE IInv'
  BY <1>2, StepIInv, BootGivenUpIInv
<1>3. ASSUME NEW b \in Bridges, Disconnected(b) \/ AdriftEnds(b) PROVE IInv'
  BY <1>3, DisconnectedIInv, AdriftEndsIInv
<1>4. ASSUME NEW s \in Sessions, HealthCheck(s) \/ ServerUp(s) \/ ServerDies(s) PROVE IInv'
  BY <1>4, HealthCheckIInv, ServerUpIInv, ServerDiesIInv
<1>5. CASE Restart
  BY <1>5, RestartIInv
<1>6. CASE UNCHANGED vars
  <2>1. /\ UNCHANGED <<up, boots, mem, saved, wire, desk, op, crossed, astray>>
    BY <1>6 DEF vars, handler, history
  <2>2. TypeOK' /\ WiresOK' /\ SavedOK' /\ \A k \in Slots : PlaceOK(op[k])'
    BY <2>1 DEF IInv, TypeOK, WiresOK, SavedOK, Save, PlaceOK
  <2>3. \A k \in Making' : MakingOK(k)'
    BY <2>1 DEF IInv, Making, MakingOK, Busy
  <2>4. \A c \in Chats \ crossed : ChatOK(c)'
    BY <2>1 DEF IInv, ChatOK, Stopped, Taking
  <2> QED BY <2>1, <2>2, <2>3, <2>4 DEF IInv
<1> QED BY <1>1, <1>2, <1>3, <1>4, <1>5, <1>6 DEF Next

\* The records, the connections and the commands under way agree in every state.
THEOREM InvariantTheorem == Spec => []IInv
  BY InitIInv, NextIInv, PTL DEF Spec

\* A quiet chat has no command that takes it off, and a connection it has is open.
LEMMA QuietOpen ==
  ASSUME IInv, NEW c \in Chats \ crossed, Quiet(c)
  PROVE  /\ Taking(c) = {}
         /\ mem.bridge[c] # 0 => wire[mem.bridge[c]].end \in Live
<1>1. Taking(c) = {}
  BY DEF Quiet, On, Busy, Taking
<1>2. ASSUME mem.bridge[c] # 0 PROVE wire[mem.bridge[c]].end \in Live
  <2>1. /\ mem.bridge[c] \in Bridges /\ wire[mem.bridge[c]].chat = c
        /\ wire[mem.bridge[c]].end \in Live \cup {"eof"}
    BY <1>2, BridgesNotZero DEF IInv, TypeOK, Memories, WiresOK, ChatOK
  <2> QED BY <2>1 DEF Quiet
<1> QED BY <1>1, <1>2

\* The session, the poller and the connection the handler notes of a chat agree when no
\* command is under way for it, unless two commands crossed (_attach and _detach, which
\* no lock keeps apart).
THEOREM OneConnectionTheorem == Spec => []OneConnection
<1>1. IInv => OneConnection
  <2> SUFFICES ASSUME IInv, NEW c \in Chats \ crossed, Quiet(c)
               PROVE  /\ mem.session[c] = mem.stream[c]
                      /\ (mem.session[c] # None) = (mem.bridge[c] # 0)
                      /\ mem.bridge[c] # 0 => Runs(mem.bridge[c])
                                              /\ wire[mem.bridge[c]].sess = mem.session[c]
    BY DEF OneConnection
  <2>1. ChatOK(c) /\ Taking(c) = {} /\ (mem.bridge[c] # 0 => wire[mem.bridge[c]].end \in Live)
    BY QuietOpen DEF IInv
  <2>2. mem.bridge[c] # 0 => wire[mem.bridge[c]].sess \in Sessions
    BY <2>1, BridgesNotZero DEF IInv, TypeOK, Memories, WiresOK
  <2>3. None \notin Sessions
    BY ConstantsAssumption
  <2> QED BY <2>1, <2>2, <2>3 DEF ChatOK, Runs, Live
<1> QED BY <1>1, InvariantTheorem, PTL

\* A text goes to the session whose output the chat shows, or showed until a command that
\* is taking it off began (_forward_to_claude).
THEOREM RightSessionTheorem == Spec => []RightSession
<1>1. IInv => RightSession
  BY DEF IInv, RightSession
<1> QED BY <1>1, InvariantTheorem, PTL

\* A connected chat is bound to the session it is connected to, if that is on the list
\* (_attach with the saved bindings of _cmd_attach, _cmd_start, _cmd_new_group and
\* _ensure_bridge, against the loops of _cmd_kill and the health check).
THEOREM BoundWhereConnectedTheorem == Spec => []BoundWhereConnected
<1>1. IInv => BoundWhereConnected
  <2> SUFFICES ASSUME IInv, NEW c \in Chats \ crossed, Quiet(c), mem.session[c] # None,
                      wire[mem.bridge[c]].end # "adrift"
               PROVE  mem.bind[c] = mem.session[c]
    BY DEF BoundWhereConnected
  <2>1. ChatOK(c) /\ Taking(c) = {} /\ (mem.bridge[c] # 0 => wire[mem.bridge[c]].end \in Live)
    BY QuietOpen DEF IInv
  <2> QED BY <2>1 DEF ChatOK, Live
<1> QED BY <1>1, InvariantTheorem, PTL

\* With no command under way, the files of the bindings and of the groups hold what the
\* memory holds (_save_chat_bindings, _save_group_chat_ids).
THEOREM FilesCurrentTheorem == Spec => []FilesCurrent
<1>1. IInv => FilesCurrent
  <2> SUFFICES ASSUME IInv, Busy = {} PROVE saved = Save(mem)
    BY DEF FilesCurrent
  <2>1. \A k \in Slots : op[k].kind = None
    BY DEF Busy, IInv, PlaceOK
  <2> QED BY <2>1 DEF IInv, SavedOK, None
<1> QED BY <1>1, InvariantTheorem, PTL
=============================================================================
