--------------------------- MODULE DesktopIpcProofs ---------------------------
(***************************************************************************)
(* Proofs about the client of Codex Desktop's socket.  The three           *)
(* invariants of the module rest on one inductive invariant, in four       *)
(* parts: who is in connect() (LockInv), what the connection's fields say  *)
(* of its reader (ConnInv), what Desktop follows and will follow once it   *)
(* has taken the frames under way (FollowInv), and what the revision of a  *)
(* thread will be once the reader has taken them (RevInv).                 *)
(***************************************************************************)
EXTENDS DesktopIpc, SequenceTheorems, FiniteSetTheorems, TLAPS

Timers == Resyncs \cup {Reconnect}

\* where a coroutine can stand
Stands(p) ==
  Connecting \cup
    (IF p \in Readers THEN Idle \cup {"reading", "cancelled", "gather", "closing"}
     ELSE IF p \in Timers THEN {"idle", "sleep"}
     ELSE {"idle", "answer", "dropping"})

PlacesOK ==
  /\ DOMAIN pc = Procs
  /\ \A p \in Procs : pc[p] \in Stands(p)
  /\ \A g \in 1..MaxConnections : g > conn.gen => pc[Reader(g)] = "idle"

\* Who is in connect() is in the lock's queue, of any two one came first, and only who is behind
\* nobody is past the wait.
LockInv ==
  /\ lock \in [Procs -> SUBSET Procs]
  /\ \A p \in Procs : lock[p] \subseteq Queue(pc) \ {p}
  /\ \A p \in Procs \ Queue(pc) : lock[p] = {}
  /\ \A p, q \in Queue(pc) : p = q \/ p \in lock[q] \/ q \in lock[p]
  /\ \A p \in Queue(pc) : pc[p] # "connect" => lock[p] = {}

\* The fields of the connection: reader and writer come and go together; while somebody makes a
\* connection it is not ready; and who has his initialize answered, or sees the client ready,
\* has a reader and has not been closed.
ConnInv ==
  /\ conn \in [writer : Nat, reader : Nat, gen : 0..MaxConnections,
               ready : BOOLEAN, closing : BOOLEAN]
  /\ conn.reader = conn.writer /\ conn.writer \in {None, conn.gen}
  /\ \A p \in Queue(pc) : pc[p] # "connect" => ~conn.ready
  /\ \A p \in Procs : pc[p] \in {"opening", "abandon"} => conn.writer = None
  /\ conn.writer # None /\ (conn.ready \/ \E p \in Procs : pc[p] = "inited")
       => ~conn.closing /\ Alive(Reader(conn.gen))
  /\ \A g \in 1..MaxConnections : pc[Reader(g)] = "closing" => g # conn.writer
  /\ conn.writer = None => wire = Down

FrameKinds ==
  {"init", "follow", "unfollow", "request", "inited", "answer", "snapshot", "patch", "status"}

\* a frame or a message; all but init, request and their answers name a thread
Frames ==
  {f \in [kind : FrameKinds, t : Threads \cup {None}, n : Nat] :
     f.kind \in {"follow", "unfollow", "snapshot", "patch", "status"} => f.t \in Threads}

Jobs == [op : AllOps \cup {"none"}, t : Threads \cup {None}, n : Nat]

\* what a coroutine that stands at v may be there for
JobOK(p, v, j) ==
  /\ j \in Jobs
  /\ p \in Readers \cup Timers => j.op = "none"
  /\ p \in Readers /\ v \in Connecting => j.t \in Threads
  /\ \A t \in Threads : p = Resync(t) /\ v # "idle" => j.t = t
  /\ p = Reconnect => j = NoJob
  /\ p \notin Readers /\ v \in {"idle", "dropping"} => j = NoJob
  /\ p \notin Readers \cup Timers /\ v \in Connecting =>
       j.op \in {"follow", "unfollow", "request"} /\ j.t \in Threads

JobsOK == ops \in Nat /\ DOMAIN job = Procs /\ \A p \in Procs : JobOK(p, pc[p], job[p])

WireOK ==
  /\ wire \in [up : BOOLEAN, out : Seq(Frames), in : Seq(Frames)]
  /\ followed \subseteq Threads /\ IsFiniteSet(followed) /\ desk \subseteq Threads
  /\ rev \in [Threads -> Nat] /\ attempts \in [Threads -> Nat]
  /\ sent \in [Threads -> Nat] /\ line \in [Threads -> Nat]

Says(s, t, kind) == \E i \in DOMAIN s : s[i].kind = kind /\ s[i].t = t

\* whether whoever follows t, or not, does so when it has taken the frames s
Heeds(b, t, s) ==
  \/ b /\ ~Says(s, t, "unfollow")
  \/ \E i \in DOMAIN s :
        /\ s[i].kind = "follow" /\ s[i].t = t
        /\ \A j \in DOMAIN s : j > i => ~(s[j].kind = "unfollow" /\ s[j].t = t)

Told(t, d, out) == Heeds(t \in d, t, out)

\* a connection on which nothing was asked for yet
Raw ==
  /\ desk = {}
  /\ \A i \in DOMAIN wire.out : wire.out[i].kind = "init"
  /\ \A i \in DOMAIN wire.in : wire.in[i].kind \notin {"snapshot", "patch"}

\* nobody asked for t on this connection
Fresh(t) ==
  t \notin desk /\ ~Says(wire.out, t, "follow") /\ ~Says(wire.in, t, "patch")

\* somebody reads, or will read again, what comes on the connection
Heard ==
  conn.writer # None /\ pc[Reader(conn.gen)] \notin {"cancelled", "gather", "closing", "done"}

Unfollows(c, t) == pc[Call(c)] \in Connecting /\ job[Call(c)].op = "unfollow" /\ job[Call(c)].t = t
Follows(c, t) == pc[Call(c)] \in Connecting /\ job[Call(c)].op = "follow" /\ job[Call(c)].t = t

\* the client has forgotten t, and Desktop was not asked for it
Dropped(t) == t \notin followed /\ pc[Resync(t)] = "idle" /\ (Heard => Fresh(t))

\* Until the client is ready, Desktop has been asked for nothing.
RawInv ==
  /\ \A p \in Procs : pc[p] \in {"init", "inited", "initfail"} /\ conn.writer # None => Raw
  /\ Heard /\ ~conn.ready => Raw

\* Once it is, Desktop will follow what the client follows.
ToldInv ==
  \A t \in Threads \ mixed :
     Connected /\ wire.up => (Told(t, desk, wire.out) <=> t \in followed)

\* Who waits for a connection to tell Desktop about t still means it.
WaitInv ==
  \A t \in Threads \ mixed :
     /\ \A p \in Readers : pc[p] \in Connecting /\ job[p].t = t => t \in followed
     /\ \A c \in Calls : Unfollows(c, t) => Dropped(t) /\ \A d \in Calls : ~Follows(d, t)

FollowInv == RawInv /\ ToldInv /\ WaitInv

About(s, t, i) == s[i].kind \in {"snapshot", "patch"} /\ s[i].t = t

Tells(s, t) == \E i \in DOMAIN s : About(s, t, i)

\* the last that s says of the revision of t is n
LastIs(s, t, n) ==
  \A i \in DOMAIN s : About(s, t, i) /\ (\A j \in DOMAIN s : j > i => ~About(s, t, j)) => s[i].n = n

\* the client has the revision Desktop sent last, or has asked for it, or will read of it
Caught(t) ==
  /\ LastIs(wire.in, t, sent[t])
  /\ rev[t] = sent[t] \/ attempts[t] > 0 \/ Tells(wire.in, t)

RevInv ==
  /\ \A t \in Threads : pc[Resync(t)] # "idle" => attempts[t] > 0
  /\ \A t \in Threads \ desk : sent[t] = 0
  /\ Connected /\ wire.up =>
       \A t \in desk : sent[t] = 0 \/ Says(wire.out, t, "unfollow") \/ Caught(t)

IInv == PlacesOK /\ LockInv /\ ConnInv /\ JobsOK /\ WireOK /\ FollowInv /\ RevInv

-----------------------------------------------------------------------------
(* Names of coroutines. *)

LEMMA Kinds ==
  /\ \A c \in Calls : Call(c) \in Procs /\ Call(c) \notin Readers /\ Call(c) \notin Timers
  /\ \A c, d \in Calls : Call(c) = Call(d) => c = d
  /\ \A g \in 1..MaxConnections : Reader(g) \in Readers
  /\ \A g, h \in 1..MaxConnections : Reader(g) = Reader(h) => g = h
  /\ \A t \in Threads : Resync(t) \in Resyncs
  /\ \A t, u \in Threads : Resync(t) = Resync(u) => t = u
  /\ Reconnect \in Timers /\ Reconnect \notin Resyncs /\ Resyncs \subseteq Timers
  /\ Readers \subseteq Procs /\ Timers \subseteq Procs /\ Readers \cap Timers = {}
  /\ \A p \in Readers : \E g \in 1..MaxConnections : p = Reader(g)
  /\ \A p \in Resyncs : \E t \in Threads : p = Resync(t)
  /\ \A p \in Procs : p \in Readers \/ p \in Timers \/ \E c \in Calls : p = Call(c)
  BY DEF Call, Reader, Resync, Reconnect, Procs, Readers, Resyncs, Timers

LEMMA Bounds == MaxConnections \in Nat /\ ResyncLimit \in Nat /\ ResyncLimit > 0
  BY ConstantsAssumption DEF ConstantsAssumption

-----------------------------------------------------------------------------
(* The lock. *)

\* At most one coroutine enters connect() in a step, and who is past the wait was first.
LEMMA LockStep ==
  ASSUME LockInv, lock' = Turns(pc'), NEW j,
         \A p \in Queue(pc') : p \in Queue(pc) \/ p = j,
         \A p \in Queue(pc') : pc'[p] # "connect" => p \in Queue(pc) /\ lock[p] = {}
  PROVE  LockInv'
<1> DEFINE Q == Queue(pc)
           R == Queue(pc')
<1>1. Q \subseteq Procs /\ R \subseteq Procs
  BY DEF Queue
<1>2. \A p \in Procs : lock'[p] = IF p \notin R THEN {} ELSE IF p \in Q THEN lock[p] \cap R ELSE R \ {p}
  BY DEF Turns
<1>3. lock' \in [Procs -> SUBSET Procs]
  BY <1>1, <1>2 DEF Turns, LockInv
<1>4. \A p, q \in Q : p = q \/ p \in lock[q] \/ q \in lock[p]
  BY DEF LockInv
<1>5. \A p \in Procs : lock[p] \subseteq Q \ {p}
  BY DEF LockInv
<1>6. \A p \in R : p \in Q \/ p = j
  OBVIOUS
<1>7. \A p \in R : pc'[p] # "connect" => p \in Q /\ lock[p] = {}
  OBVIOUS
<1> HIDE DEF Q, R
<1>8. \A p, q \in R : p = q \/ p \in lock'[q] \/ q \in lock'[p]
  BY <1>1, <1>2, <1>4, <1>6
<1>9. ASSUME NEW p \in Procs PROVE lock'[p] \subseteq R \ {p}
  <2>1. CASE p \notin R
    BY <1>2, <2>1
  <2>2. CASE p \in R /\ p \in Q
    <3>1. lock'[p] = lock[p] \cap R
      BY <1>2, <2>2
    <3> QED BY <1>5, <3>1
  <2>3. CASE p \in R /\ p \notin Q
    BY <1>2, <2>3
  <2> QED BY <2>1, <2>2, <2>3
<1>10. \A p \in R : pc'[p] # "connect" => lock'[p] = {}
  BY <1>1, <1>2, <1>7
<1>11. \A p \in Procs \ R : lock'[p] = {}
  BY <1>2
<1> QED BY <1>3, <1>8, <1>9, <1>10, <1>11 DEF LockInv, Queue, R

\* Nobody enters connect() or leaves it.
LEMMA TurnsSame ==
  ASSUME LockInv, Queue(pc') = Queue(pc)
  PROVE  Turns(pc') = lock
<1> DEFINE Q == Queue(pc)
<1>1. \A p \in Procs : lock[p] \cap Q = lock[p] /\ (p \notin Q => lock[p] = {})
  BY DEF LockInv
<1>2. lock = [p \in Procs |-> lock[p]]
  BY DEF LockInv
<1>3. Turns(pc') = [p \in Procs |-> CASE p \notin Q -> {} [] p \in Q \cap Q -> lock[p] \cap Q
                                     [] p \in Q \ Q -> Q \ {p}]
  BY DEF Turns
<1> HIDE DEF Q
<1> QED BY <1>1, <1>2, <1>3

LEMMA OneHolder ==
  ASSUME LockInv, NEW p \in Queue(pc), NEW q \in Queue(pc), lock[p] = {}, lock[q] = {}
  PROVE  p = q
  BY DEF LockInv

\* Who is past the wait is alone there.
LEMMA OnePast ==
  ASSUME LockInv, NEW p \in Queue(pc), pc[p] # "connect" \/ lock[p] = {}, NEW q \in Queue(pc), pc[q] # "connect"
  PROVE  p = q
  BY OneHolder DEF LockInv

-----------------------------------------------------------------------------
(* The connection. *)

Past == Connecting \ {"connect"}

\* A step that leaves the connection's fields alone.
LEMMA ConnStays ==
  ASSUME ConnInv, PlacesOK, DOMAIN pc' = Procs, conn' = conn,
         conn.writer = None => wire' = wire,
         \A p \in Procs : pc'[p] \in Past => pc[p] \in Past,
         \A p \in Procs : pc'[p] \in {"opening", "abandon"} => pc'[p] = pc[p],
         \A p \in Procs : pc'[p] = "inited" =>
            pc[p] = "inited" \/ (~conn.closing /\ pc'[Reader(conn.gen)] \notin Idle),
         conn.writer # None /\ ~conn.closing /\ pc[Reader(conn.gen)] \notin Idle
            => pc'[Reader(conn.gen)] \notin Idle,
         \A g \in 1..MaxConnections : pc'[Reader(g)] = "closing" => pc[Reader(g)] = "closing"
  PROVE  ConnInv'
<1> USE DEF ConnInv, Queue, Past
<1>1. \A p \in Queue(pc)' : pc'[p] # "connect" => ~conn'.ready
  BY DEF Connecting
<1>2. conn'.writer # None /\ (conn'.ready \/ \E p \in Procs : pc'[p] = "inited")
       => ~conn'.closing /\ Alive(Reader(conn.gen))'
  BY DEF Alive
<1>3. \A p \in Procs : pc'[p] \in {"opening", "abandon"} => conn'.writer = None
  OBVIOUS
<1>4. \A g \in 1..MaxConnections : pc'[Reader(g)] = "closing" => g # conn'.writer
  OBVIOUS
<1>5. conn'.writer = None => wire' = Down
  OBVIOUS
<1> QED BY <1>1, <1>2, <1>3, <1>4, <1>5 DEF Alive, Reader, Connecting

\* A step in which one coroutine moves, but not past the wait, and perhaps timers stop.
LEMMA MildStep ==
  ASSUME PlacesOK, LockInv, ConnInv, conn' = conn, lock' = Turns(pc'), DOMAIN pc' = Procs,
         conn.writer = None => wire' = wire,
         NEW p,
         \A q \in Procs : q # p => pc'[q] = pc[q] \/ (pc'[q] = "idle" /\ q \notin Readers),
         p \in Procs => pc'[p] \in Stands(p) \ Past,
         p \in Readers => pc[p] # "idle" /\ pc'[p] \in {"connect", "reading", "cancelled"}
  PROVE  PlacesOK' /\ LockInv' /\ ConnInv'
<1>1. \A q \in Procs : pc'[q] \in Stands(q)
  BY DEF PlacesOK, Stands
<1>2. \A g \in 1..MaxConnections : g > conn'.gen => pc'[Reader(g)] = "idle"
  BY Kinds DEF PlacesOK
<1>3. PlacesOK'
  BY <1>1, <1>2 DEF PlacesOK, Stands, Readers, Timers, Resyncs, Connecting
<1>4. \A q \in Procs : pc'[q] \in Past => pc'[q] = pc[q]
  BY DEF Past, Connecting
<1>5. LockInv'
  <2>1. \A q \in Queue(pc') : q \in Queue(pc) \/ q = p
    BY DEF Queue, Connecting
  <2>2. \A q \in Queue(pc') : pc'[q] # "connect" => q \in Queue(pc) /\ lock[q] = {}
    BY <1>4 DEF Queue, Past, LockInv
  <2> QED BY <2>1, <2>2, LockStep
<1>6. ConnInv'
  <2>1. \A q \in Procs : pc'[q] \in Past => pc[q] \in Past
    BY <1>4
  <2>2. \A q \in Procs : pc'[q] \in {"opening", "abandon"} => pc'[q] = pc[q]
    BY <1>4 DEF Past, Connecting
  <2>3. \A q \in Procs : pc'[q] = "inited" => pc[q] = "inited"
    BY <1>4 DEF Past, Connecting
  <2>4. conn.writer # None => Reader(conn.gen) \in Readers
    BY Kinds DEF ConnInv, None
  <2>5. conn.writer # None /\ pc[Reader(conn.gen)] \notin Idle => pc'[Reader(conn.gen)] \notin Idle
    BY <2>4, Kinds DEF Idle
  <2>6. \A g \in 1..MaxConnections : pc'[Reader(g)] = "closing" => pc[Reader(g)] = "closing"
    BY Kinds
  <2> QED BY <2>1, <2>2, <2>3, <2>5, <2>6, ConnStays
<1> QED BY <1>3, <1>5, <1>6

\* A job goes on, or is over.
LEMMA JobMoves ==
  ASSUME NEW p \in Procs, NEW v, NEW w, NEW j, JobOK(p, v, j),
         w \in Connecting => v \in Connecting \/ p \in Timers,
         p \in Timers /\ w # "idle" => v # "idle" \/ p = Reconnect,
         w \in Stands(p), w # "dropping" \/ v = "dropping"
  PROVE  /\ JobOK(p, w, IF w \in Idle THEN NoJob ELSE j)
         /\ (p \in Readers \/ w # "idle") => JobOK(p, w, j)
<1>1. p \in Timers => p \notin Readers /\ w # "done"
  BY Kinds DEF Stands, Connecting
<1>2. NoJob \in Jobs /\ NoJob.op = "none"
  BY DEF NoJob, Jobs, None
<1>3. CASE w \in Idle
  BY <1>1, <1>2, <1>3, Kinds DEF JobOK, Idle, Connecting
<1>4. CASE w \notin Idle
  BY <1>1, <1>4, Kinds DEF JobOK, Idle, Connecting
<1> QED BY <1>3, <1>4

LEMMA JobsSettle ==
  ASSUME JobsOK, PlacesOK', job' = Settled(pc'), ops' \in Nat,
         \A p \in Procs :
            /\ pc'[p] \in Connecting => pc[p] \in Connecting \/ p \in Timers
            /\ p \in Timers /\ pc'[p] # "idle" => pc[p] # "idle" \/ p = Reconnect
            /\ pc'[p] # "dropping" \/ pc[p] = "dropping"
  PROVE  JobsOK'
<1>1. DOMAIN job' = Procs /\ \A p \in Procs : job'[p] = IF pc'[p] \in Idle THEN NoJob ELSE job[p]
  BY DEF Settled
<1>2. \A p \in Procs : JobOK(p, pc'[p], job'[p])
  BY <1>1, JobMoves DEF JobsOK, PlacesOK, Stands, Readers, Timers, Resyncs, Reader, Resync
<1> QED BY <1>1, <1>2 DEF JobsOK, JobOK, Readers, Timers, Resyncs, Reader, Resync

Ctl == PlacesOK /\ LockInv /\ ConnInv /\ JobsOK

\* What a coroutine that is connected sends, as far as its place and its job go.
LEMMA SentPlace ==
  ASSUME NEW p \in Procs, NEW v, NEW j, JobOK(p, v, j), v \in Connecting \/ p \in Timers
  PROVE  /\ Sent(p, j) \in Stands(p) \ Past
         /\ p \in Readers => Sent(p, j) = "reading"
         /\ Sent(p, j) = "answer" => p \notin Readers \cup Timers
         /\ Sent(p, j) \in {"reading", "answer", "idle"}
  BY Kinds DEF Sent, JobOK, Stands, Past, Connecting, Idle, NoJob

\* A coroutine that was in connect(), or a timer, goes on with the connection there is.
LEMMA EmitJobs ==
  ASSUME JobsOK, NEW p \in Procs, NEW j, JobOK(p, "connect", j), NEW before, NEW known, NEW place,
         DOMAIN place = Procs, PlacesOK', ops' \in Nat,
         \A q \in Procs : place[q] = pc[q] \/ (place[q] = "idle" /\ q \notin Readers),
         Emit(p, j, before, known, place)
  PROVE  JobsOK'
<1> DEFINE s == Sent(p, j)
<1>1. pc' = [place EXCEPT ![p] = s] /\ job' = [Settled(place) EXCEPT ![p] = IF s = "answer" THEN j ELSE NoJob]
  BY DEF Emit
<1>2. s \in {"reading", "answer", "idle"} /\ (s = "answer" => p \notin Readers \cup Timers)
      /\ (p \in Readers => s = "reading") /\ s \in Stands(p)
  BY SentPlace, "connect" \in Connecting DEF Connecting
<1> HIDE DEF s
<1>3. DOMAIN job' = Procs /\ \A q \in Procs : q # p =>
         job'[q] = IF place[q] \in Idle THEN NoJob ELSE job[q]
  BY <1>1 DEF Settled
<1>4. pc'[p] = s /\ job'[p] = IF s = "answer" THEN j ELSE NoJob
  BY <1>1 DEF Settled
<1>5. JobOK(p, pc'[p], job'[p])
  <2>1. CASE s = "answer"
    BY <1>2, <1>4, <2>1, Kinds DEF JobOK, Connecting
  <2>2. CASE s # "answer"
    BY <1>2, <1>4, <2>2, Kinds DEF JobOK, NoJob, Jobs, None, Connecting, Stands
  <2> QED BY <2>1, <2>2
<1>6. ASSUME NEW q \in Procs, q # p PROVE JobOK(q, pc'[q], job'[q])
  <2>1. pc'[q] = place[q]
    BY <1>1, <1>6
  <2>2. JobOK(q, pc[q], job[q])
    BY DEF JobsOK
  <2>3. CASE place[q] = "idle"
    <3>1. job'[q] = NoJob
      BY <1>3, <1>6, <2>3 DEF Idle
    <3> QED BY <2>1, <2>3, <3>1, Kinds DEF JobOK, NoJob, Jobs, None, Connecting
  <2>4. CASE place[q] = pc[q] /\ place[q] # "idle"
    <3>1. place[q] = "done" => q \in Readers
      BY <2>1, <2>4 DEF PlacesOK, Stands, Connecting, Readers, Timers, Resyncs, Reader, Resync
    <3>2. CASE place[q] = "done"
      <4>1. job'[q] = NoJob
        BY <1>3, <1>6, <3>2 DEF Idle
      <4> QED BY <2>1, <3>1, <3>2, <4>1, Kinds DEF JobOK, NoJob, Jobs, None, Connecting
    <3>3. CASE place[q] # "done"
      <4>1. job'[q] = job[q]
        BY <1>3, <1>6, <2>4, <3>3 DEF Idle
      <4> QED BY <2>1, <2>2, <2>4, <4>1
    <3> QED BY <3>2, <3>3
  <2> QED BY <2>3, <2>4
<1> QED BY <1>3, <1>5, <1>6 DEF JobsOK, JobOK, Readers, Timers, Resyncs, Reader, Resync

-----------------------------------------------------------------------------
(* The public calls. *)

LEMMA BeginCtl ==
  ASSUME Ctl, NEW c \in Calls, NEW op \in Ops, NEW t \in Threads, Begin(c, op, t)
  PROVE  Ctl'
<1> DEFINE p == Call(c)
           j == [op |-> op, t |-> t, n |-> ops + 1]
           drop == op = "unfollow"
           known == IF drop THEN followed \ {t} ELSE followed
           place == IF drop THEN [pc EXCEPT ![Resync(t)] = "idle"] ELSE pc
<1>1. p \in Procs /\ p \notin Readers /\ p \notin Timers /\ pc[p] = "idle" /\ Resync(t) \in Procs
      /\ Resync(t) \notin Readers /\ Resync(t) # p
  BY Kinds DEF Begin
<1>2. DOMAIN place = Procs /\ \A q \in Procs : place[q] = pc[q] \/ (place[q] = "idle" /\ q \notin Readers)
  BY <1>1 DEF Ctl, PlacesOK
<1>3. place[p] = "idle"
  BY <1>1 DEF Ctl, PlacesOK
<1>4. JobOK(p, "connect", j) /\ ops' \in Nat
  <2>1. op \in {"follow", "unfollow", "request"} /\ ops \in Nat /\ ops' = ops + 1
    BY ConstantsAssumption DEF Begin, AllOps, Ctl, JobsOK
  <2> QED BY <1>1, <2>1, Kinds DEF JobOK, Jobs, AllOps, Connecting
<1>5. conn' = conn /\ lock' = Turns(pc')
  BY DEF Begin
<1>6. CASE Connected
  <2>1. Emit(p, j, <<>>, known, place)
    BY <1>6 DEF Begin
  <2>2. pc' = [place EXCEPT ![p] = Sent(p, j)]
    BY <2>1 DEF Emit
  <2>3. Sent(p, j) \in Stands(p) \ Past
    BY <1>1, <1>4, SentPlace DEF Connecting
  <2>4. conn.writer # None
    BY <1>6 DEF Connected
  <2> HIDE DEF j, place, known
  <2>5. PlacesOK' /\ LockInv' /\ ConnInv'
    BY <1>1, <1>2, <1>5, <2>2, <2>3, <2>4, MildStep DEF Ctl
  <2>6. JobsOK'
    BY <1>1, <1>2, <1>4, <2>1, <2>5, EmitJobs DEF Ctl
  <2> QED BY <2>5, <2>6 DEF Ctl
<1>7. CASE ~Connected
  <2>1. pc' = [place EXCEPT ![p] = "connect"] /\ job' = [Settled(place) EXCEPT ![p] = j] /\ wire' = wire
    BY <1>7 DEF Begin
  <2> HIDE DEF j, place, known
  <2>2. "connect" \in Stands(p) \ Past
    BY DEF Stands, Past, Connecting
  <2>3. PlacesOK' /\ LockInv' /\ ConnInv'
    BY <1>1, <1>2, <1>5, <2>1, <2>2, MildStep DEF Ctl
  <2>4. ASSUME NEW q \in Procs PROVE JobOK(q, pc'[q], job'[q])
    <3>1. CASE q = p
      BY <1>2, <1>4, <2>1, <3>1 DEF Settled
    <3>2. CASE q # p
      <4>1. pc'[q] = place[q] /\ job'[q] = IF place[q] \in Idle THEN NoJob ELSE job[q]
        BY <1>2, <2>1, <3>2 DEF Settled
      <4>2. JobOK(q, pc[q], job[q])
        BY DEF Ctl, JobsOK
      <4>3. place[q] \in Stands(q)
        BY <2>3, <4>1 DEF PlacesOK, Stands, Connecting, Readers, Timers, Resyncs, Reader, Resync
      <4>4. place[q] = pc[q] \/ place[q] = "idle"
        BY <1>2
      <4> QED BY <4>1, <4>2, <4>3, <4>4, JobMoves DEF Connecting
    <3> QED BY <3>1, <3>2
  <2>5. DOMAIN job' = Procs
    BY <1>2, <2>1 DEF Settled
  <2> QED BY <1>4, <2>3, <2>4, <2>5 DEF Ctl, JobsOK, JobOK, Readers, Timers, Resyncs, Reader, Resync
<1> QED BY <1>6, <1>7

LEMMA RequestTimeoutCtl ==
  ASSUME Ctl, NEW c \in Calls, RequestTimeout(c)
  PROVE  Ctl'
<1>1. Call(c) \in Procs /\ Call(c) \notin Readers /\ Call(c) \notin Timers /\ pc[Call(c)] = "answer"
      /\ pc' = [pc EXCEPT ![Call(c)] = "idle"] /\ conn' = conn /\ lock' = lock /\ wire' = wire
      /\ job' = Settled(pc') /\ ops' = ops
  BY Kinds DEF RequestTimeout, budget
<1>2. DOMAIN pc' = Procs /\ pc'[Call(c)] = "idle" /\ \A q \in Procs : q # Call(c) => pc'[q] = pc[q]
  BY <1>1 DEF Ctl, PlacesOK
<1>3. Queue(pc') = Queue(pc)
  BY <1>1, <1>2 DEF Queue, Connecting
<1>4. lock' = Turns(pc')
  BY <1>1, <1>3, TurnsSame DEF Ctl
<1>5. "idle" \in Stands(Call(c)) \ Past
  BY <1>1 DEF Stands, Past, Connecting
<1>6. PlacesOK' /\ LockInv' /\ ConnInv'
  BY <1>1, <1>2, <1>4, <1>5, MildStep DEF Ctl
<1>7. JobsOK'
  BY <1>1, <1>2, <1>6, JobsSettle DEF Ctl, Connecting, JobsOK
<1> QED BY <1>6, <1>7 DEF Ctl

-----------------------------------------------------------------------------
(* connect(). *)

\* Cancelling the reader of the connection moves it alone.
LEMMA CancelledPlaces ==
  ASSUME PlacesOK, ConnInv, NEW p
  PROVE  LET place == Cancelled(pc, conn.reader, p) IN
         /\ DOMAIN place = Procs
         /\ \A q \in Procs : place[q] \in Stands(q)
         /\ \A q \in Procs : place[q] = pc[q] \/
              (q \in Readers /\ q # p /\ pc[q] \notin Idle /\ place[q] \in {"cancelled", "done"})
         /\ \A g \in 1..MaxConnections : g > conn.gen => place[Reader(g)] = "idle"
<1> DEFINE r == Reader(conn.reader)
<1>1. CASE conn.reader = None \/ r = p \/ pc[r] \in Idle
  BY <1>1 DEF Cancelled, PlacesOK
<1>2. CASE ~(conn.reader = None \/ r = p \/ pc[r] \in Idle)
  <2>1. conn.reader \in 1..MaxConnections /\ conn.reader = conn.gen
    BY <1>2 DEF ConnInv, None
  <2>2. r \in Readers /\ r \in Procs
    BY <2>1, Kinds
  <2>3. Cancelled(pc, conn.reader, p) = [pc EXCEPT ![r] = IF @ = "gather" THEN "done" ELSE "cancelled"]
    BY <1>2 DEF Cancelled
  <2>4. \A v \in {"cancelled", "done"} : v \in Stands(r)
    BY <2>2 DEF Stands, Idle
  <2>5. \A g \in 1..MaxConnections : g > conn.gen => Reader(g) # r
    BY <2>1, Kinds
  <2> QED BY <1>2, <2>2, <2>3, <2>4, <2>5, Kinds DEF PlacesOK
<1> QED BY <1>1, <1>2

\* The transport is given up by the coroutine whose turn it is, or by a call of disconnect().
LEMMA CloseStep ==
  ASSUME PlacesOK, LockInv, ConnInv, NEW p \in Procs, NEW b \in BOOLEAN, Close(p, b), wire' = Down,
         lock' = Turns(pc'), DOMAIN pc' = Procs,
         \A q \in Procs : pc'[q] \in Stands(q),
         \A q \in Procs \ {p} : pc'[q] = pc[q] \/
            (pc'[q] \notin Connecting /\ pc'[q] # "closing" /\ (q \in Readers => pc[q] # "idle")),
         (p \in Queue(pc) /\ lock[p] = {}) \/ pc'[p] \notin Connecting,
         p \in Readers => pc[p] # "idle",
         pc'[p] # "closing"
  PROVE  PlacesOK' /\ LockInv' /\ ConnInv'
<1>1. conn' = [conn EXCEPT !.ready = FALSE, !.reader = None, !.writer = None, !.closing = b]
  BY DEF Close
<1>2. conn' \in [writer : Nat, reader : Nat, gen : 0..MaxConnections, ready : BOOLEAN, closing : BOOLEAN]
      /\ conn'.writer = None /\ conn'.reader = None /\ ~conn'.ready /\ conn'.gen = conn.gen
  BY <1>1 DEF ConnInv, None
<1>3. PlacesOK'
  <2>1. ASSUME NEW g \in 1..MaxConnections, g > conn.gen PROVE pc'[Reader(g)] = "idle"
    BY <2>1, Kinds DEF PlacesOK
  <2> QED BY <1>2, <2>1 DEF PlacesOK, Stands, Readers, Timers, Resyncs, Connecting
<1>4. LockInv'
  <2>1. \A q \in Queue(pc') : q \in Queue(pc)
    BY DEF Queue
  <2>2. \A q \in Queue(pc') : pc'[q] # "connect" => q \in Queue(pc) /\ lock[q] = {}
    BY DEF Queue, LockInv
  <2> QED BY <2>1, <2>2, LockStep
<1>5. ConnInv'
  BY <1>2 DEF ConnInv, None, Queue
<1> QED BY <1>3, <1>4, <1>5

LEMMA AcquireCtl ==
  ASSUME Ctl, NEW p \in Procs, Acquire(p)
  PROVE  Ctl'
<1>1. pc[p] = "connect" /\ lock[p] = {} /\ p \in Queue(pc) /\ lock' = Turns(pc') /\ ops' = ops
  BY DEF Acquire, Queue, Connecting, budget
<1>2. JobOK(p, "connect", job[p]) /\ ops \in Nat
  BY <1>1 DEF Ctl, JobsOK
<1>3. DOMAIN pc = Procs
  BY DEF Ctl, PlacesOK
<1>4. CASE Connected
  <2>1. Emit(p, job[p], <<>>, followed, pc) /\ conn' = conn /\ conn.writer # None
    BY <1>4 DEF Acquire, Connected
  <2>2. pc' = [pc EXCEPT ![p] = Sent(p, job[p])]
    BY <2>1 DEF Emit
  <2>3. Sent(p, job[p]) \in Stands(p) \ Past /\ (p \in Readers => Sent(p, job[p]) = "reading")
    BY <1>2, SentPlace DEF Connecting
  <2>4. PlacesOK' /\ LockInv' /\ ConnInv'
    BY <1>1, <1>3, <2>1, <2>2, <2>3, MildStep DEF Ctl
  <2>5. JobsOK'
    BY <1>1, <1>2, <1>3, <2>1, <2>4, EmitJobs DEF Ctl
  <2> QED BY <2>4, <2>5 DEF Ctl
<1>5. CASE ~Connected
  <2> DEFINE place == Cancelled(pc, conn.reader, p)
  <2>1. Close(p, FALSE) /\ pc' = [place EXCEPT ![p] = "opening"] /\ wire' = Down /\ job' = job
    BY <1>5 DEF Acquire
  <2>2. /\ DOMAIN place = Procs
        /\ \A q \in Procs : place[q] \in Stands(q)
        /\ \A q \in Procs : place[q] = pc[q] \/
              (q \in Readers /\ q # p /\ pc[q] \notin Idle /\ place[q] \in {"cancelled", "done"})
    BY CancelledPlaces DEF Ctl
  <2> HIDE DEF place
  <2>3. DOMAIN pc' = Procs /\ pc'[p] = "opening" /\ \A q \in Procs \ {p} : pc'[q] = place[q]
    BY <2>1, <2>2
  <2>4. "opening" \in Stands(p)
    BY DEF Stands, Connecting
  <2>5. \A q \in Procs : pc'[q] \in Stands(q)
    BY <2>2, <2>3, <2>4
  <2>6. \A q \in Procs \ {p} : pc'[q] = pc[q] \/
            (pc'[q] \notin Connecting /\ pc'[q] # "closing" /\ (q \in Readers => pc[q] # "idle"))
    BY <2>2, <2>3 DEF Connecting, Idle
  <2>7. PlacesOK' /\ LockInv' /\ ConnInv'
    BY <1>1, <2>1, <2>3, <2>5, <2>6, CloseStep DEF Ctl
  <2>8. ASSUME NEW q \in Procs PROVE JobOK(q, pc'[q], job'[q])
    <3>1. JobOK(q, pc[q], job[q])
      BY DEF Ctl, JobsOK
    <3>2. pc'[q] = pc[q] \/ (q \in Readers /\ pc'[q] \in {"cancelled", "done"})
          \/ (q = p /\ pc'[q] = "opening")
      BY <2>2, <2>3
    <3> QED BY <1>1, <2>1, <2>5, <3>1, <3>2, JobMoves, Kinds DEF Connecting
  <2> QED BY <1>1, <1>2, <2>1, <2>7, <2>8 DEF Ctl, JobsOK, JobOK, Readers, Timers, Resyncs, Reader, Resync
<1> QED BY <1>4, <1>5

LEMMA OpenCtl ==
  ASSUME Ctl, NEW p \in Procs, Open(p)
  PROVE  Ctl'
<1> DEFINE g == conn.gen + 1
           r == Reader(g)
<1>1. pc[p] = "opening" /\ ~Leaving /\ lock' = lock /\ job' = job /\ ops' = ops
      /\ pc' = [pc EXCEPT ![p] = "init", ![r] = "reading"]
      /\ conn' = [conn EXCEPT !.gen = g, !.writer = g, !.reader = g]
  BY DEF Open, budget
<1>2. g \in 1..MaxConnections /\ r \in Readers /\ r \in Procs /\ pc[r] = "idle" /\ p # r
  <2>1. g \in 1..MaxConnections /\ g > conn.gen
    BY ConstantsAssumption DEF Open, Ctl, ConnInv
  <2>2. pc[r] = "idle"
    BY <2>1 DEF Ctl, PlacesOK
  <2> QED BY <1>1, <2>1, <2>2, Kinds
<1> HIDE DEF g, r
<1>3. conn' \in [writer : Nat, reader : Nat, gen : 0..MaxConnections, ready : BOOLEAN, closing : BOOLEAN]
      /\ conn'.writer = g /\ conn'.reader = g /\ conn'.gen = g /\ conn'.ready = conn.ready
  <2>1. g \in Nat /\ g \in 0..MaxConnections
    BY <1>2, Bounds
  <2> QED BY <1>1, <2>1 DEF Ctl, ConnInv
<1>4. DOMAIN pc' = Procs /\ pc'[p] = "init" /\ pc'[r] = "reading" /\ \A q \in Procs \ {p, r} : pc'[q] = pc[q]
  BY <1>1, <1>2 DEF Ctl, PlacesOK
<1>5. p \in Queue(pc) /\ \A q \in Queue(pc) : pc[q] # "connect" => q = p
  BY <1>1, OnePast DEF Ctl, Queue, Connecting
<1>6. PlacesOK'
  <2>1. \A q \in Procs : pc'[q] \in Stands(q)
    BY <1>2, <1>4 DEF Ctl, PlacesOK, Stands, Connecting
  <2>2. \A h \in 1..MaxConnections : h > g => pc'[Reader(h)] = "idle"
    <3> SUFFICES ASSUME NEW h \in 1..MaxConnections, h > g PROVE pc'[Reader(h)] = "idle"
      OBVIOUS
    <3>1. pc[Reader(h)] = "idle" /\ Reader(h) # r /\ Reader(h) \in Procs
      BY <1>2, Kinds DEF Ctl, PlacesOK, ConnInv, g, r
    <3> QED BY <1>1, <1>4, <3>1
  <2> QED BY <1>3, <1>4, <2>1, <2>2 DEF PlacesOK, Stands, Readers, Timers, Resyncs, Connecting, Reader, Resync
<1>7. LockInv'
  <2>1. Queue(pc') = Queue(pc)
    BY <1>1, <1>2, <1>4 DEF Queue, Connecting
  <2>2. lock' = Turns(pc')
    BY <1>1, <2>1, TurnsSame DEF Ctl
  <2>3. \A q \in Queue(pc') : pc'[q] # "connect" => q \in Queue(pc) /\ lock[q] = {}
    BY <1>1, <1>2, <1>4, <1>5, <2>1 DEF Ctl, LockInv, Queue, Connecting
  <2>4. \A q \in Queue(pc') : q \in Queue(pc) \/ q = p
    BY <2>1
  <2> QED BY <2>2, <2>3, <2>4, LockStep DEF Ctl
<1>8. ConnInv'
  <2>1. ~conn.ready
    BY <1>1, <1>5 DEF Ctl, ConnInv
  <2>2. \A q \in Procs : pc'[q] \notin {"opening", "abandon", "inited"}
    BY <1>1, <1>4, <1>5 DEF Queue, Connecting
  <2>3. \A h \in 1..MaxConnections : pc'[Reader(h)] # "closing"
    BY <1>1, <1>4, Kinds DEF Leaving
  <2> QED BY <1>2, <1>3, <2>1, <2>2, <2>3 DEF ConnInv, None
<1>9. JobsOK'
  <2>1. ASSUME NEW q \in Procs PROVE JobOK(q, pc'[q], job'[q])
    <3>1. JobOK(q, pc[q], job[q])
      BY DEF Ctl, JobsOK
    <3>2. q = p \/ q = r \/ pc'[q] = pc[q]
      BY <1>4
    <3>3. pc'[q] \in Stands(q)
      BY <1>6 DEF PlacesOK, Stands, Readers, Timers, Resyncs, Connecting, Reader, Resync
    <3>4. q = r => q \notin Timers
      BY <1>2, Kinds
    <3> QED BY <1>1, <1>2, <1>4, <3>1, <3>2, <3>3, <3>4, JobMoves DEF Connecting
  <2> QED BY <1>1, <2>1 DEF Ctl, JobsOK, JobOK, Readers, Timers, Resyncs, Reader, Resync
<1> QED BY <1>6, <1>7, <1>8, <1>9 DEF Ctl

\* A coroutine leaves connect() with an error.
LEMMA FailedCtl ==
  ASSUME Ctl, NEW p \in Queue(pc), pc' = [pc EXCEPT ![p] = Failed(p)], job' = Settled(pc'),
         lock' = Turns(pc'), conn' = conn, wire' = wire, ops' = ops
  PROVE  Ctl'
<1>1. p \in Procs /\ pc[p] \in Connecting
  BY DEF Queue
<1>2. Failed(p) \in Stands(p) \ Past /\ (p \in Readers => Failed(p) = "cancelled")
      /\ (Failed(p) = "sleep" => p = Reconnect) /\ Failed(p) \notin {"dropping", "connect"}
  BY <1>1, Kinds DEF Failed, Stands, Past, Connecting, Idle
<1>3. DOMAIN pc' = Procs /\ pc'[p] = Failed(p) /\ \A q \in Procs \ {p} : pc'[q] = pc[q]
  BY <1>1 DEF Ctl, PlacesOK
<1>4. p \in Readers => pc[p] # "idle"
  BY <1>1 DEF Connecting
<1>5. PlacesOK' /\ LockInv' /\ ConnInv'
  BY <1>2, <1>3, <1>4, MildStep DEF Ctl
<1>6. \A q \in Procs :
            /\ pc'[q] \in Connecting => pc[q] \in Connecting \/ q \in Timers
            /\ q \in Timers /\ pc'[q] # "idle" => pc[q] # "idle" \/ q = Reconnect
            /\ pc'[q] # "dropping" \/ pc[q] = "dropping"
  BY <1>1, <1>2, <1>3 DEF Past, Connecting
<1>7. JobsOK'
  <2>1. ops' \in Nat
    BY DEF Ctl, JobsOK
  <2> QED BY <1>5, <1>6, <2>1, JobsSettle DEF Ctl
<1> QED BY <1>5, <1>7 DEF Ctl

LEMMA InitializedCtl ==
  ASSUME Ctl, NEW p \in Procs, Initialized(p)
  PROVE  Ctl'
<1>1. pc[p] = "inited" /\ p \in Queue(pc) /\ lock[p] = {} /\ conn' = [conn EXCEPT !.ready = TRUE]
      /\ lock' = Turns(pc') /\ ops' = ops
  BY DEF Initialized, Queue, Connecting, Ctl, LockInv, budget
<1>2. \A q \in Queue(pc) : pc[q] # "connect" => q = p
  BY <1>1, OnePast DEF Ctl
<1>3. conn' \in [writer : Nat, reader : Nat, gen : 0..MaxConnections, ready : BOOLEAN, closing : BOOLEAN]
      /\ conn'.writer = conn.writer /\ conn'.reader = conn.reader /\ conn'.gen = conn.gen
      /\ conn'.closing = conn.closing
  BY <1>1 DEF Ctl, ConnInv
<1>4. JobOK(p, "connect", job[p]) /\ ops \in Nat
  BY <1>1 DEF Ctl, JobsOK, JobOK, Connecting
<1> DEFINE v == pc'[p]
<1>5. /\ DOMAIN pc' = Procs /\ \A q \in Procs \ {p} : pc'[q] = pc[q]
      /\ v \in Stands(p) \ Past /\ v # "connect" /\ (p \in Readers => v \in {"reading", "cancelled"})
      /\ v \in {"reading", "answer", "idle", "cancelled"}
      /\ conn.writer = None => wire' = wire
  <2>1. CASE conn.writer # None
    <3>1. pc' = [pc EXCEPT ![p] = Sent(p, job[p])]
      BY <2>1 DEF Initialized, Emit
    <3>2. v = Sent(p, job[p]) /\ DOMAIN pc' = Procs /\ \A q \in Procs \ {p} : pc'[q] = pc[q]
      BY <3>1 DEF Ctl, PlacesOK
    <3>3. Sent(p, job[p]) \in Stands(p) \ Past /\ (p \in Readers => Sent(p, job[p]) = "reading")
          /\ Sent(p, job[p]) \in {"reading", "answer", "idle"}
      BY <1>4, SentPlace DEF Connecting
    <3> QED BY <2>1, <3>2, <3>3
  <2>2. CASE conn.writer = None
    <3>1. pc' = [pc EXCEPT ![p] = IF p \in Readers THEN "cancelled" ELSE "idle"] /\ wire' = wire
      BY <2>2 DEF Initialized
    <3> QED BY <3>1 DEF Ctl, PlacesOK, Stands, Past, Connecting
  <2> QED BY <2>1, <2>2
<1> HIDE DEF v
<1>6. PlacesOK'
  <2>1. \A q \in Procs : pc'[q] \in Stands(q)
    BY <1>5 DEF Ctl, PlacesOK, v
  <2>2. \A h \in 1..MaxConnections : h > conn.gen => pc'[Reader(h)] = "idle"
    <3> SUFFICES ASSUME NEW h \in 1..MaxConnections, h > conn.gen PROVE pc'[Reader(h)] = "idle"
      OBVIOUS
    <3>1. pc[Reader(h)] = "idle" /\ Reader(h) \in Procs
      BY Kinds DEF Ctl, PlacesOK
    <3> QED BY <1>1, <1>5, <3>1
  <2> QED BY <1>3, <1>5, <2>1, <2>2 DEF PlacesOK, Stands, Readers, Timers, Resyncs, Connecting, Reader, Resync
<1>7. LockInv'
  <2>1. \A q \in Queue(pc') : q # p /\ q \in Queue(pc) /\ pc'[q] = pc[q]
    BY <1>5 DEF Queue, Past, v, Connecting
  <2>2. \A q \in Queue(pc') : pc'[q] # "connect" => q \in Queue(pc) /\ lock[q] = {}
    BY <1>2, <2>1
  <2> QED BY <1>1, <2>1, <2>2, LockStep DEF Ctl
<1>8. ConnInv'
  <2>1. \A q \in Procs : pc'[q] \notin Past
    BY <1>2, <1>5 DEF Queue, Past, v
  <2>2. conn.writer # None => ~conn.closing /\ pc[Reader(conn.gen)] \notin Idle /\ Reader(conn.gen) \in Readers
    BY <1>1, Kinds DEF Ctl, ConnInv, Alive, None
  <2>3. conn.writer # None => pc'[Reader(conn.gen)] \notin Idle
    BY <1>5, <2>2, Kinds DEF Idle, v
  <2>4. \A g \in 1..MaxConnections : pc'[Reader(g)] = "closing" => pc[Reader(g)] = "closing"
    BY <1>5, Kinds DEF v
  <2>5. \A q \in Queue(pc)' : pc'[q] = "connect"
    BY <2>1 DEF Queue, Past
  <2>6. conn.writer = None => wire' = Down
    BY <1>5 DEF Ctl, ConnInv
  <2>7. \A q \in Procs : pc'[q] \notin {"opening", "abandon"}
    BY <2>1 DEF Past, Connecting
  <2>8. Reader(conn.gen)' = Reader(conn.gen)
    BY <1>3 DEF Reader
  <2> QED BY <1>3, <2>2, <2>3, <2>4, <2>5, <2>6, <2>7, <2>8 DEF Ctl, ConnInv, Alive
<1>9. JobsOK'
  <2>1. CASE conn.writer # None
    <3>1. PICK before : Emit(p, job[p], before, followed, pc)
      BY <2>1 DEF Initialized
    <3> QED BY <1>1, <1>4, <1>6, <3>1, EmitJobs DEF Ctl, PlacesOK
  <2>2. CASE conn.writer = None
    <3>1. job' = Settled(pc')
      BY <2>2 DEF Initialized
    <3>2. \A q \in Procs :
            /\ pc'[q] \in Connecting => pc[q] \in Connecting \/ q \in Timers
            /\ q \in Timers /\ pc'[q] # "idle" => pc[q] # "idle" \/ q = Reconnect
            /\ pc'[q] # "dropping" \/ pc[q] = "dropping"
      BY <1>1, <1>5 DEF v, Past, Connecting
    <3> QED BY <1>1, <1>4, <1>6, <3>1, <3>2, JobsSettle DEF Ctl
  <2> QED BY <2>1, <2>2
<1> QED BY <1>6, <1>7, <1>8, <1>9 DEF Ctl

\* A step that wakes coroutines in connect(), stops others, or ends a reader that is not the
\* connection's any more.
LEMMA WakeStep ==
  ASSUME PlacesOK, LockInv, ConnInv, conn' = conn, lock' = Turns(pc'), DOMAIN pc' = Procs,
         conn.writer = None => wire' = wire,
         \A q \in Procs : pc'[q] \in Stands(q),
         \A q \in Procs : \/ pc'[q] = pc[q]
                          \/ pc[q] = "init" /\ pc'[q] = "initfail"
                          \/ pc[q] = "init" /\ pc'[q] = "inited" /\ ~conn.closing
                             /\ pc'[Reader(conn.gen)] \notin Idle
                          \/ q \notin Readers /\ pc'[q] \in {"idle", "sleep"}
                          \/ q \in Readers /\ pc'[q] = "done" /\ pc[q] # "idle"
                             /\ (conn.closing \/ q # Reader(conn.writer))
  PROVE  PlacesOK' /\ LockInv' /\ ConnInv'
<1>1. \A q \in Procs : q \in Readers /\ pc[q] = "idle" => pc'[q] = "idle"
  OBVIOUS
<1>2. PlacesOK'
  <2>1. \A g \in 1..MaxConnections : g > conn'.gen => pc'[Reader(g)] = "idle"
    BY <1>1, Kinds DEF PlacesOK
  <2> QED BY <2>1 DEF PlacesOK, Stands, Readers, Timers, Resyncs, Connecting, Reader, Resync
<1>3. \A q \in Procs : pc'[q] \in Connecting => pc[q] \in Connecting /\ (pc'[q] # "connect" => pc[q] # "connect")
  BY DEF Connecting
<1>4. LockInv'
  <2>1. \A q \in Queue(pc') : q \in Queue(pc)
    BY <1>3 DEF Queue
  <2>2. \A q \in Queue(pc') : pc'[q] # "connect" => q \in Queue(pc) /\ lock[q] = {}
    BY <1>3 DEF Queue, LockInv
  <2> QED BY <2>1, <2>2, LockStep
<1>5. ConnInv'
  <2>1. \A q \in Procs : pc'[q] \in Past => pc[q] \in Past
    BY <1>3 DEF Past
  <2>2. \A q \in Procs : pc'[q] \in {"opening", "abandon"} => pc'[q] = pc[q]
    OBVIOUS
  <2>3. \A q \in Procs : pc'[q] = "inited" =>
            pc[q] = "inited" \/ (~conn.closing /\ pc'[Reader(conn.gen)] \notin Idle)
    OBVIOUS
  <2>4. conn.writer # None /\ ~conn.closing /\ pc[Reader(conn.gen)] \notin Idle
            => pc'[Reader(conn.gen)] \notin Idle
    <3> SUFFICES ASSUME conn.writer # None, ~conn.closing, pc[Reader(conn.gen)] \notin Idle
                 PROVE  pc'[Reader(conn.gen)] \notin Idle
      OBVIOUS
    <3>1. conn.gen = conn.writer /\ conn.gen \in 1..MaxConnections
      BY DEF ConnInv, None
    <3>2. Reader(conn.gen) \in Readers /\ Reader(conn.gen) \in Procs
      BY <3>1, Kinds
    <3> QED BY <3>1, <3>2 DEF Idle
  <2>5. \A g \in 1..MaxConnections : pc'[Reader(g)] = "closing" => pc[Reader(g)] = "closing"
    BY Kinds
  <2> QED BY <2>1, <2>2, <2>3, <2>4, <2>5, ConnStays
<1> QED BY <1>2, <1>4, <1>5

LEMMA InitializeTimeoutCtl ==
  ASSUME Ctl, NEW p \in Procs, InitializeTimeout(p)
  PROVE  Ctl'
<1>1. pc[p] = "init" /\ pc' = [pc EXCEPT ![p] = "initfail"] /\ conn' = conn /\ lock' = lock /\ job' = job
      /\ wire' = wire /\ ops' = ops
  BY DEF InitializeTimeout
<1>2. DOMAIN pc' = Procs /\ pc'[p] = "initfail" /\ \A q \in Procs \ {p} : pc'[q] = pc[q]
  BY <1>1 DEF Ctl, PlacesOK
<1>3. \A q \in Procs : pc'[q] \in Stands(q)
  BY <1>2 DEF Ctl, PlacesOK, Stands, Connecting
<1>4. lock' = Turns(pc')
  <2>1. Queue(pc') = Queue(pc)
    BY <1>1, <1>2 DEF Queue, Connecting
  <2> QED BY <1>1, <2>1, TurnsSame DEF Ctl
<1>5. PlacesOK' /\ LockInv' /\ ConnInv'
  BY <1>1, <1>2, <1>3, <1>4, WakeStep DEF Ctl
<1>6. ASSUME NEW q \in Procs PROVE JobOK(q, pc'[q], job'[q])
  <2>1. JobOK(q, pc[q], job[q])
    BY DEF Ctl, JobsOK
  <2> QED BY <1>1, <1>2, <1>3, <2>1, JobMoves DEF Connecting
<1> QED BY <1>1, <1>5, <1>6 DEF Ctl, JobsOK, JobOK, Readers, Timers, Resyncs, Reader, Resync

LEMMA InitializeFailedCtl ==
  ASSUME Ctl, NEW p \in Procs, InitializeFailed(p)
  PROVE  Ctl'
<1> DEFINE place == Cancelled(pc, conn.reader, p)
<1>1. /\ pc[p] = "initfail" /\ p \in Queue(pc) /\ lock[p] = {} /\ lock' = Turns(pc') /\ ops' = ops
      /\ Close(p, conn.closing) /\ pc' = [place EXCEPT ![p] = "abandon"] /\ wire' = Down /\ job' = job
  BY DEF InitializeFailed, Queue, Connecting, Ctl, LockInv, budget
<1>2. /\ DOMAIN place = Procs
      /\ \A q \in Procs : place[q] \in Stands(q)
      /\ \A q \in Procs : place[q] = pc[q] \/
            (q \in Readers /\ q # p /\ pc[q] \notin Idle /\ place[q] \in {"cancelled", "done"})
  BY CancelledPlaces DEF Ctl
<1> HIDE DEF place
<1>3. DOMAIN pc' = Procs /\ pc'[p] = "abandon" /\ \A q \in Procs \ {p} : pc'[q] = place[q]
  BY <1>1, <1>2
<1>4. "abandon" \in Stands(p)
  BY DEF Stands, Connecting
<1>5. \A q \in Procs : pc'[q] \in Stands(q)
  BY <1>2, <1>3, <1>4
<1>6. \A q \in Procs \ {p} : pc'[q] = pc[q] \/
          (pc'[q] \notin Connecting /\ pc'[q] # "closing" /\ (q \in Readers => pc[q] # "idle"))
  BY <1>2, <1>3 DEF Connecting, Idle
<1>7. conn.closing \in BOOLEAN
  BY DEF Ctl, ConnInv
<1>8. PlacesOK' /\ LockInv' /\ ConnInv'
  BY <1>1, <1>3, <1>5, <1>6, <1>7, CloseStep DEF Ctl
<1>9. ASSUME NEW q \in Procs PROVE JobOK(q, pc'[q], job'[q])
  <2>1. JobOK(q, pc[q], job[q])
    BY DEF Ctl, JobsOK
  <2>2. pc'[q] = pc[q] \/ (q \in Readers /\ pc'[q] \in {"cancelled", "done"})
        \/ (q = p /\ pc'[q] = "abandon")
    BY <1>2, <1>3
  <2> QED BY <1>1, <1>5, <2>1, <2>2, JobMoves, Kinds DEF Connecting
<1> QED BY <1>1, <1>8, <1>9 DEF Ctl, JobsOK, JobOK, Readers, Timers, Resyncs, Reader, Resync

LEMMA ConnectCtl ==
  ASSUME Ctl, NEW p \in Procs, ConnectStep(p) \/ OpenRefused(p)
  PROVE  Ctl'
<1>1. CASE OpenRefused(p)
  <2>1. p \in Queue(pc)
    BY <1>1 DEF OpenRefused, Queue, Connecting
  <2> QED BY <1>1, <2>1, FailedCtl DEF OpenRefused
<1>2. CASE ConnectFailed(p)
  <2>1. p \in Queue(pc)
    BY <1>2 DEF ConnectFailed, Queue, Connecting
  <2> QED BY <1>2, <2>1, FailedCtl DEF ConnectFailed, budget
<1> QED BY <1>1, <1>2, AcquireCtl, OpenCtl, InitializedCtl, InitializeTimeoutCtl, InitializeFailedCtl DEF ConnectStep

-----------------------------------------------------------------------------
(* The reader. *)

\* The message that is read, and the connection it comes from.
LEMMA ReadFacts ==
  ASSUME ConnInv, WireOK, NEW g \in 1..MaxConnections, Read(g)
  PROVE  /\ Head(wire.in) \in Frames
         /\ Head(wire.in).kind \in {"snapshot", "patch", "status"} => Head(wire.in).t \in Threads
         /\ Head(wire.in) = wire.in[1] /\ Len(wire.in) \in Nat /\ Len(wire.in) > 0
         /\ g = conn.gen /\ conn.writer = g /\ ~conn.closing /\ pc[Reader(g)] = "reading"
         /\ conn' = conn /\ ops' = ops
         /\ StateChange(Head(wire.in)) \/ Response(Head(wire.in)) \/ StatusRequested(g, Head(wire.in))
<1>1. wire.in \in Seq(Frames) /\ wire.in # <<>>
  BY DEF Read, WireOK
<1>2. Head(wire.in) = wire.in[1] /\ Len(wire.in) \in Nat /\ Len(wire.in) > 0 /\ Head(wire.in) \in Frames
  BY <1>1
<1>3. conn.writer # None
  BY <1>1 DEF ConnInv, Down
<1>4. Head(wire.in).kind \in {"snapshot", "patch", "status"} => Head(wire.in).t \in Threads
  BY <1>2 DEF Frames
<1> QED BY <1>2, <1>3, <1>4 DEF Read, ConnInv, budget

LEMMA StateChangeCtl ==
  ASSUME Ctl, NEW m, m.t \in Threads, StateChange(m), conn' = conn, ops' = ops, conn.writer # None
  PROVE  Ctl'
<1> DEFINE r == Resync(m.t)
<1>1. r \in Procs /\ r \in Resyncs /\ r \in Timers /\ r \notin Readers /\ r # Reconnect
      /\ \A t \in Threads : r = Resync(t) => t = m.t
  BY Kinds
<1>2. DOMAIN pc = Procs /\ DOMAIN job = Procs
  BY DEF Ctl, PlacesOK, JobsOK
<1> HIDE DEF r
<1>3. CASE pc' = [pc EXCEPT ![r] = "idle"] /\ lock' = Turns(pc') /\ job' = Settled(pc')
  <2>1. DOMAIN pc' = Procs /\ pc'[r] = "idle" /\ \A q \in Procs : q # r => pc'[q] = pc[q]
    BY <1>1, <1>2, <1>3
  <2>2. "idle" \in Stands(r) \ Past
    BY <1>1 DEF Stands, Past, Connecting
  <2>3. PlacesOK' /\ LockInv' /\ ConnInv'
    BY <1>1, <1>3, <2>1, <2>2, MildStep DEF Ctl
  <2>4. JobsOK'
    BY <1>3, <2>1, <2>3, JobsSettle DEF Ctl, JobsOK, Connecting
  <2> QED BY <2>3, <2>4 DEF Ctl
<1>4. CASE pc' = [pc EXCEPT ![r] = "sleep"] /\ pc[r] = "idle" /\ lock' = lock
           /\ job' = [job EXCEPT ![r] = [op |-> "none", t |-> m.t, n |-> 0]]
  <2>1. DOMAIN pc' = Procs /\ pc'[r] = "sleep" /\ \A q \in Procs : q # r => pc'[q] = pc[q]
    BY <1>1, <1>2, <1>4
  <2>2. "sleep" \in Stands(r) \ Past
    BY <1>1 DEF Stands, Past, Connecting
  <2>3. lock' = Turns(pc')
    <3>1. Queue(pc') = Queue(pc)
      BY <1>4, <2>1 DEF Queue, Connecting
    <3> QED BY <1>4, <3>1, TurnsSame DEF Ctl
  <2>4. PlacesOK' /\ LockInv' /\ ConnInv'
    BY <1>1, <2>1, <2>2, <2>3, MildStep DEF Ctl
  <2>5. ASSUME NEW q \in Procs PROVE JobOK(q, pc'[q], job'[q])
    <3>1. CASE q = r
      BY <1>1, <1>2, <1>4, <2>1, <3>1 DEF JobOK, Jobs, Connecting, None
    <3>2. CASE q # r
      BY <1>2, <1>4, <2>1, <3>2 DEF Ctl, JobsOK
    <3> QED BY <3>1, <3>2
  <2> QED BY <1>2, <1>4, <2>4, <2>5 DEF Ctl, JobsOK, JobOK, Readers, Timers, Resyncs, Reader, Resync
<1>5. CASE pc' = pc /\ lock' = lock /\ job' = job
  <2>1. lock' = Turns(pc')
    BY <1>5, TurnsSame DEF Ctl
  <2>2. PlacesOK' /\ LockInv' /\ ConnInv'
    BY <1>2, <1>5, <2>1, WakeStep DEF Ctl, PlacesOK
  <2> QED BY <1>5, <2>2 DEF Ctl, JobsOK, JobOK, Readers, Timers, Resyncs, Reader, Resync
<1> QED BY <1>3, <1>4, <1>5 DEF StateChange, Gap, r

LEMMA ResponseCtl ==
  ASSUME Ctl, NEW m, Response(m), conn' = conn, ops' = ops, conn.writer # None, ~conn.closing,
         pc[Reader(conn.gen)] = "reading"
  PROVE  Ctl'
<1>1. DOMAIN pc' = Procs /\ lock' = lock /\ job' = Settled(pc')
      /\ \A q \in Procs : pc'[q] = CASE m.kind = "inited" /\ pc[q] = "init" -> "inited"
                                     [] m.kind = "answer" /\ pc[q] = "answer" /\ job[q].n = m.n -> "idle"
                                     [] OTHER -> pc[q]
  BY DEF Response
<1>2. \A q \in Procs : pc'[q] = pc[q] \/ (pc[q] = "init" /\ pc'[q] = "inited")
                       \/ (pc[q] = "answer" /\ pc'[q] = "idle")
  BY <1>1
<1>3. \A q \in Procs : pc[q] = "answer" => q \notin Readers /\ q \notin Timers
  BY DEF Ctl, PlacesOK, Stands, Connecting, Idle
<1>4. \A q \in Procs : pc'[q] \in Stands(q)
  BY <1>2, <1>3 DEF Ctl, PlacesOK, Stands, Connecting
<1>5. pc'[Reader(conn.gen)] \notin Idle
  <2>1. conn.gen \in 1..MaxConnections
    BY DEF Ctl, ConnInv, None
  <2> QED BY <1>2, <2>1, Kinds DEF Idle
<1>6. lock' = Turns(pc')
  <2>1. Queue(pc') = Queue(pc)
    BY <1>2 DEF Queue, Connecting
  <2> QED BY <1>1, <2>1, TurnsSame DEF Ctl
<1>7. PlacesOK' /\ LockInv' /\ ConnInv'
  BY <1>1, <1>2, <1>3, <1>4, <1>5, <1>6, WakeStep DEF Ctl
<1>8. JobsOK'
  BY <1>1, <1>2, <1>7, JobsSettle DEF Ctl, JobsOK, Connecting
<1> QED BY <1>7, <1>8 DEF Ctl

LEMMA StatusCtl ==
  ASSUME Ctl, NEW g \in 1..MaxConnections, NEW m, m \in Frames, m.kind = "status" => m.t \in Threads,
         StatusRequested(g, m), conn' = conn,
         ops' = ops, conn.writer # None, pc[Reader(g)] = "reading"
  PROVE  Ctl'
<1> DEFINE r == Reader(g)
<1>1. r \in Procs /\ r \in Readers /\ r \notin Timers /\ pc[r] = "reading"
  BY Kinds
<1>2. DOMAIN pc = Procs /\ DOMAIN job = Procs
  BY DEF Ctl, PlacesOK, JobsOK
<1> HIDE DEF r
<1>3. CASE pc' = [pc EXCEPT ![r] = "connect"] /\ lock' = Turns(pc') /\ m.t \in Threads
           /\ job' = [job EXCEPT ![r] = [op |-> "none", t |-> m.t, n |-> 0]]
  <2>1. DOMAIN pc' = Procs /\ pc'[r] = "connect" /\ \A q \in Procs : q # r => pc'[q] = pc[q]
    BY <1>1, <1>2, <1>3
  <2>2. "connect" \in Stands(r) \ Past
    BY <1>1 DEF Stands, Past, Connecting
  <2>3. PlacesOK' /\ LockInv' /\ ConnInv'
    BY <1>1, <1>3, <2>1, <2>2, MildStep DEF Ctl
  <2>4. ASSUME NEW q \in Procs PROVE JobOK(q, pc'[q], job'[q])
    <3>1. CASE q = r
      BY <1>1, <1>2, <1>3, <2>1, <3>1, Kinds DEF JobOK, Jobs, Connecting, None
    <3>2. CASE q # r
      BY <1>2, <1>3, <2>1, <3>2 DEF Ctl, JobsOK
    <3> QED BY <3>1, <3>2
  <2> QED BY <1>2, <1>3, <2>3, <2>4 DEF Ctl, JobsOK, JobOK, Readers, Timers, Resyncs, Reader, Resync
<1>4. CASE pc' = pc /\ lock' = lock /\ job' = job
  <2>1. lock' = Turns(pc')
    BY <1>4, TurnsSame DEF Ctl
  <2>2. PlacesOK' /\ LockInv' /\ ConnInv'
    BY <1>2, <1>4, <2>1, WakeStep DEF Ctl, PlacesOK
  <2> QED BY <1>4, <2>2 DEF Ctl, JobsOK, JobOK, Readers, Timers, Resyncs, Reader, Resync
<1> QED BY <1>3, <1>4 DEF StatusRequested, r

LEMMA ReadCtl ==
  ASSUME Ctl, WireOK, NEW g \in 1..MaxConnections, Read(g)
  PROVE  Ctl'
<1> DEFINE m == Head(wire.in)
<1>1. /\ m \in Frames /\ (m.kind \in {"snapshot", "patch", "status"} => m.t \in Threads)
      /\ g = conn.gen /\ conn.writer = g /\ ~conn.closing /\ pc[Reader(g)] = "reading"
      /\ conn' = conn /\ ops' = ops
      /\ StateChange(m) \/ Response(m) \/ StatusRequested(g, m)
  BY ReadFacts DEF Ctl
<1>2. conn.writer # None
  BY <1>1 DEF None
<1> HIDE DEF m
<1>3. CASE StateChange(m)
  <2>1. m.t \in Threads
    BY <1>1, <1>3 DEF StateChange
  <2> QED BY <1>1, <1>2, <1>3, <2>1, StateChangeCtl
<1>4. CASE Response(m)
  BY <1>1, <1>2, <1>4, ResponseCtl
<1>5. CASE StatusRequested(g, m)
  BY <1>1, <1>2, <1>5, StatusCtl
<1> QED BY <1>1, <1>3, <1>4, <1>5

\* Places and lock when nobody enters connect() or moves on in it, whatever the connection's fields.
LEMMA LeaveStep ==
  ASSUME PlacesOK, LockInv, conn'.gen = conn.gen, lock' = Turns(pc'), DOMAIN pc' = Procs,
         \A q \in Procs : pc'[q] \in Stands(q),
         \A q \in Procs : pc'[q] = pc[q] \/ (pc'[q] \notin Connecting /\ (q \in Readers => pc[q] # "idle"))
  PROVE  PlacesOK' /\ LockInv'
<1>1. \A g \in 1..MaxConnections : g > conn'.gen => pc'[Reader(g)] = "idle"
  BY Kinds DEF PlacesOK
<1>2. PlacesOK'
  BY <1>1 DEF PlacesOK, Stands, Readers, Timers, Resyncs, Connecting, Reader, Resync
<1>3. \A q \in Queue(pc') : q \in Queue(pc)
  BY DEF Queue
<1>4. \A q \in Queue(pc') : pc'[q] # "connect" => q \in Queue(pc) /\ lock[q] = {}
  BY DEF Queue, LockInv
<1> QED BY <1>2, <1>3, <1>4, LockStep

LEMMA LostCtl ==
  ASSUME Ctl, NEW g \in 1..MaxConnections, g = conn.gen, ~conn.closing,
         pc[Reader(g)] \in {"cancelled", "reading"}, Lost(g)
  PROVE  Ctl'
<1> DEFINE r == Reader(g)
           waiting == {p \in Resyncs : Alive(p)}
<1>1. r \in Procs /\ r \in Readers /\ r \notin Resyncs /\ r \notin Timers /\ pc[r] \in {"cancelled", "reading"}
      /\ waiting \subseteq Resyncs /\ Resyncs \subseteq Timers /\ Timers \subseteq Procs /\ Readers \cap Timers = {}
  BY Kinds
<1>2. /\ conn' = IF waiting # {} THEN [conn EXCEPT !.ready = FALSE]
                 ELSE [conn EXCEPT !.ready = FALSE, !.reader = None, !.writer = None]
      /\ wire' = IF waiting # {} THEN wire ELSE Down
      /\ pc' = [p \in Procs |-> CASE p = r -> IF waiting # {} THEN "gather" ELSE "closing"
                                  [] p \in waiting -> "idle"
                                  [] OTHER -> pc[p]]
      /\ lock' = Turns(pc') /\ job' = Settled(pc') /\ ops' = ops
  BY DEF Lost, budget
<1> HIDE DEF r, waiting
<1>3. DOMAIN pc' = Procs /\ pc'[r] \in {"gather", "closing"} /\ (pc'[r] = "closing" <=> waiting = {})
      /\ \A q \in Procs : q # r => pc'[q] = pc[q] \/ (q \in Resyncs /\ pc'[q] = "idle")
  BY <1>1, <1>2
<1>4. /\ conn' \in [writer : Nat, reader : Nat, gen : 0..MaxConnections, ready : BOOLEAN, closing : BOOLEAN]
      /\ conn'.gen = conn.gen /\ ~conn'.ready /\ conn'.closing = conn.closing
      /\ conn'.reader = conn'.writer /\ conn'.writer \in {None, conn.writer}
      /\ (conn'.writer # None => waiting # {})
      /\ (waiting # {} => conn'.writer = conn.writer)
  <2>1. CASE waiting # {}
    BY <1>2, <2>1 DEF Ctl, ConnInv
  <2>2. CASE waiting = {}
    BY <1>2, <2>2 DEF Ctl, ConnInv, None
  <2> QED BY <2>1, <2>2
<1>5. \A q \in Procs : pc'[q] \in Stands(q)
  BY <1>1, <1>3 DEF Ctl, PlacesOK, Stands
<1>6. \A q \in Procs : pc'[q] = pc[q] \/ (pc'[q] \notin Connecting /\ (q \in Readers => pc[q] # "idle"))
  BY <1>1, <1>3 DEF Connecting
<1>7. PlacesOK' /\ LockInv'
  BY <1>2, <1>3, <1>4, <1>5, <1>6, LeaveStep DEF Ctl
<1>8. ConnInv'
  <2>1. conn'.writer # None => pc'[r] = "gather" /\ conn'.writer = conn.gen
    BY <1>3, <1>4 DEF Ctl, ConnInv
  <2>2. \A q \in Procs : pc'[q] \in {"opening", "abandon"} => conn'.writer = None
    BY <1>3, <1>4 DEF Ctl, ConnInv
  <2>3. \A h \in 1..MaxConnections : pc'[Reader(h)] = "closing" => h # conn'.writer
    <3> SUFFICES ASSUME NEW h \in 1..MaxConnections, pc'[Reader(h)] = "closing" PROVE h # conn'.writer
      OBVIOUS
    <3>1. CASE Reader(h) = r
      BY <1>3, <1>4, <3>1 DEF None
    <3>2. CASE Reader(h) # r
      BY <1>1, <1>3, <1>4, <3>2, Kinds DEF Ctl, ConnInv, None
    <3> QED BY <3>1, <3>2
  <2>4. conn'.writer = None => wire' = Down
    <3>1. CASE waiting # {}
      BY <1>2, <1>4, <3>1 DEF Ctl, ConnInv
    <3> QED BY <1>2, <3>1
  <2>5. conn'.writer # None => ~conn'.closing /\ pc'[Reader(conn'.gen)] \notin Idle
    BY <1>4, <2>1 DEF r, Idle
  <2> QED BY <1>4, <2>1, <2>2, <2>3, <2>4, <2>5 DEF Ctl, ConnInv, Alive, Reader
<1>9. JobsOK'
  <2>1. \A q \in Procs :
            /\ pc'[q] \in Connecting => pc[q] \in Connecting \/ q \in Timers
            /\ q \in Timers /\ pc'[q] # "idle" => pc[q] # "idle" \/ q = Reconnect
            /\ pc'[q] # "dropping" \/ pc[q] = "dropping"
    BY <1>1, <1>3 DEF Connecting
  <2> QED BY <1>2, <1>7, <2>1, JobsSettle DEF Ctl, JobsOK
<1> QED BY <1>7, <1>8, <1>9 DEF Ctl

LEMMA ReaderEndsCtl ==
  ASSUME Ctl, NEW g \in 1..MaxConnections, ReaderEnds(g)
  PROVE  Ctl'
<1> DEFINE r == Reader(g)
<1>1. r \in Procs /\ r \in Readers /\ r \notin Timers /\ pc[r] \in {"cancelled", "reading"}
  BY Kinds DEF ReaderEnds
<1>2. CASE g = conn.gen /\ ~conn.closing
  BY <1>1, <1>2, LostCtl DEF ReaderEnds
<1>3. CASE ~(g = conn.gen /\ ~conn.closing)
  <2>1. pc' = [pc EXCEPT ![r] = "done"] /\ lock' = lock /\ conn' = conn /\ job' = job /\ wire' = wire /\ ops' = ops
    BY <1>3 DEF ReaderEnds, budget
  <2>2. DOMAIN pc' = Procs /\ pc'[r] = "done" /\ \A q \in Procs : q # r => pc'[q] = pc[q]
    BY <1>1, <2>1 DEF Ctl, PlacesOK
  <2>3. conn.closing \/ r # Reader(conn.writer)
    BY <1>3 DEF Ctl, ConnInv, Reader, None
  <2> HIDE DEF r
  <2>4. \A q \in Procs : pc'[q] \in Stands(q)
    BY <1>1, <2>2 DEF Ctl, PlacesOK, Stands, Idle
  <2>5. lock' = Turns(pc')
    <3>1. Queue(pc') = Queue(pc)
      BY <1>1, <2>2 DEF Queue, Connecting
    <3> QED BY <2>1, <3>1, TurnsSame DEF Ctl
  <2>6. PlacesOK' /\ LockInv' /\ ConnInv'
    BY <1>1, <2>1, <2>2, <2>3, <2>4, <2>5, WakeStep DEF Ctl
  <2>7. ASSUME NEW q \in Procs PROVE JobOK(q, pc'[q], job'[q])
    <3>1. JobOK(q, pc[q], job[q])
      BY DEF Ctl, JobsOK
    <3> QED BY <1>1, <2>1, <2>2, <2>4, <3>1, JobMoves DEF Connecting
  <2> QED BY <2>1, <2>6, <2>7 DEF Ctl, JobsOK, JobOK, Readers, Timers, Resyncs, Reader, Resync
<1> QED BY <1>2, <1>3

LEMMA ResyncsCancelledCtl ==
  ASSUME Ctl, NEW g \in 1..MaxConnections, ResyncsCancelled(g)
  PROVE  Ctl'
<1> DEFINE r == Reader(g)
<1>1. r \in Procs /\ r \in Readers /\ r \notin Timers /\ pc[r] = "gather" /\ pc' = [pc EXCEPT ![r] = "closing"]
      /\ lock' = lock /\ job' = job /\ wire' = Down /\ ops' = ops
      /\ conn' = [conn EXCEPT !.reader = None, !.writer = None]
  BY Kinds DEF ResyncsCancelled, budget
<1> HIDE DEF r
<1>2. DOMAIN pc' = Procs /\ pc'[r] = "closing" /\ \A q \in Procs : q # r => pc'[q] = pc[q]
  BY <1>1 DEF Ctl, PlacesOK
<1>3. conn' \in [writer : Nat, reader : Nat, gen : 0..MaxConnections, ready : BOOLEAN, closing : BOOLEAN]
      /\ conn'.reader = None /\ conn'.writer = None /\ conn'.gen = conn.gen /\ conn'.ready = conn.ready
  BY <1>1 DEF Ctl, ConnInv, None
<1>4. \A q \in Procs : pc'[q] \in Stands(q)
  BY <1>1, <1>2 DEF Ctl, PlacesOK, Stands
<1>5. lock' = Turns(pc')
  <2>1. Queue(pc') = Queue(pc)
    BY <1>1, <1>2 DEF Queue, Connecting
  <2> QED BY <1>1, <2>1, TurnsSame DEF Ctl
<1>6. PlacesOK' /\ LockInv'
  BY <1>1, <1>2, <1>3, <1>4, <1>5, LeaveStep DEF Ctl, Connecting
<1>7. ConnInv'
  <2>1. \A q \in Queue(pc)' : q \in Queue(pc) /\ pc'[q] = pc[q]
    BY <1>1, <1>2 DEF Queue, Connecting
  <2>2. \A q \in Queue(pc)' : pc'[q] # "connect" => ~conn'.ready
    BY <1>3, <2>1 DEF Ctl, ConnInv
  <2>3. \A h \in 1..MaxConnections : h # conn'.writer
    BY <1>3 DEF None
  <2> QED BY <1>1, <1>3, <2>2, <2>3 DEF ConnInv
<1>8. ASSUME NEW q \in Procs PROVE JobOK(q, pc'[q], job'[q])
  <2>1. JobOK(q, pc[q], job[q])
    BY DEF Ctl, JobsOK
  <2> QED BY <1>1, <1>2, <1>4, <2>1, JobMoves DEF Connecting
<1> QED BY <1>1, <1>6, <1>7, <1>8 DEF Ctl, JobsOK, JobOK, Readers, Timers, Resyncs, Reader, Resync

\* Whoever waits for an answer gets an error.
LEMMA FailedPlaces ==
  ASSUME PlacesOK, NEW q \in Procs
  PROVE  /\ \/ FailPending(pc)[q] = pc[q]
            \/ pc[q] = "init" /\ FailPending(pc)[q] = "initfail"
            \/ pc[q] = "answer" /\ q \notin Readers \cup Timers /\ FailPending(pc)[q] = "idle"
         /\ FailPending(pc)[q] \in Stands(q)
         /\ DOMAIN FailPending(pc) = Procs
  BY DEF FailPending, PlacesOK, Stands, Connecting, Idle

LEMMA TransportClosedCtl ==
  ASSUME Ctl, NEW g \in 1..MaxConnections, TransportClosed(g)
  PROVE  Ctl'
<1> DEFINE r == Reader(g)
           place == FailPending(pc)
<1>1. /\ r \in Procs /\ r \in Readers /\ r \notin Timers /\ pc[r] = "closing"
      /\ Reconnect \in Timers /\ Reconnect \in Procs /\ Reconnect # r /\ Reconnect \notin Readers
      /\ pc' = [place EXCEPT ![r] = "done",
                  ![Reconnect] = IF @ = "idle" /\ ~conn.closing /\ ~Connected THEN "sleep" ELSE @]
      /\ lock' = lock /\ job' = Settled(pc') /\ wire' = wire /\ conn' = conn /\ ops' = ops
  BY Kinds DEF TransportClosed, budget
<1>2. \A q \in Procs : /\ \/ place[q] = pc[q]
                          \/ pc[q] = "init" /\ place[q] = "initfail"
                          \/ pc[q] = "answer" /\ q \notin Readers \cup Timers /\ place[q] = "idle"
                       /\ place[q] \in Stands(q)
                       /\ DOMAIN place = Procs
  BY FailedPlaces DEF Ctl
<1>3. r # Reader(conn.writer)
  BY <1>1 DEF Ctl, ConnInv, Reader, None
<1> HIDE DEF r, place
<1>4. /\ DOMAIN pc' = Procs /\ pc'[r] = "done" /\ pc'[Reconnect] \in {place[Reconnect], "sleep"}
      /\ \A q \in Procs : q \notin {r, Reconnect} => pc'[q] = place[q]
  BY <1>1, <1>2
<1>5. \A q \in Procs : pc'[q] \in Stands(q)
  BY <1>1, <1>2, <1>4 DEF Stands, Idle
<1>6. \A q \in Procs : \/ pc'[q] = pc[q]
                       \/ pc[q] = "init" /\ pc'[q] = "initfail"
                       \/ pc[q] = "answer" /\ q \notin Readers \cup Timers /\ pc'[q] = "idle"
                       \/ q = Reconnect /\ place[q] = "idle" /\ pc'[q] = "sleep"
                       \/ q = r /\ pc'[q] = "done"
  <2>1. pc'[Reconnect] = place[Reconnect] \/ (place[Reconnect] = "idle" /\ pc'[Reconnect] = "sleep")
    BY <1>1, <1>2
  <2> QED BY <1>2, <1>4, <2>1
<1>7. lock' = Turns(pc')
  <2>1. Queue(pc') = Queue(pc)
    BY <1>1, <1>2, <1>6 DEF Queue, Connecting
  <2> QED BY <1>1, <2>1, TurnsSame DEF Ctl
<1>8. PlacesOK' /\ LockInv' /\ ConnInv'
  BY <1>1, <1>3, <1>4, <1>5, <1>6, <1>7, WakeStep DEF Ctl
<1>9. JobsOK'
  <2>1. ASSUME NEW q \in Procs
        PROVE  /\ pc'[q] \in Connecting => pc[q] \in Connecting \/ q \in Timers
               /\ q \in Timers /\ pc'[q] # "idle" => pc[q] # "idle" \/ q = Reconnect
               /\ pc'[q] # "dropping" \/ pc[q] = "dropping"
    BY <1>1, <1>6 DEF Connecting
  <2>2. JobsOK /\ ops' \in Nat
    BY <1>1 DEF Ctl, JobsOK
  <2> QED BY <1>1, <1>8, <2>1, <2>2, JobsSettle
<1> QED BY <1>8, <1>9 DEF Ctl

-----------------------------------------------------------------------------
(* Timers and disconnect(). *)

LEMMA ReconnectWakesCtl ==
  ASSUME Ctl, ReconnectWakes
  PROVE  Ctl'
<1> DEFINE p == Reconnect
<1>1. p \in Procs /\ p \in Timers /\ p \notin Readers /\ pc[p] = "sleep" /\ pc' = [pc EXCEPT ![p] = "connect"]
      /\ lock' = Turns(pc') /\ job' = job /\ wire' = wire /\ conn' = conn /\ ops' = ops
  BY Kinds DEF ReconnectWakes, budget
<1> HIDE DEF p
<1>2. DOMAIN pc' = Procs /\ pc'[p] = "connect" /\ \A q \in Procs : q # p => pc'[q] = pc[q]
  BY <1>1 DEF Ctl, PlacesOK
<1>3. "connect" \in Stands(p) \ Past
  BY DEF Stands, Past, Connecting
<1>4. PlacesOK' /\ LockInv' /\ ConnInv'
  BY <1>1, <1>2, <1>3, MildStep DEF Ctl
<1>5. ASSUME NEW q \in Procs PROVE JobOK(q, pc'[q], job'[q])
  <2>1. JobOK(q, pc[q], job[q])
    BY DEF Ctl, JobsOK
  <2> QED BY <1>1, <1>2, <1>3, <2>1, JobMoves
<1> QED BY <1>1, <1>4, <1>5 DEF Ctl, JobsOK, JobOK, Readers, Timers, Resyncs, Reader, Resync

LEMMA ResyncWakesCtl ==
  ASSUME Ctl, NEW t \in Threads, ResyncWakes(t)
  PROVE  Ctl'
<1> DEFINE p == Resync(t)
<1>1. p \in Procs /\ p \in Timers /\ p \notin Readers /\ pc[p] = "sleep" /\ conn' = conn /\ ops' = ops
  BY Kinds DEF ResyncWakes, budget
<1>2. DOMAIN pc = Procs /\ ops' \in Nat /\ JobOK(p, pc[p], job[p])
  BY <1>1 DEF Ctl, PlacesOK, JobsOK
<1>3. CASE conn.closing
  <2>1. pc' = [pc EXCEPT ![p] = "idle"] /\ job' = Settled(pc') /\ lock' = lock /\ wire' = wire
    BY <1>3 DEF ResyncWakes
  <2>2. DOMAIN pc' = Procs /\ pc'[p] = "idle" /\ \A q \in Procs : q # p => pc'[q] = pc[q]
    BY <1>1, <1>2, <2>1
  <2> HIDE DEF p
  <2>3. "idle" \in Stands(p) \ Past
    BY <1>1 DEF Stands, Past, Connecting
  <2>4. lock' = Turns(pc')
    <3>1. Queue(pc') = Queue(pc)
      BY <1>1, <2>2 DEF Queue, Connecting
    <3> QED BY <2>1, <3>1, TurnsSame DEF Ctl
  <2>5. PlacesOK' /\ LockInv' /\ ConnInv'
    BY <1>1, <2>1, <2>2, <2>3, <2>4, MildStep DEF Ctl
  <2>6. JobsOK'
    BY <1>2, <2>1, <2>2, <2>5, JobsSettle DEF Ctl, Connecting
  <2> QED BY <2>5, <2>6 DEF Ctl
<1>4. CASE Connected /\ ~conn.closing
  <2>1. Emit(p, job[p], <<>>, followed, pc) /\ lock' = lock /\ conn.writer # None
    BY <1>4 DEF ResyncWakes, Connected
  <2>2. pc' = [pc EXCEPT ![p] = Sent(p, job[p])]
    BY <2>1 DEF Emit
  <2> HIDE DEF p
  <2>3. Sent(p, job[p]) \in Stands(p) \ Past
    BY <1>1, <1>2, SentPlace
  <2>4. DOMAIN pc' = Procs /\ pc'[p] = Sent(p, job[p]) /\ \A q \in Procs : q # p => pc'[q] = pc[q]
    BY <1>1, <1>2, <2>2
  <2>5. lock' = Turns(pc')
    <3>1. Sent(p, job[p]) \notin Connecting
      BY <1>1, <1>2, SentPlace DEF Connecting
    <3>2. Queue(pc') = Queue(pc)
      BY <1>1, <2>4, <3>1 DEF Queue, Connecting
    <3> QED BY <2>1, <3>2, TurnsSame DEF Ctl
  <2>6. PlacesOK' /\ LockInv' /\ ConnInv'
    BY <1>1, <2>1, <2>3, <2>4, <2>5, MildStep DEF Ctl
  <2>7. JobOK(p, "connect", job[p])
    BY <1>1, <1>2 DEF JobOK, Connecting, Idle
  <2>8. JobsOK'
    BY <1>1, <1>2, <2>1, <2>6, <2>7, EmitJobs DEF Ctl
  <2> QED BY <2>6, <2>8 DEF Ctl
<1>5. CASE ~conn.closing /\ ~Connected
  <2>1. pc' = [pc EXCEPT ![p] = "connect"] /\ job' = job /\ lock' = Turns(pc') /\ wire' = wire
    BY <1>5 DEF ResyncWakes
  <2>2. DOMAIN pc' = Procs /\ pc'[p] = "connect" /\ \A q \in Procs : q # p => pc'[q] = pc[q]
    BY <1>1, <1>2, <2>1
  <2> HIDE DEF p
  <2>3. "connect" \in Stands(p) \ Past
    BY DEF Stands, Past, Connecting
  <2>4. PlacesOK' /\ LockInv' /\ ConnInv'
    BY <1>1, <2>1, <2>2, <2>3, MildStep DEF Ctl
  <2>5. ASSUME NEW q \in Procs PROVE JobOK(q, pc'[q], job'[q])
    <3>1. JobOK(q, pc[q], job[q])
      BY DEF Ctl, JobsOK
    <3> QED BY <1>1, <2>1, <2>2, <2>3, <3>1, JobMoves
  <2> QED BY <1>2, <2>1, <2>4, <2>5 DEF Ctl, JobsOK, JobOK, Readers, Timers, Resyncs, Reader, Resync
<1> QED BY <1>3, <1>4, <1>5

LEMMA DisconnectCtl ==
  ASSUME Ctl, NEW c \in Calls, Disconnect(c)
  PROVE  Ctl'
<1> DEFINE p == Call(c)
           place == Cancelled(pc, conn.reader, p)
<1>1. /\ p \in Procs /\ p \notin Readers /\ p \notin Timers /\ pc[p] = "idle"
      /\ Reconnect \in Timers /\ Reconnect \in Procs /\ Reconnect # p /\ Reconnect \notin Readers
      /\ lock' = Turns(pc') /\ ops' = ops + 1 /\ Close(p, TRUE) /\ wire' = Down /\ job' = job
      /\ pc' = [place EXCEPT ![p] = "dropping", ![Reconnect] = "idle"]
  BY Kinds DEF Disconnect
<1>2. /\ DOMAIN place = Procs
      /\ \A q \in Procs : place[q] \in Stands(q)
      /\ \A q \in Procs : place[q] = pc[q] \/
            (q \in Readers /\ q # p /\ pc[q] \notin Idle /\ place[q] \in {"cancelled", "done"})
  BY CancelledPlaces DEF Ctl
<1> HIDE DEF place, p
<1>3. DOMAIN pc' = Procs /\ pc'[p] = "dropping" /\ pc'[Reconnect] = "idle"
      /\ \A q \in Procs \ {p, Reconnect} : pc'[q] = place[q]
  BY <1>1, <1>2
<1>4. "dropping" \in Stands(p) /\ "idle" \in Stands(Reconnect)
  BY <1>1 DEF Stands
<1>5. \A q \in Procs : pc'[q] \in Stands(q)
  BY <1>2, <1>3, <1>4
<1>6. \A q \in Procs \ {p} : pc'[q] = pc[q] \/
          (pc'[q] \notin Connecting /\ pc'[q] # "closing" /\ (q \in Readers => pc[q] # "idle"))
  BY <1>1, <1>2, <1>3 DEF Connecting, Idle
<1>7. PlacesOK' /\ LockInv' /\ ConnInv'
  BY <1>1, <1>3, <1>5, <1>6, CloseStep DEF Ctl, Connecting
<1>8. ASSUME NEW q \in Procs PROVE JobOK(q, pc'[q], job'[q])
  <2>1. JobOK(q, pc[q], job[q])
    BY DEF Ctl, JobsOK
  <2>2. CASE q = p
    BY <1>1, <1>3, <2>1, <2>2, Kinds DEF JobOK, Connecting
  <2>3. CASE q = Reconnect
    BY <1>1, <1>3, <2>1, <2>3, Kinds DEF JobOK, Connecting, NoJob
  <2>4. CASE q \notin {p, Reconnect}
    BY <1>1, <1>2, <1>3, <1>5, <2>1, <2>4, JobMoves, Kinds DEF Connecting
  <2> QED BY <2>2, <2>3, <2>4
<1>9. ops' \in Nat
  BY <1>1 DEF Ctl, JobsOK
<1> QED BY <1>1, <1>7, <1>8, <1>9 DEF Ctl, JobsOK, JobOK, Readers, Timers, Resyncs, Reader, Resync

LEMMA DisconnectedCtl ==
  ASSUME Ctl, NEW c \in Calls, Disconnected(c)
  PROVE  Ctl'
<1> DEFINE p == Call(c)
           place == FailPending(pc)
<1>1. /\ p \in Procs /\ p \notin Readers /\ p \notin Timers /\ Resyncs \subseteq Timers /\ Readers \cap Timers = {}
      /\ pc[p] = "dropping" /\ pc' = [q \in Procs |-> IF q = p \/ q \in Resyncs THEN "idle" ELSE place[q]]
      /\ lock' = Turns(pc') /\ job' = Settled(pc') /\ conn' = conn /\ wire' = wire /\ ops' = ops
  BY Kinds DEF Disconnected, budget
<1>2. \A q \in Procs : /\ \/ place[q] = pc[q]
                          \/ pc[q] = "init" /\ place[q] = "initfail"
                          \/ pc[q] = "answer" /\ q \notin Readers \cup Timers /\ place[q] = "idle"
                       /\ place[q] \in Stands(q)
  BY FailedPlaces DEF Ctl
<1> HIDE DEF p, place
<1>3. \A q \in Procs : pc'[q] = IF q = p \/ q \in Resyncs THEN "idle" ELSE place[q]
  BY <1>1
<1>4. DOMAIN pc' = Procs
  BY <1>1
<1>5. \A q \in Procs : pc'[q] \in Stands(q)
  BY <1>1, <1>2, <1>3 DEF Stands
<1>6. \A q \in Procs : \/ pc'[q] = pc[q]
                       \/ pc[q] = "init" /\ pc'[q] = "initfail"
                       \/ q \notin Readers /\ pc'[q] = "idle"
  BY <1>1, <1>2, <1>3
<1>7. PlacesOK' /\ LockInv' /\ ConnInv'
  BY <1>1, <1>4, <1>5, <1>6, WakeStep DEF Ctl
<1>8. JobsOK'
  BY <1>1, <1>6, <1>7, JobsSettle DEF Ctl, JobsOK, Connecting
<1> QED BY <1>7, <1>8 DEF Ctl

-----------------------------------------------------------------------------
(* Codex Desktop, and all together. *)

LEMMA DesktopCtl ==
  ASSUME Ctl, WireOK, DesktopFrame \/ DesktopGone \/ \E t \in Threads : DesktopChange(t) \/ DesktopStatus(t)
  PROVE  Ctl'
<1>1. conn' = conn /\ lock' = lock /\ pc' = pc /\ job' = job /\ ops' = ops
  BY DEF DesktopFrame, DesktopGone, DesktopChange, DesktopStatus, client, budget
<1>2. wire.up \/ wire' = wire
  BY DEF DesktopFrame, DesktopGone, DesktopChange, DesktopStatus
<1>3. conn.writer = None => wire' = wire
  BY <1>2 DEF Ctl, ConnInv, Down
<1>4. lock' = Turns(pc')
  BY <1>1, TurnsSame DEF Ctl
<1>5. PlacesOK' /\ LockInv' /\ ConnInv'
  BY <1>1, <1>3, <1>4, WakeStep DEF Ctl, PlacesOK
<1> QED BY <1>1, <1>5 DEF Ctl, JobsOK, JobOK, Readers, Timers, Resyncs, Reader, Resync

LEMMA CtlStep == Ctl /\ WireOK /\ [Next]_vars => Ctl'
<1> SUFFICES ASSUME Ctl, WireOK, [Next]_vars PROVE Ctl'
  OBVIOUS
<1>1. CASE UNCHANGED vars
  BY <1>1 DEF vars, client, budget, Ctl, PlacesOK, LockInv, ConnInv, JobsOK, JobOK, Stands, Queue, Readers,
        Timers, Resyncs, Procs, Call, Reader, Resync, Alive
<1>2. CASE Next
  BY <1>2, BeginCtl, RequestTimeoutCtl, DisconnectCtl, DisconnectedCtl, ConnectCtl, ReadCtl, ReaderEndsCtl,
     ResyncsCancelledCtl, TransportClosedCtl, ReconnectWakesCtl, ResyncWakesCtl, DesktopCtl DEF Next, ReaderStep
<1> QED BY <1>1, <1>2

LEMMA CtlInit == Init => Ctl
<1> SUFFICES ASSUME Init PROVE Ctl
  OBVIOUS
<1>1. PlacesOK
  BY Kinds DEF Init, PlacesOK, Stands, Idle
<1>2. LockInv
  BY DEF Init, LockInv, Queue, Connecting
<1>3. ConnInv
  <2>1. conn = [writer |-> 0, reader |-> 0, gen |-> 0, ready |-> FALSE, closing |-> FALSE] /\ wire = Down
        /\ \A p \in Procs : pc[p] = "idle"
    BY DEF Init, None, Down
  <2>2. 0 \in 0..MaxConnections
    BY Bounds
  <2>3. \A g \in 1..MaxConnections : pc[Reader(g)] = "idle"
    BY <2>1, Kinds
  <2> QED BY <2>1, <2>2, <2>3 DEF ConnInv, None, Queue
<1>4. JobsOK
  BY Kinds DEF Init, JobsOK, JobOK, NoJob, Jobs, None, Connecting
<1> QED BY <1>1, <1>2, <1>3, <1>4 DEF Ctl

-----------------------------------------------------------------------------
(* Sequences of frames. *)

\* A set in some order: each element is there.
LEMMA InOrder ==
  ASSUME NEW S, IsFiniteSet(S)
  PROVE  /\ Cardinality(S) \in Nat
         /\ SetToSeq(S) \in [1..Cardinality(S) -> S]
         /\ \A x \in S : \E i \in 1..Cardinality(S) : SetToSeq(S)[i] = x
<1> DEFINE n == Cardinality(S)
           f == SetToSeq(S)
<1>1. n \in Nat /\ ExistsBijection(1..n, S)
  BY FS_CardinalityType
<1>2. PICK h \in Bijection(1..n, S) : TRUE
  BY <1>1 DEF ExistsBijection
<1>3. h \in [1..n -> S] /\ IsInjective(h)
  BY <1>2 DEF Bijection, Injection, IsInjective
<1>4. f \in [1..n -> S] /\ IsInjective(f)
  BY <1>3 DEF SetToSeq
<1> HIDE DEF f
<1>5. f \in Injection(1..n, S)
  BY <1>4 DEF Injection
<1>6. IsFiniteSet(1..n) /\ Cardinality(1..n) = n
  BY <1>1, FS_Interval
<1>7. f \in Surjection(1..n, S)
  BY <1>5, <1>6, FS_Injection
<1>8. \A x \in S : \E i \in 1..n : f[i] = x
  BY <1>7 DEF Surjection
<1> QED BY <1>1, <1>4, <1>8 DEF f

LEMMA SaysConcat ==
  ASSUME NEW s \in Seq(Frames), NEW w \in Seq(Frames), NEW t, NEW kind
  PROVE  Says(s \o w, t, kind) <=> Says(s, t, kind) \/ Says(w, t, kind)
<1>1. DOMAIN s = 1..Len(s) /\ DOMAIN w = 1..Len(w) /\ DOMAIN (s \o w) = 1..(Len(s) + Len(w))
      /\ Len(s) \in Nat /\ Len(w) \in Nat
  OBVIOUS
<1>2. \A i \in DOMAIN s : i \in DOMAIN (s \o w) /\ (s \o w)[i] = s[i]
  OBVIOUS
<1>3. \A i \in DOMAIN w : Len(s) + i \in DOMAIN (s \o w) /\ (s \o w)[Len(s) + i] = w[i]
  OBVIOUS
<1>4. \A i \in DOMAIN (s \o w) : i \in DOMAIN s \/ (i - Len(s) \in DOMAIN w /\ (s \o w)[i] = w[i - Len(s)])
  BY <1>1
<1>5. ASSUME Says(s \o w, t, kind) PROVE Says(s, t, kind) \/ Says(w, t, kind)
  <2>1. PICK i \in DOMAIN (s \o w) : (s \o w)[i].kind = kind /\ (s \o w)[i].t = t
    BY <1>5 DEF Says
  <2>2. CASE i \in DOMAIN s
    BY <1>2, <2>1, <2>2 DEF Says
  <2>3. CASE i \notin DOMAIN s
    BY <1>4, <2>1, <2>3 DEF Says
  <2> QED BY <2>2, <2>3
<1>6. ASSUME Says(s, t, kind) PROVE Says(s \o w, t, kind)
  BY <1>2, <1>6 DEF Says
<1>7. ASSUME Says(w, t, kind) PROVE Says(s \o w, t, kind)
  <2>1. PICK i \in DOMAIN w : w[i].kind = kind /\ w[i].t = t
    BY <1>7 DEF Says
  <2>2. Len(s) + i \in DOMAIN (s \o w) /\ (s \o w)[Len(s) + i] = w[i]
    BY <1>3
  <2> QED BY <2>1, <2>2 DEF Says
<1> QED BY <1>5, <1>6, <1>7

\* What is written behind is taken afterwards.
LEMMA HeedsConcat ==
  ASSUME NEW b \in BOOLEAN, NEW s \in Seq(Frames), NEW w \in Seq(Frames), NEW t
  PROVE  Heeds(b, t, s \o w) <=> Heeds(Heeds(b, t, s), t, w)
<1> DEFINE n == Len(s)
           c == s \o w
           Fo(r, i) == r[i].kind = "follow" /\ r[i].t = t
           Un(r, i) == r[i].kind = "unfollow" /\ r[i].t = t
           Final(r, i) == Fo(r, i) /\ \A j \in DOMAIN r : j > i => ~Un(r, j)
<1>1. DOMAIN s = 1..n /\ DOMAIN w = 1..Len(w) /\ DOMAIN c = 1..(n + Len(w)) /\ n \in Nat /\ Len(w) \in Nat
  OBVIOUS
<1>2. \A i \in DOMAIN s : i \in DOMAIN c /\ c[i] = s[i]
  OBVIOUS
<1>3. \A i \in DOMAIN w : n + i \in DOMAIN c /\ c[n + i] = w[i]
  OBVIOUS
<1>4. \A i \in DOMAIN c : i \in DOMAIN s \/ (i - n \in DOMAIN w /\ c[i] = w[i - n] /\ i > n)
  BY <1>1
<1>5. Says(c, t, "unfollow") <=> Says(s, t, "unfollow") \/ Says(w, t, "unfollow")
  BY SaysConcat
<1> HIDE DEF c, n
<1>6. \A i \in DOMAIN s : Final(c, i) <=> Final(s, i) /\ ~Says(w, t, "unfollow")
  <2> SUFFICES ASSUME NEW i \in DOMAIN s PROVE Final(c, i) <=> Final(s, i) /\ ~Says(w, t, "unfollow")
    OBVIOUS
  <2>1. ASSUME Final(c, i) PROVE Final(s, i) /\ ~Says(w, t, "unfollow")
    <3>1. \A j \in DOMAIN w : n + j > i
      BY <1>1
    <3> QED BY <1>2, <1>3, <2>1, <3>1 DEF Says
  <2>2. ASSUME Final(s, i), ~Says(w, t, "unfollow") PROVE Final(c, i)
    BY <1>2, <1>4, <2>2 DEF Says
  <2> QED BY <2>1, <2>2
<1>7. \A i \in DOMAIN w : Final(c, n + i) <=> Final(w, i)
  <2> SUFFICES ASSUME NEW i \in DOMAIN w PROVE Final(c, n + i) <=> Final(w, i)
    OBVIOUS
  <2>1. ASSUME Final(c, n + i) PROVE Final(w, i)
    <3>1. \A j \in DOMAIN w : j > i => n + j > n + i
      BY <1>1
    <3> QED BY <1>3, <2>1, <3>1
  <2>2. ASSUME Final(w, i), NEW j \in DOMAIN c, j > n + i PROVE ~Un(c, j)
    <3>1. j \notin DOMAIN s
      BY <1>1, <2>2
    <3>2. j - n \in DOMAIN w /\ c[j] = w[j - n] /\ j - n > i
      BY <1>1, <1>4, <2>2, <3>1
    <3> QED BY <2>2, <3>2
  <2>3. Final(w, i) => Fo(c, n + i)
    BY <1>3
  <2> QED BY <2>1, <2>2, <2>3
<1>8. (\E i \in DOMAIN c : Final(c, i)) <=>
        ((\E i \in DOMAIN s : Final(s, i)) /\ ~Says(w, t, "unfollow")) \/ \E i \in DOMAIN w : Final(w, i)
  <2>1. ASSUME NEW i \in DOMAIN c, Final(c, i)
        PROVE  ((\E k \in DOMAIN s : Final(s, k)) /\ ~Says(w, t, "unfollow")) \/ \E k \in DOMAIN w : Final(w, k)
    <3>1. CASE i \in DOMAIN s
      BY <1>6, <2>1, <3>1
    <3>2. CASE i \notin DOMAIN s
      <4>1. i - n \in DOMAIN w /\ n + (i - n) = i
        BY <1>1, <1>4, <3>2
      <4> QED BY <1>7, <2>1, <4>1
    <3> QED BY <3>1, <3>2
  <2>2. ASSUME NEW i \in DOMAIN s, Final(s, i), ~Says(w, t, "unfollow") PROVE \E k \in DOMAIN c : Final(c, k)
    BY <1>2, <1>6, <2>2
  <2>3. ASSUME NEW i \in DOMAIN w, Final(w, i) PROVE \E k \in DOMAIN c : Final(c, k)
    BY <1>3, <1>7, <2>3
  <2> HIDE DEF Final
  <2> QED BY <2>1, <2>2, <2>3
<1> DEFINE E(r) == \E i \in DOMAIN r : Final(r, i)
<1>9. Heeds(b, t, c) <=> (b /\ ~Says(c, t, "unfollow")) \/ E(c)
  BY DEF Heeds
<1>10. Heeds(b, t, s) <=> (b /\ ~Says(s, t, "unfollow")) \/ E(s)
  BY DEF Heeds
<1>11. Heeds(Heeds(b, t, s), t, w) <=> (Heeds(b, t, s) /\ ~Says(w, t, "unfollow")) \/ E(w)
  BY DEF Heeds
<1>12. E(c) <=> (E(s) /\ ~Says(w, t, "unfollow")) \/ E(w)
  BY <1>8
<1> HIDE DEF E
<1>13. Heeds(b, t, c) <=> Heeds(Heeds(b, t, s), t, w)
  BY <1>5, <1>9, <1>10, <1>11, <1>12
<1> QED BY <1>13 DEF c


-----------------------------------------------------------------------------
(* The data. *)

LEMMA FrameIs ==
  /\ \A kind \in FrameKinds, t \in Threads, n \in Nat : Frame(kind, t, n) \in Frames
  /\ \A kind \in {"init", "inited"} : Frame(kind, None, 0) \in Frames
  /\ \A kind, t, n : Frame(kind, t, n).kind = kind /\ Frame(kind, t, n).t = t /\ Frame(kind, t, n).n = n
  BY DEF Frame, Frames, FrameKinds, None

LEMMA WantsFrames ==
  ASSUME NEW p \in Procs, NEW v, NEW j, JobOK(p, v, j), v \in Connecting \cup {"sleep"},
         v = "sleep" => p \in Timers
  PROVE  /\ Wants(p, j) \in Seq(Frames)
         /\ (p \in Resyncs \/ j.op = "follow") => j.t \in Threads
<1>1. j.n \in Nat
  BY DEF JobOK, Jobs
<1>2. CASE p \in Readers \cup Resyncs
  <2>1. j.t \in Threads /\ j.op = "none"
    BY <1>2, Kinds DEF JobOK, Connecting
  <2>2. Frame("follow", j.t, 0) \in Frames
    BY <2>1, FrameIs DEF FrameKinds
  <2>3. Wants(p, j) = <<Frame("follow", j.t, 0)>>
    BY <1>2, <2>1 DEF Wants
  <2> QED BY <2>1, <2>2, <2>3
<1>3. CASE p \notin Readers \cup Resyncs /\ j.op \in {"follow", "unfollow", "request"}
  <2>1. p \notin Timers /\ j.t \in Threads
    BY <1>3, Kinds DEF JobOK, Connecting, Timers, NoJob
  <2>2. Frame(j.op, j.t, j.n) \in Frames
    BY <1>1, <1>3, <2>1, FrameIs DEF FrameKinds
  <2>3. Wants(p, j) = <<Frame(j.op, j.t, j.n)>>
    BY <1>3 DEF Wants
  <2> QED BY <1>3, <2>1, <2>2, <2>3
<1>4. CASE p \notin Readers \cup Resyncs /\ j.op \notin {"follow", "unfollow", "request"}
  BY <1>4 DEF Wants
<1> QED BY <1>2, <1>3, <1>4

LEMMA EmitWire ==
  ASSUME WireOK, NEW p \in Procs, NEW v, NEW j, JobOK(p, v, j), v \in Connecting \cup {"sleep"},
         v = "sleep" => p \in Timers,
         NEW before \in Seq(Frames), NEW known \in SUBSET Threads, IsFiniteSet(known), NEW place,
         Emit(p, j, before, known, place)
  PROVE  /\ wire' \in [up : BOOLEAN, out : Seq(Frames), in : Seq(Frames)]
         /\ followed' \subseteq Threads /\ IsFiniteSet(followed')
         /\ wire'.up = wire.up /\ wire'.in = wire.in
         /\ wire'.out = IF wire.up THEN wire.out \o (before \o Wants(p, j)) ELSE wire.out
<1>1. Wants(p, j) \in Seq(Frames) /\ ((p \in Resyncs \/ j.op = "follow") => j.t \in Threads)
  BY WantsFrames
<1> DEFINE new == before \o Wants(p, j)
<1>2. new \in Seq(Frames)
  BY <1>1
<1>3. wire' = [wire EXCEPT !.out = IF wire.up THEN wire.out \o new ELSE wire.out]
  BY DEF Emit, Wrote, WireOK
<1>4. followed' = known \/ (followed' = known \cup {j.t} /\ j.t \in Threads)
  BY <1>1 DEF Emit
<1>5. IsFiniteSet(known \cup {j.t})
  BY FS_AddElement
<1> HIDE DEF new
<1>6. wire.out \o new \in Seq(Frames)
  BY <1>2 DEF WireOK
<1>7. wire' \in [up : BOOLEAN, out : Seq(Frames), in : Seq(Frames)] /\ wire'.up = wire.up /\ wire'.in = wire.in
      /\ wire'.out = IF wire.up THEN wire.out \o new ELSE wire.out
  BY <1>3, <1>6 DEF WireOK
<1>8. followed' \subseteq Threads /\ IsFiniteSet(followed')
  BY <1>4, <1>5
<1> QED BY <1>7, <1>8 DEF new

LEMMA RestoredFrames ==
  ASSUME WireOK
  PROVE  /\ Restored \in Seq(Frames)
         /\ \A i \in DOMAIN Restored : Restored[i].kind = "follow" /\ Restored[i].t \in followed
         /\ \A t \in followed : \E i \in DOMAIN Restored : Restored[i].t = t
<1> DEFINE n == Cardinality(followed)
           f == SetToSeq(followed)
<1>1. n \in Nat /\ f \in [1..n -> followed] /\ \A t \in followed : \E i \in 1..n : f[i] = t
  BY InOrder DEF WireOK
<1>2. Restored = [i \in 1..n |-> Frame("follow", f[i], 0)]
  BY DEF Restored
<1> HIDE DEF n, f
<1>3. \A i \in 1..n : Frame("follow", f[i], 0) \in Frames
  BY <1>1, FrameIs DEF WireOK, FrameKinds
<1>4. Restored \in Seq(Frames) /\ DOMAIN Restored = 1..n
  BY <1>1, <1>2, <1>3
<1>5. \A i \in 1..n : Restored[i].kind = "follow" /\ Restored[i].t = f[i]
  BY <1>2, FrameIs
<1> QED BY <1>1, <1>4, <1>5


\* What an Emit of the client leaves typed; it does not touch what Desktop knows.
LEMMA EmitWireOK ==
  ASSUME WireOK, NEW p \in Procs, NEW v, NEW j, JobOK(p, v, j), v \in Connecting \cup {"sleep"},
         v = "sleep" => p \in Timers,
         NEW before \in Seq(Frames), NEW known \in SUBSET followed, IsFiniteSet(known), NEW place,
         Emit(p, j, before, known, place), desk' = desk, sent' = sent, line' = line,
         rev' \in [Threads -> Nat], attempts' \in [Threads -> Nat]
  PROVE  WireOK'
<1>1. known \in SUBSET Threads
  BY DEF WireOK
<1>2. /\ wire' \in [up : BOOLEAN, out : Seq(Frames), in : Seq(Frames)]
      /\ followed' \subseteq Threads /\ IsFiniteSet(followed')
  BY <1>1, EmitWire
<1> QED BY <1>2 DEF WireOK, Frames

LEMMA BeginWire ==
  ASSUME Ctl, WireOK, NEW c \in Calls, NEW op \in Ops, NEW t \in Threads, Begin(c, op, t)
  PROVE  /\ WireOK' /\ IsFiniteSet(IF op = "unfollow" THEN followed \ {t} ELSE followed)
         /\ JobOK(Call(c), "connect", [op |-> op, t |-> t, n |-> ops + 1])
<1> DEFINE p == Call(c)
           j == [op |-> op, t |-> t, n |-> ops + 1]
           drop == op = "unfollow"
           known == IF drop THEN followed \ {t} ELSE followed
           place == IF drop THEN [pc EXCEPT ![Resync(t)] = "idle"] ELSE pc
<1>1. JobOK(p, "connect", j)
  <2>1. op \in {"follow", "unfollow", "request"} /\ ops \in Nat
    BY ConstantsAssumption DEF Begin, AllOps, Ctl, JobsOK
  <2>2. p \notin Readers /\ p \notin Timers
    BY Kinds
  <2> QED BY <2>1, <2>2, Kinds DEF JobOK, Jobs, AllOps, Connecting
<1>2. known \in SUBSET followed /\ IsFiniteSet(known)
  BY FS_RemoveElement DEF WireOK
<1>3. desk' = desk /\ sent' = sent /\ line' = line
  BY DEF Begin, desktop
<1>4. rev' \in [Threads -> Nat] /\ attempts' \in [Threads -> Nat]
  BY DEF Begin, WireOK
<1>5. CASE Connected
  <2>1. Emit(p, j, <<>>, known, place)
    BY <1>5 DEF Begin
  <2>2. p \in Procs /\ "connect" \in Connecting /\ "connect" # "sleep" /\ <<>> \in Seq(Frames)
    BY Kinds DEF Connecting
  <2> HIDE DEF p, j, known, place
  <2>3. WireOK'
    BY <1>1, <1>2, <1>3, <1>4, <2>1, <2>2, EmitWireOK
  <2> QED BY <1>1, <1>2, <2>3 DEF p, j, known
<1>6. CASE ~Connected
  <2>1. wire' = wire /\ followed' = known
    BY <1>6 DEF Begin
  <2>2. WireOK'
    BY <1>2, <1>3, <1>4, <2>1 DEF WireOK, Frames
  <2> QED BY <1>1, <1>2, <2>2
<1> QED BY <1>5, <1>6

LEMMA AcquireWire ==
  ASSUME Ctl, WireOK, NEW p \in Procs, Acquire(p)
  PROVE  WireOK'
<1>1. pc[p] = "connect" /\ rev' = rev /\ attempts' = attempts /\ desk' = desk /\ sent' = sent /\ line' = line
  BY DEF Acquire, desktop
<1>2. CASE Connected
  <2>1. Emit(p, job[p], <<>>, followed, pc)
    BY <1>2 DEF Acquire
  <2>2. JobOK(p, "connect", job[p]) /\ "connect" \in Connecting /\ "connect" # "sleep" /\ <<>> \in Seq(Frames)
    BY <1>1 DEF Ctl, JobsOK, Connecting
  <2>3. IsFiniteSet(followed) /\ rev' \in [Threads -> Nat] /\ attempts' \in [Threads -> Nat]
    BY <1>1 DEF WireOK
  <2> QED BY <1>1, <2>1, <2>2, <2>3, EmitWireOK
<1>3. CASE ~Connected
  <2>1. wire' = Down /\ followed' = followed
    BY <1>3 DEF Acquire
  <2> QED BY <1>1, <2>1 DEF WireOK, Frames, Down
<1> QED BY <1>2, <1>3

LEMMA InitializedWire ==
  ASSUME Ctl, WireOK, NEW p \in Procs, Initialized(p)
  PROVE  WireOK'
<1>1. pc[p] = "inited" /\ rev' = rev /\ attempts' = attempts /\ desk' = desk /\ sent' = sent /\ line' = line
  BY DEF Initialized, desktop
<1>2. CASE conn.writer # None
  <2>1. Emit(p, job[p], IF conn.closing THEN <<>> ELSE Restored, followed, pc)
    BY <1>2 DEF Initialized
  <2>2. JobOK(p, "inited", job[p]) /\ "inited" \in Connecting /\ "inited" # "sleep"
    BY <1>1 DEF Ctl, JobsOK, Connecting
  <2>3. (IF conn.closing THEN <<>> ELSE Restored) \in Seq(Frames)
    BY RestoredFrames
  <2>4. IsFiniteSet(followed) /\ rev' \in [Threads -> Nat] /\ attempts' \in [Threads -> Nat]
    BY <1>1 DEF WireOK
  <2> QED BY <1>1, <2>1, <2>2, <2>3, <2>4, EmitWireOK
<1>3. CASE conn.writer = None
  <2>1. wire' = wire /\ followed' = followed
    BY <1>3 DEF Initialized
  <2> QED BY <1>1, <2>1 DEF WireOK, Frames
<1> QED BY <1>2, <1>3

LEMMA ResyncWakesWire ==
  ASSUME Ctl, WireOK, NEW t \in Threads, ResyncWakes(t)
  PROVE  WireOK'
<1> DEFINE p == Resync(t)
<1>1. pc[p] = "sleep" /\ rev' = rev /\ attempts' = attempts /\ desk' = desk /\ sent' = sent /\ line' = line
      /\ p \in Procs /\ p \in Timers
  BY Kinds DEF ResyncWakes, desktop
<1>2. CASE Connected /\ ~conn.closing
  <2>1. Emit(p, job[p], <<>>, followed, pc)
    BY <1>2 DEF ResyncWakes
  <2>2. JobOK(p, "sleep", job[p]) /\ <<>> \in Seq(Frames)
    BY <1>1 DEF Ctl, JobsOK
  <2>3. IsFiniteSet(followed) /\ rev' \in [Threads -> Nat] /\ attempts' \in [Threads -> Nat]
    BY <1>1 DEF WireOK
  <2> HIDE DEF p
  <2> QED BY <1>1, <2>1, <2>2, <2>3, EmitWireOK
<1>3. CASE ~(Connected /\ ~conn.closing)
  <2>1. wire' = wire /\ followed' = followed
    BY <1>3 DEF ResyncWakes
  <2> QED BY <1>1, <2>1 DEF WireOK, Frames
<1> QED BY <1>2, <1>3

\* The reader takes the first message; it may answer it with a follow.
LEMMA ReadWire ==
  ASSUME Ctl, WireOK, NEW g \in 1..MaxConnections, Read(g)
  PROVE  /\ WireOK' /\ wire'.up = wire.up /\ wire'.in = Tail(wire.in)
         /\ wire'.out = wire.out \/
              (/\ wire'.out = wire.out \o <<Frame("follow", Head(wire.in).t, 0)>>
               /\ Head(wire.in).t \in followed /\ Connected /\ Head(wire.in).kind = "status")
         /\ followed' = followed /\ desk' = desk /\ sent' = sent /\ line' = line
         /\ conn' = conn /\ mixed' = mixed
<1> DEFINE m == Head(wire.in)
           f == Frame("follow", m.t, 0)
           reply == m.kind = "status" /\ m.t \in followed /\ Connected /\ wire.up
<1>1. /\ m \in Frames /\ m.n \in Nat /\ (m.kind \in {"snapshot", "patch", "status"} => m.t \in Threads)
      /\ StateChange(m) \/ Response(m) \/ StatusRequested(g, m)
  BY ReadFacts DEF Ctl, Frames
<1>2. wire' = [wire EXCEPT !.in = Tail(wire.in), !.out = IF reply THEN Append(wire.out, f) ELSE wire.out]
      /\ wire.in # <<>> /\ followed' = followed /\ desk' = desk /\ sent' = sent /\ line' = line
      /\ conn' = conn /\ mixed' = mixed
  BY DEF Read, desktop, history
<1>3. m.kind = "status" => f \in Frames
  BY <1>1, FrameIs DEF FrameKinds
<1>4. wire.in \in Seq(Frames) /\ wire.out \in Seq(Frames)
  BY DEF WireOK
<1> HIDE DEF m, f
<1>5. f \in Frames => Append(wire.out, f) \in Seq(Frames) /\ Append(wire.out, f) = wire.out \o <<f>>
  BY <1>4, AppendIsConcat, AppendProperties
<1>6. Tail(wire.in) \in Seq(Frames)
  BY <1>2, <1>4
<1>7. wire' \in [up : BOOLEAN, out : Seq(Frames), in : Seq(Frames)]
  BY <1>2, <1>3, <1>4, <1>5, <1>6 DEF WireOK
<1>8. rev' \in [Threads -> Nat] /\ attempts' \in [Threads -> Nat]
  <2>1. CASE StateChange(m)
    <3>1. m.t \in Threads
      BY <1>1, <2>1 DEF StateChange
    <3>2. rev' = rev \/ rev' = [rev EXCEPT ![m.t] = m.n]
      BY <2>1 DEF StateChange
    <3>3. \/ attempts' = attempts \/ attempts' = [attempts EXCEPT ![m.t] = 0]
          \/ attempts' = [attempts EXCEPT ![m.t] = @ + 1]
      BY <2>1 DEF StateChange, Gap
    <3>4. rev' \in [Threads -> Nat]
      BY <1>1, <3>1, <3>2 DEF WireOK
    <3>5. attempts' \in [Threads -> Nat]
      <4>1. attempts \in [Threads -> Nat] /\ attempts[m.t] + 1 \in Nat /\ 0 \in Nat
        BY <3>1 DEF WireOK
      <4> QED BY <3>1, <3>3, <4>1
    <3> QED BY <3>4, <3>5
  <2>2. CASE Response(m) \/ StatusRequested(g, m)
    BY <2>2 DEF Response, StatusRequested, WireOK
  <2> QED BY <1>1, <2>1, <2>2
<1>9. WireOK'
  BY <1>2, <1>7, <1>8 DEF WireOK, Frames
<1>10. wire'.up = wire.up /\ wire'.in = Tail(wire.in)
       /\ wire'.out = IF reply THEN Append(wire.out, f) ELSE wire.out
  BY <1>2 DEF WireOK
<1> QED BY <1>2, <1>3, <1>5, <1>9, <1>10 DEF m, f


\* What Desktop's steps do to the wire: it takes the first frame, and puts a message behind.
LEMMA DesktopFrameWire ==
  ASSUME WireOK, DesktopFrame
  PROVE  LET f == Head(wire.out) IN
         /\ WireOK' /\ wire.up /\ wire'.up = wire.up
         /\ f \in Frames /\ wire.out = <<f>> \o wire'.out
         /\ \/ /\ f.kind = "init" /\ wire'.in = wire.in \o <<Frame("inited", None, 0)>>
               /\ desk' = desk /\ sent' = sent
            \/ /\ f.kind = "request" /\ wire'.in = wire.in \o <<Frame("answer", f.t, f.n)>>
               /\ desk' = desk /\ sent' = sent
            \/ /\ f.kind = "unfollow" /\ wire'.in = wire.in
               /\ f.t \in Threads /\ desk' = desk \ {f.t} /\ sent' = [sent EXCEPT ![f.t] = 0]
            \/ /\ f.kind = "follow" /\ f.t \in Threads /\ desk' = desk \cup {f.t}
               /\ \/ /\ wire'.in = wire.in \o <<Frame("snapshot", f.t, line[f.t])>>
                     /\ sent' = [sent EXCEPT ![f.t] = line[f.t]]
                  \/ wire'.in = wire.in /\ sent' = sent
         /\ line' = line
<1> DEFINE f == Head(wire.out)
<1>1. wire.out \in Seq(Frames) /\ wire.in \in Seq(Frames) /\ wire.out # <<>> /\ wire.up
      /\ wire \in [up : BOOLEAN, out : Seq(Frames), in : Seq(Frames)]
      /\ sent \in [Threads -> Nat] /\ line \in [Threads -> Nat] /\ desk \subseteq Threads
  BY DEF DesktopFrame, WireOK
<1>2. f \in Frames /\ Tail(wire.out) \in Seq(Frames) /\ wire.out = <<f>> \o Tail(wire.out)
  BY <1>1
<1>3. line' = line /\ followed' = followed /\ rev' = rev /\ attempts' = attempts
  BY DEF DesktopFrame, client
<1>4. f.n \in Nat /\ (f.kind \in {"follow", "unfollow"} => f.t \in Threads)
  BY <1>2 DEF Frames
<1>5. ASSUME NEW m, m \in Frames
      PROVE  /\ Append(wire.in, m) \in Seq(Frames) /\ Append(wire.in, m) = wire.in \o <<m>>
             /\ [wire EXCEPT !.in = Append(wire.in, m), !.out = Tail(wire.out)]
                  \in [up : BOOLEAN, out : Seq(Frames), in : Seq(Frames)]
  <2>1. Append(wire.in, m) \in Seq(Frames) /\ Append(wire.in, m) = wire.in \o <<m>>
    BY <1>1, <1>5, AppendIsConcat, AppendProperties
  <2> QED BY <1>1, <1>2, <2>1
<1>6. [wire EXCEPT !.out = Tail(wire.out)] \in [up : BOOLEAN, out : Seq(Frames), in : Seq(Frames)]
  BY <1>1, <1>2
<1> DEFINE R(w) == [w EXCEPT !.out = Tail(wire.out)]
           P(m) == [wire EXCEPT !.in = Append(wire.in, m), !.out = Tail(wire.out)]
<1>7. CASE f.kind = "init" /\ wire' = P(Frame("inited", None, 0)) /\ desk' = desk /\ sent' = sent
  <2>1. Frame("inited", None, 0) \in Frames
    BY FrameIs
  <2> QED BY <1>1, <1>2, <1>3, <1>5, <1>7, <2>1 DEF WireOK, Frames
<1>8. CASE f.kind = "request" /\ wire' = P(Frame("answer", f.t, f.n)) /\ desk' = desk /\ sent' = sent
  <2>1. Frame("answer", f.t, f.n) \in Frames
    BY <1>2 DEF Frame, Frames, FrameKinds
  <2> QED BY <1>1, <1>2, <1>3, <1>5, <1>8, <2>1 DEF WireOK, Frames
<1>9. CASE f.kind = "unfollow" /\ wire' = R(wire) /\ desk' = desk \ {f.t} /\ sent' = [sent EXCEPT ![f.t] = 0]
  BY <1>1, <1>2, <1>3, <1>4, <1>6, <1>9 DEF WireOK, Frames
<1>10. CASE f.kind = "follow" /\ desk' = desk \cup {f.t} /\ wire' = P(Frame("snapshot", f.t, line[f.t]))
            /\ sent' = [sent EXCEPT ![f.t] = line[f.t]]
  <2>1. Frame("snapshot", f.t, line[f.t]) \in Frames /\ line[f.t] \in Nat
    BY <1>1, <1>4, <1>10, FrameIs DEF FrameKinds
  <2> QED BY <1>1, <1>2, <1>3, <1>4, <1>5, <1>10, <2>1 DEF WireOK, Frames
<1>11. CASE f.kind = "follow" /\ desk' = desk \cup {f.t} /\ wire' = R(wire) /\ sent' = sent
  BY <1>1, <1>2, <1>3, <1>4, <1>6, <1>11 DEF WireOK, Frames
<1>12. \A m : [[wire EXCEPT !.in = Append(@, m)] EXCEPT !.out = Tail(@)] = P(m)
  BY <1>1
<1>13. [wire EXCEPT !.out = Tail(@)] = R(wire)
  BY <1>1
<1>14. \/ f.kind = "init" /\ wire' = P(Frame("inited", None, 0)) /\ desk' = desk /\ sent' = sent
       \/ f.kind = "request" /\ wire' = P(Frame("answer", f.t, f.n)) /\ desk' = desk /\ sent' = sent
       \/ f.kind = "unfollow" /\ wire' = R(wire) /\ desk' = desk \ {f.t} /\ sent' = [sent EXCEPT ![f.t] = 0]
       \/ /\ f.kind = "follow" /\ desk' = desk \cup {f.t} /\ wire' = P(Frame("snapshot", f.t, line[f.t]))
          /\ sent' = [sent EXCEPT ![f.t] = line[f.t]]
       \/ f.kind = "follow" /\ desk' = desk \cup {f.t} /\ wire' = R(wire) /\ sent' = sent
  <2> HIDE DEF P, R, f
  <2> QED BY <1>12, <1>13 DEF DesktopFrame, Put, f
<1> HIDE DEF P, R, f
<1> QED BY <1>7, <1>8, <1>9, <1>10, <1>11, <1>14 DEF f

LEMMA DesktopTalkWire ==
  ASSUME WireOK, NEW t \in Threads, DesktopChange(t) \/ DesktopStatus(t)
  PROVE  /\ WireOK' /\ wire'.up = wire.up /\ wire'.out = wire.out /\ desk' = desk
         /\ \/ wire' = wire /\ sent' = sent /\ (wire.up => t \notin desk)
            \/ /\ wire'.in = wire.in \o <<Frame("patch", t, line[t] + 1)>>
               /\ sent' = [sent EXCEPT ![t] = line[t] + 1] /\ t \in desk /\ wire.up
            \/ wire'.in = wire.in \o <<Frame("status", t, 0)>> /\ sent' = sent /\ wire.up
<1>1. wire.in \in Seq(Frames) /\ line[t] + 1 \in Nat /\ desk' = desk
      /\ wire \in [up : BOOLEAN, out : Seq(Frames), in : Seq(Frames)] /\ sent \in [Threads -> Nat]
  BY DEF WireOK, DesktopChange, DesktopStatus, desktop
<1>2. followed' = followed /\ rev' = rev /\ attempts' = attempts
  BY DEF DesktopChange, DesktopStatus, client
<1>3. line' \in [Threads -> Nat]
  BY <1>1 DEF DesktopChange, DesktopStatus, desktop, WireOK
<1>4. ASSUME NEW m, m \in Frames
      PROVE  /\ Append(wire.in, m) = wire.in \o <<m>>
             /\ [wire EXCEPT !.in = Append(wire.in, m)] \in [up : BOOLEAN, out : Seq(Frames), in : Seq(Frames)]
  <2>1. Append(wire.in, m) = wire.in \o <<m>>
    BY <1>1, <1>4, AppendIsConcat
  <2>2. Append(wire.in, m) \in Seq(Frames)
    BY <1>1, <1>4, AppendProperties
  <2> QED BY <1>1, <2>1, <2>2
<1>5. CASE wire.up /\ t \in desk /\ wire' = [wire EXCEPT !.in = Append(wire.in, Frame("patch", t, line[t] + 1))]
           /\ sent' = [sent EXCEPT ![t] = line[t] + 1]
  <2>1. Frame("patch", t, line[t] + 1) \in Frames
    BY <1>1, FrameIs DEF FrameKinds
  <2> QED BY <1>1, <1>2, <1>3, <1>4, <1>5, <2>1 DEF WireOK, Frames
<1>6. CASE wire' = wire /\ sent' = sent /\ (wire.up => t \notin desk)
  BY <1>1, <1>2, <1>3, <1>6 DEF WireOK, Frames
<1>7. CASE wire.up /\ wire' = [wire EXCEPT !.in = Append(wire.in, Frame("status", t, 0))] /\ sent' = sent
  <2>1. Frame("status", t, 0) \in Frames
    BY FrameIs DEF FrameKinds
  <2> QED BY <1>1, <1>2, <1>3, <1>4, <1>7, <2>1 DEF WireOK, Frames
<1> QED BY <1>5, <1>6, <1>7 DEF DesktopChange, DesktopStatus, Put, desktop


LEMMA OpenWire ==
  ASSUME WireOK, NEW p \in Procs, Open(p)
  PROVE  WireOK'
<1>1. wire' = [up |-> TRUE, out |-> <<Frame("init", None, 0)>>, in |-> <<>>] /\ desk' = {}
      /\ sent' = [t \in Threads |-> 0] /\ line' = line /\ rev' = rev /\ attempts' = attempts
      /\ followed' = followed
  BY DEF Open
<1>2. <<Frame("init", None, 0)>> \in Seq(Frames)
  BY FrameIs
<1> QED BY <1>1, <1>2 DEF WireOK, Frames

LEMMA DesktopGoneWire ==
  ASSUME WireOK, DesktopGone
  PROVE  /\ WireOK' /\ wire'.up = FALSE /\ wire'.in = wire.in /\ wire'.out = <<>>
         /\ desk' = desk /\ sent' = sent
<1>1. wire' = [wire EXCEPT !.up = FALSE, !.out = <<>>] /\ desk' = desk /\ sent' = sent /\ line' = line
      /\ rev' = rev /\ attempts' = attempts /\ followed' = followed
  BY DEF DesktopGone, client, desktop
<1>2. wire' \in [up : BOOLEAN, out : Seq(Frames), in : Seq(Frames)]
      /\ wire'.up = FALSE /\ wire'.in = wire.in /\ wire'.out = <<>>
  <2>1. <<>> \in Seq(Frames) /\ wire \in [up : BOOLEAN, out : Seq(Frames), in : Seq(Frames)]
    BY DEF WireOK
  <2> QED BY <1>1, <2>1
<1> QED BY <1>1, <1>2 DEF WireOK, Frames

\* A step of the client that writes nothing; it may give the transport up.
LEMMA SilentWire ==
  ASSUME WireOK, wire' \in {wire, Down}, followed' = followed, desk' = desk, rev' = rev,
         attempts' = attempts, sent' = sent, line' = line
  PROVE  WireOK'
<1>1. <<>> \in Seq(Frames)
  OBVIOUS
<1>2. Down \in [up : BOOLEAN, out : Seq(Frames), in : Seq(Frames)]
  BY <1>1 DEF Down
<1>3. wire' \in [up : BOOLEAN, out : Seq(Frames), in : Seq(Frames)]
  BY <1>2 DEF WireOK
<1> QED BY <1>3 DEF WireOK, Frames

LEMMA WireStep == Ctl /\ WireOK /\ [Next]_vars => WireOK'
<1> SUFFICES ASSUME Ctl, WireOK, [Next]_vars PROVE WireOK'
  OBVIOUS
<1>1. CASE UNCHANGED vars
  BY <1>1, SilentWire DEF vars, client, desktop
<1>2. ASSUME NEW c \in Calls, RequestTimeout(c) \/ Disconnect(c) \/ Disconnected(c) PROVE WireOK'
  BY <1>2, SilentWire DEF RequestTimeout, Disconnect, Disconnected, desktop
<1>3. ASSUME NEW p \in Procs,
             InitializeTimeout(p) \/ InitializeFailed(p) \/ ConnectFailed(p) \/ OpenRefused(p)
      PROVE  WireOK'
  BY <1>3, SilentWire DEF InitializeTimeout, InitializeFailed, ConnectFailed, OpenRefused, desktop
<1>4. ASSUME NEW g \in 1..MaxConnections, ReaderEnds(g) \/ ResyncsCancelled(g) \/ TransportClosed(g)
      PROVE  WireOK'
  BY <1>4, SilentWire DEF ReaderEnds, Lost, ResyncsCancelled, TransportClosed, desktop
<1>5. CASE ReconnectWakes
  BY <1>5, SilentWire DEF ReconnectWakes, desktop
<1> QED BY <1>1, <1>2, <1>3, <1>4, <1>5, BeginWire, AcquireWire, InitializedWire, OpenWire, ReadWire,
       ResyncWakesWire, DesktopFrameWire, DesktopTalkWire, DesktopGoneWire DEF Next, ConnectStep, ReaderStep

LEMMA WireInit == Init => WireOK
<1> SUFFICES ASSUME Init PROVE WireOK
  OBVIOUS
<1> QED BY FS_EmptySet DEF Init, WireOK, Frames

LEMMA CtlAlways == Spec => [](Ctl /\ WireOK)
<1>1. Init => Ctl /\ WireOK
  BY CtlInit, WireInit
<1>2. Ctl /\ WireOK /\ [Next]_vars => (Ctl /\ WireOK)'
  BY CtlStep, WireStep
<1> QED BY <1>1, <1>2, PTL DEF Spec

\* Whoever sees the client connected finds it with a reader that runs.
THEOREM ConnectedIsReadTheorem == Spec => []ConnectedIsRead
<1>1. Ctl => ConnectedIsRead
  BY DEF Ctl, ConnInv, ConnectedIsRead, Connected, None
<1> QED BY <1>1, CtlAlways, PTL


-----------------------------------------------------------------------------
(* What Desktop will follow. *)

LEMMA OneFrame ==
  ASSUME NEW f \in Frames, NEW t, NEW b \in BOOLEAN
  PROVE  /\ Heeds(b, t, <<f>>) <=> IF f.t = t /\ f.kind = "follow" THEN TRUE
                                   ELSE IF f.t = t /\ f.kind = "unfollow" THEN FALSE ELSE b
         /\ \A kind : Says(<<f>>, t, kind) <=> f.kind = kind /\ f.t = t
         /\ Heeds(b, t, <<>>) = b
         /\ \A kind : ~Says(<<>>, t, kind)
<1>1. DOMAIN <<f>> = {1} /\ <<f>>[1] = f /\ DOMAIN <<>> = {}
  OBVIOUS
<1>2. \A kind : Says(<<f>>, t, kind) <=> f.kind = kind /\ f.t = t
  BY <1>1 DEF Says
<1>3. \A kind : ~Says(<<>>, t, kind)
  BY <1>1 DEF Says
<1>4. Heeds(b, t, <<>>) = b
  BY <1>1 DEF Heeds, Says
<1>5. Heeds(b, t, <<f>>) <=> (b /\ ~(f.kind = "unfollow" /\ f.t = t)) \/ (f.kind = "follow" /\ f.t = t)
  BY <1>1, <1>2 DEF Heeds
<1> QED BY <1>2, <1>3, <1>4, <1>5

\* On a connection on which nothing was asked for, Desktop follows nothing.
LEMMA RawIsFresh ==
  ASSUME Raw, NEW t
  PROVE  Fresh(t) /\ ~Told(t, desk, wire.out) /\ ~Heeds(FALSE, t, wire.out) /\ ~Says(wire.out, t, "unfollow")
  BY DEF Raw, Fresh, Told, Heeds, Says

LEMMA ConcatFrames ==
  ASSUME NEW s \in Seq(Frames), NEW u \in Seq(Frames), NEW w \in Seq(Frames)
  PROVE  (s \o u) \o w = s \o (u \o w)
  OBVIOUS

\* A coroutine that is connected sends its frame: what it says is what the client follows from now on.
LEMMA EmitTold ==
  ASSUME WireOK, NEW p \in Procs, NEW v, NEW j, JobOK(p, v, j), v \in Connecting \cup {"sleep"},
         v = "sleep" => p \in Timers,
         NEW before \in Seq(Frames), NEW known \in SUBSET followed, NEW place, IsFiniteSet(known),
         Emit(p, j, before, known, place), desk' = desk, wire.up,
         NEW t \in Threads,
         \/ j.t = t /\ j.op = "unfollow" /\ t \notin known
         \/ /\ Told(t, desk, wire.out \o before) <=> t \in known
            /\ p \in Readers /\ j.t = t => t \in known
            /\ j.op = "unfollow" => j.t # t
  PROVE  Told(t, desk', wire'.out) <=> t \in followed'
<1> DEFINE new == Wants(p, j)
           b == Told(t, desk, wire.out \o before)
<1>1. new \in Seq(Frames) /\ ((p \in Resyncs \/ j.op = "follow") => j.t \in Threads)
  BY WantsFrames
<1>2. wire.out \in Seq(Frames) /\ wire.out \o before \in Seq(Frames)
      /\ wire'.out = (wire.out \o before) \o new
  <2>1. known \in SUBSET Threads /\ wire.out \in Seq(Frames)
    BY DEF WireOK
  <2>2. wire'.out = wire.out \o (before \o new)
    BY <2>1, EmitWire
  <2>3. wire.out \o before \in Seq(Frames)
    BY <2>1
  <2> HIDE DEF new
  <2>4. (wire.out \o before) \o new = wire.out \o (before \o new)
    <3> DEFINE o == wire.out
    <3>1. o \in Seq(Frames) /\ before \in Seq(Frames) /\ new \in Seq(Frames)
      BY <1>1, <2>1
    <3> HIDE DEF o
    <3>2. (o \o before) \o new = o \o (before \o new)
      BY <3>1, ConcatFrames
    <3> QED BY <3>2 DEF o
  <2> QED BY <2>1, <2>2, <2>3, <2>4
<1>3. b \in BOOLEAN
  BY DEF Told, Heeds
<1>4. Told(t, desk', wire'.out) <=> Heeds(b, t, new)
  <2>1. Heeds(t \in desk, t, (wire.out \o before) \o new)
          <=> Heeds(Heeds(t \in desk, t, wire.out \o before), t, new)
    <3> DEFINE d == t \in desk
               o == wire.out \o before
    <3>1. d \in BOOLEAN /\ o \in Seq(Frames) /\ new \in Seq(Frames)
      BY <1>1, <1>2
    <3> HIDE DEF d, o, new
    <3> QED BY <3>1, HeedsConcat DEF d, o
  <2> QED BY <1>2, <2>1 DEF Told
<1>5. followed' = IF p \in Resyncs \/ j.op = "follow" THEN known \cup {j.t} ELSE known
  BY DEF Emit
<1>6. p \in Readers \cup Timers => j.op = "none"
  BY DEF JobOK
<1>7. CASE p \in Readers \cup Resyncs
  <2>1. new = <<Frame("follow", j.t, 0)>> /\ j.t \in Threads /\ j.op = "none"
    BY <1>6, <1>7, Kinds DEF Wants, JobOK, Connecting
  <2>2. Frame("follow", j.t, 0) \in Frames
    BY <2>1, FrameIs DEF FrameKinds
  <2>3. Heeds(b, t, new) <=> j.t = t \/ b
    BY <1>3, <2>1, <2>2, OneFrame, FrameIs
  <2>4. p \in Readers => p \notin Resyncs
    BY Kinds
  <2> QED BY <1>4, <1>5, <1>7, <2>1, <2>3, <2>4
<1>8. CASE p \notin Readers \cup Resyncs /\ j.op \in {"follow", "unfollow", "request"}
  <2>1. new = <<Frame(j.op, j.t, j.n)>>
    BY <1>8 DEF Wants
  <2>2. Frame(j.op, j.t, j.n) \in Frames
    <3>1. p \notin Readers \cup Timers /\ j.t \in Threads /\ j.n \in Nat
      BY <1>6, <1>8, Kinds DEF JobOK, Connecting, Jobs
    <3> QED BY <1>8, <3>1, FrameIs DEF FrameKinds
  <2>3. Heeds(b, t, new) <=> IF j.t = t /\ j.op = "follow" THEN TRUE
                             ELSE IF j.t = t /\ j.op = "unfollow" THEN FALSE ELSE b
    BY <1>3, <2>1, <2>2, OneFrame, FrameIs
  <2> HIDE DEF new, b
  <2> QED BY <1>4, <1>5, <1>8, <2>3 DEF b
<1>9. CASE p \notin Readers \cup Resyncs /\ j.op \notin {"follow", "unfollow", "request"}
  <2>1. new = <<>>
    BY <1>9 DEF Wants
  <2>2. Heeds(b, t, new) <=> b
    BY <1>3, <2>1 DEF Heeds, Says
  <2> QED BY <1>4, <1>5, <1>9, <2>2
<1> QED BY <1>7, <1>8, <1>9


\* A step after which whoever waits for a connection waited before it, and no resync starts.
Keeps ==
  /\ \A p \in Readers : pc'[p] \in Connecting => pc[p] \in Connecting /\ job'[p] = job[p]
  /\ \A c \in Calls : pc'[Call(c)] \in Connecting => pc[Call(c)] \in Connecting /\ job'[Call(c)] = job[Call(c)]
  /\ \A t \in Threads : pc[Resync(t)] = "idle" => pc'[Resync(t)] = "idle"

Waking == {"init", "inited", "initfail"}
Gone == {"cancelled", "gather", "closing", "done"}

LEMMA KeepsMild ==
  ASSUME \A q \in Procs : pc'[q] \in Connecting => pc[q] \in Connecting \/ q \in Timers,
         job' = job \/ job' = Settled(pc'),
         \A q \in Resyncs : pc[q] = "idle" => pc'[q] = "idle"
  PROVE  Keeps
<1>1. \A q \in Procs : pc'[q] \in Connecting => job'[q] = job[q]
  BY DEF Settled, Connecting, Idle
<1>2. \A p \in Readers : p \in Procs /\ p \notin Timers
  BY Kinds
<1> QED BY <1>1, <1>2, Kinds DEF Keeps

LEMMA WaitStays ==
  ASSUME WaitInv, Keeps, followed' = followed, mixed' = mixed,
         \A t \in Threads : Dropped(t) /\ Heard' => Fresh(t)'
  PROVE  WaitInv'
<1> SUFFICES ASSUME NEW t \in Threads, t \notin mixed
             PROVE  /\ \A p \in Readers : pc'[p] \in Connecting /\ job'[p].t = t => t \in followed'
                    /\ \A c \in Calls : Unfollows(c, t)' => Dropped(t)' /\ \A d \in Calls : ~Follows(d, t)'
  BY DEF WaitInv, Readers, Reader
<1>1. \A p \in Readers : pc'[p] \in Connecting /\ job'[p].t = t => t \in followed'
  BY DEF WaitInv, Keeps
<1>2. \A c \in Calls : (Unfollows(c, t)' => Unfollows(c, t)) /\ (Follows(c, t)' => Follows(c, t))
  BY DEF Unfollows, Follows, Keeps, Connecting, Call
<1>3. Dropped(t) => Dropped(t)'
  BY DEF Dropped, Keeps, Resync
<1> QED BY <1>1, <1>2, <1>3 DEF WaitInv

LEMMA RawStays ==
  ASSUME RawInv, conn' = conn, Raw => Raw',
         \A p \in Procs : conn.writer # None /\ pc'[p] \in Waking => pc[p] \in Waking,
         Heard' => Heard
  PROVE  RawInv'
  BY DEF RawInv, Waking, Procs, Call, Readers, Resyncs, Reader, Resync

\* A step that leaves the connection and what was said on it alone.
LEMMA FollowStays ==
  ASSUME FollowInv, Keeps, conn' = conn, wire' = wire, desk' = desk, followed' = followed, mixed' = mixed,
         \A p \in Procs : pc'[p] \in Waking => pc[p] \in Waking,
         \A p \in Readers : pc'[p] \notin Gone => pc[p] \notin Gone,
         conn.writer # None => Reader(conn.gen) \in Readers
  PROVE  FollowInv'
<1>1. Heard' => Heard
  BY DEF Heard, Gone, Reader
<1>2. Raw => Raw'
  BY DEF Raw
<1>3. RawInv'
  BY <1>1, <1>2, RawStays DEF FollowInv
<1>4. ToldInv'
  BY DEF FollowInv, ToldInv, Connected, Told
<1>5. \A t \in Threads : Dropped(t) /\ Heard' => Fresh(t)'
  BY <1>1 DEF Dropped, Fresh
<1>6. WaitInv'
  BY <1>5, WaitStays DEF FollowInv
<1> QED BY <1>3, <1>4, <1>6 DEF FollowInv

\* A step after which there is no transport.
LEMMA FollowDown ==
  ASSUME FollowInv, Keeps, conn'.writer = None, followed' = followed, mixed' = mixed
  PROVE  FollowInv'
<1>1. ~Heard' /\ ~Connected' /\ RawInv'
  BY DEF Heard, Connected, RawInv
<1>2. ToldInv'
  BY <1>1 DEF ToldInv
<1>3. WaitInv'
  BY <1>1, WaitStays DEF FollowInv
<1> QED BY <1>1, <1>2, <1>3 DEF FollowInv


LEMMA WriterIsReader == ConnInv /\ conn.writer # None => Reader(conn.gen) \in Readers /\ conn.gen \in 1..MaxConnections
  BY Kinds DEF ConnInv, None

LEMMA CallsFollow ==
  ASSUME Ctl, FollowInv, NEW c \in Calls, RequestTimeout(c) \/ Disconnect(c) \/ Disconnected(c)
  PROVE  FollowInv'
<1> DEFINE p == Call(c)
<1>1. p \in Procs /\ p \notin Readers /\ p \notin Timers /\ DOMAIN pc = Procs /\ Resyncs \subseteq Procs
      /\ (conn.writer # None => Reader(conn.gen) \in Readers) /\ Resyncs \subseteq Timers
      /\ Readers \subseteq Procs /\ Resyncs \cap Readers = {}
  BY Kinds, WriterIsReader DEF Ctl, PlacesOK
<1> HIDE DEF p
<1>2. CASE RequestTimeout(c)
  <2>1. pc' = [pc EXCEPT ![p] = "idle"] /\ pc[p] = "answer" /\ job' = Settled(pc') /\ conn' = conn
        /\ wire' = wire /\ desk' = desk /\ followed' = followed /\ mixed' = mixed
    BY <1>2 DEF RequestTimeout, desktop, history, p
  <2>2. pc'[p] = "idle" /\ \A q \in Procs : q # p => pc'[q] = pc[q]
    BY <1>1, <2>1
  <2>3. Keeps
    BY <1>1, <2>1, <2>2, KeepsMild DEF Connecting
  <2>4. \A q \in Procs : (pc'[q] \in Waking => pc[q] \in Waking) /\ (pc'[q] \notin Gone => pc[q] \notin Gone)
    BY <2>1, <2>2 DEF Waking, Gone
  <2> QED BY <1>1, <2>1, <2>3, <2>4, FollowStays
<1>3. CASE Disconnect(c)
  <2> DEFINE place == Cancelled(pc, conn.reader, p)
  <2>1. pc' = [place EXCEPT ![p] = "dropping", ![Reconnect] = "idle"] /\ job' = job /\ followed' = followed
        /\ mixed' = mixed /\ Close(p, TRUE)
    BY <1>3 DEF Disconnect, history, p
  <2>2. DOMAIN place = Procs /\ \A q \in Procs : place[q] = pc[q] \/
           (q \in Readers /\ place[q] \in {"cancelled", "done"})
    BY CancelledPlaces DEF Ctl
  <2> HIDE DEF place
  <2>3. \A q \in Procs : pc'[q] = place[q] \/ pc'[q] \in {"dropping", "idle"}
    BY <2>1, <2>2
  <2>4. \A q \in Procs : pc'[q] \in Connecting => pc[q] \in Connecting
    BY <2>2, <2>3 DEF Connecting
  <2>5. \A q \in Resyncs : pc[q] = "idle" => pc'[q] = "idle"
    BY <1>1, <2>1, <2>2
  <2>6. Keeps
    BY <2>1, <2>4, <2>5, KeepsMild
  <2>7. conn'.writer = None
    BY <2>1 DEF Close, Ctl, ConnInv
  <2> QED BY <2>1, <2>6, <2>7, FollowDown
<1>4. CASE Disconnected(c)
  <2>1. \A q \in Procs : pc'[q] = IF q = p \/ q \in Resyncs THEN "idle" ELSE FailPending(pc)[q]
    BY <1>4 DEF Disconnected, p
  <2>2. job' = Settled(pc') /\ conn' = conn /\ wire' = wire /\ desk' = desk /\ followed' = followed
        /\ mixed' = mixed /\ pc[p] = "dropping"
    BY <1>4 DEF Disconnected, desktop, history, p
  <2>3. \A q \in Procs : pc'[q] = pc[q] \/ pc'[q] = "idle" \/ (pc[q] = "init" /\ pc'[q] = "initfail")
    BY <2>1 DEF FailPending
  <2>4. \A q \in Resyncs : pc'[q] = "idle"
    BY <1>1, <2>1
  <2>5. Keeps
    BY <2>2, <2>3, <2>4, KeepsMild DEF Connecting
  <2>6. \A q \in Procs : pc'[q] \in Waking => pc[q] \in Waking
    BY <2>3 DEF Waking
  <2>7. \A q \in Readers : pc'[q] \notin Gone => pc[q] \notin Gone
    <3> SUFFICES ASSUME NEW q \in Readers, pc[q] \in Gone PROVE pc'[q] = pc[q]
      BY DEF Gone
    <3>1. q \in Procs /\ q # p /\ q \notin Resyncs /\ pc[q] # "answer" /\ pc[q] # "init"
      BY <1>1 DEF Gone
    <3> QED BY <2>1, <3>1 DEF FailPending
  <2> QED BY <1>1, <2>2, <2>5, <2>6, <2>7, FollowStays
<1> QED BY <1>2, <1>3, <1>4

\* A coroutine of connect() that fails or gives up.
LEMMA ConnectFollow ==
  ASSUME Ctl, FollowInv, NEW p \in Procs,
         InitializeTimeout(p) \/ InitializeFailed(p) \/ ConnectFailed(p) \/ OpenRefused(p)
  PROVE  FollowInv'
<1>1. DOMAIN pc = Procs /\ Resyncs \subseteq Procs /\ (conn.writer # None => Reader(conn.gen) \in Readers)
      /\ Readers \subseteq Procs /\ Resyncs \cap Readers = {}
  BY Kinds, WriterIsReader DEF Ctl, PlacesOK
<1>2. CASE InitializeTimeout(p)
  <2>1. pc' = [pc EXCEPT ![p] = "initfail"] /\ pc[p] = "init" /\ job' = job /\ conn' = conn
        /\ wire' = wire /\ desk' = desk /\ followed' = followed /\ mixed' = mixed
    BY <1>2 DEF InitializeTimeout, desktop, history
  <2>2. pc'[p] = "initfail" /\ \A q \in Procs : q # p => pc'[q] = pc[q]
    BY <1>1, <2>1
  <2>3. Keeps
    BY <1>1, <2>1, <2>2, KeepsMild DEF Connecting
  <2>4. \A q \in Procs : (pc'[q] \in Waking => pc[q] \in Waking) /\ (pc'[q] \notin Gone => pc[q] \notin Gone)
    BY <2>1, <2>2 DEF Waking, Gone
  <2> QED BY <1>1, <2>1, <2>3, <2>4, FollowStays
<1>3. CASE InitializeFailed(p)
  <2> DEFINE place == Cancelled(pc, conn.reader, p)
  <2>1. pc' = [place EXCEPT ![p] = "abandon"] /\ pc[p] = "initfail" /\ job' = job /\ followed' = followed
        /\ mixed' = mixed /\ Close(p, conn.closing)
    BY <1>3 DEF InitializeFailed, history
  <2>2. DOMAIN place = Procs /\ \A q \in Procs : place[q] = pc[q] \/
           (q \in Readers /\ place[q] \in {"cancelled", "done"})
    BY CancelledPlaces DEF Ctl
  <2> HIDE DEF place
  <2>3. \A q \in Procs : pc'[q] \in Connecting => pc[q] \in Connecting
    BY <2>1, <2>2 DEF Connecting
  <2>4. \A q \in Resyncs : pc[q] = "idle" => pc'[q] = "idle"
    BY <1>1, <2>1, <2>2
  <2>5. Keeps
    BY <2>1, <2>3, <2>4, KeepsMild
  <2>6. conn'.writer = None
    BY <2>1 DEF Close, Ctl, ConnInv
  <2> QED BY <2>1, <2>5, <2>6, FollowDown
<1>4. CASE ConnectFailed(p) \/ OpenRefused(p)
  <2>1. pc' = [pc EXCEPT ![p] = Failed(p)] /\ pc[p] \in {"abandon", "opening"} /\ job' = Settled(pc') /\ conn' = conn
        /\ wire' = wire /\ desk' = desk /\ followed' = followed /\ mixed' = mixed
    BY <1>4 DEF ConnectFailed, OpenRefused, desktop, history
  <2>2. pc'[p] = Failed(p) /\ \A q \in Procs : q # p => pc'[q] = pc[q]
    BY <1>1, <2>1
  <2>3. Failed(p) \in {"cancelled", "sleep", "idle"}
    BY DEF Failed
  <2>4. Keeps
    BY <1>1, <2>1, <2>2, <2>3, KeepsMild DEF Connecting
  <2>5. \A q \in Procs : (pc'[q] \in Waking => pc[q] \in Waking) /\ (pc'[q] \notin Gone => pc[q] \notin Gone)
    BY <2>1, <2>2, <2>3 DEF Waking, Gone
  <2> QED BY <1>1, <2>1, <2>4, <2>5, FollowStays
<1> QED BY <1>2, <1>3, <1>4


LEMMA LostFollow ==
  ASSUME Ctl, FollowInv, NEW g \in 1..MaxConnections, g = conn.gen, Lost(g)
  PROVE  FollowInv'
<1> DEFINE r == Reader(g)
           waiting == {q \in Resyncs : Alive(q)}
<1>1. r \in Readers /\ r \in Procs /\ Resyncs \subseteq Procs /\ Resyncs \cap Readers = {}
      /\ Readers \subseteq Procs
  BY Kinds
<1>2. \A q \in Procs : pc'[q] = CASE q = r -> IF waiting # {} THEN "gather" ELSE "closing"
                                  [] q \in waiting -> "idle"
                                  [] OTHER -> pc[q]
  BY DEF Lost
<1>3. job' = Settled(pc') /\ followed' = followed /\ desk' = desk /\ mixed' = mixed
  BY DEF Lost, desktop, history
<1>4. r \notin waiting
  BY <1>1
<1>5. conn' = (IF waiting # {} THEN [conn EXCEPT !.ready = FALSE]
               ELSE [conn EXCEPT !.ready = FALSE, !.reader = None, !.writer = None])
      /\ (waiting # {} => wire' = wire)
  BY DEF Lost
<1> HIDE DEF r, waiting
<1>6. pc'[r] \in {"gather", "closing"} /\ (waiting # {} => pc'[r] = "gather")
      /\ \A q \in Procs : q # r => pc'[q] = pc[q] \/ pc'[q] = "idle"
  BY <1>1, <1>2, <1>4
<1>7. \A q \in Resyncs : pc[q] = "idle" => pc'[q] = "idle"
  BY <1>1, <1>6
<1>8. Keeps
  BY <1>3, <1>6, <1>7, KeepsMild DEF Connecting
<1>9. CASE waiting = {}
  <2>1. conn'.writer = None
    BY <1>5, <1>9 DEF Ctl, ConnInv
  <2> QED BY <1>3, <1>8, <2>1, FollowDown
<1>10. CASE waiting # {}
  <2>1. conn'.writer = conn.writer /\ conn'.gen = conn.gen /\ ~conn'.ready /\ wire' = wire
    BY <1>5, <1>10 DEF Ctl, ConnInv
  <2>2. ~Heard'
    <3>1. pc'[Reader(conn'.gen)] = "gather"
      BY <1>6, <1>10, <2>1 DEF r
    <3> QED BY <3>1 DEF Heard, Reader
  <2>3. ~Connected'
    BY <2>1 DEF Connected
  <2>4. RawInv'
    <3>1. \A q \in Procs : pc'[q] \in Waking => pc[q] \in Waking
      BY <1>6 DEF Waking
    <3>2. Raw => Raw'
      BY <1>3, <2>1 DEF Raw
    <3> QED BY <2>1, <2>2, <3>1, <3>2 DEF FollowInv, RawInv, Waking, Procs, Call, Readers, Resyncs, Reader, Resync
  <2>5. ToldInv'
    BY <2>3 DEF ToldInv
  <2>6. WaitInv'
    BY <1>3, <1>8, <2>2, WaitStays DEF FollowInv
  <2> QED BY <2>4, <2>5, <2>6 DEF FollowInv
<1> QED BY <1>9, <1>10

LEMMA ReaderEndsFollow ==
  ASSUME Ctl, FollowInv, NEW g \in 1..MaxConnections,
         ReaderEnds(g) \/ ResyncsCancelled(g) \/ TransportClosed(g)
  PROVE  FollowInv'
<1> DEFINE r == Reader(g)
<1>1. r \in Readers /\ r \in Procs /\ Resyncs \subseteq Procs /\ Resyncs \cap Readers = {} /\ Readers \subseteq Procs
      /\ DOMAIN pc = Procs /\ (conn.writer # None => Reader(conn.gen) \in Readers)
      /\ Reconnect \notin Readers /\ Reconnect \notin Resyncs /\ Reconnect \in Procs /\ Reconnect \in Timers
  BY Kinds, WriterIsReader DEF Ctl, PlacesOK
<1> HIDE DEF r
<1>2. CASE ReaderEnds(g) /\ g = conn.gen /\ ~conn.closing
  BY <1>2, LostFollow DEF ReaderEnds
<1>3. CASE ReaderEnds(g) /\ ~(g = conn.gen /\ ~conn.closing)
  <2>1. pc' = [pc EXCEPT ![r] = "done"] /\ pc[r] \in {"cancelled", "reading"} /\ job' = job /\ conn' = conn
        /\ wire' = wire /\ desk' = desk /\ followed' = followed /\ mixed' = mixed
    BY <1>3 DEF ReaderEnds, desktop, history, r
  <2>2. pc'[r] = "done" /\ \A q \in Procs : q # r => pc'[q] = pc[q]
    BY <1>1, <2>1
  <2>3. Keeps
    BY <1>1, <2>1, <2>2, KeepsMild DEF Connecting
  <2>4. \A q \in Procs : (pc'[q] \in Waking => pc[q] \in Waking) /\ (pc'[q] \notin Gone => pc[q] \notin Gone)
    BY <2>2 DEF Waking, Gone
  <2> QED BY <1>1, <2>1, <2>3, <2>4, FollowStays
<1>4. CASE ResyncsCancelled(g)
  <2>1. pc' = [pc EXCEPT ![r] = "closing"] /\ job' = job /\ followed' = followed /\ mixed' = mixed
        /\ conn' = [conn EXCEPT !.reader = None, !.writer = None]
    BY <1>4 DEF ResyncsCancelled, history, r
  <2>2. pc'[r] = "closing" /\ \A q \in Procs : q # r => pc'[q] = pc[q]
    BY <1>1, <2>1
  <2>3. Keeps
    BY <1>1, <2>1, <2>2, KeepsMild DEF Connecting
  <2>4. conn'.writer = None
    BY <2>1 DEF Ctl, ConnInv
  <2> QED BY <2>1, <2>3, <2>4, FollowDown
<1>5. CASE TransportClosed(g)
  <2> DEFINE place == FailPending(pc)
  <2>1. pc' = [place EXCEPT ![r] = "done",
                 ![Reconnect] = IF @ = "idle" /\ ~conn.closing /\ ~Connected THEN "sleep" ELSE @]
        /\ pc[r] = "closing" /\ job' = Settled(pc') /\ conn' = conn
        /\ wire' = wire /\ desk' = desk /\ followed' = followed /\ mixed' = mixed
    BY <1>5 DEF TransportClosed, desktop, history, r
  <2>2. DOMAIN place = Procs /\ \A q \in Procs : place[q] = CASE pc[q] = "answer" -> "idle"
                                                              [] pc[q] = "init" -> "initfail" [] OTHER -> pc[q]
    BY DEF FailPending
  <2>3. \A q \in Procs : place[q] = pc[q] \/ (pc[q] = "answer" /\ place[q] = "idle")
                         \/ (pc[q] = "init" /\ place[q] = "initfail")
    BY <2>2
  <2> HIDE DEF place
  <2>4. pc'[r] = "done" /\ (pc'[Reconnect] = place[Reconnect] \/ pc'[Reconnect] = "sleep")
        /\ \A q \in Procs : q # r /\ q # Reconnect => pc'[q] = place[q]
    BY <1>1, <2>1, <2>2
  <2>5. \A q \in Procs : pc'[q] \in Connecting => pc[q] \in Connecting \/ q \in Timers
    BY <1>1, <2>3, <2>4 DEF Connecting
  <2>6. \A q \in Resyncs : pc[q] = "idle" => pc'[q] = "idle"
    BY <1>1, <2>3, <2>4
  <2>7. Keeps
    BY <2>1, <2>5, <2>6, KeepsMild
  <2>8. \A q \in Procs : pc'[q] \in Waking => pc[q] \in Waking
    BY <2>3, <2>4 DEF Waking
  <2>9. \A q \in Readers : pc'[q] \notin Gone => pc[q] \notin Gone
    BY <1>1, <2>3, <2>4 DEF Gone
  <2> QED BY <1>1, <2>1, <2>7, <2>8, <2>9, FollowStays
<1> QED BY <1>2, <1>3, <1>4, <1>5

LEMMA ReconnectWakesFollow ==
  ASSUME Ctl, FollowInv, ReconnectWakes
  PROVE  FollowInv'
<1>1. Reconnect \in Procs /\ Reconnect \in Timers /\ Reconnect \notin Readers /\ DOMAIN pc = Procs
      /\ Reconnect \notin Resyncs /\ Resyncs \subseteq Procs /\ Readers \subseteq Procs
      /\ (conn.writer # None => Reader(conn.gen) \in Readers)
  BY Kinds, WriterIsReader DEF Ctl, PlacesOK
<1>2. pc' = [pc EXCEPT ![Reconnect] = "connect"] /\ job' = job /\ conn' = conn
      /\ wire' = wire /\ desk' = desk /\ followed' = followed /\ mixed' = mixed
  BY DEF ReconnectWakes, desktop, history
<1>3. pc'[Reconnect] = "connect" /\ \A q \in Procs : q # Reconnect => pc'[q] = pc[q]
  BY <1>1, <1>2
<1>4. Keeps
  BY <1>1, <1>2, <1>3, KeepsMild
<1>5. \A q \in Procs : pc'[q] \in Waking => pc[q] \in Waking
  BY <1>3 DEF Waking
<1>6. \A q \in Readers : pc'[q] \notin Gone => pc[q] \notin Gone
  BY <1>1, <1>3
<1> QED BY <1>1, <1>2, <1>4, <1>5, <1>6, FollowStays


\* Whoever still waits when a coroutine sends its frame means what it meant.
LEMMA EmitWait ==
  ASSUME WireOK, WaitInv, NEW p \in Procs, NEW v, NEW j, JobOK(p, v, j), v \in Connecting \cup {"sleep"},
         v = "sleep" => p \in Timers, p \in Resyncs => pc[p] # "idle", p \in Readers => pc[p] \notin Gone,
         NEW before \in Seq(Frames), NEW known \in SUBSET followed, IsFiniteSet(known),
         NEW place, DOMAIN place = Procs,
         \A q \in Procs : place[q] = pc[q] \/ (place[q] = "idle" /\ q \notin Readers),
         Emit(p, j, before, known, place), desk' = desk, conn'.writer = conn.writer, conn'.gen = conn.gen,
         conn.writer # None => Reader(conn.gen) \in Readers,
         \A t \in Threads : Says(before, t, "follow") => t \in known,
         mixed \subseteq mixed',
         \A t \in Threads \ mixed' :
            /\ \A q \in Readers \ {p} : pc[q] \in Connecting /\ job[q].t = t => t \in known
            /\ p \in Readers /\ j.t = t => t \in known
            /\ \A c \in Calls : Unfollows(c, t) => ~(j.op = "follow" /\ j.t = t)
  PROVE  WaitInv'
<1>1. \A q \in Procs : pc'[q] = IF q = p THEN Sent(p, j) ELSE place[q]
  BY DEF Emit
<1>2. \A q \in Procs : q # p => job'[q] = IF place[q] \in Idle THEN NoJob ELSE job[q]
  BY DEF Emit, Settled
<1>3. Sent(p, j) \in {"reading", "answer", "idle"}
  BY DEF Sent
<1>4. \A q \in Procs : pc'[q] \in Connecting => q # p /\ pc[q] \in Connecting /\ job'[q] = job[q]
  BY <1>1, <1>2, <1>3 DEF Connecting, Idle
<1>5. known \subseteq followed' /\ (followed' = known \/ (followed' = known \cup {j.t} /\ (p \in Resyncs \/ j.op = "follow")))
  BY DEF Emit
<1>6. \A c \in Calls, t \in Threads : (Unfollows(c, t)' => Unfollows(c, t) /\ Call(c) # p) /\ (Follows(c, t)' => Follows(c, t))
  BY <1>4, Kinds DEF Unfollows, Follows, Connecting, Call
<1>7. Heard' => Heard
  <2>1. ASSUME conn.writer # None, pc[Reader(conn.gen)] \in Gone PROVE pc'[Reader(conn.gen)] \in Gone
    <3>1. Reader(conn.gen) # p /\ Reader(conn.gen) \in Procs
      BY <2>1, Kinds
    <3> QED BY <1>1, <2>1, <3>1
  <2> QED BY <2>1 DEF Heard, Gone, Reader
<1>8. ASSUME NEW t \in Threads, t \notin mixed'
      PROVE  /\ \A q \in Readers : pc'[q] \in Connecting /\ job'[q].t = t => t \in followed'
             /\ \A c \in Calls : Unfollows(c, t)' => Dropped(t)' /\ \A d \in Calls : ~Follows(d, t)'
  <2>1. \A q \in Readers : pc'[q] \in Connecting /\ job'[q].t = t => t \in followed'
    BY <1>4, <1>5, <1>8, Kinds
  <2>2. ASSUME NEW c \in Calls, Unfollows(c, t)'
        PROVE  Dropped(t)' /\ \A d \in Calls : ~Follows(d, t)'
    <3>1. Unfollows(c, t) /\ Dropped(t) /\ \A d \in Calls : ~Follows(d, t)
      BY <1>6, <1>8, <2>2 DEF WaitInv
    <3>2. ~(j.op = "follow" /\ j.t = t) /\ t \notin known /\ ~(p \in Readers /\ j.t = t)
      BY <1>8, <3>1 DEF Dropped
    <3>3. ~(p \in Resyncs /\ j.t = t)
      <4>1. p \in Resyncs => p = Resync(j.t)
        BY Kinds DEF JobOK, Connecting
      <4> QED BY <3>1, <4>1 DEF Dropped
    <3>4. t \notin followed'
      BY <1>5, <3>2, <3>3
    <3>5. pc'[Resync(t)] = "idle"
      <4>1. Resync(t) \in Procs /\ Resync(t) \in Resyncs /\ Resync(t) # p
        BY <3>1, Kinds DEF Dropped
      <4> QED BY <1>1, <3>1, <4>1 DEF Dropped
    <3>6. ASSUME Heard' PROVE Fresh(t)'
      <4>1. Fresh(t)
        BY <1>7, <3>1, <3>6 DEF Dropped
      <4>2. wire'.in = wire.in
            /\ wire'.out = IF wire.up THEN wire.out \o (before \o Wants(p, j)) ELSE wire.out
        <5>1. known \in SUBSET Threads
          BY DEF WireOK
        <5> QED BY <5>1, EmitWire
      <4>3. Wants(p, j) \in Seq(Frames)
        BY WantsFrames
      <4>4. ~Says(Wants(p, j), t, "follow")
        <5>1. CASE p \in Readers \cup Resyncs
          <6>1. Wants(p, j) = <<Frame("follow", j.t, 0)>>
            <7>1. j.op = "none"
              BY <5>1, Kinds DEF JobOK
            <7> QED BY <5>1, <7>1 DEF Wants
          <6>2. j.t # t
            BY <3>2, <3>3, <5>1
          <6> QED BY <6>1, <6>2 DEF Says, Frame
        <5>2. CASE p \notin Readers \cup Resyncs /\ j.op \in {"follow", "unfollow", "request"}
          <6>1. Wants(p, j) = <<Frame(j.op, j.t, j.n)>>
            BY <5>2 DEF Wants
          <6> QED BY <3>2, <6>1 DEF Says, Frame
        <5>3. CASE p \notin Readers \cup Resyncs /\ j.op \notin {"follow", "unfollow", "request"}
          BY <5>3 DEF Wants, Says
        <5> QED BY <5>1, <5>2, <5>3
      <4>5. ~Says(before \o Wants(p, j), t, "follow") /\ before \o Wants(p, j) \in Seq(Frames)
        BY <3>2, <4>3, <4>4, SaysConcat
      <4>6. ~Says(wire'.out, t, "follow")
        <5> DEFINE o == wire.out
                   w == before \o Wants(p, j)
        <5>1. o \in Seq(Frames) /\ w \in Seq(Frames) /\ ~Says(o, t, "follow") /\ ~Says(w, t, "follow")
          BY <4>1, <4>5 DEF WireOK, Fresh
        <5>2. wire'.out = o \/ wire'.out = o \o w
          BY <4>2
        <5> HIDE DEF o, w
        <5>3. ~Says(o \o w, t, "follow")
          BY <5>1, SaysConcat
        <5> QED BY <5>1, <5>2, <5>3
      <4> QED BY <4>1, <4>2, <4>6 DEF Fresh, Says
    <3> QED BY <1>6, <3>1, <3>4, <3>5, <3>6 DEF Dropped, Resync
  <2> QED BY <2>1, <2>2
<1> QED BY <1>8 DEF WaitInv, Readers, Reader


LEMMA ReadyIsNotRaw ==
  ASSUME ConnInv', conn'.ready
  PROVE  RawInv'
<1>1. \A p \in Procs : pc'[p] \notin Waking
  BY DEF ConnInv, Queue, Connecting, Waking
<1> QED BY <1>1 DEF RawInv, Waking, Procs, Call, Readers, Resyncs, Reader, Resync

\* Who waited for the connection, or for the time of a resync, sends its frame.
LEMMA WaiterFollow ==
  ASSUME Ctl, Ctl', WireOK, FollowInv, NEW p \in Procs,
         pc[p] \in Connecting \/ (p \in Resyncs /\ pc[p] = "sleep"),
         NEW before \in Seq(Frames), Emit(p, job[p], before, followed, pc), desk' = desk, mixed' = mixed,
         conn'.writer = conn.writer, conn'.gen = conn.gen, conn'.ready, conn.writer # None,
         \A t \in Threads : Says(before, t, "follow") => t \in followed,
         \A t \in Threads \ mixed : wire.up => (Told(t, desk, wire.out \o before) <=> t \in followed)
  PROVE  FollowInv'
<1> DEFINE v == pc[p]
           j == job[p]
<1>1. JobOK(p, v, j) /\ v \in Connecting \cup {"sleep"} /\ (v = "sleep" => p \in Timers) /\ v # "idle"
      /\ v \notin Gone /\ DOMAIN pc = Procs /\ IsFiniteSet(followed) /\ Reader(conn.gen) \in Readers
  BY Kinds, WriterIsReader DEF Ctl, PlacesOK, JobsOK, WireOK, Stands, Connecting, Gone
<1>2. ASSUME NEW t \in Threads, t \notin mixed, j.t = t
      PROVE  /\ p \in Readers => t \in followed
             /\ j.op = "unfollow" => t \notin followed
             /\ \A c \in Calls : Unfollows(c, t) => j.op # "follow"
  <2>1. p \in Readers => t \in followed
    BY <1>1, <1>2, Kinds DEF FollowInv, WaitInv
  <2>2. ASSUME j.op \in {"follow", "unfollow"} PROVE \E d \in Calls : p = Call(d) /\ v \in Connecting
    BY <1>1, <2>2, Kinds DEF JobOK
  <2>3. j.op = "unfollow" => t \notin followed
    BY <1>2, <2>2 DEF FollowInv, WaitInv, Unfollows, Dropped
  <2>4. \A c \in Calls : Unfollows(c, t) => j.op # "follow"
    BY <1>2, <2>2 DEF FollowInv, WaitInv, Follows
  <2> QED BY <2>1, <2>3, <2>4
<1>3. RawInv'
  BY ReadyIsNotRaw DEF Ctl
<1>4. Emit(p, j, before, followed, pc)
  OBVIOUS
<1> HIDE DEF v, j
<1>5. WaitInv'
  <2>1. ASSUME NEW t \in Threads \ mixed'
        PROVE  /\ \A q \in Readers \ {p} : pc[q] \in Connecting /\ job[q].t = t => t \in followed
               /\ p \in Readers /\ j.t = t => t \in followed
               /\ \A c \in Calls : Unfollows(c, t) => ~(j.op = "follow" /\ j.t = t)
    BY <1>2, <2>1 DEF FollowInv, WaitInv
  <2>2. \A q \in Procs : pc[q] = pc[q] \/ (pc[q] = "idle" /\ q \notin Readers)
    OBVIOUS
  <2>3. (p \in Resyncs => pc[p] # "idle") /\ (p \in Readers => pc[p] \notin Gone)
    BY <1>1 DEF v
  <2> QED BY <1>1, <1>4, <2>1, <2>2, <2>3, EmitWait DEF FollowInv
<1>6. ToldInv'
  <2>1. followed \in SUBSET Threads /\ wire'.up = wire.up
    <3>1. followed \in SUBSET Threads
      BY DEF WireOK
    <3> QED BY <1>1, <1>4, <3>1, EmitWire
  <2>2. ASSUME NEW t \in Threads, t \notin mixed, wire.up PROVE Told(t, desk', wire'.out) <=> t \in followed'
    <3>1. \/ j.t = t /\ j.op = "unfollow" /\ t \notin followed
          \/ /\ Told(t, desk, wire.out \o before) <=> t \in followed
             /\ p \in Readers /\ j.t = t => t \in followed
             /\ j.op = "unfollow" => j.t # t
      BY <1>2, <2>2
    <3> QED BY <1>1, <1>4, <2>2, <3>1, EmitTold
  <2> QED BY <2>1, <2>2 DEF ToldInv, Told
<1> QED BY <1>3, <1>5, <1>6 DEF FollowInv

LEMMA EmptyBefore ==
  ASSUME WireOK
  PROVE  /\ <<>> \in Seq(Frames) /\ wire.out \o <<>> = wire.out
         /\ \A t, kind : ~Says(<<>>, t, kind)
<1>1. wire.out \in Seq(Frames)
  BY DEF WireOK
<1> QED BY <1>1 DEF Says

LEMMA AcquireFollow ==
  ASSUME Ctl, Ctl', WireOK, FollowInv, NEW p \in Procs, Acquire(p)
  PROVE  FollowInv'
<1>1. pc[p] = "connect" /\ desk' = desk /\ mixed' = mixed
  BY DEF Acquire, desktop
<1>2. CASE Connected
  <2>1. Emit(p, job[p], <<>>, followed, pc) /\ conn' = conn /\ conn.ready /\ conn.writer # None
    BY <1>2 DEF Acquire, Connected
  <2>2. \A t \in Threads \ mixed : wire.up => (Told(t, desk, wire.out \o <<>>) <=> t \in followed)
    BY <1>2, EmptyBefore DEF FollowInv, ToldInv
  <2> QED BY <1>1, <2>1, <2>2, EmptyBefore, WaiterFollow DEF Connecting
<1>3. CASE ~Connected
  <2> DEFINE place == Cancelled(pc, conn.reader, p)
  <2>1. pc' = [place EXCEPT ![p] = "opening"] /\ job' = job /\ followed' = followed /\ Close(p, FALSE)
    BY <1>3 DEF Acquire
  <2>2. DOMAIN place = Procs /\ \A q \in Procs : place[q] = pc[q] \/
           (q \in Readers /\ place[q] \in {"cancelled", "done"})
    BY CancelledPlaces DEF Ctl
  <2> HIDE DEF place
  <2>3. \A q \in Procs : pc'[q] \in Connecting => pc[q] \in Connecting
    BY <1>1, <2>1, <2>2 DEF Connecting
  <2>4. \A q \in Resyncs : pc[q] = "idle" => pc'[q] = "idle"
    BY <1>1, <2>1, <2>2, Kinds
  <2>5. Keeps
    BY <2>1, <2>3, <2>4, KeepsMild
  <2>6. conn'.writer = None
    BY <2>1 DEF Close, Ctl, ConnInv
  <2> QED BY <1>1, <2>1, <2>5, <2>6, FollowDown
<1> QED BY <1>2, <1>3

LEMMA ResyncWakesFollow ==
  ASSUME Ctl, Ctl', WireOK, FollowInv, NEW t \in Threads, ResyncWakes(t)
  PROVE  FollowInv'
<1> DEFINE p == Resync(t)
<1>1. pc[p] = "sleep" /\ desk' = desk /\ mixed' = mixed /\ conn' = conn /\ p \in Procs /\ p \in Resyncs
      /\ p \in Timers /\ p \notin Readers /\ DOMAIN pc = Procs /\ Readers \subseteq Procs
      /\ (conn.writer # None => Reader(conn.gen) \in Readers)
  BY Kinds, WriterIsReader DEF ResyncWakes, desktop, Ctl, PlacesOK
<1>2. CASE Connected /\ ~conn.closing
  <2>1. Emit(p, job[p], <<>>, followed, pc) /\ conn.ready /\ conn.writer # None
    BY <1>2 DEF ResyncWakes, Connected
  <2>2. \A u \in Threads \ mixed : wire.up => (Told(u, desk, wire.out \o <<>>) <=> u \in followed)
    BY <1>2, EmptyBefore DEF FollowInv, ToldInv
  <2> HIDE DEF p
  <2> QED BY <1>1, <2>1, <2>2, EmptyBefore, WaiterFollow
<1>3. CASE ~(Connected /\ ~conn.closing)
  <2>1. /\ \/ pc' = [pc EXCEPT ![p] = "idle"] /\ job' = Settled(pc')
           \/ pc' = [pc EXCEPT ![p] = "connect"] /\ job' = job
        /\ wire' = wire /\ followed' = followed
    BY <1>3 DEF ResyncWakes
  <2> HIDE DEF p
  <2>2. pc'[p] \in {"idle", "connect"} /\ \A q \in Procs : q # p => pc'[q] = pc[q]
    BY <1>1, <2>1
  <2>3. Keeps
    BY <1>1, <2>1, <2>2, Kinds, KeepsMild DEF Connecting
  <2>4. \A q \in Procs : pc'[q] \in Waking => pc[q] \in Waking
    BY <2>2 DEF Waking
  <2>5. \A q \in Readers : pc'[q] \notin Gone => pc[q] \notin Gone
    BY <1>1, <2>2
  <2> QED BY <1>1, <2>1, <2>3, <2>4, <2>5, FollowStays
<1> QED BY <1>2, <1>3


\* The subscriptions asked for again are all that Desktop was asked for.
LEMMA InitializedFollow ==
  ASSUME Ctl, Ctl', WireOK, FollowInv, NEW p \in Procs, Initialized(p)
  PROVE  FollowInv'
<1>1. pc[p] = "inited" /\ desk' = desk /\ mixed' = mixed /\ conn' = [conn EXCEPT !.ready = TRUE]
      /\ DOMAIN pc = Procs
  BY DEF Initialized, desktop, Ctl, PlacesOK
<1>2. conn'.writer = conn.writer /\ conn'.gen = conn.gen /\ conn'.ready
  BY <1>1 DEF Ctl, ConnInv
<1>3. CASE conn.writer # None
  <2>1. ~conn.closing
    BY <1>1, <1>3 DEF Ctl, ConnInv
  <2>2. Emit(p, job[p], Restored, followed, pc)
    BY <1>3, <2>1 DEF Initialized
  <2>3. Restored \in Seq(Frames)
        /\ (\A i \in DOMAIN Restored : Restored[i].kind = "follow" /\ Restored[i].t \in followed)
        /\ \A t \in followed : \E i \in DOMAIN Restored : Restored[i].t = t
    BY RestoredFrames
  <2> DEFINE before == Restored
  <2> HIDE DEF before
  <2>4. \A t \in Threads : Says(before, t, "follow") => t \in followed
    BY <2>3 DEF Says, before
  <2>5. ASSUME NEW t \in Threads PROVE Told(t, desk, wire.out \o before) <=> t \in followed
    <3>1. Raw
      BY <1>1, <1>3 DEF FollowInv, RawInv
    <3>2. ~Heeds(FALSE, t, wire.out) /\ desk = {}
      BY <3>1, RawIsFresh DEF Raw
    <3>3. wire.out \in Seq(Frames) /\ before \in Seq(Frames)
      BY <2>3 DEF WireOK, before
    <3>4. Heeds(FALSE, t, wire.out \o before) <=> Heeds(Heeds(FALSE, t, wire.out), t, before)
      BY <3>3, HeedsConcat
    <3>5. Heeds(FALSE, t, wire.out \o before) <=> Heeds(FALSE, t, before)
      BY <3>2, <3>4 DEF Heeds
    <3>6. Heeds(FALSE, t, before) <=> t \in followed
      BY <2>3 DEF Heeds, before
    <3> QED BY <3>2, <3>5, <3>6 DEF Told, Heeds
  <2>6. before \in Seq(Frames) /\ Emit(p, job[p], before, followed, pc)
    BY <2>2, <2>3 DEF before
  <2> QED BY <1>1, <1>2, <1>3, <2>4, <2>5, <2>6, WaiterFollow DEF Connecting
<1>4. CASE conn.writer = None
  <2>1. pc' = [pc EXCEPT ![p] = IF p \in Readers THEN "cancelled" ELSE "idle"] /\ job' = Settled(pc')
        /\ followed' = followed
    BY <1>4 DEF Initialized
  <2>2. pc'[p] \in {"cancelled", "idle"} /\ (p \notin Readers => pc'[p] = "idle")
        /\ \A q \in Procs : q # p => pc'[q] = pc[q]
    BY <1>1, <2>1
  <2>3. Keeps
    BY <1>1, <2>1, <2>2, Kinds, KeepsMild DEF Connecting
  <2> QED BY <1>1, <1>2, <1>4, <2>1, <2>3, FollowDown
<1> QED BY <1>3, <1>4

LEMMA OpenFollow ==
  ASSUME Ctl, Ctl', FollowInv, NEW p \in Procs, Open(p)
  PROVE  FollowInv'
<1> DEFINE g == conn.gen + 1
           r == Reader(g)
<1>1. /\ pc[p] = "opening" /\ job' = job /\ followed' = followed /\ mixed' = mixed /\ DOMAIN pc = Procs
      /\ pc' = [pc EXCEPT ![p] = "init", ![r] = "reading"] /\ desk' = {}
      /\ conn' = [conn EXCEPT !.gen = g, !.writer = g, !.reader = g]
      /\ wire' = [up |-> TRUE, out |-> <<Frame("init", None, 0)>>, in |-> <<>>]
  BY DEF Open, Ctl, PlacesOK, history
<1>2. Raw'
  BY <1>1 DEF Raw, Frame
<1>3. ~conn'.ready
  <2>1. ~conn.ready
    BY <1>1 DEF Ctl, ConnInv, Queue, Connecting
  <2> QED BY <1>1, <2>1 DEF Ctl, ConnInv
<1>4. \A t \in Threads : Fresh(t)'
  BY <1>1 DEF Fresh, Says, Frame
<1>5. Keeps
  <2>1. g \in 1..MaxConnections
    BY ConstantsAssumption DEF Open, Ctl, ConnInv
  <2>2. r \in Readers /\ r \in Procs /\ r \notin Timers
    BY <2>1, Kinds
  <2> HIDE DEF r, g
  <2>3. \A q \in Procs : pc'[q] = IF q = r THEN "reading" ELSE IF q = p THEN "init" ELSE pc[q]
    BY <1>1, <2>2
  <2>4. \A q \in Procs : pc'[q] \in Connecting => pc[q] \in Connecting
    BY <1>1, <2>3 DEF Connecting
  <2>5. \A q \in Resyncs : pc[q] = "idle" => pc'[q] = "idle"
    BY <1>1, <2>2, <2>3, Kinds
  <2> QED BY <1>1, <2>4, <2>5, KeepsMild
<1>6. WaitInv'
  BY <1>1, <1>4, <1>5, WaitStays DEF FollowInv
<1>7. RawInv' /\ ToldInv'
  BY <1>2, <1>3 DEF RawInv, ToldInv, Connected
<1> QED BY <1>6, <1>7 DEF FollowInv


\* Who begins to say the opposite of what another coroutine is about to say of t.
LEMMA Overlaps ==
  ASSUME NEW c \in Calls, NEW op \in {"follow", "unfollow"}, NEW t \in Threads, NEW n,
         NEW q \in Procs, q # Call(c), q \notin Resyncs, pc[q] \in Connecting, job[q].t = t,
         \/ q \in Readers /\ job[q].op = "none" /\ op = "unfollow"
         \/ q \notin Readers /\ job[q].op \in {"follow", "unfollow"} /\ job[q].op # op
  PROVE  t \in Overlapping(Call(c), [op |-> op, t |-> t, n |-> n])
<1> DEFINE p == Call(c)
           j == [op |-> op, t |-> t, n |-> n]
           kind == IF q \in Readers THEN "follow" ELSE job[q].op
           m == Frame(op, t, n)
           k == Frame(kind, t, IF q \in Readers THEN 0 ELSE job[q].n)
<1>1. Wants(p, j) = <<m>>
  BY Kinds DEF Wants
<1>2. Wants(q, job[q]) = <<k>>
  BY DEF Wants
<1>3. m \in ToSet(Wants(p, j)) /\ k \in ToSet(Wants(q, job[q]))
  BY <1>1, <1>2 DEF ToSet
<1>4. {m.kind, k.kind} = {"follow", "unfollow"}
  BY DEF Frame
<1>5. Alive(q) /\ pc[q] # "reading" /\ j.t = t /\ q \in Procs \ ({p} \cup Resyncs)
  BY DEF Alive, Idle, Connecting
<1> HIDE DEF m, k, p, j
<1>6. t \in {u \in Threads : \E r \in Procs \ ({p} \cup Resyncs) :
               /\ Alive(r) /\ pc[r] # "reading" /\ j.t = u /\ job[r].t = u
               /\ \E x \in ToSet(Wants(p, j)), y \in ToSet(Wants(r, job[r])) :
                     {x.kind, y.kind} = {"follow", "unfollow"}}
  BY <1>3, <1>4, <1>5
<1> QED BY <1>6 DEF Overlapping, p, j

LEMMA BeginFollow ==
  ASSUME Ctl, Ctl', WireOK, FollowInv, NEW c \in Calls, NEW op \in Ops, NEW t \in Threads, Begin(c, op, t)
  PROVE  FollowInv'
<1> DEFINE p == Call(c)
           j == [op |-> op, t |-> t, n |-> ops + 1]
           drop == op = "unfollow"
           known == IF drop THEN followed \ {t} ELSE followed
           place == IF drop THEN [pc EXCEPT ![Resync(t)] = "idle"] ELSE pc
<1>1. /\ p \in Procs /\ p \notin Readers /\ p \notin Timers /\ pc[p] = "idle" /\ Resync(t) \in Procs
      /\ Resync(t) \notin Readers /\ Resync(t) # p /\ p \notin Resyncs
      /\ (conn.writer # None => Reader(conn.gen) \in Readers)
  BY Kinds, WriterIsReader DEF Begin, Ctl
<1>2. /\ DOMAIN place = Procs /\ DOMAIN pc = Procs
      /\ \A q \in Procs : place[q] = pc[q] \/ (place[q] = "idle" /\ q \notin Readers)
  BY <1>1 DEF Ctl, PlacesOK
<1>3. JobOK(p, "connect", j) /\ IsFiniteSet(known) /\ known \in SUBSET followed
  BY BeginWire
<1>4. conn' = conn /\ desk' = desk /\ mixed' = mixed \cup Overlapping(p, j)
  BY DEF Begin, desktop
<1>5. ASSUME NEW u \in Threads, u \notin mixed'
      PROVE  /\ u \notin mixed
             /\ \A q \in Readers : pc[q] \in Connecting /\ job[q].t = u => u \in known
             /\ \A d \in Calls : Unfollows(d, u) => ~(op = "follow" /\ u = t)
             /\ \A d \in Calls : Follows(d, u) => ~(op = "unfollow" /\ u = t)
  <2>1. u \notin mixed /\ u \notin Overlapping(p, j)
    BY <1>4, <1>5
  <2>2. ASSUME NEW q \in Readers, pc[q] \in Connecting, job[q].t = u PROVE u \in known
    <3>1. u \in followed
      BY <2>1, <2>2 DEF FollowInv, WaitInv
    <3>2. CASE op = "unfollow" /\ u = t
      <4>1. q \in Procs /\ q # p /\ q \notin Resyncs /\ job[q].op = "none"
        BY <1>1, Kinds DEF Ctl, JobsOK, JobOK
      <4>2. t \in Overlapping(p, j)
        BY <2>2, <3>2, <4>1, Overlaps
      <4> QED BY <2>1, <3>2, <4>2
    <3> QED BY <3>1, <3>2
  <2>3. ASSUME NEW d \in Calls, Unfollows(d, u), op = "follow", u = t PROVE FALSE
    <3>1. Call(d) \in Procs /\ Call(d) # p /\ Call(d) \notin Resyncs /\ Call(d) \notin Readers
      BY <1>1, <2>3, Kinds DEF Unfollows, Connecting
    <3>2. t \in Overlapping(p, j)
      BY <2>3, <3>1, Overlaps DEF Unfollows
    <3> QED BY <2>1, <2>3, <3>2
  <2>4. ASSUME NEW d \in Calls, Follows(d, u), op = "unfollow", u = t PROVE FALSE
    <3>1. Call(d) \in Procs /\ Call(d) # p /\ Call(d) \notin Resyncs /\ Call(d) \notin Readers
      BY <1>1, <2>4, Kinds DEF Follows, Connecting
    <3>2. t \in Overlapping(p, j)
      BY <2>4, <3>1, Overlaps DEF Follows
    <3> QED BY <2>1, <2>4, <3>2
  <2> HIDE DEF known
  <2> QED BY <2>1, <2>2, <2>3, <2>4
<1>6. CASE Connected
  <2>1. Emit(p, j, <<>>, known, place) /\ conn'.ready /\ conn.writer # None
    BY <1>4, <1>6 DEF Begin, Connected
  <2>2. RawInv'
    BY <2>1, ReadyIsNotRaw DEF Ctl
  <2>3. j.op = op /\ j.t = t
    OBVIOUS
  <2>4. ASSUME NEW u \in Threads, u \notin mixed', wire.up PROVE Told(u, desk', wire'.out) <=> u \in followed'
    <3>1. Told(u, desk, wire.out) <=> u \in followed
      BY <1>5, <1>6, <2>4 DEF FollowInv, ToldInv
    <3>2. \/ j.t = u /\ j.op = "unfollow" /\ u \notin known
          \/ /\ Told(u, desk, wire.out \o <<>>) <=> u \in known
             /\ p \in Readers /\ j.t = u => u \in known
             /\ j.op = "unfollow" => j.t # u
      BY <1>1, <2>3, <3>1, EmptyBefore
    <3>3. "connect" \in Connecting /\ "connect" # "sleep" /\ <<>> \in Seq(Frames)
      BY DEF Connecting
    <3> HIDE DEF p, j, known, place
    <3> QED BY <1>1, <1>3, <1>4, <2>1, <2>4, <3>2, <3>3, EmitTold
  <2>5. "connect" \in Connecting /\ "connect" # "sleep" /\ <<>> \in Seq(Frames)
    BY DEF Connecting
  <2>6. ASSUME NEW u \in Threads \ mixed'
        PROVE  /\ \A q \in Readers \ {p} : pc[q] \in Connecting /\ job[q].t = u => u \in known
               /\ p \in Readers /\ j.t = u => u \in known
               /\ \A d \in Calls : Unfollows(d, u) => ~(j.op = "follow" /\ j.t = u)
    <3> HIDE DEF known
    <3> QED BY <1>1, <1>5, <2>3
  <2> HIDE DEF p, j, known, place
  <2>7. WaitInv'
    <3>1. mixed \subseteq mixed'
      BY <1>4
    <3>2. \A u \in Threads : Says(<<>>, u, "follow") => u \in known
      BY EmptyBefore
    <3>3. conn'.writer = conn.writer /\ conn'.gen = conn.gen
      BY <1>4
    <3>4. WaitInv
      BY DEF FollowInv
    <3>5. desk' = desk /\ p \in Procs /\ (p \in Resyncs => pc[p] # "idle") /\ (p \in Readers => pc[p] \notin Gone)
      BY <1>1, <1>4
    <3>6. \A u \in Threads \ mixed' :
             /\ \A q \in Readers \ {p} : pc[q] \in Connecting /\ job[q].t = u => u \in known
             /\ p \in Readers /\ j.t = u => u \in known
             /\ \A d \in Calls : Unfollows(d, u) => ~(j.op = "follow" /\ j.t = u)
      BY <2>6
    <3>7. DOMAIN place = Procs /\ \A q \in Procs : place[q] = pc[q] \/ (place[q] = "idle" /\ q \notin Readers)
      BY <1>2
    <3>8. Emit(p, j, <<>>, known, place)
      BY <2>1
    <3>9. conn.writer # None => Reader(conn.gen) \in Readers
      BY <1>1
    <3> DEFINE v == "connect"
               before == <<>>
    <3>10. JobOK(p, v, j) /\ v \in Connecting \cup {"sleep"} /\ (v = "sleep" => p \in Timers)
           /\ before \in Seq(Frames) /\ Emit(p, j, before, known, place)
           /\ \A u \in Threads : Says(before, u, "follow") => u \in known
      BY <1>3, <2>5, <3>2, <3>8
    <3>11. IsFiniteSet(known) /\ known \in SUBSET followed
      BY <1>3
    <3> HIDE DEF v, before
    <3> QED BY <3>1, <3>3, <3>4, <3>5, <3>6, <3>7, <3>9, <3>10, <3>11, EmitWait
  <2>8. wire'.up = wire.up
    <3>1. known \in SUBSET Threads
      BY <1>3 DEF WireOK
    <3> QED BY <1>1, <1>3, <2>1, <2>5, <3>1, EmitWire
  <2>9. ToldInv'
    BY <2>4, <2>8 DEF ToldInv, Told
  <2> QED BY <2>2, <2>7, <2>9 DEF FollowInv
<1>7. CASE ~Connected
  <2>1. pc' = [place EXCEPT ![p] = "connect"] /\ job' = [Settled(place) EXCEPT ![p] = j] /\ wire' = wire
        /\ followed' = known
    BY <1>7 DEF Begin
  <2>2. drop => place[Resync(t)] = "idle"
    BY <1>1, <1>2 DEF Ctl, PlacesOK
  <2>3. \A u \in known : u \in followed /\ ~(drop /\ u = t)
    OBVIOUS
  <2>4. p = Call(c) /\ j.op = op /\ j.t = t /\ (drop <=> op = "unfollow")
    OBVIOUS
  <2> HIDE DEF p, j, known, place, drop
  <2>5. pc'[p] = "connect" /\ job'[p] = j /\ \A q \in Procs : q # p =>
           pc'[q] = place[q] /\ job'[q] = IF place[q] \in Idle THEN NoJob ELSE job[q]
    BY <1>1, <1>2, <2>1 DEF Settled
  <2>6. \A q \in Procs : q # p /\ pc'[q] \in Connecting => pc[q] \in Connecting /\ job'[q] = job[q]
    BY <1>2, <2>5 DEF Connecting, Idle
  <2>7. \A q \in Readers : pc'[q] = pc[q]
    BY <1>1, <1>2, <2>5, Kinds
  <2>8. Heard' => Heard
    BY <1>1, <1>4, <2>7 DEF Heard, Reader
  <2>9. RawInv'
    <3>1. Raw => Raw'
      BY <1>4, <2>1 DEF Raw
    <3>2. \A q \in Procs : pc'[q] \in Waking => pc[q] \in Waking
      BY <1>2, <2>5 DEF Waking
    <3> QED BY <1>4, <2>8, <3>1, <3>2, RawStays DEF FollowInv
  <2>10. ToldInv'
    BY <1>4, <1>7 DEF ToldInv, Connected
  <2>11. ASSUME NEW u \in Threads, u \notin mixed'
         PROVE  /\ \A q \in Readers : pc'[q] \in Connecting /\ job'[q].t = u => u \in followed'
                /\ \A d \in Calls : Unfollows(d, u)' => Dropped(u)' /\ \A e \in Calls : ~Follows(e, u)'
    <3>1. \A q \in Readers : pc'[q] \in Connecting /\ job'[q].t = u => u \in followed'
      BY <1>1, <1>5, <2>1, <2>6, <2>11, Kinds
    <3>2. \A d \in Calls : Follows(d, u)' => Follows(d, u) \/ (d = c /\ op = "follow" /\ u = t)
      BY <1>1, <2>4, <2>5, <2>6, Kinds DEF Follows, Connecting, Call
    <3>3. \A d \in Calls : Unfollows(d, u)' => Unfollows(d, u) \/ (d = c /\ op = "unfollow" /\ u = t)
      BY <1>1, <2>4, <2>5, <2>6, Kinds DEF Unfollows, Connecting, Call
    <3>4. Fresh(u) => Fresh(u)'
      BY <1>4, <2>1 DEF Fresh
    <3>5. ASSUME NEW d \in Calls, Unfollows(d, u) PROVE Dropped(u)' /\ \A e \in Calls : ~Follows(e, u)'
      <4>1. Dropped(u) /\ \A e \in Calls : ~Follows(e, u)
        BY <1>5, <2>11, <3>5 DEF FollowInv, WaitInv
      <4>2. pc'[Resync(u)] = "idle"
        <5>1. Resync(u) \in Procs /\ Resync(u) # p
          BY <1>1, Kinds
        <5> QED BY <1>2, <2>5, <4>1, <5>1 DEF Dropped
      <4>3. Dropped(u)'
        BY <2>1, <2>3, <2>8, <3>4, <4>1, <4>2 DEF Dropped, Resync
      <4> QED BY <1>5, <2>11, <3>2, <3>5, <4>1, <4>3
    <3>6. ASSUME op = "unfollow", u = t PROVE Dropped(u)' /\ \A e \in Calls : ~Follows(e, u)'
      <4>1. u \notin followed' /\ pc'[Resync(u)] = "idle"
        BY <1>1, <2>1, <2>2, <2>3, <2>4, <2>5, <3>6
      <4>2. Heard' => Fresh(u)'
        <5>1. Heard => Fresh(u)
          BY <1>7, RawIsFresh DEF FollowInv, RawInv, Heard, Connected
        <5> QED BY <2>8, <3>4, <5>1
      <4>3. \A e \in Calls : ~Follows(e, u)'
        BY <1>5, <2>11, <3>2, <3>6
      <4> QED BY <4>1, <4>2, <4>3 DEF Dropped, Resync
    <3> QED BY <3>1, <3>3, <3>5, <3>6
  <2>12. WaitInv'
    BY <2>11 DEF WaitInv, Readers, Reader
  <2> QED BY <2>9, <2>10, <2>12 DEF FollowInv
<1> QED BY <1>6, <1>7


LEMMA HeadAndTail ==
  ASSUME NEW s \in Seq(Frames), s # <<>>
  PROVE  /\ Head(s) \in Frames /\ Tail(s) \in Seq(Frames) /\ <<Head(s)>> \in Seq(Frames)
         /\ s = <<Head(s)>> \o Tail(s)
  OBVIOUS

\* Who moves when a message is read.
LEMMA ReadMoves ==
  ASSUME Ctl, WireOK, NEW g \in 1..MaxConnections, Read(g)
  PROVE  /\ \A q \in Procs : pc'[q] \in Waking => pc[q] \in Waking
         /\ \A q \in Procs : pc'[q] \in Connecting =>
               \/ pc[q] \in Connecting /\ job'[q] = job[q]
               \/ q \in Readers /\ job'[q].t \in followed
         /\ \A t \in Threads : pc[Resync(t)] = "idle" =>
               pc'[Resync(t)] = "idle" \/ (Head(wire.in).kind = "patch" /\ Head(wire.in).t = t)
<1> DEFINE m == Head(wire.in)
           r == Resync(m.t)
<1>1. /\ (m.kind \in {"snapshot", "patch", "status"} => m.t \in Threads)
      /\ StateChange(m) \/ Response(m) \/ StatusRequested(g, m)
      /\ DOMAIN pc = Procs /\ DOMAIN job = Procs
  BY ReadFacts DEF Ctl, PlacesOK, JobsOK
<1>2. Resyncs \subseteq Procs /\ Readers \subseteq Procs /\ \A t \in Threads : Resync(t) \in Resyncs
  BY Kinds
<1> HIDE DEF m
<1>3. CASE StateChange(m)
  <2>1. m.t \in Threads /\ r \in Procs
    BY <1>1, <1>2, <1>3 DEF StateChange
  <2>2. \/ pc' = [pc EXCEPT ![r] = "idle"] /\ job' = Settled(pc')
        \/ pc' = [pc EXCEPT ![r] = "sleep"] /\ m.kind = "patch"
           /\ job' = [job EXCEPT ![r] = [op |-> "none", t |-> m.t, n |-> 0]]
        \/ pc' = pc /\ job' = job
    BY <1>3 DEF StateChange, Gap
  <2>3. \A t \in Threads : Resync(t) = r => t = m.t
    BY <2>1, Kinds
  <2> HIDE DEF r
  <2>4. CASE pc' = [pc EXCEPT ![r] = "idle"] /\ job' = Settled(pc')
    <3>1. \A q \in Procs : pc'[q] = (IF q = r THEN "idle" ELSE pc[q])
             /\ job'[q] = IF pc'[q] \in Idle THEN NoJob ELSE job[q]
      BY <1>1, <2>1, <2>4 DEF Settled
    <3> QED BY <1>2, <3>1 DEF Waking, Connecting, Idle
  <2>5. CASE pc' = [pc EXCEPT ![r] = "sleep"] /\ m.kind = "patch"
             /\ job' = [job EXCEPT ![r] = [op |-> "none", t |-> m.t, n |-> 0]]
    <3>1. \A q \in Procs : pc'[q] = (IF q = r THEN "sleep" ELSE pc[q]) /\ (q # r => job'[q] = job[q])
      BY <1>1, <2>1, <2>5
    <3> QED BY <1>2, <2>3, <2>5, <3>1 DEF Waking, Connecting, m
  <2>6. CASE pc' = pc /\ job' = job
    BY <2>6
  <2> QED BY <2>2, <2>4, <2>5, <2>6
<1>4. CASE Response(m)
  <2>1. \A q \in Procs : pc'[q] = CASE m.kind = "inited" /\ pc[q] = "init" -> "inited"
                                    [] m.kind = "answer" /\ pc[q] = "answer" /\ job[q].n = m.n -> "idle"
                                    [] OTHER -> pc[q]
    BY <1>4 DEF Response
  <2>2. \A q \in Procs : job'[q] = IF pc'[q] \in Idle THEN NoJob ELSE job[q]
    BY <1>4 DEF Response, Settled
  <2>3. \A q \in Procs : pc'[q] = pc[q] \/ (pc[q] = "init" /\ pc'[q] = "inited")
                         \/ (pc[q] = "answer" /\ pc'[q] = "idle")
    BY <2>1
  <2> QED BY <1>2, <2>2, <2>3 DEF Waking, Connecting, Idle
<1>5. CASE StatusRequested(g, m)
  <2> DEFINE p == Reader(g)
  <2>1. p \in Readers /\ p \in Procs /\ p \notin Resyncs
    BY Kinds
  <2>2. \/ pc' = [pc EXCEPT ![p] = "connect"] /\ m.t \in followed
           /\ job' = [job EXCEPT ![p] = [op |-> "none", t |-> m.t, n |-> 0]]
        \/ pc' = pc /\ job' = job
    BY <1>5 DEF StatusRequested
  <2> HIDE DEF p
  <2>3. CASE pc' = [pc EXCEPT ![p] = "connect"] /\ m.t \in followed
             /\ job' = [job EXCEPT ![p] = [op |-> "none", t |-> m.t, n |-> 0]]
    <3>1. \A q \in Procs : pc'[q] = (IF q = p THEN "connect" ELSE pc[q])
             /\ (q # p => job'[q] = job[q]) /\ (q = p => job'[q].t = m.t)
      BY <1>1, <2>1, <2>3
    <3> QED BY <1>2, <2>1, <2>3, <3>1 DEF Waking, Connecting
  <2>4. CASE pc' = pc /\ job' = job
    BY <2>4
  <2> QED BY <2>2, <2>3, <2>4
<1> QED BY <1>1, <1>3, <1>4, <1>5

LEMMA ReadFollow ==
  ASSUME Ctl, Ctl', WireOK, FollowInv, NEW g \in 1..MaxConnections, Read(g)
  PROVE  FollowInv'
<1> DEFINE m == Head(wire.in)
           f == Frame("follow", m.t, 0)
           rest == Tail(wire.in)
<1>1. /\ wire'.up = wire.up /\ wire'.in = rest /\ followed' = followed /\ desk' = desk
      /\ conn' = conn /\ mixed' = mixed
      /\ wire'.out = wire.out \/
           (wire'.out = wire.out \o <<f>> /\ m.t \in followed /\ Connected /\ m.kind = "status")
  BY ReadWire
<1>2. wire.in \in Seq(Frames) /\ wire.in # <<>> /\ wire.out \in Seq(Frames)
  BY DEF WireOK, Read
<1>3. m \in Frames /\ rest \in Seq(Frames) /\ wire.in = <<m>> \o rest /\ <<m>> \in Seq(Frames)
  BY <1>2, HeadAndTail
<1>4. m.t \in followed => f \in Frames /\ f.kind = "follow" /\ f.t = m.t /\ <<f>> \in Seq(Frames)
  <2>1. followed \subseteq Threads
    BY DEF WireOK
  <2> QED BY <2>1, FrameIs DEF FrameKinds
<1> HIDE DEF m, f, rest
<1>5. \A i \in DOMAIN rest : \E k \in DOMAIN wire.in : rest[i] = wire.in[k]
  BY <1>2 DEF rest
<1>6. \A t, kind : Says(rest, t, kind) => Says(wire.in, t, kind)
  BY <1>5 DEF Says
<1>7. \A kind : m.kind = kind => Says(wire.in, m.t, kind)
  <2>1. 1 \in DOMAIN wire.in /\ wire.in[1] = m
    BY <1>2 DEF m
  <2> QED BY <2>1 DEF Says
<1>8. Heard /\ g = conn.gen
  BY ReadFacts DEF Ctl, Heard, None
<1>9. /\ \A q \in Procs : pc'[q] \in Waking => pc[q] \in Waking
      /\ \A q \in Procs : pc'[q] \in Connecting =>
            \/ pc[q] \in Connecting /\ job'[q] = job[q]
            \/ q \in Readers /\ job'[q].t \in followed
      /\ \A t \in Threads : pc[Resync(t)] = "idle" =>
            pc'[Resync(t)] = "idle" \/ (m.kind = "patch" /\ m.t = t)
  BY ReadMoves DEF m
<1>10. RawInv'
  <2>1. CASE conn.ready
    BY <1>1, <2>1, ReadyIsNotRaw DEF Ctl
  <2>2. CASE ~conn.ready
    <3>1. wire'.out = wire.out
      BY <1>1, <2>2 DEF Connected
    <3>2. Raw => Raw'
      BY <1>1, <1>5, <3>1 DEF Raw
    <3> QED BY <1>1, <1>8, <1>9, <3>2, RawStays DEF FollowInv
  <2> QED BY <2>1, <2>2
<1>11. ToldInv'
  <2> SUFFICES ASSUME NEW t \in Threads, t \notin mixed, Connected, wire.up
               PROVE  Told(t, desk, wire'.out) <=> t \in followed
    BY <1>1 DEF ToldInv, Connected, Told
  <2> DEFINE o == wire.out
             d == t \in desk
  <2>1. Heeds(d, t, o) <=> t \in followed
    BY DEF FollowInv, ToldInv, Told
  <2>2. CASE wire'.out = o
    BY <2>1, <2>2 DEF Told
  <2>3. CASE wire'.out = o \o <<f>> /\ m.t \in followed
    <3>1. Heeds(d, t, o) \in BOOLEAN /\ d \in BOOLEAN
      BY DEF Heeds
    <3> HIDE DEF o, d
    <3>2. o \in Seq(Frames)
      BY <1>2 DEF o
    <3>3. Heeds(d, t, o \o <<f>>) <=> Heeds(Heeds(d, t, o), t, <<f>>)
      BY <1>4, <2>3, <3>1, <3>2, HeedsConcat
    <3>4. Heeds(Heeds(d, t, o), t, <<f>>) <=> m.t = t \/ Heeds(d, t, o)
      BY <1>4, <2>3, <3>1, OneFrame
    <3>5. Heeds(d, t, wire'.out) <=> t \in followed
      BY <2>1, <2>3, <3>3, <3>4
    <3> QED BY <3>5 DEF Told, d
  <2> QED BY <1>1, <2>2, <2>3
<1>12. WaitInv'
  <2> SUFFICES ASSUME NEW t \in Threads, t \notin mixed
               PROVE  /\ \A p \in Readers : pc'[p] \in Connecting /\ job'[p].t = t => t \in followed'
                      /\ \A c \in Calls : Unfollows(c, t)' => Dropped(t)' /\ \A d \in Calls : ~Follows(d, t)'
    BY <1>1 DEF WaitInv, Readers, Reader
  <2>1. \A p \in Readers : pc'[p] \in Connecting /\ job'[p].t = t => t \in followed'
    BY <1>1, <1>9, Kinds DEF FollowInv, WaitInv
  <2>2. \A c \in Calls : (Unfollows(c, t)' => Unfollows(c, t)) /\ (Follows(c, t)' => Follows(c, t))
    BY <1>9, Kinds DEF Unfollows, Follows, Connecting, Call
  <2>3. ASSUME Dropped(t) PROVE Dropped(t)'
    <3>1. Fresh(t)
      BY <1>8, <2>3 DEF Dropped
    <3>2. pc'[Resync(t)] = "idle"
      BY <1>7, <1>9, <2>3, <3>1 DEF Dropped, Fresh
    <3>3. ~Says(wire'.out, t, "follow")
      <4>1. CASE wire'.out = wire.out
        BY <3>1, <4>1 DEF Fresh
      <4>2. CASE wire'.out = wire.out \o <<f>> /\ m.t \in followed
        <5> DEFINE o == wire.out
        <5>1. o \in Seq(Frames) /\ ~Says(o, t, "follow") /\ m.t # t
          BY <1>2, <2>3, <3>1, <4>2 DEF Dropped, Fresh
        <5> HIDE DEF o
        <5>2. ~Says(<<f>>, t, "follow")
          BY <1>4, <4>2, <5>1 DEF Says
        <5>3. ~Says(o \o <<f>>, t, "follow")
          BY <1>4, <4>2, <5>1, <5>2, SaysConcat
        <5> QED BY <4>2, <5>3 DEF o
      <4> QED BY <1>1, <4>1, <4>2
    <3>4. ~Says(wire'.in, t, "patch")
      BY <1>1, <1>6, <3>1 DEF Fresh
    <3>5. Fresh(t)'
      BY <1>1, <3>1, <3>3, <3>4 DEF Fresh, Says
    <3> QED BY <1>1, <2>3, <3>2, <3>5 DEF Dropped, Resync
  <2> QED BY <2>1, <2>2, <2>3 DEF FollowInv, WaitInv
<1> QED BY <1>10, <1>11, <1>12 DEF FollowInv


LEMMA PutBehind ==
  ASSUME NEW s \in Seq(Frames), NEW m \in Frames
  PROVE  LET w == s \o <<m>> IN
         /\ DOMAIN s = 1..Len(s) /\ DOMAIN w = 1..(Len(s) + 1) /\ Len(s) \in Nat /\ w \in Seq(Frames)
         /\ \A i \in DOMAIN s : w[i] = s[i]
         /\ w[Len(s) + 1] = m
  OBVIOUS

LEMMA PutBefore ==
  ASSUME NEW s \in Seq(Frames), NEW m \in Frames
  PROVE  LET w == <<m>> \o s IN
         /\ DOMAIN s = 1..Len(s) /\ DOMAIN w = 1..(Len(s) + 1) /\ Len(s) \in Nat
         /\ \A i \in DOMAIN s : w[i + 1] = s[i]
         /\ w[1] = m
  OBVIOUS

LEMMA DesktopFrameFollow ==
  ASSUME Ctl, WireOK, FollowInv, DesktopFrame
  PROVE  FollowInv'
<1> DEFINE f == Head(wire.out)
<1>1. /\ WireOK' /\ wire.up /\ wire'.up = wire.up
      /\ f \in Frames /\ wire.out = <<f>> \o wire'.out
      /\ \/ /\ f.kind = "init" /\ wire'.in = wire.in \o <<Frame("inited", None, 0)>> /\ desk' = desk
         \/ /\ f.kind = "request" /\ wire'.in = wire.in \o <<Frame("answer", f.t, f.n)>> /\ desk' = desk
         \/ /\ f.kind = "unfollow" /\ wire'.in = wire.in /\ desk' = desk \ {f.t}
         \/ /\ f.kind = "follow" /\ desk' = desk \cup {f.t}
            /\ \/ wire'.in = wire.in \o <<Frame("snapshot", f.t, line[f.t])>>
               \/ wire'.in = wire.in
  BY DesktopFrameWire
<1>2. conn' = conn /\ pc' = pc /\ job' = job /\ followed' = followed /\ mixed' = mixed
  BY DEF DesktopFrame, client, history
<1> HIDE DEF f
<1>3. wire'.out \in Seq(Frames) /\ wire.out \in Seq(Frames) /\ wire.in \in Seq(Frames) /\ wire'.in \in Seq(Frames)
      /\ <<f>> \in Seq(Frames)
  BY <1>1 DEF WireOK, Frames
<1>4. /\ \A i \in DOMAIN wire'.out : \E k \in DOMAIN wire.out : wire'.out[i] = wire.out[k]
      /\ \E k \in DOMAIN wire.out : f = wire.out[k]
  <2> DEFINE o == wire'.out
  <2>1. o \in Seq(Frames) /\ wire.out = <<f>> \o o
    BY <1>1, <1>3
  <2> HIDE DEF o
  <2> DEFINE w == <<f>> \o o
  <2>2. DOMAIN o = 1..Len(o) /\ DOMAIN w = 1..(Len(o) + 1) /\ Len(o) \in Nat
        /\ (\A i \in DOMAIN o : w[i + 1] = o[i]) /\ w[1] = f
    BY <1>1, <2>1, PutBefore
  <2>3. w = wire.out
    BY <2>1
  <2> HIDE DEF w
  <2>4. \A i \in DOMAIN o : i + 1 \in DOMAIN w
    BY <2>2
  <2>5. 1 \in DOMAIN w
    BY <2>2
  <2> QED BY <2>2, <2>3, <2>4, <2>5 DEF o
<1>5. \A i \in DOMAIN wire'.in :
         \/ \E k \in DOMAIN wire.in : wire'.in[i] = wire.in[k]
         \/ /\ wire'.in[i].kind \in {"inited", "answer", "snapshot"}
            /\ wire'.in[i].kind = "snapshot" => f.kind = "follow"
  <2> DEFINE x == wire.in
  <2>1. x \in Seq(Frames) /\ DOMAIN x = 1..Len(x) /\ Len(x) \in Nat
    BY <1>3
  <2>2. ASSUME NEW m, wire'.in = x \o <<m>>, m.kind \in {"inited", "answer", "snapshot"},
               m.kind = "snapshot" => f.kind = "follow", NEW i \in DOMAIN wire'.in
        PROVE  \/ \E k \in DOMAIN x : wire'.in[i] = x[k]
               \/ /\ wire'.in[i].kind \in {"inited", "answer", "snapshot"}
                  /\ wire'.in[i].kind = "snapshot" => f.kind = "follow"
    <3> HIDE DEF x
    <3>1. i \in 1..(Len(x) + 1)
      BY <2>1, <2>2
    <3>2. (i \in DOMAIN x /\ wire'.in[i] = x[i]) \/ wire'.in[i] = m
      BY <2>1, <2>2, <3>1
    <3> QED BY <2>2, <3>2
  <2>3. CASE wire'.in = x
    BY <2>3
  <2>4. CASE f.kind = "init" /\ wire'.in = x \o <<Frame("inited", None, 0)>>
    <3> HIDE DEF x
    <3> QED BY <2>2, <2>4, FrameIs DEF x
  <2>5. CASE f.kind = "request" /\ wire'.in = x \o <<Frame("answer", f.t, f.n)>>
    <3> HIDE DEF x
    <3> QED BY <2>2, <2>5, FrameIs DEF x
  <2>6. CASE f.kind = "follow" /\ wire'.in = x \o <<Frame("snapshot", f.t, line[f.t])>>
    <3> HIDE DEF x
    <3> QED BY <2>2, <2>6, FrameIs DEF x
  <2> HIDE DEF x
  <2> QED BY <1>1, <2>3, <2>4, <2>5, <2>6 DEF x
<1>6. RawInv'
  <2>1. ASSUME Raw PROVE Raw'
    <3>1. f.kind = "init"
      BY <1>4, <2>1 DEF Raw
    <3>2. desk' = {}
      BY <1>1, <2>1, <3>1 DEF Raw
    <3>3. \A i \in DOMAIN wire'.out : wire'.out[i].kind = "init"
      BY <1>4, <2>1 DEF Raw
    <3>4. \A i \in DOMAIN wire'.in : wire'.in[i].kind \notin {"snapshot", "patch"}
      BY <1>5, <2>1, <3>1 DEF Raw
    <3> QED BY <3>2, <3>3, <3>4 DEF Raw
  <2>2. Heard' => Heard
    BY <1>2 DEF Heard, Reader
  <2> QED BY <1>2, <2>1, <2>2, RawStays DEF FollowInv
<1>7. ToldInv'
  <2> SUFFICES ASSUME NEW t \in Threads, t \notin mixed, Connected
               PROVE  Told(t, desk', wire'.out) <=> t \in followed
    BY <1>2 DEF ToldInv, Connected, Told
  <2> DEFINE o == wire'.out
             d == t \in desk
             e == t \in desk'
  <2>1. Told(t, desk, wire.out) <=> t \in followed
    BY <1>1 DEF FollowInv, ToldInv
  <2>2. d \in BOOLEAN /\ e \in BOOLEAN /\ o \in Seq(Frames)
    BY <1>3
  <2>3. Heeds(d, t, <<f>>) <=> e
    <3>1. e <=> IF f.t = t /\ f.kind = "follow" THEN TRUE
                ELSE IF f.t = t /\ f.kind = "unfollow" THEN FALSE ELSE d
      BY <1>1
    <3> HIDE DEF d, e
    <3> QED BY <1>1, <2>2, <3>1, OneFrame
  <2>4. Heeds(d, t, wire.out) <=> t \in followed
    BY <2>1 DEF Told
  <2> HIDE DEF d, e, o
  <2>5. Heeds(d, t, <<f>> \o o) <=> Heeds(Heeds(d, t, <<f>>), t, o)
    BY <1>3, <2>2, HeedsConcat
  <2>6. Heeds(Heeds(d, t, <<f>>), t, o) <=> Heeds(e, t, o)
    BY <2>3 DEF Heeds
  <2>7. Heeds(e, t, o) <=> t \in followed
    BY <1>1, <2>4, <2>5, <2>6 DEF o
  <2> QED BY <2>7 DEF Told, e, o
<1>8. WaitInv'
  <2>1. Keeps
    BY <1>2 DEF Keeps
  <2>2. ASSUME NEW t \in Threads, Dropped(t), Heard' PROVE Fresh(t)'
    <3>1. Fresh(t)
      BY <1>2, <2>2 DEF Dropped, Heard, Reader
    <3>2. ~(f.kind = "follow" /\ f.t = t)
      BY <1>4, <3>1 DEF Fresh, Says
    <3>3. t \notin desk'
      BY <1>1, <3>1, <3>2 DEF Fresh
    <3>4. ~Says(wire'.out, t, "follow")
      BY <1>4, <3>1 DEF Fresh, Says
    <3>5. ~Says(wire'.in, t, "patch")
      BY <1>5, <3>1 DEF Fresh, Says
    <3> QED BY <3>3, <3>4, <3>5 DEF Fresh, Says
  <2> QED BY <1>2, <2>1, <2>2, WaitStays DEF FollowInv
<1> QED BY <1>6, <1>7, <1>8 DEF FollowInv

LEMMA DesktopTalkFollow ==
  ASSUME Ctl, WireOK, FollowInv, NEW t \in Threads, DesktopChange(t) \/ DesktopStatus(t)
  PROVE  FollowInv'
<1>1. /\ wire'.up = wire.up /\ wire'.out = wire.out /\ desk' = desk
      /\ \/ wire'.in = wire.in
         \/ wire'.in = wire.in \o <<Frame("patch", t, line[t] + 1)>> /\ t \in desk
         \/ wire'.in = wire.in \o <<Frame("status", t, 0)>>
  BY DesktopTalkWire
<1>2. conn' = conn /\ pc' = pc /\ job' = job /\ followed' = followed /\ mixed' = mixed
  BY DEF DesktopChange, DesktopStatus, client, history
<1>3. \A i \in DOMAIN wire'.in :
         \/ \E k \in DOMAIN wire.in : wire'.in[i] = wire.in[k]
         \/ wire'.in[i].kind = "status"
         \/ wire'.in[i].kind = "patch" /\ wire'.in[i].t = t /\ t \in desk
  <2> DEFINE x == wire.in
  <2>1. x \in Seq(Frames) /\ DOMAIN x = 1..Len(x) /\ Len(x) \in Nat
    BY DEF WireOK
  <2>2. ASSUME NEW m, wire'.in = x \o <<m>>, NEW i \in DOMAIN wire'.in
        PROVE  (\E k \in DOMAIN x : wire'.in[i] = x[k]) \/ wire'.in[i] = m
    <3> HIDE DEF x
    <3>1. i \in 1..(Len(x) + 1)
      BY <2>1, <2>2
    <3> QED BY <2>1, <2>2, <3>1
  <2> HIDE DEF x
  <2> QED BY <1>1, <2>2, FrameIs DEF x
<1>4. RawInv'
  <2>1. Raw => Raw'
    BY <1>1, <1>3 DEF Raw
  <2>2. Heard' => Heard
    BY <1>2 DEF Heard, Reader
  <2> QED BY <1>2, <2>1, <2>2, RawStays DEF FollowInv
<1>5. ToldInv'
  BY <1>1, <1>2 DEF FollowInv, ToldInv, Connected, Told
<1>6. WaitInv'
  <2>1. Keeps
    BY <1>2 DEF Keeps
  <2>2. ASSUME NEW u \in Threads, Dropped(u), Heard' PROVE Fresh(u)'
    <3>1. Fresh(u)
      BY <1>2, <2>2 DEF Dropped, Heard, Reader
    <3>2. ~Says(wire'.in, u, "patch")
      BY <1>3, <3>1 DEF Fresh, Says
    <3> QED BY <1>1, <3>1, <3>2 DEF Fresh, Says
  <2> QED BY <1>2, <2>1, <2>2, WaitStays DEF FollowInv
<1> QED BY <1>4, <1>5, <1>6 DEF FollowInv

LEMMA DesktopGoneFollow ==
  ASSUME Ctl, WireOK, FollowInv, DesktopGone
  PROVE  FollowInv'
<1>1. wire'.up = FALSE /\ wire'.in = wire.in /\ wire'.out = <<>> /\ desk' = desk
  BY DesktopGoneWire
<1>2. conn' = conn /\ pc' = pc /\ job' = job /\ followed' = followed /\ mixed' = mixed
  BY DEF DesktopGone, client, history
<1>3. RawInv'
  <2>1. Raw => Raw'
    BY <1>1 DEF Raw
  <2>2. Heard' => Heard
    BY <1>2 DEF Heard, Reader
  <2> QED BY <1>2, <2>1, <2>2, RawStays DEF FollowInv
<1>4. ToldInv'
  BY <1>1 DEF ToldInv
<1>5. WaitInv'
  <2>1. Keeps
    BY <1>2 DEF Keeps
  <2>2. \A t \in Threads : Dropped(t) /\ Heard' => Fresh(t)'
    BY <1>1, <1>2 DEF Dropped, Heard, Fresh, Says, Reader
  <2> QED BY <1>2, <2>1, <2>2, WaitStays DEF FollowInv
<1> QED BY <1>3, <1>4, <1>5 DEF FollowInv


LEMMA FollowStep == Ctl /\ Ctl' /\ WireOK /\ FollowInv /\ [Next]_vars => FollowInv'
<1> SUFFICES ASSUME Ctl, Ctl', WireOK, FollowInv, [Next]_vars PROVE FollowInv'
  OBVIOUS
<1>1. CASE UNCHANGED vars
  <2>1. conn' = conn /\ pc' = pc /\ job' = job /\ wire' = wire /\ desk' = desk /\ followed' = followed
        /\ mixed' = mixed
    BY <1>1 DEF vars, client, desktop, history
  <2>2. Keeps
    BY <2>1 DEF Keeps
  <2> QED BY <2>1, <2>2, FollowStays, WriterIsReader DEF Ctl
<1>2. CASE Next
  <2>1. ASSUME NEW p \in Procs, ConnectStep(p) \/ OpenRefused(p) PROVE FollowInv'
    BY <2>1, ConnectFollow, AcquireFollow, OpenFollow, InitializedFollow DEF ConnectStep
  <2>2. ASSUME NEW g \in 1..MaxConnections, ReaderStep(g) PROVE FollowInv'
    BY <2>2, ReadFollow, ReaderEndsFollow DEF ReaderStep
  <2> QED BY <1>2, <2>1, <2>2, CallsFollow, BeginFollow, ReconnectWakesFollow, ResyncWakesFollow,
         DesktopFrameFollow, DesktopTalkFollow, DesktopGoneFollow DEF Next
<1> QED BY <1>1, <1>2

LEMMA FollowInit == Init => FollowInv
<1> SUFFICES ASSUME Init PROVE FollowInv
  OBVIOUS
<1>1. conn.writer = None /\ \A p \in Procs : pc[p] = "idle"
  BY DEF Init
<1> QED BY <1>1, Kinds DEF FollowInv, RawInv, ToldInv, WaitInv, Heard, Connected, Unfollows, Connecting

LEMMA FollowAlways == Spec => [](Ctl /\ WireOK /\ FollowInv)
<1>1. Init => FollowInv
  BY FollowInit
<1>2. (Ctl /\ WireOK) /\ (Ctl /\ WireOK)' /\ FollowInv /\ [Next]_vars => FollowInv'
  BY FollowStep
<1> QED BY <1>1, <1>2, CtlAlways, PTL DEF Spec

\* At rest Desktop follows what the client believes followed.
THEOREM FollowedByDesktopTheorem == Spec => []FollowedByDesktop
<1>1. Ctl /\ WireOK /\ FollowInv => FollowedByDesktop
  <2> SUFFICES ASSUME WireOK, FollowInv, Quiet PROVE desk \ mixed = followed \ mixed
    BY DEF FollowedByDesktop
  <2>1. desk \subseteq Threads /\ followed \subseteq Threads
    BY DEF WireOK
  <2>2. \A t \in Threads \ mixed : t \in desk <=> t \in followed
    BY DEF Quiet, FollowInv, ToldInv, Told, Heeds, Says
  <2> QED BY <2>1, <2>2
<1> QED BY <1>1, FollowAlways, PTL


-----------------------------------------------------------------------------
(* The revision of a thread. *)

\* A message behind the others, or the first of them read.
LEMMA PutOther ==
  ASSUME NEW x \in Seq(Frames), NEW m \in Frames, NEW t, ~(m.kind \in {"snapshot", "patch"} /\ m.t = t), NEW n
  PROVE  /\ LastIs(x, t, n) => LastIs(x \o <<m>>, t, n)
         /\ Tells(x, t) => Tells(x \o <<m>>, t)
<1> DEFINE w == x \o <<m>>
<1>1. /\ DOMAIN x = 1..Len(x) /\ DOMAIN w = 1..(Len(x) + 1) /\ Len(x) \in Nat
      /\ (\A i \in DOMAIN x : w[i] = x[i]) /\ w[Len(x) + 1] = m
  BY PutBehind
<1> HIDE DEF w
<1>2. \A i \in DOMAIN x : i \in DOMAIN w /\ (About(x, t, i) <=> About(w, t, i))
  BY <1>1 DEF About
<1>3. \A i \in DOMAIN w : About(w, t, i) => i \in DOMAIN x /\ w[i] = x[i]
  <2> SUFFICES ASSUME NEW i \in DOMAIN w, About(w, t, i) PROVE i \in DOMAIN x /\ w[i] = x[i]
    OBVIOUS
  <2>1. i # Len(x) + 1
    BY <1>1 DEF About
  <2> QED BY <1>1, <2>1
<1>4. LastIs(x, t, n) => LastIs(w, t, n)
  BY <1>2, <1>3 DEF LastIs
<1>5. Tells(x, t) => Tells(w, t)
  BY <1>2 DEF Tells
<1> QED BY <1>4, <1>5 DEF w

LEMMA PutAbout ==
  ASSUME NEW x \in Seq(Frames), NEW m \in Frames, m.kind \in {"snapshot", "patch"}
  PROVE  LastIs(x \o <<m>>, m.t, m.n) /\ Tells(x \o <<m>>, m.t)
<1> DEFINE w == x \o <<m>>
           l == Len(x) + 1
<1>1. /\ DOMAIN w = 1..l /\ l \in Nat /\ l > 0 /\ w[l] = m
  BY PutBehind
<1> HIDE DEF w, l
<1>2. l \in DOMAIN w /\ About(w, m.t, l)
  BY <1>1 DEF About
<1>3. \A i \in DOMAIN w : i = l \/ l > i
  BY <1>1
<1>4. LastIs(w, m.t, m.n)
  BY <1>1, <1>2, <1>3 DEF LastIs
<1> QED BY <1>2, <1>4 DEF Tells, w

LEMMA TakeFirst ==
  ASSUME NEW s \in Seq(Frames), NEW m \in Frames, NEW t, NEW n, LastIs(<<m>> \o s, t, n)
  PROVE  /\ LastIs(s, t, n)
         /\ Tells(<<m>> \o s, t) => Tells(s, t) \/ (m.kind \in {"snapshot", "patch"} /\ m.t = t)
         /\ m.kind \in {"snapshot", "patch"} /\ m.t = t => Tells(s, t) \/ m.n = n
<1> DEFINE w == <<m>> \o s
<1>1. /\ DOMAIN s = 1..Len(s) /\ DOMAIN w = 1..(Len(s) + 1) /\ Len(s) \in Nat
      /\ (\A i \in DOMAIN s : w[i + 1] = s[i]) /\ w[1] = m
  BY PutBefore
<1> HIDE DEF w
<1>2. \A i \in DOMAIN s : i + 1 \in DOMAIN w /\ (About(s, t, i) <=> About(w, t, i + 1))
  BY <1>1 DEF About
<1>3. \A i \in DOMAIN w : i = 1 \/ (i - 1 \in DOMAIN s /\ (About(s, t, i - 1) <=> About(w, t, i)))
  <2> SUFFICES ASSUME NEW i \in DOMAIN w, i # 1
               PROVE  i - 1 \in DOMAIN s /\ (About(s, t, i - 1) <=> About(w, t, i))
    OBVIOUS
  <2>1. i - 1 \in DOMAIN s /\ (i - 1) + 1 = i
    BY <1>1
  <2> QED BY <1>2, <2>1
<1>4. LastIs(s, t, n)
  <2> SUFFICES ASSUME NEW i \in DOMAIN s, About(s, t, i), \A j \in DOMAIN s : j > i => ~About(s, t, j)
               PROVE  s[i].n = n
    BY DEF LastIs
  <2>1. ASSUME NEW j \in DOMAIN w, j > i + 1 PROVE ~About(w, t, j)
    <3>1. j # 1 /\ j - 1 > i
      BY <1>1, <2>1
    <3> QED BY <1>3, <3>1
  <2>2. w[i + 1].n = n
    BY <1>2, <2>1 DEF LastIs, w
  <2> QED BY <1>1, <2>2
<1>5. Tells(w, t) => Tells(s, t) \/ About(w, t, 1)
  BY <1>3 DEF Tells
<1>6. About(w, t, 1) <=> m.kind \in {"snapshot", "patch"} /\ m.t = t
  BY <1>1 DEF About
<1>7. ASSUME About(w, t, 1), ~Tells(s, t) PROVE m.n = n
  <2>1. \A j \in DOMAIN w : j > 1 => ~About(w, t, j)
    BY <1>1, <1>3, <1>7 DEF Tells
  <2>2. 1 \in DOMAIN w
    BY <1>1
  <2> QED BY <1>1, <1>7, <2>1, <2>2 DEF LastIs, w
<1> QED BY <1>4, <1>5, <1>6, <1>7 DEF w

\* A step that leaves the revisions alone, and what Desktop knows; it may write, or lose the connection.
LEMMA RevStays ==
  ASSUME RevInv, rev' = rev, attempts' = attempts, sent' = sent, desk' = desk,
         \A t \in Threads : pc[Resync(t)] = "idle" => pc'[Resync(t)] = "idle",
         Connected' /\ wire'.up => desk = {} \/
            (/\ Connected /\ wire.up /\ wire'.in = wire.in
             /\ \A t \in desk : Says(wire.out, t, "unfollow") => Says(wire'.out, t, "unfollow"))
  PROVE  RevInv'
<1>1. \A t \in Threads : pc'[Resync(t)] # "idle" => attempts'[t] > 0
  BY DEF RevInv
<1>2. ASSUME Connected', wire'.up, NEW t \in desk
      PROVE  sent[t] = 0 \/ Says(wire'.out, t, "unfollow") \/ Caught(t)'
  <2>1. wire'.in = wire.in /\ (sent[t] = 0 \/ Says(wire.out, t, "unfollow") \/ Caught(t))
        /\ (Says(wire.out, t, "unfollow") => Says(wire'.out, t, "unfollow"))
    BY <1>2 DEF RevInv
  <2>2. Caught(t) => Caught(t)'
    BY <2>1 DEF Caught, LastIs, Tells, About
  <2> QED BY <2>1, <2>2
<1> QED BY <1>1, <1>2 DEF RevInv, Resync, Says


\* Only a message that is read starts a resync.
LEMMA ResyncRests ==
  ASSUME Ctl, NEW t \in Threads, pc[Resync(t)] = "idle",
         \/ UNCHANGED vars
         \/ \E c \in Calls : RequestTimeout(c) \/ Disconnect(c) \/ Disconnected(c) \/ \E op \in Ops, u \in Threads : Begin(c, op, u)
         \/ \E p \in Procs : ConnectStep(p) \/ OpenRefused(p)
         \/ \E g \in 1..MaxConnections : ReaderEnds(g) \/ ResyncsCancelled(g) \/ TransportClosed(g)
         \/ ReconnectWakes \/ \E u \in Threads : ResyncWakes(u) \/ DesktopChange(u) \/ DesktopStatus(u)
         \/ DesktopFrame \/ DesktopGone
  PROVE  pc'[Resync(t)] = "idle"
<1> DEFINE q == Resync(t)
<1>1. q \in Procs /\ q \in Resyncs /\ q \notin Readers /\ q # Reconnect /\ DOMAIN pc = Procs
      /\ (\A c \in Calls : q # Call(c)) /\ (\A g \in 1..MaxConnections : q # Reader(g))
  BY Kinds DEF Ctl, PlacesOK
<1>2. \A u \in Threads : Resync(u) \in Procs
  BY Kinds
<1>3. \A p : DOMAIN Cancelled(pc, conn.reader, p) = Procs /\ Cancelled(pc, conn.reader, p)[q] = "idle"
  BY <1>1, CancelledPlaces DEF Ctl
<1> HIDE DEF q
<1>4. pc[q] = "idle"
  BY DEF q
<1>5. ASSUME NEW c \in Calls, RequestTimeout(c) \/ Disconnect(c) \/ Disconnected(c) PROVE pc'[q] = "idle"
  <2>1. CASE RequestTimeout(c)
    BY <1>1, <1>4, <2>1 DEF RequestTimeout
  <2>2. CASE Disconnect(c)
    BY <1>1, <1>3, <2>2 DEF Disconnect
  <2>3. CASE Disconnected(c)
    BY <1>1, <2>3 DEF Disconnected
  <2> QED BY <1>5, <2>1, <2>2, <2>3
<1>6. ASSUME NEW c \in Calls, NEW op \in Ops, NEW u \in Threads, Begin(c, op, u) PROVE pc'[q] = "idle"
  <2> DEFINE place == IF op = "unfollow" THEN [pc EXCEPT ![Resync(u)] = "idle"] ELSE pc
  <2>1. DOMAIN place = Procs /\ place[q] = "idle"
    BY <1>1, <1>2, <1>4
  <2>2. \E w : pc' = [place EXCEPT ![Call(c)] = w]
    BY <1>6 DEF Begin, Emit
  <2> HIDE DEF place
  <2> QED BY <1>1, <2>1, <2>2
<1>7. ASSUME NEW p \in Procs, ConnectStep(p) \/ OpenRefused(p) PROVE pc'[q] = "idle"
  <2>1. CASE Acquire(p)
    <3>1. q # p
      BY <1>4, <2>1 DEF Acquire
    <3>2. (\E w : pc' = [pc EXCEPT ![p] = w]) \/ (\E w : pc' = [Cancelled(pc, conn.reader, p) EXCEPT ![p] = w])
      BY <2>1 DEF Acquire, Emit
    <3> QED BY <1>1, <1>3, <1>4, <3>1, <3>2
  <2>2. CASE Open(p)
    <3>1. q # p /\ pc' = [pc EXCEPT ![p] = "init", ![Reader(conn.gen + 1)] = "reading"]
      BY <1>4, <2>2 DEF Open
    <3>2. conn.gen + 1 \in 1..MaxConnections
      BY <2>2, ConstantsAssumption DEF Open, Ctl, ConnInv
    <3> QED BY <1>1, <1>4, <3>1, <3>2
  <2>3. CASE Initialized(p)
    <3>1. q # p /\ \E w : pc' = [pc EXCEPT ![p] = w]
      BY <1>4, <2>3 DEF Initialized, Emit
    <3> QED BY <1>1, <1>4, <3>1
  <2>4. CASE InitializeTimeout(p)
    BY <1>1, <1>4, <2>4 DEF InitializeTimeout
  <2>5. CASE InitializeFailed(p)
    BY <1>1, <1>3, <1>4, <2>5 DEF InitializeFailed
  <2>6. CASE ConnectFailed(p)
    BY <1>1, <1>4, <2>6 DEF ConnectFailed
  <2>7. CASE OpenRefused(p)
    BY <1>1, <1>4, <2>7 DEF OpenRefused
  <2> QED BY <1>7, <2>1, <2>2, <2>3, <2>4, <2>5, <2>6, <2>7 DEF ConnectStep
<1>8. ASSUME NEW g \in 1..MaxConnections, ReaderEnds(g) \/ ResyncsCancelled(g) \/ TransportClosed(g)
      PROVE  pc'[q] = "idle"
  <2>1. CASE ReaderEnds(g)
    BY <1>1, <1>4, <2>1 DEF ReaderEnds, Lost
  <2>2. CASE ResyncsCancelled(g)
    BY <1>1, <1>4, <2>2 DEF ResyncsCancelled
  <2>3. CASE TransportClosed(g)
    <3>1. DOMAIN FailPending(pc) = Procs /\ FailPending(pc)[q] = "idle"
      BY <1>1, <1>4 DEF FailPending
    <3> QED BY <1>1, <2>3, <3>1 DEF TransportClosed
  <2> QED BY <1>8, <2>1, <2>2, <2>3
<1>9. CASE ReconnectWakes
  BY <1>1, <1>4, <1>9 DEF ReconnectWakes
<1>10. ASSUME NEW u \in Threads, ResyncWakes(u) PROVE pc'[q] = "idle"
  <2>1. q # Resync(u)
    BY <1>4, <1>10 DEF ResyncWakes
  <2>2. \E w : pc' = [pc EXCEPT ![Resync(u)] = w]
    BY <1>10 DEF ResyncWakes, Emit
  <2> QED BY <1>1, <1>4, <2>1, <2>2
<1>11. pc' = pc => pc'[q] = "idle"
  BY <1>4
<1>12. ASSUME UNCHANGED vars \/ DesktopFrame \/ DesktopGone \/ \E u \in Threads : DesktopChange(u) \/ DesktopStatus(u)
       PROVE  pc' = pc
  BY <1>12 DEF vars, client, DesktopFrame, DesktopGone, DesktopChange, DesktopStatus
<1> QED BY <1>5, <1>6, <1>7, <1>8, <1>9, <1>10, <1>11, <1>12 DEF q


LEMMA EmitSays ==
  ASSUME WireOK, NEW p \in Procs, NEW v, NEW j, JobOK(p, v, j), v \in Connecting \cup {"sleep"},
         v = "sleep" => p \in Timers,
         NEW before \in Seq(Frames), NEW known \in SUBSET followed, IsFiniteSet(known), NEW place,
         Emit(p, j, before, known, place)
  PROVE  /\ wire'.up = wire.up /\ wire'.in = wire.in
         /\ \A t, kind : Says(wire.out, t, kind) => Says(wire'.out, t, kind)
         /\ wire.up => \A t, kind : Says(Wants(p, j), t, kind) => Says(wire'.out, t, kind)
<1> DEFINE o == wire.out
           w == Wants(p, j)
<1>1. known \in SUBSET Threads /\ o \in Seq(Frames)
  BY DEF WireOK
<1>2. wire'.up = wire.up /\ wire'.in = wire.in
      /\ wire'.out = IF wire.up THEN o \o (before \o w) ELSE o
  BY <1>1, EmitWire
<1>3. w \in Seq(Frames)
  BY WantsFrames
<1> HIDE DEF o, w
<1>4. before \o w \in Seq(Frames)
  BY <1>3
<1>5. \A t, kind : Says(w, t, kind) => Says(before \o w, t, kind)
  BY <1>3, SaysConcat
<1>6. \A t, kind : Says(o, t, kind) \/ Says(before \o w, t, kind) => Says(o \o (before \o w), t, kind)
  BY <1>1, <1>4, SaysConcat
<1>7. \A t, kind : Says(o, t, kind) => Says(wire'.out, t, kind)
  BY <1>2, <1>6
<1>8. wire.up => \A t, kind : Says(w, t, kind) => Says(wire'.out, t, kind)
  BY <1>2, <1>5, <1>6
<1> QED BY <1>2, <1>7, <1>8 DEF o, w

LEMMA BeginRev ==
  ASSUME Ctl, WireOK, RevInv, NEW c \in Calls, NEW op \in Ops, NEW t \in Threads, Begin(c, op, t)
  PROVE  RevInv'
<1> DEFINE p == Call(c)
           j == [op |-> op, t |-> t, n |-> ops + 1]
           drop == op = "unfollow"
           known == IF drop THEN followed \ {t} ELSE followed
           place == IF drop THEN [pc EXCEPT ![Resync(t)] = "idle"] ELSE pc
<1>1. /\ conn' = conn /\ desk' = desk /\ sent' = sent
      /\ rev' = IF drop THEN [rev EXCEPT ![t] = 0] ELSE rev
      /\ attempts' = IF drop THEN [attempts EXCEPT ![t] = 0] ELSE attempts
  BY DEF Begin, desktop
<1>2. \A u \in Threads : pc[Resync(u)] = "idle" => pc'[Resync(u)] = "idle"
  BY ResyncRests
<1>3. drop => pc'[Resync(t)] = "idle"
  <2>1. DOMAIN pc = Procs /\ Resync(t) \in Procs /\ Resync(t) # p
    BY Kinds DEF Ctl, PlacesOK
  <2>2. \E w : pc' = [place EXCEPT ![p] = w]
    BY DEF Begin, Emit
  <2>3. drop => place[Resync(t)] = "idle" /\ DOMAIN place = Procs
    BY <2>1
  <2> HIDE DEF place, p
  <2> QED BY <2>1, <2>2, <2>3
<1>4. \A u \in Threads : ~(drop /\ u = t) => rev'[u] = rev[u] /\ attempts'[u] = attempts[u]
  BY <1>1 DEF WireOK
<1>5. \A u \in Threads : pc'[Resync(u)] # "idle" => attempts'[u] > 0
  BY <1>2, <1>3, <1>4 DEF RevInv
<1>6. ASSUME Connected, wire'.up, NEW u \in desk
      PROVE  sent[u] = 0 \/ Says(wire'.out, u, "unfollow") \/ Caught(u)'
  <2>1. Emit(p, j, <<>>, known, place)
    BY <1>6 DEF Begin
  <2>2. JobOK(p, "connect", j) /\ IsFiniteSet(known) /\ known \in SUBSET followed
    BY BeginWire
  <2>3. p \in Procs /\ "connect" \in Connecting /\ "connect" # "sleep" /\ <<>> \in Seq(Frames)
    BY Kinds DEF Connecting
  <2>4. drop => Says(Wants(p, j), t, "unfollow")
    BY Kinds DEF Wants, Says, Frame
  <2> HIDE DEF p, j, known, place
  <2>5. /\ wire'.up = wire.up /\ wire'.in = wire.in
        /\ \A s, kind : Says(wire.out, s, kind) => Says(wire'.out, s, kind)
        /\ wire.up => \A s, kind : Says(Wants(p, j), s, kind) => Says(wire'.out, s, kind)
    BY <2>1, <2>2, <2>3, EmitSays
  <2>6. CASE drop /\ u = t
    BY <1>6, <2>4, <2>5, <2>6
  <2>7. CASE ~(drop /\ u = t)
    <3>1. sent[u] = 0 \/ Says(wire.out, u, "unfollow") \/ Caught(u)
      BY <1>6, <2>5 DEF RevInv
    <3>2. u \in Threads
      BY DEF WireOK
    <3>3. Caught(u) => Caught(u)'
      BY <1>1, <1>4, <2>5, <2>7, <3>2 DEF Caught, LastIs, Tells, About
    <3> QED BY <2>5, <3>1, <3>3
  <2> QED BY <2>6, <2>7
<1>7. \A u \in Threads \ desk : sent[u] = 0
  BY DEF RevInv
<1> QED BY <1>1, <1>5, <1>6, <1>7 DEF RevInv, Resync, Says, Connected

\* Steps of the client that neither read nor begin a call.
LEMMA ClientRev ==
  ASSUME Ctl, Ctl', WireOK, RevInv, FollowInv,
         \/ \E c \in Calls : RequestTimeout(c) \/ Disconnect(c) \/ Disconnected(c)
         \/ \E p \in Procs : OpenRefused(p) \/ InitializeTimeout(p) \/ InitializeFailed(p) \/ ConnectFailed(p)
         \/ \E g \in 1..MaxConnections : ReaderEnds(g) \/ ResyncsCancelled(g) \/ TransportClosed(g)
         \/ ReconnectWakes \/ UNCHANGED vars
  PROVE  RevInv'
<1>1. \A t \in Threads : pc[Resync(t)] = "idle" => pc'[Resync(t)] = "idle"
  BY ResyncRests DEF ConnectStep
<1>2. rev' = rev /\ attempts' = attempts /\ sent' = sent /\ desk' = desk
  BY DEF RequestTimeout, Disconnect, Disconnected, OpenRefused, InitializeTimeout, InitializeFailed, ConnectFailed,
     ReaderEnds, Lost, ResyncsCancelled, TransportClosed, ReconnectWakes, vars, client, desktop
<1>3. (conn' = conn /\ wire' = wire) \/ ~Connected'
  <2>1. \A p : \A b \in BOOLEAN : Close(p, b) => ~Connected'
    BY DEF Close, Connected, Ctl, ConnInv
  <2>2. ASSUME NEW c \in Calls, Disconnect(c) PROVE ~Connected'
    BY <2>1, <2>2 DEF Disconnect
  <2>3. ASSUME NEW p \in Procs, InitializeFailed(p) PROVE ~Connected'
    <3>1. conn.closing \in BOOLEAN
      BY DEF Ctl, ConnInv
    <3> QED BY <2>1, <2>3, <3>1 DEF InitializeFailed
  <2>4. ASSUME NEW g \in 1..MaxConnections, Lost(g) \/ ResyncsCancelled(g) PROVE ~Connected'
    BY <2>4 DEF Lost, ResyncsCancelled, Connected, Ctl, ConnInv
  <2>5. ASSUME NEW c \in Calls, RequestTimeout(c) \/ Disconnected(c) PROVE conn' = conn /\ wire' = wire
    BY <2>5 DEF RequestTimeout, Disconnected
  <2>6. ASSUME NEW p \in Procs, OpenRefused(p) \/ InitializeTimeout(p) \/ ConnectFailed(p)
        PROVE  conn' = conn /\ wire' = wire
    BY <2>6 DEF OpenRefused, InitializeTimeout, ConnectFailed
  <2>7. ASSUME NEW g \in 1..MaxConnections, ReaderEnds(g) \/ TransportClosed(g)
        PROVE  (conn' = conn /\ wire' = wire) \/ ~Connected'
    BY <2>4, <2>7 DEF ReaderEnds, TransportClosed
  <2>8. ReconnectWakes \/ UNCHANGED vars => conn' = conn /\ wire' = wire
    BY DEF ReconnectWakes, vars, client
  <2> QED BY <2>2, <2>3, <2>4, <2>5, <2>6, <2>7, <2>8
<1>4. Connected' /\ wire'.up => Connected /\ wire.up /\ wire'.in = wire.in /\ wire'.out = wire.out
  BY <1>3 DEF Connected
<1> QED BY <1>1, <1>2, <1>4, RevStays

\* Steps in which a coroutine may send its frame.
LEMMA WaiterRev ==
  ASSUME Ctl, Ctl', WireOK, RevInv, FollowInv,
         \/ \E p \in Procs : Acquire(p) \/ Initialized(p)
         \/ \E t \in Threads : ResyncWakes(t)
  PROVE  RevInv'
<1>1. \A t \in Threads : pc[Resync(t)] = "idle" => pc'[Resync(t)] = "idle"
  BY ResyncRests DEF ConnectStep
<1>2. rev' = rev /\ attempts' = attempts /\ sent' = sent /\ desk' = desk
  BY DEF Acquire, Initialized, ResyncWakes, desktop
<1>3. IsFiniteSet(followed) /\ followed \in SUBSET followed /\ <<>> \in Seq(Frames)
  BY DEF WireOK
<1>4. ASSUME NEW p \in Procs, Acquire(p), Connected'
      PROVE  /\ Connected /\ wire'.up = wire.up /\ wire'.in = wire.in
             /\ \A t : Says(wire.out, t, "unfollow") => Says(wire'.out, t, "unfollow")
  <2>1. CASE Connected
    <3> DEFINE v == "connect"
               j == job[p]
    <3>1. JobOK(p, v, j) /\ v \in Connecting \cup {"sleep"} /\ (v = "sleep" => p \in Timers)
          /\ Emit(p, j, <<>>, followed, pc)
      BY <1>4, <2>1 DEF Acquire, Ctl, JobsOK, Connecting
    <3> HIDE DEF v, j
    <3> QED BY <1>3, <2>1, <3>1, EmitSays
  <2>2. CASE ~Connected
    BY <1>4, <2>2 DEF Acquire, Close, Connected, Ctl, ConnInv
  <2> QED BY <2>1, <2>2
<1>5. ASSUME NEW p \in Procs, Initialized(p), Connected' PROVE desk = {}
  <2>1. conn.writer # None
    BY <1>5 DEF Initialized, Connected, Ctl, ConnInv
  <2> QED BY <1>5, <2>1 DEF Initialized, FollowInv, RawInv, Raw
<1>6. ASSUME NEW t \in Threads, ResyncWakes(t), Connected'
      PROVE  /\ Connected /\ wire'.up = wire.up /\ wire'.in = wire.in
             /\ \A u : Says(wire.out, u, "unfollow") => Says(wire'.out, u, "unfollow")
  <2>1. conn' = conn /\ Connected
    BY <1>6 DEF ResyncWakes, Connected
  <2>2. CASE ~conn.closing
    <3> DEFINE v == "sleep"
               j == job[Resync(t)]
               p == Resync(t)
    <3>1. JobOK(p, v, j) /\ v \in Connecting \cup {"sleep"} /\ (v = "sleep" => p \in Timers) /\ p \in Procs
      BY <1>6, Kinds DEF ResyncWakes, Ctl, JobsOK
    <3>2. Emit(p, j, <<>>, followed, pc)
      BY <1>6, <2>1, <2>2 DEF ResyncWakes
    <3> HIDE DEF v, j, p
    <3> QED BY <1>3, <2>1, <3>1, <3>2, EmitSays
  <2>3. CASE conn.closing
    BY <1>6, <2>1, <2>3 DEF ResyncWakes
  <2> QED BY <2>1, <2>2, <2>3
<1>7. Connected' /\ wire'.up => desk = {} \/
        (/\ Connected /\ wire.up /\ wire'.in = wire.in
         /\ \A t \in desk : Says(wire.out, t, "unfollow") => Says(wire'.out, t, "unfollow"))
  BY <1>4, <1>5, <1>6
<1> QED BY <1>1, <1>2, <1>7, RevStays


LEMMA OpenRev ==
  ASSUME Ctl, Ctl', RevInv, NEW p \in Procs, Open(p)
  PROVE  RevInv'
<1>1. rev' = rev /\ attempts' = attempts /\ desk' = {} /\ sent' = [t \in Threads |-> 0]
  BY DEF Open
<1>2. \A t \in Threads : pc'[Resync(t)] # "idle" => attempts'[t] > 0
  <2>1. \A t \in Threads : pc[Resync(t)] = "idle" => pc'[Resync(t)] = "idle"
    BY ResyncRests DEF ConnectStep
  <2> QED BY <1>1, <2>1 DEF RevInv
<1>3. \A t \in Threads : sent'[t] = 0
  BY <1>1
<1> QED BY <1>1, <1>2, <1>3 DEF RevInv, Resync

\* What a message that is read settles: a patch that does not fit leaves a resync behind it.
LEMMA ReadSettles ==
  ASSUME Ctl, WireOK, RevInv, NEW g \in 1..MaxConnections, Read(g)
  PROVE  LET m == Head(wire.in)
             about(t) == m.kind \in {"snapshot", "patch"} /\ m.t = t
         IN  \A t \in Threads :
               /\ pc'[Resync(t)] # "idle" => attempts'[t] > 0
               /\ ~about(t) => rev'[t] = rev[t] /\ attempts'[t] = attempts[t]
               /\ about(t) => rev'[t] = m.n \/ attempts'[t] > 0
<1> DEFINE m == Head(wire.in)
           r == Resync(m.t)
           about(t) == m.kind \in {"snapshot", "patch"} /\ m.t = t
<1>1. /\ (m.kind \in {"snapshot", "patch", "status"} => m.t \in Threads)
      /\ StateChange(m) \/ Response(m) \/ StatusRequested(g, m)
      /\ DOMAIN pc = Procs /\ rev \in [Threads -> Nat] /\ attempts \in [Threads -> Nat]
  BY ReadFacts DEF Ctl, PlacesOK, WireOK
<1>2. \A t \in Threads : Resync(t) \in Procs /\ Resync(t) \notin Readers /\ Resync(t) \in Timers
  BY Kinds
<1>3. \A t \in Threads : pc[Resync(t)] # "idle" => attempts[t] > 0
  BY DEF RevInv
<1> HIDE DEF m
<1>4. CASE StateChange(m)
  <2>1. m.t \in Threads /\ r \in Procs /\ m.kind \in {"snapshot", "patch"}
        /\ \A t \in Threads : Resync(t) = r => t = m.t
    BY <1>1, <1>2, <1>4, Kinds DEF StateChange
  <2> HIDE DEF r
  <2>2. CASE m.kind = "snapshot"
    <3>1. rev' = [rev EXCEPT ![m.t] = m.n] /\ attempts' = [attempts EXCEPT ![m.t] = 0]
          /\ pc' = [pc EXCEPT ![r] = "idle"]
      BY <1>4, <2>2 DEF StateChange, r
    <3>2. pc'[r] = "idle" /\ \A t \in Threads : t # m.t => pc'[Resync(t)] = pc[Resync(t)]
      BY <1>1, <1>2, <2>1, <3>1
    <3>3. \A t \in Threads : t # m.t => rev'[t] = rev[t] /\ attempts'[t] = attempts[t]
      BY <1>1, <3>1
    <3>4. rev'[m.t] = m.n
      BY <1>1, <2>1, <3>1
    <3> QED BY <1>3, <2>1, <3>2, <3>3, <3>4 DEF m, r
  <2>3. CASE m.kind = "patch" /\ rev[m.t] = m.n - 1
    <3>1. rev' = [rev EXCEPT ![m.t] = m.n] /\ attempts' = attempts /\ pc' = pc
      BY <1>4, <2>3 DEF StateChange
    <3>2. rev'[m.t] = m.n /\ \A t \in Threads : t # m.t => rev'[t] = rev[t]
      BY <1>1, <2>1, <3>1
    <3> QED BY <1>3, <2>1, <3>1, <3>2 DEF m
  <2>4. CASE m.kind = "patch" /\ rev[m.t] # m.n - 1
    <3>1. rev' = rev /\ Gap(m.t, pc)
      BY <1>4, <2>4 DEF StateChange
    <3>2. CASE pc[r] = "idle" /\ attempts[m.t] < ResyncLimit
      <4>1. attempts' = [attempts EXCEPT ![m.t] = @ + 1] /\ pc' = [pc EXCEPT ![r] = "sleep"]
        BY <3>1, <3>2 DEF Gap, r
      <4>2. \A t \in Threads : t # m.t => attempts'[t] = attempts[t] /\ pc'[Resync(t)] = pc[Resync(t)]
        BY <1>1, <1>2, <2>1, <4>1
      <4>3. attempts'[m.t] > 0
        BY <1>1, <2>1, <4>1
      <4> QED BY <1>3, <2>1, <3>1, <4>2, <4>3 DEF m
    <3>3. CASE ~(pc[r] = "idle" /\ attempts[m.t] < ResyncLimit)
      <4>1. attempts' = attempts /\ pc' = pc
        BY <3>1, <3>3 DEF Gap, r
      <4>2. attempts[m.t] > 0
        <5>1. attempts[m.t] \in Nat
          BY <1>1, <2>1
        <5>2. CASE pc[r] # "idle"
          BY <1>3, <2>1, <5>2 DEF r
        <5>3. CASE ~(attempts[m.t] < ResyncLimit)
          BY <5>1, <5>3, Bounds
        <5> QED BY <3>3, <5>2, <5>3
      <4> QED BY <1>3, <2>1, <3>1, <4>1, <4>2 DEF m
    <3> QED BY <3>2, <3>3
  <2> QED BY <2>1, <2>2, <2>3, <2>4
<1>5. CASE Response(m) \/ StatusRequested(g, m)
  <2>1. rev' = rev /\ attempts' = attempts /\ m.kind \notin {"snapshot", "patch"}
    <3>1. rev' = rev
      BY <1>5 DEF Response, StatusRequested, Read
    <3> QED BY <1>5, <3>1 DEF Response, StatusRequested
  <2>2. \A t \in Threads : pc[Resync(t)] = "idle" => pc'[Resync(t)] = "idle"
    BY <2>1, ReadMoves DEF m
  <2> QED BY <1>3, <2>1, <2>2 DEF m
<1> QED BY <1>1, <1>4, <1>5

LEMMA ReadRev ==
  ASSUME Ctl, WireOK, RevInv, NEW g \in 1..MaxConnections, Read(g)
  PROVE  RevInv'
<1> DEFINE m == Head(wire.in)
           rest == Tail(wire.in)
           about(t) == m.kind \in {"snapshot", "patch"} /\ m.t = t
<1>1. /\ wire'.up = wire.up /\ wire'.in = rest /\ desk' = desk /\ sent' = sent /\ conn' = conn
      /\ wire'.out = wire.out \/
           (wire'.out = wire.out \o <<Frame("follow", m.t, 0)>> /\ m.t \in followed)
  BY ReadWire
<1>2. wire.in \in Seq(Frames) /\ wire.in # <<>> /\ wire.out \in Seq(Frames)
  BY DEF WireOK, Read
<1>3. m \in Frames /\ rest \in Seq(Frames) /\ wire.in = <<m>> \o rest
  BY <1>2, HeadAndTail
<1>4. \A t \in Threads :
         /\ pc'[Resync(t)] # "idle" => attempts'[t] > 0
         /\ ~about(t) => rev'[t] = rev[t] /\ attempts'[t] = attempts[t]
         /\ about(t) => rev'[t] = m.n \/ attempts'[t] > 0
  BY ReadSettles
<1> HIDE DEF m, rest
<1>5. ASSUME NEW t PROVE Says(wire.out, t, "unfollow") => Says(wire'.out, t, "unfollow")
  <2>1. CASE wire'.out = wire.out
    BY <2>1
  <2>2. CASE wire'.out = wire.out \o <<Frame("follow", m.t, 0)>> /\ m.t \in followed
    <3> DEFINE o == wire.out
               w == <<Frame("follow", m.t, 0)>>
    <3>1. m.t \in Threads
      BY <2>2 DEF WireOK
    <3>2. o \in Seq(Frames) /\ w \in Seq(Frames)
      BY <1>2, <3>1, FrameIs DEF FrameKinds
    <3> HIDE DEF o, w
    <3>3. Says(o, t, "unfollow") => Says(o \o w, t, "unfollow")
      BY <3>2, SaysConcat
    <3> QED BY <2>2, <3>3 DEF o, w
  <2> QED BY <1>1, <2>1, <2>2
<1>6. ASSUME Connected, wire.up, NEW t \in desk
      PROVE  sent[t] = 0 \/ Says(wire'.out, t, "unfollow") \/ Caught(t)'
  <2>1. sent[t] = 0 \/ Says(wire.out, t, "unfollow") \/ Caught(t)
    BY <1>6 DEF RevInv
  <2>2. t \in Threads
    BY DEF WireOK
  <2>3. ASSUME Caught(t) PROVE Caught(t)'
    <3> DEFINE n == sent[t]
    <3>1. LastIs(<<m>> \o rest, t, n) /\ (rev[t] = n \/ attempts[t] > 0 \/ Tells(<<m>> \o rest, t))
      BY <1>3, <2>3 DEF Caught
    <3> HIDE DEF n
    <3>2. LastIs(rest, t, n)
          /\ (Tells(<<m>> \o rest, t) => Tells(rest, t) \/ about(t))
          /\ (about(t) => Tells(rest, t) \/ m.n = n)
      BY <1>3, <3>1, TakeFirst
    <3>3. rev'[t] = n \/ attempts'[t] > 0 \/ Tells(rest, t)
      BY <1>4, <2>2, <3>1, <3>2
    <3>4. n = sent'[t]
      BY <1>1 DEF n
    <3> QED BY <1>1, <3>2, <3>3, <3>4 DEF Caught, LastIs, Tells, About
  <2> QED BY <1>5, <2>1, <2>3
<1>7. (\A t \in Threads : pc'[Resync(t)] # "idle" => attempts'[t] > 0) /\ \A t \in Threads \ desk : sent[t] = 0
  BY <1>4 DEF RevInv
<1> QED BY <1>1, <1>6, <1>7 DEF RevInv, Resync, Says, Connected


LEMMA DesktopFrameRev ==
  ASSUME Ctl, WireOK, RevInv, DesktopFrame
  PROVE  RevInv'
<1> DEFINE f == Head(wire.out)
<1>1. /\ WireOK' /\ wire.up /\ wire'.up = wire.up
      /\ f \in Frames /\ wire.out = <<f>> \o wire'.out
      /\ \/ /\ f.kind = "init" /\ wire'.in = wire.in \o <<Frame("inited", None, 0)>>
            /\ desk' = desk /\ sent' = sent
         \/ /\ f.kind = "request" /\ wire'.in = wire.in \o <<Frame("answer", f.t, f.n)>>
            /\ desk' = desk /\ sent' = sent
         \/ /\ f.kind = "unfollow" /\ wire'.in = wire.in
            /\ f.t \in Threads /\ desk' = desk \ {f.t} /\ sent' = [sent EXCEPT ![f.t] = 0]
         \/ /\ f.kind = "follow" /\ f.t \in Threads /\ desk' = desk \cup {f.t}
            /\ \/ /\ wire'.in = wire.in \o <<Frame("snapshot", f.t, line[f.t])>>
                  /\ sent' = [sent EXCEPT ![f.t] = line[f.t]]
               \/ wire'.in = wire.in /\ sent' = sent
  BY DesktopFrameWire
<1>2. conn' = conn /\ pc' = pc /\ rev' = rev /\ attempts' = attempts
  BY DEF DesktopFrame, client
<1> HIDE DEF f
<1>3. wire'.out \in Seq(Frames) /\ wire.in \in Seq(Frames) /\ <<f>> \in Seq(Frames)
      /\ sent \in [Threads -> Nat] /\ line \in [Threads -> Nat] /\ desk \subseteq Threads
  <2>1. wire'.out \in Seq(Frames)
    BY <1>1 DEF WireOK
  <2>2. <<f>> \in Seq(Frames)
    BY <1>1
  <2>3. /\ wire.in \in Seq(Frames)
        /\ sent \in [Threads -> Nat] /\ line \in [Threads -> Nat] /\ desk \subseteq Threads
    BY DEF WireOK
  <2> QED BY <2>1, <2>2, <2>3
<1>4. \A t \in Threads : Says(wire.out, t, "unfollow") => Says(wire'.out, t, "unfollow") \/ (f.kind = "unfollow" /\ f.t = t)
  <2> DEFINE o == wire'.out
  <2>1. o \in Seq(Frames) /\ wire.out = <<f>> \o o
    BY <1>1, <1>3
  <2> HIDE DEF o
  <2>2. \A t : Says(<<f>> \o o, t, "unfollow") => Says(<<f>>, t, "unfollow") \/ Says(o, t, "unfollow")
    BY <1>3, <2>1, SaysConcat
  <2>3. \A t : Says(<<f>>, t, "unfollow") => f.kind = "unfollow" /\ f.t = t
    BY DEF Says
  <2> QED BY <2>1, <2>2, <2>3 DEF o
<1>5. \A t \in Threads \ desk' : sent'[t] = 0
  BY <1>1, <1>3 DEF RevInv
<1>6. ASSUME Connected, NEW t \in desk'
      PROVE  sent'[t] = 0 \/ Says(wire'.out, t, "unfollow") \/ Caught(t)'
  <2>1. t \in Threads
    BY <1>1, <1>3
  <2> DEFINE x == wire.in
             y == wire'.in
  <2>2. CASE t \notin desk /\ sent' = sent
    BY <2>1, <2>2 DEF RevInv
  <2>3. ASSUME t \in desk, sent'[t] = sent[t], ~(f.kind = "unfollow" /\ f.t = t),
               LastIs(x, t, sent[t]) => LastIs(y, t, sent[t]), Tells(x, t) => Tells(y, t)
        PROVE  sent'[t] = 0 \/ Says(wire'.out, t, "unfollow") \/ Caught(t)'
    <3>1. sent[t] = 0 \/ Says(wire.out, t, "unfollow") \/ Caught(t)
      BY <1>1, <1>6, <2>3 DEF RevInv
    <3>2. Caught(t) => Caught(t)'
      <4> DEFINE n == sent[t]
                 k == sent'[t]
      <4>1. ASSUME Caught(t) PROVE LastIs(y, t, k) /\ (rev'[t] = k \/ attempts'[t] > 0 \/ Tells(y, t))
        <5>1. LastIs(x, t, n) /\ (rev[t] = n \/ attempts[t] > 0 \/ Tells(x, t))
          BY <4>1 DEF Caught
        <5>2. k = n
          BY <2>3
        <5>3. (LastIs(x, t, n) => LastIs(y, t, n)) /\ (Tells(x, t) => Tells(y, t))
          BY <2>3
        <5> HIDE DEF n, k, x, y
        <5>4. LastIs(y, t, k)
          BY <5>1, <5>2, <5>3
        <5> QED BY <1>2, <5>1, <5>2, <5>3, <5>4
      <4> QED BY <4>1 DEF Caught, LastIs, Tells, About
    <3> QED BY <1>4, <2>1, <2>3, <3>1, <3>2
  <2>4. ASSUME NEW m \in Frames, y = x \o <<m>>, ~(m.kind \in {"snapshot", "patch"} /\ m.t = t)
        PROVE  (LastIs(x, t, sent[t]) => LastIs(y, t, sent[t])) /\ (Tells(x, t) => Tells(y, t))
    BY <1>3, <2>4, PutOther
  <2>5. CASE f.kind = "init" /\ y = x \o <<Frame("inited", None, 0)>> /\ desk' = desk /\ sent' = sent
    <3>1. Frame("inited", None, 0) \in Frames /\ Frame("inited", None, 0).kind = "inited"
      BY FrameIs
    <3> HIDE DEF x, y
    <3> QED BY <1>6, <2>3, <2>4, <2>5, <3>1
  <2>6. CASE f.kind = "request" /\ y = x \o <<Frame("answer", f.t, f.n)>> /\ desk' = desk /\ sent' = sent
    <3>1. Frame("answer", f.t, f.n) \in Frames /\ Frame("answer", f.t, f.n).kind = "answer"
      BY <1>1 DEF Frame, Frames, FrameKinds
    <3> HIDE DEF x, y
    <3> QED BY <1>6, <2>3, <2>4, <2>6, <3>1
  <2>7. CASE f.kind = "unfollow" /\ y = x /\ desk' = desk \ {f.t} /\ sent' = [sent EXCEPT ![f.t] = 0]
    <3>1. t \in desk /\ t # f.t /\ sent'[t] = sent[t]
      BY <1>3, <1>6, <2>1, <2>7
    <3> QED BY <2>3, <2>7, <3>1
  <2>8. CASE f.kind = "follow" /\ f.t \in Threads /\ desk' = desk \cup {f.t}
             /\ y = x \o <<Frame("snapshot", f.t, line[f.t])>> /\ sent' = [sent EXCEPT ![f.t] = line[f.t]]
    <3> DEFINE m == Frame("snapshot", f.t, line[f.t])
    <3>1. m \in Frames /\ m.kind = "snapshot" /\ m.t = f.t /\ m.n = line[f.t]
      BY <1>3, <2>8, FrameIs DEF FrameKinds
    <3> HIDE DEF m
    <3>2. CASE t = f.t
      <4>1. LastIs(x \o <<m>>, m.t, m.n) /\ Tells(x \o <<m>>, m.t)
        BY <1>3, <3>1, PutAbout
      <4>2. sent'[t] = m.n
        BY <1>3, <2>8, <3>1, <3>2
      <4>3. y = x \o <<m>>
        BY <2>8 DEF m
      <4> QED BY <3>1, <3>2, <4>1, <4>2, <4>3 DEF Caught, LastIs, Tells, About
    <3>3. CASE t # f.t
      <4>1. t \in desk /\ sent'[t] = sent[t]
        BY <1>3, <1>6, <2>1, <2>8, <3>3
      <4>2. y = x \o <<m>>
        BY <2>8 DEF m
      <4> HIDE DEF x, y
      <4> QED BY <2>3, <2>4, <2>8, <3>1, <3>3, <4>1, <4>2
    <3> QED BY <3>2, <3>3
  <2>9. CASE f.kind = "follow" /\ y = x /\ sent' = sent
    BY <2>2, <2>3, <2>9
  <2> QED BY <1>1, <2>5, <2>6, <2>7, <2>8, <2>9
<1>7. \A t \in Threads : pc'[Resync(t)] # "idle" => attempts'[t] > 0
  BY <1>2 DEF RevInv
<1> QED BY <1>2, <1>5, <1>6, <1>7 DEF RevInv, Connected, Resync, Says

LEMMA DesktopTalkRev ==
  ASSUME Ctl, WireOK, RevInv, NEW t \in Threads, DesktopChange(t) \/ DesktopStatus(t)
  PROVE  RevInv'
<1>1. /\ wire'.up = wire.up /\ wire'.out = wire.out /\ desk' = desk
      /\ \/ wire' = wire /\ sent' = sent
         \/ /\ wire'.in = wire.in \o <<Frame("patch", t, line[t] + 1)>>
            /\ sent' = [sent EXCEPT ![t] = line[t] + 1] /\ t \in desk
         \/ wire'.in = wire.in \o <<Frame("status", t, 0)>> /\ sent' = sent
  BY DesktopTalkWire
<1>2. conn' = conn /\ pc' = pc /\ rev' = rev /\ attempts' = attempts
  BY DEF DesktopChange, DesktopStatus, client
<1>3. wire.in \in Seq(Frames) /\ sent \in [Threads -> Nat] /\ line[t] + 1 \in Nat /\ desk \subseteq Threads
  BY DEF WireOK
<1>4. \A u \in Threads \ desk' : sent'[u] = 0
  BY <1>1, <1>3 DEF RevInv
<1>5. ASSUME Connected, wire.up, NEW u \in desk
      PROVE  sent'[u] = 0 \/ Says(wire'.out, u, "unfollow") \/ Caught(u)'
  <2> DEFINE x == wire.in
             y == wire'.in
             n == sent[u]
  <2>1. u \in Threads
    BY <1>3
  <2>2. ASSUME sent'[u] = n, LastIs(x, u, n) => LastIs(y, u, n), Tells(x, u) => Tells(y, u)
        PROVE  sent'[u] = 0 \/ Says(wire'.out, u, "unfollow") \/ Caught(u)'
    <3>1. sent[u] = 0 \/ Says(wire.out, u, "unfollow") \/ Caught(u)
      BY <1>5 DEF RevInv
    <3>2. ASSUME Caught(u) PROVE LastIs(y, u, n) /\ (rev'[u] = n \/ attempts'[u] > 0 \/ Tells(y, u))
      <4>1. LastIs(x, u, n) /\ (rev[u] = n \/ attempts[u] > 0 \/ Tells(x, u))
        BY <3>2 DEF Caught
      <4> HIDE DEF x, y, n
      <4> QED BY <1>2, <2>2, <4>1
    <3>3. Caught(u) => Caught(u)'
      BY <2>2, <3>2 DEF Caught, LastIs, Tells, About
    <3> QED BY <1>1, <2>2, <3>1, <3>3
  <2>3. CASE wire' = wire /\ sent' = sent
    BY <2>2, <2>3
  <2>4. CASE y = x \o <<Frame("patch", t, line[t] + 1)>> /\ sent' = [sent EXCEPT ![t] = line[t] + 1]
    <3> DEFINE m == Frame("patch", t, line[t] + 1)
    <3>1. m \in Frames /\ m.kind = "patch" /\ m.t = t /\ m.n = line[t] + 1
      BY <1>3, FrameIs DEF FrameKinds
    <3>2. y = x \o <<m>>
      BY <2>4
    <3> HIDE DEF m
    <3>3. CASE u = t
      <4>1. LastIs(x \o <<m>>, m.t, m.n) /\ Tells(x \o <<m>>, m.t)
        BY <1>3, <3>1, PutAbout
      <4>2. sent'[u] = m.n
        BY <1>3, <2>4, <3>1, <3>3
      <4> QED BY <3>1, <3>2, <3>3, <4>1, <4>2 DEF Caught, LastIs, Tells, About
    <3>4. CASE u # t
      <4>1. sent'[u] = n
        BY <1>3, <2>1, <2>4, <3>4
      <4>2. (LastIs(x, u, n) => LastIs(y, u, n)) /\ (Tells(x, u) => Tells(y, u))
        <5> HIDE DEF n
        <5> QED BY <1>3, <3>1, <3>2, <3>4, PutOther
      <4> QED BY <2>2, <4>1, <4>2
    <3> QED BY <3>3, <3>4
  <2>5. CASE y = x \o <<Frame("status", t, 0)>> /\ sent' = sent
    <3> DEFINE m == Frame("status", t, 0)
    <3>1. m \in Frames /\ m.kind = "status"
      BY FrameIs DEF FrameKinds
    <3>2. y = x \o <<m>>
      BY <2>5
    <3> HIDE DEF m, n
    <3>3. (LastIs(x, u, n) => LastIs(y, u, n)) /\ (Tells(x, u) => Tells(y, u))
      BY <1>3, <3>1, <3>2, PutOther
    <3> QED BY <2>2, <2>5, <3>3 DEF n
  <2> QED BY <1>1, <2>3, <2>4, <2>5
<1>6. \A u \in Threads : pc'[Resync(u)] # "idle" => attempts'[u] > 0
  BY <1>2 DEF RevInv
<1> QED BY <1>1, <1>2, <1>4, <1>5, <1>6 DEF RevInv, Connected, Resync, Says

LEMMA DesktopGoneRev ==
  ASSUME Ctl, WireOK, RevInv, DesktopGone
  PROVE  RevInv'
<1>1. wire'.up = FALSE /\ desk' = desk /\ sent' = sent
  BY DesktopGoneWire
<1>2. pc' = pc /\ rev' = rev /\ attempts' = attempts
  BY DEF DesktopGone, client
<1> QED BY <1>1, <1>2, RevStays

LEMMA RevStep == Ctl /\ Ctl' /\ WireOK /\ FollowInv /\ RevInv /\ [Next]_vars => RevInv'
<1> SUFFICES ASSUME Ctl, Ctl', WireOK, FollowInv, RevInv, [Next]_vars PROVE RevInv'
  OBVIOUS
<1>1. CASE UNCHANGED vars
  BY <1>1, ClientRev
<1>2. CASE Next
  <2>1. ASSUME NEW c \in Calls, NEW op \in Ops, NEW t \in Threads, Begin(c, op, t) PROVE RevInv'
    BY <2>1, BeginRev
  <2>2. ASSUME NEW c \in Calls, RequestTimeout(c) \/ Disconnect(c) \/ Disconnected(c) PROVE RevInv'
    BY <2>2, ClientRev
  <2>3. ASSUME NEW p \in Procs, ConnectStep(p) \/ OpenRefused(p) PROVE RevInv'
    BY <2>3, ClientRev, WaiterRev, OpenRev DEF ConnectStep
  <2>4. ASSUME NEW g \in 1..MaxConnections, ReaderStep(g) PROVE RevInv'
    BY <2>4, ClientRev, ReadRev DEF ReaderStep
  <2>5. ReconnectWakes => RevInv'
    BY ClientRev
  <2>6. ASSUME NEW t \in Threads, ResyncWakes(t) PROVE RevInv'
    BY <2>6, WaiterRev
  <2> QED BY <1>2, <2>1, <2>2, <2>3, <2>4, <2>5, <2>6, DesktopFrameRev, DesktopTalkRev, DesktopGoneRev DEF Next
<1> QED BY <1>1, <1>2

LEMMA RevInit == Init => RevInv
  BY Kinds DEF Init, RevInv, Connected

LEMMA RevAlways == Spec => []IInv
<1>1. Init => IInv
  BY CtlInit, WireInit, FollowInit, RevInit DEF IInv, Ctl
<1>2. IInv /\ [Next]_vars => IInv'
  BY CtlStep, WireStep, FollowStep, RevStep DEF IInv, Ctl
<1> QED BY <1>1, <1>2, PTL DEF Spec

\* A gap is never taken for the current state.
THEOREM GapNoticedTheorem == Spec => []GapNoticed
<1>1. IInv => GapNoticed
  <2> SUFFICES ASSUME RevInv, Quiet, NEW t \in desk PROVE rev[t] = sent[t] \/ attempts[t] > 0 \/ sent[t] = 0
    BY DEF IInv, GapNoticed
  <2>1. ~Says(wire.out, t, "unfollow") /\ ~Tells(wire.in, t)
    BY DEF Quiet, Says, Tells
  <2> QED BY <2>1 DEF Quiet, RevInv, Caught
<1> QED BY <1>1, RevAlways, PTL
=============================================================================
