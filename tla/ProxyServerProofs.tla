--------------------------- MODULE ProxyServerProofs ---------------------------
(***************************************************************************)
(* Proof about ProxyServer, for any number of clients, chunks, inputs and   *)
(* events and any sizes: a client that joins gets the output without a gap. *)
(*                                                                          *)
(* A sequence of chunks that has no gap is given by its last one (EndsAt).  *)
(* The inductive invariant says where the history, the chunk of a broadcast *)
(* and what each client was sent end: a client whose task in the broadcast  *)
(* has run, or who joined meanwhile, is up to what was read; one whose task *)
(* has not is behind by the chunk it will be sent (SentInv).                *)
(***************************************************************************)
EXTENDS ProxyServer, SequenceTheorems, TLAPS

\* consecutive numbers up to n
EndsAt(s, n) == s \in Seq(Int) /\ \A i \in 1..Len(s) : s[i] = n - Len(s) + i

TypeInv ==
    /\ read \in Nat /\ cli \in [wrote : Nat, exited : BOOLEAN]
    /\ clients \subseteq Clients /\ sends \subseteq Clients
    /\ conn \in [Clients -> {"none", "open", "gone"}]
    /\ handler \in [Clients -> {"none", "history", "reading", "echo", "over"}]
    /\ sent \in [Clients -> Seq(Int)]

\* a client is served, and sent output, from its joining on
JoinInv ==
    \A c \in Clients : /\ conn[c] = "none" => handler[c] = "none"
                       /\ handler[c] = "none" => c \notin clients \cup sends

HistoryInv == EndsAt(history, read) /\ (history = <<>> => read = 0)

ChunkInv == sends # {} => chunk # <<>> /\ EndsAt(chunk, read)

Consecutive(s) == \A i \in 1..(Len(s) - 1) : s[i + 1] = s[i] + 1

SentInv ==
    \A c \in Clients :
        /\ Consecutive(sent[c])
        /\ conn[c] = "open" /\ c \in clients \ sends =>
             EndsAt(sent[c], read) /\ (sent[c] = <<>> => read = 0)
        /\ conn[c] = "open" /\ c \in sends => EndsAt(sent[c], read - Len(chunk))

IInv == TypeInv /\ JoinInv /\ HistoryInv /\ ChunkInv /\ SentInv

-----------------------------------------------------------------------------
(* Sequences of chunks. *)

LEMMA EndsAtConsecutive == ASSUME NEW n \in Int, NEW s, EndsAt(s, n) PROVE Consecutive(s)
<1>1. s \in Seq(Int) /\ Len(s) \in Nat
  BY LenProperties DEF EndsAt
<1>2. ASSUME NEW i \in 1..(Len(s) - 1) PROVE s[i + 1] = s[i] + 1
  <2>1. i \in 1..Len(s) /\ i + 1 \in 1..Len(s)
    BY <1>1
  <2>2. s[i] = n - Len(s) + i /\ s[i + 1] = n - Len(s) + (i + 1)
    BY <2>1 DEF EndsAt
  <2> QED BY <1>1, <2>2
<1> QED BY <1>2 DEF Consecutive

\* What comes next may be put behind.
LEMMA EndsAtConcat ==
    ASSUME NEW n \in Int, NEW s, NEW t, EndsAt(s, n - Len(t)), EndsAt(t, n)
    PROVE  EndsAt(s \o t, n)
<1>1. /\ s \in Seq(Int) /\ t \in Seq(Int) /\ Len(s) \in Nat /\ Len(t) \in Nat
  BY LenProperties DEF EndsAt
<1>2. /\ s \o t \in Seq(Int) /\ Len(s \o t) = Len(s) + Len(t)
      /\ \A i \in 1..Len(s) + Len(t) : (s \o t)[i] = IF i <= Len(s) THEN s[i] ELSE t[i - Len(s)]
  BY <1>1, ConcatProperties
<1>3. ASSUME NEW i \in 1..Len(s) + Len(t) PROVE (s \o t)[i] = n - (Len(s) + Len(t)) + i
  <2>1. CASE i <= Len(s)
    BY <1>1, <1>2, <2>1 DEF EndsAt
  <2>2. CASE i > Len(s)
    <3>1. i - Len(s) \in 1..Len(t)
      BY <1>1, <2>2
    <3> QED BY <1>1, <1>2, <2>2, <3>1 DEF EndsAt
  <2> QED BY <1>1, <2>1, <2>2
<1> QED BY <1>2, <1>3 DEF EndsAt

\* A rest of a sequence ends where the sequence ends.
LEMMA EndsAtRest ==
    ASSUME NEW n \in Int, NEW s, EndsAt(s, n), NEW m \in 1..Len(s)
    PROVE  EndsAt(SubSeq(s, m, Len(s)), n) /\ SubSeq(s, m, Len(s)) # <<>>
<1>1. s \in Seq(Int) /\ Len(s) \in Nat
  BY LenProperties DEF EndsAt
<1> DEFINE rest == SubSeq(s, m, Len(s))
<1>2. \A i \in m..Len(s) : s[i] \in Int
  BY <1>1, ElementOfSeq
<1>3. /\ rest \in Seq(Int) /\ Len(rest) = Len(s) - m + 1
      /\ \A i \in 1..Len(s) - m + 1 : rest[i] = s[m + i - 1]
  BY <1>1, <1>2, SubSeqProperties
<1>4. ASSUME NEW i \in 1..Len(rest) PROVE rest[i] = n - Len(rest) + i
  <2>1. m + i - 1 \in 1..Len(s) /\ rest[i] = s[m + i - 1]
    <3>1. i \in 1..Len(s) - m + 1
      BY <1>3
    <3>2. rest[i] = s[m + i - 1]
      BY <1>3, <3>1
    <3>3. m + i - 1 \in 1..Len(s)
      BY <1>1, <3>1
    <3> QED BY <3>2, <3>3
  <2> QED BY <1>1, <1>3, <2>1 DEF EndsAt
<1>5. rest # <<>>
  <2> HIDE DEF rest
  <2>1. Len(rest) # 0
    BY <1>1, <1>3
  <2> QED BY <2>1, EmptySeq
<1> QED BY <1>3, <1>4, <1>5 DEF EndsAt

\* The chunks that are read are the next ones.
LEMMA ChunksEnd ==
    ASSUME read \in Nat, NEW k \in Nat \ {0}
    PROVE  Chunks(k) # <<>> /\ Len(Chunks(k)) = k /\ EndsAt(Chunks(k), read + k)
<1>1. Chunks(k) \in [1..k -> Int]
  BY DEF Chunks
<1>2. Chunks(k) \in Seq(Int) /\ Len(Chunks(k)) = k
  BY <1>1
<1> QED BY <1>2 DEF EndsAt, Chunks

\* The history ends with what was read.
LEMMA RememberedEnds ==
    ASSUME TypeInv, HistoryInv, NEW k \in Nat \ {0}
    PROVE  EndsAt(Remembered(Chunks(k)), read + k) /\ Remembered(Chunks(k)) # <<>>
<1> DEFINE all == history \o Chunks(k)
           from == IF Len(all) > MaxHistory THEN Len(all) - MaxHistory + 1 ELSE 1
<1>1. read \in Nat /\ Len(Chunks(k)) = k /\ EndsAt(Chunks(k), read + k)
  BY ChunksEnd DEF TypeInv
<1>2. EndsAt(history, (read + k) - Len(Chunks(k)))
  <2>1. (read + k) - Len(Chunks(k)) = read
    BY <1>1
  <2> QED BY <2>1 DEF HistoryInv
<1>3. EndsAt(all, read + k)
  BY <1>2, <1>1, EndsAtConcat
<1>4. Len(all) = Len(history) + k /\ Len(history) \in Nat
  <2>1. history \in Seq(Int) /\ Chunks(k) \in Seq(Int)
    BY <1>2, <1>1 DEF EndsAt
  <2> QED BY <1>1, <2>1, ConcatProperties, LenProperties
<1>5. from \in 1..Len(all)
  BY <1>4, ServerAssumption
<1>6. EndsAt(SubSeq(all, from, Len(all)), read + k) /\ SubSeq(all, from, Len(all)) # <<>>
  <2> HIDE DEF all, from
  <2>1. read + k \in Int
    BY <1>1
  <2> QED BY <1>3, <1>5, <2>1, EndsAtRest
<1>7. Remembered(Chunks(k)) = SubSeq(all, from, Len(all))
  BY DEF Remembered
<1> QED BY <1>6, <1>7

-----------------------------------------------------------------------------
(* The invariant. *)

LEMMA InitIInv == Init => IInv
<1> SUFFICES ASSUME Init PROVE IInv
  OBVIOUS
<1> USE DEF Init
<1>1. TypeInv /\ JoinInv
  BY EmptySeq DEF TypeInv, JoinInv
<1>2. HistoryInv /\ ChunkInv
  BY EmptySeq DEF HistoryInv, ChunkInv, EndsAt
<1>3. SentInv
  BY EmptySeq DEF SentInv, Consecutive
<1> QED BY <1>1, <1>2, <1>3 DEF IInv

\* An action that sends no output and lets nobody join, and in which at most connections end,
\* clients are dropped and handlers go on.
LEMMA QuietStep ==
    ASSUME IInv, TypeInv',
           UNCHANGED <<read, history, sent, sends, chunk>>,
           clients' \subseteq clients,
           \A c \in Clients : conn'[c] = "open" => conn[c] = "open" \/ handler[c] = "none",
           \A c \in Clients : conn'[c] = "none" => conn[c] = "none",
           \A c \in Clients : handler'[c] = "none" <=> handler[c] = "none"
    PROVE  IInv'
<1> USE DEF IInv
<1>1. JoinInv'
  BY DEF JoinInv
<1>2. HistoryInv' /\ ChunkInv'
  BY DEF HistoryInv, ChunkInv, EndsAt
<1>3. SentInv'
  <2> SUFFICES ASSUME NEW c \in Clients
      PROVE  /\ Consecutive(sent'[c])
             /\ conn'[c] = "open" /\ c \in clients' \ sends' =>
                  EndsAt(sent'[c], read') /\ (sent'[c] = <<>> => read' = 0)
             /\ conn'[c] = "open" /\ c \in sends' => EndsAt(sent'[c], read' - Len(chunk'))
    BY DEF SentInv, Consecutive, EndsAt
  <2>1. CASE conn'[c] = "open" /\ conn[c] # "open"
    BY <2>1 DEF JoinInv, SentInv
  <2>2. CASE ~(conn'[c] = "open" /\ conn[c] # "open")
    BY <2>2 DEF SentInv
  <2> QED BY <2>1, <2>2
<1> QED BY <1>1, <1>2, <1>3

\* The actions that only let keys, waiting items and the bounds change.
IdleStep(c) ==
    \/ CliWrites \/ CliExits \/ HistoryDrained(c) \/ ClientSends(c) \/ HandleInput(c)
    \/ Echo(c) \/ Take(c) \/ Hang(c)

LEMMA CliTyped ==
    ASSUME TypeInv, CliWrites \/ CliExits PROVE cli' \in [wrote : Nat, exited : BOOLEAN]
<1>1. CASE CliWrites
  <2>1. cli' = [cli EXCEPT !.wrote = cli.wrote + 1] /\ cli.wrote + 1 \in Nat
    BY <1>1 DEF CliWrites, TypeInv
  <2> QED BY <2>1 DEF TypeInv
<1>2. CASE CliExits
  BY <1>2 DEF CliExits, TypeInv
<1> QED BY <1>1, <1>2

LEMMA IdleStepIInv == ASSUME IInv, NEW c \in Clients, IdleStep(c) PROVE IInv'
<1> USE DEF IInv
<1>1. /\ UNCHANGED <<read, history, sent, sends, chunk, clients, conn>>
      /\ UNCHANGED cli \/ CliWrites \/ CliExits
  BY DEF IdleStep, CliWrites, CliExits, HistoryDrained, ClientSends, HandleInput, Echo, Take,
         Hang, net
<1>2. \/ UNCHANGED handler
      \/ handler[c] # "none" /\ \E h \in {"reading", "echo"} : handler' = [handler EXCEPT ![c] = h]
  BY DEF IdleStep, CliWrites, CliExits, HistoryDrained, ClientSends, HandleInput, Echo, Take,
         Hang, net
<1>3. /\ handler' \in [Clients -> {"none", "history", "reading", "echo", "over"}]
      /\ \A d \in Clients : handler'[d] = "none" <=> handler[d] = "none"
  <2>1. CASE UNCHANGED handler
    BY <2>1 DEF TypeInv
  <2>2. ASSUME handler[c] # "none", NEW h \in {"reading", "echo"},
               handler' = [handler EXCEPT ![c] = h]
        PROVE  /\ handler' \in [Clients -> {"none", "history", "reading", "echo", "over"}]
               /\ \A d \in Clients : handler'[d] = "none" <=> handler[d] = "none"
    BY <2>2 DEF TypeInv
  <2> QED BY <1>2, <2>1, <2>2
<1>4. TypeInv'
  BY <1>1, <1>3, CliTyped DEF TypeInv
<1> QED BY <1>1, <1>3, <1>4, QuietStep

LEMMA ReadPtyIInv == ASSUME IInv, ReadPty PROVE IInv'
<1> USE DEF IInv
<1>1. PICK k \in 1..(cli.wrote - read) :
        /\ read' = read + k
        /\ history' = Remembered(Chunks(k))
        /\ sends' = clients
        /\ chunk' = IF clients = {} THEN <<>> ELSE Chunks(k)
  BY DEF ReadPty
<1>2. sends = {} /\ UNCHANGED <<cli, clients, conn, sent, handler>>
  BY DEF ReadPty
<1>3. k \in Nat \ {0} /\ read \in Nat
  BY DEF TypeInv
<1>4. EndsAt(Remembered(Chunks(k)), read + k) /\ Remembered(Chunks(k)) # <<>>
  BY <1>3, RememberedEnds
<1>5. Chunks(k) # <<>> /\ Len(Chunks(k)) = k /\ EndsAt(Chunks(k), read + k)
  BY <1>3, ChunksEnd
<1>6. TypeInv'
  BY <1>1, <1>2, <1>3 DEF TypeInv
<1>7. JoinInv'
  BY <1>1, <1>2 DEF JoinInv
<1>8. HistoryInv' /\ ChunkInv'
  BY <1>1, <1>4, <1>5 DEF HistoryInv, ChunkInv, EndsAt
<1>9. SentInv'
  <2> SUFFICES ASSUME NEW c \in Clients
      PROVE  /\ Consecutive(sent'[c])
             /\ conn'[c] = "open" /\ c \in clients' \ sends' =>
                  EndsAt(sent'[c], read') /\ (sent'[c] = <<>> => read' = 0)
             /\ conn'[c] = "open" /\ c \in sends' => EndsAt(sent'[c], read' - Len(chunk'))
    BY DEF SentInv, Consecutive, EndsAt
  <2>1. Consecutive(sent'[c]) /\ clients' \ sends' = {}
    BY <1>1, <1>2 DEF SentInv
  <2>2. ASSUME conn'[c] = "open", c \in sends' PROVE EndsAt(sent'[c], read' - Len(chunk'))
    <3>1. EndsAt(sent[c], read)
      BY <1>1, <1>2, <2>2 DEF SentInv
    <3>2. read' - Len(chunk') = read
      BY <1>1, <1>3, <1>5, <2>2
    <3> QED BY <1>2, <3>1, <3>2
  <2> QED BY <2>1, <2>2
<1> QED BY <1>6, <1>7, <1>8, <1>9

LEMMA SendOutputIInv == ASSUME IInv, NEW c \in Clients, SendOutput(c) PROVE IInv'
<1> USE DEF IInv
<1>1. /\ c \in sends /\ sends' = sends \ {c}
      /\ sent' = IF conn[c] = "open" THEN [sent EXCEPT ![c] = @ \o chunk] ELSE sent
      /\ UNCHANGED <<cli, read, history, clients, conn, chunk, handler>>
  BY DEF SendOutput
<1>2. CASE conn[c] # "open"
  <2>1. sent' = sent /\ TypeInv'
    BY <1>1, <1>2 DEF TypeInv
  <2>2. JoinInv' /\ HistoryInv' /\ ChunkInv'
    BY <1>1 DEF JoinInv, HistoryInv, ChunkInv, EndsAt
  <2>3. SentInv'
    <3> SUFFICES ASSUME NEW d \in Clients
        PROVE  /\ Consecutive(sent'[d])
               /\ conn'[d] = "open" /\ d \in clients' \ sends' =>
                    EndsAt(sent'[d], read') /\ (sent'[d] = <<>> => read' = 0)
               /\ conn'[d] = "open" /\ d \in sends' => EndsAt(sent'[d], read' - Len(chunk'))
      BY DEF SentInv, Consecutive, EndsAt
    <3> QED BY <1>1, <1>2, <2>1 DEF SentInv
  <2> QED BY <2>1, <2>2, <2>3
<1>3. CASE conn[c] = "open"
  <2>1. sent' = [sent EXCEPT ![c] = sent[c] \o chunk] /\ chunk # <<>> /\ EndsAt(chunk, read)
    BY <1>1, <1>3 DEF ChunkInv
  <2>2. EndsAt(sent[c], read - Len(chunk)) /\ read \in Int
    BY <1>1, <1>3 DEF SentInv, TypeInv
  <2>3. EndsAt(sent[c] \o chunk, read)
    BY <2>1, <2>2, EndsAtConcat
  <2>4. sent[c] \o chunk # <<>>
    <3>1. sent[c] \in Seq(Int) /\ chunk \in Seq(Int)
      BY <2>1, <2>2 DEF EndsAt
    <3>2. /\ Len(sent[c]) \in Nat /\ Len(chunk) \in Nat /\ Len(chunk) # 0
          /\ Len(sent[c] \o chunk) = Len(sent[c]) + Len(chunk)
      BY <2>1, <3>1, LenProperties, EmptySeq, ConcatProperties
    <3> QED BY <3>2, EmptySeq
  <2>5. sent'[c] = sent[c] \o chunk /\ \A d \in Clients \ {c} : sent'[d] = sent[d]
    BY <2>1 DEF TypeInv
  <2>6. TypeInv'
    <3>1. sent[c] \o chunk \in Seq(Int)
      BY <2>3 DEF EndsAt
    <3> QED BY <1>1, <2>1, <3>1 DEF TypeInv
  <2>7. JoinInv' /\ HistoryInv' /\ ChunkInv'
    BY <1>1 DEF JoinInv, HistoryInv, ChunkInv, EndsAt
  <2>8. SentInv'
    <3> SUFFICES ASSUME NEW d \in Clients
        PROVE  /\ Consecutive(sent'[d])
               /\ conn'[d] = "open" /\ d \in clients' \ sends' =>
                    EndsAt(sent'[d], read') /\ (sent'[d] = <<>> => read' = 0)
               /\ conn'[d] = "open" /\ d \in sends' => EndsAt(sent'[d], read' - Len(chunk'))
      BY DEF SentInv, Consecutive, EndsAt
    <3>1. CASE d = c
      <4>1. Consecutive(sent'[c])
        BY <2>2, <2>3, <2>5, EndsAtConsecutive
      <4> QED BY <1>1, <2>3, <2>4, <2>5, <3>1, <4>1
    <3>2. CASE d # c
      BY <1>1, <2>5, <3>2 DEF SentInv
    <3> QED BY <3>1, <3>2
  <2> QED BY <2>6, <2>7, <2>8
<1> QED BY <1>2, <1>3

LEMMA DrainedIInv == ASSUME IInv, NEW c \in Clients, Drained(c) PROVE IInv'
<1> USE DEF IInv
<1>1. UNCHANGED <<cli, read, history, clients, conn, sent, sends, handler>>
  BY DEF Drained
<1>2. chunk' = chunk \/ (sends = {} /\ chunk' = <<>>)
  BY DEF Drained
<1>3. TypeInv'
  BY <1>1 DEF TypeInv
<1>4. CASE chunk' = chunk
  BY <1>1, <1>3, <1>4, QuietStep
<1>5. CASE sends = {}
  <2>1. JoinInv' /\ HistoryInv' /\ ChunkInv'
    BY <1>1, <1>5 DEF JoinInv, HistoryInv, ChunkInv, EndsAt
  <2>2. SentInv'
    <3> SUFFICES ASSUME NEW d \in Clients
        PROVE  /\ Consecutive(sent'[d])
               /\ conn'[d] = "open" /\ d \in clients' \ sends' =>
                    EndsAt(sent'[d], read') /\ (sent'[d] = <<>> => read' = 0)
               /\ conn'[d] = "open" /\ d \in sends' => EndsAt(sent'[d], read' - Len(chunk'))
      BY DEF SentInv, Consecutive, EndsAt
    <3> QED BY <1>1, <1>5 DEF SentInv
  <2> QED BY <1>3, <2>1, <2>2
<1> QED BY <1>2, <1>4, <1>5

\* A client that joins is sent the history, which ends with what was read.
LEMMA JoinIInv == ASSUME IInv, NEW c \in Clients, Join(c) PROVE IInv'
<1> USE DEF IInv
<1>1. /\ conn[c] # "none" /\ handler[c] = "none"
      /\ clients' = clients \cup {c}
      /\ sent' = IF conn[c] = "open" THEN [sent EXCEPT ![c] = history] ELSE sent
      /\ handler' = [handler EXCEPT ![c] = "history"]
      /\ UNCHANGED <<cli, read, history, conn, chunk, sends>>
  BY DEF Join
<1>2. EndsAt(history, read) /\ (history = <<>> => read = 0) /\ history \in Seq(Int)
  BY DEF HistoryInv, EndsAt
<1>3. /\ sent'[c] = IF conn[c] = "open" THEN history ELSE sent[c]
      /\ \A d \in Clients \ {c} : sent'[d] = sent[d]
      /\ sent' \in [Clients -> Seq(Int)]
  BY <1>1, <1>2 DEF TypeInv
<1>4. handler'[c] = "history" /\ \A d \in Clients \ {c} : handler'[d] = handler[d]
  BY <1>1 DEF TypeInv
<1>5. TypeInv'
  BY <1>1, <1>3 DEF TypeInv
<1>6. JoinInv'
  <2> SUFFICES ASSUME NEW d \in Clients
      PROVE  /\ conn'[d] = "none" => handler'[d] = "none"
             /\ handler'[d] = "none" => d \notin clients' \cup sends'
    BY DEF JoinInv
  <2>1. CASE d = c
    BY <1>1, <1>4, <2>1
  <2>2. CASE d # c
    BY <1>1, <1>4, <2>2 DEF JoinInv
  <2> QED BY <2>1, <2>2
<1>7. HistoryInv' /\ ChunkInv'
  BY <1>1 DEF HistoryInv, ChunkInv, EndsAt
<1>8. SentInv'
  <2> SUFFICES ASSUME NEW d \in Clients
      PROVE  /\ Consecutive(sent'[d])
             /\ conn'[d] = "open" /\ d \in clients' \ sends' =>
                  EndsAt(sent'[d], read') /\ (sent'[d] = <<>> => read' = 0)
             /\ conn'[d] = "open" /\ d \in sends' => EndsAt(sent'[d], read' - Len(chunk'))
    BY DEF SentInv, Consecutive, EndsAt
  <2>1. CASE d = c
    <3>1. c \notin sends
      BY <1>1 DEF JoinInv
    <3>2. Consecutive(sent'[c])
      <4>1. Consecutive(history) /\ Consecutive(sent[c])
        BY <1>2, EndsAtConsecutive DEF SentInv, TypeInv
      <4> QED BY <1>3, <4>1
    <3> QED BY <1>1, <1>2, <1>3, <2>1, <3>1, <3>2
  <2>2. CASE d # c
    BY <1>1, <1>3, <2>2 DEF SentInv
  <2> QED BY <2>1, <2>2
<1> QED BY <1>5, <1>6, <1>7, <1>8

\* Connections begin and end, and a handler is over.
LEMMA ConnectionIInv ==
    ASSUME IInv, NEW c \in Clients, Connect(c) \/ Leave(c) \/ HandlerEnds(c)
    PROVE  IInv'
<1> USE DEF IInv
<1>1. UNCHANGED <<cli, read, history, sent, sends, chunk>> /\ clients' \subseteq clients
  BY DEF Connect, Leave, HandlerEnds
<1>2. CASE Connect(c)
  <2>1. conn[c] = "none" /\ conn' = [conn EXCEPT ![c] = "open"] /\ UNCHANGED <<handler, clients>>
    BY <1>2 DEF Connect
  <2>2. TypeInv'
    BY <1>1, <2>1 DEF TypeInv
  <2>3. /\ \A d \in Clients : conn'[d] = "open" => conn[d] = "open" \/ handler[d] = "none"
        /\ \A d \in Clients : conn'[d] = "none" => conn[d] = "none"
    BY <2>1 DEF TypeInv, JoinInv
  <2> QED BY <1>1, <2>1, <2>2, <2>3, QuietStep
<1>3. CASE Leave(c)
  <2>1. conn[c] = "open" /\ conn' = [conn EXCEPT ![c] = "gone"] /\ UNCHANGED <<handler, clients>>
    BY <1>3 DEF Leave
  <2>2. TypeInv'
    BY <1>1, <2>1 DEF TypeInv
  <2>3. /\ \A d \in Clients : conn'[d] = "open" => conn[d] = "open"
        /\ \A d \in Clients : conn'[d] = "none" => conn[d] = "none"
    BY <2>1 DEF TypeInv
  <2> QED BY <1>1, <2>1, <2>2, <2>3, QuietStep
<1>4. CASE HandlerEnds(c)
  <2>1. handler[c] = "reading" /\ handler' = [handler EXCEPT ![c] = "over"] /\ UNCHANGED conn
    BY <1>4 DEF HandlerEnds
  <2>2. TypeInv'
    BY <1>1, <2>1 DEF TypeInv
  <2>3. \A d \in Clients : handler'[d] = "none" <=> handler[d] = "none"
    BY <2>1 DEF TypeInv
  <2> QED BY <1>1, <2>1, <2>2, <2>3, QuietStep
<1> QED BY <1>2, <1>3, <1>4

LEMMA ShutdownIInv == ASSUME IInv, Shutdown PROVE IInv'
<1> USE DEF IInv
<1>1. /\ clients' = {} /\ sends' = {} /\ UNCHANGED <<read, history, conn, sent, handler>>
      /\ cli' = [cli EXCEPT !.exited = TRUE]
  BY DEF Shutdown
<1>2. TypeInv'
  BY <1>1 DEF TypeInv
<1>3. JoinInv' /\ HistoryInv' /\ ChunkInv'
  BY <1>1 DEF JoinInv, HistoryInv, ChunkInv, EndsAt
<1>4. SentInv'
  BY <1>1 DEF SentInv, Consecutive
<1> QED BY <1>2, <1>3, <1>4

LEMMA NextIInv == IInv /\ [Next]_vars => IInv'
<1> SUFFICES ASSUME IInv, [Next]_vars PROVE IInv'
  OBVIOUS
<1>1. CASE CliWrites \/ CliExits
  <2>1. CASE Clients = {}
    <3>1. UNCHANGED <<read, history, net>> /\ cli' \in [wrote : Nat, exited : BOOLEAN]
      BY <1>1, CliTyped DEF CliWrites, CliExits, IInv
    <3>2. TypeInv'
      BY <3>1 DEF net, IInv, TypeInv
    <3> QED BY <3>1, <3>2, QuietStep DEF net
  <2>2. CASE Clients # {}
    BY <1>1, <2>2, IdleStepIInv DEF IdleStep
  <2> QED BY <2>1, <2>2
<1>2. CASE ReadPty
  BY <1>2, ReadPtyIInv
<1>3. CASE PtyClosed \/ Signal
  BY <1>3, ShutdownIInv DEF PtyClosed, Signal
<1>4. ASSUME NEW c \in Clients,
             ServerStep(c) \/ Connect(c) \/ ClientSends(c) \/ Take(c) \/ Leave(c) \/ Hang(c)
      PROVE  IInv'
  <2>1. CASE SendOutput(c)
    BY <2>1, SendOutputIInv
  <2>2. CASE Drained(c)
    BY <2>2, DrainedIInv
  <2>3. CASE Join(c)
    BY <2>3, JoinIInv
  <2>4. CASE Connect(c) \/ Leave(c) \/ HandlerEnds(c)
    BY <2>4, ConnectionIInv
  <2>5. CASE IdleStep(c)
    BY <2>5, IdleStepIInv
  <2> QED BY <1>4, <2>1, <2>2, <2>3, <2>4, <2>5 DEF ServerStep, IdleStep
<1>5. CASE UNCHANGED vars
  <2>1. TypeInv'
    BY <1>5 DEF vars, net, IInv, TypeInv
  <2> QED BY <1>5, <2>1, QuietStep DEF vars, net
<1> QED BY <1>1, <1>2, <1>3, <1>4, <1>5 DEF Next

LEMMA IInvNoGap == IInv => NoGap
<1> SUFFICES ASSUME IInv PROVE NoGap
  OBVIOUS
<1>1. \A c \in Clients : \A i \in 1..(Len(sent[c]) - 1) : sent[c][i + 1] = sent[c][i] + 1
  BY DEF IInv, SentInv, Consecutive
<1>2. ASSUME NEW c \in clients \ sends, conn[c] = "open", read # 0
      PROVE  sent[c] # <<>> /\ Last(sent[c]) = read
  <2>1. c \in Clients /\ read \in Nat
    BY DEF IInv, TypeInv
  <2>2. EndsAt(sent[c], read) /\ sent[c] # <<>>
    BY <1>2, <2>1 DEF IInv, SentInv
  <2>3. sent[c] \in Seq(Int) /\ Len(sent[c]) \in Nat /\ Len(sent[c]) # 0
    BY <2>2, LenProperties, EmptySeq DEF EndsAt
  <2>4. sent[c][Len(sent[c])] = read - Len(sent[c]) + Len(sent[c])
    BY <2>2, <2>3 DEF EndsAt
  <2> QED BY <2>1, <2>2, <2>3, <2>4 DEF Last
<1> QED BY <1>1, <1>2 DEF NoGap

\* Whatever clients come, go, hang or type: what a client was sent has no gap and nothing twice,
\* and one that no task of the broadcast still owes anything has all that was read
\* (server.py _handle_client's history, _broadcast_output, ClientConnection.send).
THEOREM NoGapTheorem == Spec => []NoGap
<1>1. Init => IInv
  BY InitIInv
<1>2. IInv /\ [Next]_vars => IInv'
  BY NextIInv
<1>3. IInv => NoGap
  BY IInvNoGap
<1> QED BY <1>1, <1>2, <1>3, PTL DEF Spec
=============================================================================
