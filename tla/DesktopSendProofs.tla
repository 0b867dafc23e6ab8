--------------------------- MODULE DesktopSendProofs ---------------------------
(***************************************************************************)
(* Proofs about DesktopSend, for any chats, threads, messages and slots,    *)
(* any bounds, and any mixture of events.                                   *)
(*                                                                          *)
(* The inductive invariant joins three arguments.  The lock: the calls of a *)
(* chat wait in the order they came and only the first is past the lock     *)
(* (LockInv).  Memory: while a message nobody gave up is in one call, it is *)
(* remembered, and once Desktop has taken it the call can only return       *)
(* (OnceInv, LossInv).  Order: behind the call of a message there waits the *)
(* call of every later message of the chat (OrderInv).                      *)
(***************************************************************************)
EXTENDS DesktopSend, SequenceTheorems, TLAPS

Calls ==
    [op : {"none", "message", "answer", "interrupt"},
     chat : Chats \cup {None}, thread : Threads \cup {NoThread}, msg : Msgs \cup {None},
     ask : Nat, turn : Nat,
     at : {"free", "lock", "discover", "rpc", "publish"},
     kind : {"none", "steer", "start", "start v1", "answer", "interrupt"},
     to : 0..2, again : BOOLEAN, wire : {"none", "sent"} \cup Answers]

Views == [window : 1..2, turn : Nat, running : BOOLEAN, ask : Nat, kind : AllKinds \cup {"none"}]

TypeInv ==
    /\ desk \in [Threads -> Views] /\ seen \in [Threads -> Views]
    /\ owner \in [Threads -> 0..2]
    /\ bound \in [Chats -> Threads \cup {NoThread}]
    /\ budget \in [calls : Nat, asks : Nat, changes : Nat, events : Nat]
    /\ lock \in [Chats -> Seq(Slots)]
    /\ call \in [Slots -> Calls] /\ late \subseteq Calls
    /\ taken \in Seq(Msgs) /\ arrived \in Seq(Msgs)

\* what a call may be in the middle of
CallOK(r) ==
    /\ r.op = "none" <=> r.at = "free"
    /\ r.op # "none" => r.chat \in Chats /\ r.thread \in Threads
    /\ r.op = "message" => r.msg \in Msgs /\ r.chat = Home(r.msg) /\ r.kind # "interrupt"
    /\ r.kind \in {"steer", "start", "start v1"} => r.op = "message"
    /\ r.at = "publish" => r.op = "message"
    /\ r.op = "interrupt" => r.at \in {"discover", "rpc"}
    /\ r.wire \in Answers => r.at = "rpc"
    /\ r.wire = "inactive" => r.kind = "steer"

CallInv ==
    /\ \A k \in Slots : CallOK(call[k])
    /\ \A r \in late : CallOK(r) /\ r.op # "none" /\ (r.op = "message" => r.msg \in given)

Locking(r) == r.op \in {"message", "answer"}

LockInv ==
    /\ \A c \in Chats :
         /\ \A i, j \in 1..Len(lock[c]) : lock[c][i] = lock[c][j] => i = j
         /\ \A i \in 1..Len(lock[c]) : Locking(call[lock[c][i]]) /\ call[lock[c][i]].chat = c
         /\ \A i \in 2..Len(lock[c]) : call[lock[c][i]].at = "lock"
    /\ \A k \in Slots : Locking(call[k]) =>
         \E i \in 1..Len(lock[call[k].chat]) : lock[call[k].chat][i] = k

Sends(r, m) == r.op = "message" /\ r.msg = m
Done(r) == r.at = "publish" \/ (r.at = "rpc" /\ r.wire = "ok")

OnceInv ==
    \A m \in Msgs \ given :
        /\ \A k, l \in Slots : Sends(call[k], m) /\ Sends(call[l], m) => k = l
        /\ \A k \in Slots : Sends(call[k], m) => m \in recent
        /\ Taken(m) => m \in recent /\ \A k \in Slots : Sends(call[k], m) => Done(call[k])
        /\ \A i, j \in 1..Len(taken) : taken[i] = m /\ taken[j] = m => i = j

LossInv ==
    /\ \A k \in Slots : call[k].op = "message" /\ Done(call[k]) =>
         Taken(call[k].msg) \/ call[k].msg \in dropped
    /\ \A i \in 1..Len(arrived) :
         \/ \E k \in Slots : Sends(call[k], arrived[i])
         \/ Taken(arrived[i])
         \/ arrived[i] \in refused \cup dropped

AnswerOK(r) == r.wire = "ok" /\ r.kind = "answer" => r.ask \in decided

ResolvedInv == (\A k \in Slots : AnswerOK(call[k])) /\ ResolvedDecided

\* call k is before call l in the queue of chat c
Before(c, k, l) == \E p, q \in 1..Len(lock[c]) : p < q /\ lock[c][p] = k /\ lock[c][q] = l

Lost == given \cup refused

OrderInv ==
    /\ \A i \in 1..Len(arrived) : arrived[i] \in recent \cup Lost
    /\ \A i, j \in 1..Len(arrived) : i < j /\ arrived[i] = arrived[j] => arrived[i] \in Lost
    /\ \A i, j \in 1..Len(arrived) :
         i < j /\ Home(arrived[i]) = Home(arrived[j]) /\ {arrived[i], arrived[j]} \cap Lost = {} =>
           \A k \in Slots : Sends(call[k], arrived[i]) =>
             \E l \in Slots : Sends(call[l], arrived[j]) /\ Before(Home(arrived[i]), k, l)

MsgInv == OnceInv /\ LossInv /\ OrderInv /\ InOrder

IInv == TypeInv /\ CallInv /\ LockInv /\ MsgInv /\ ResolvedInv

-----------------------------------------------------------------------------
(* The lock. *)

LEMMA SlotFree == ASSUME Running # Slots PROVE Slot \in Slots /\ call[Slot].at = "free"
<1>1. \E s \in Slots : s \notin Running
  BY DEF Running
<1>2. Slot \in Slots \ Running
  BY <1>1 DEF Slot
<1> QED BY <1>2 DEF Running

\* A call is changed, or becomes free, but keeps its place: it only goes on past the lock as the
\* first of its queue.
LEMMA ChangeLock ==
    ASSUME TypeInv, CallInv, LockInv, NEW k \in Slots, NEW rec, rec \in Calls,
           call' = [call EXCEPT ![k] = rec], lock' = lock,
           Locking(rec) <=> Locking(call[k]), Locking(rec) => rec.chat = call[k].chat,
           Locking(rec) => call[k].at # "lock" \/ Holds(k)
    PROVE  LockInv'
<1>1. /\ \A l \in Slots : call'[l] = IF l = k THEN rec ELSE call[l]
      /\ \A c \in Chats : lock[c] \in Seq(Slots) /\ Len(lock[c]) \in Nat
      /\ \A c \in Chats : \A i \in 1..Len(lock[c]) : lock[c][i] \in Slots
  BY LenProperties, ElementOfSeq DEF TypeInv
<1>2. ASSUME NEW c \in Chats, NEW i \in 2..Len(lock[c]) PROVE lock[c][i] # k
  <2> SUFFICES ASSUME lock[c][i] = k PROVE FALSE
    OBVIOUS
  <2>1. i \in 1..Len(lock[c]) /\ 1 \in 1..Len(lock[c]) /\ i # 1
    BY <1>1, <1>2
  <2>2. Locking(call[k]) /\ call[k].chat = c /\ call[k].at = "lock"
    BY <2>1 DEF LockInv
  <2>3. lock[c] # <<>> /\ Head(lock[c]) = k
    BY <2>2 DEF Holds
  <2>4. Head(lock[c]) = lock[c][1]
    BY <1>1, <2>3
  <2> QED BY <2>1, <2>3, <2>4 DEF LockInv
<1>3. ASSUME NEW c \in Chats
      PROVE  /\ \A i, j \in 1..Len(lock[c]) : lock[c][i] = lock[c][j] => i = j
             /\ \A i \in 1..Len(lock[c]) : Locking(call'[lock[c][i]]) /\ call'[lock[c][i]].chat = c
             /\ \A i \in 2..Len(lock[c]) : call'[lock[c][i]].at = "lock"
  <2>1. \A i \in 1..Len(lock[c]) : Locking(call'[lock[c][i]]) /\ call'[lock[c][i]].chat = c
    BY <1>1 DEF LockInv
  <2>2. ASSUME NEW i \in 2..Len(lock[c]) PROVE call'[lock[c][i]].at = "lock"
    <3>1. i \in 1..Len(lock[c])
      BY <1>1
    <3> QED BY <1>1, <1>2, <3>1 DEF LockInv
  <2> QED BY <2>1, <2>2 DEF LockInv
<1>4. ASSUME NEW l \in Slots, Locking(call'[l])
      PROVE  \E i \in 1..Len(lock[call'[l].chat]) : lock[call'[l].chat][i] = l
  <2>1. Locking(call[l]) /\ call'[l].chat = call[l].chat
    BY <1>1, <1>4
  <2> QED BY <2>1 DEF LockInv
<1> QED BY <1>3, <1>4 DEF LockInv, Locking

LEMMA JoinLock ==
    ASSUME TypeInv, CallInv, LockInv, NEW s \in Slots, NEW rec, rec \in Calls,
           call[s].op = "none", Locking(rec), rec.chat \in Chats, rec.at = "lock",
           call' = [call EXCEPT ![s] = rec], lock' = [lock EXCEPT ![rec.chat] = Append(@, s)]
    PROVE  /\ LockInv' /\ lock' \in [Chats -> Seq(Slots)]
           /\ \A c \in Chats, k, l \in Slots : Before(c, k, l) => Before(c, k, l)'
           /\ \A k \in Slots : Locking(call[k]) /\ call[k].chat = rec.chat => Before(rec.chat, k, s)'
<1> DEFINE c == rec.chat
           q == lock[c]
           n == Len(q)
<1>1. /\ \A l \in Slots : call'[l] = IF l = s THEN rec ELSE call[l]
      /\ \A d \in Chats : lock[d] \in Seq(Slots) /\ Len(lock[d]) \in Nat
      /\ \A d \in Chats : \A i \in 1..Len(lock[d]) : lock[d][i] \in Slots
  BY LenProperties, ElementOfSeq DEF TypeInv
<1>2. /\ n \in Nat /\ Append(q, s) \in Seq(Slots) /\ Len(Append(q, s)) = n + 1
      /\ \A i \in 1..n : Append(q, s)[i] = q[i]
      /\ Append(q, s)[n + 1] = s
  BY <1>1, AppendProperties
<1>3. lock'[c] = Append(q, s) /\ \A d \in Chats : d # c => lock'[d] = lock[d]
  BY DEF TypeInv
<1>4. lock' \in [Chats -> Seq(Slots)]
  BY <1>2 DEF TypeInv
<1>5. \A d \in Chats : \A i \in 1..Len(lock[d]) : lock[d][i] # s
  BY DEF LockInv, Locking
<1>6. ASSUME NEW d \in Chats
      PROVE  /\ Len(lock'[d]) \in Nat /\ Len(lock[d]) <= Len(lock'[d])
             /\ \A i \in 1..Len(lock[d]) : lock'[d][i] = lock[d][i]
             /\ \A i \in 1..Len(lock'[d]) : i \in 1..Len(lock[d]) \/ (d = c /\ i = n + 1 /\ lock'[d][i] = s)
  <2>1. CASE d = c
    BY <1>2, <1>3, <2>1
  <2>2. CASE d # c
    BY <1>1, <1>3, <2>2
  <2> QED BY <2>1, <2>2
<1>7. ASSUME NEW d \in Chats
      PROVE  /\ \A i, j \in 1..Len(lock'[d]) : lock'[d][i] = lock'[d][j] => i = j
             /\ \A i \in 1..Len(lock'[d]) : Locking(call'[lock'[d][i]]) /\ call'[lock'[d][i]].chat = d
             /\ \A i \in 2..Len(lock'[d]) : call'[lock'[d][i]].at = "lock"
  <2> HIDE DEF c, q, n
  <2>1. \A i, j \in 1..Len(lock'[d]) : lock'[d][i] = lock'[d][j] => i = j
    BY <1>5, <1>6 DEF LockInv
  <2>2. ASSUME NEW i \in 1..Len(lock'[d]) PROVE Locking(call'[lock'[d][i]]) /\ call'[lock'[d][i]].chat = d
    BY <1>1, <1>5, <1>6 DEF LockInv, c
  <2>3. ASSUME NEW i \in 2..Len(lock'[d]) PROVE call'[lock'[d][i]].at = "lock"
    <3>1. CASE i \in 1..Len(lock[d])
      <4>1. i \in 2..Len(lock[d]) /\ lock'[d][i] = lock[d][i] /\ lock[d][i] # s /\ lock[d][i] \in Slots
        BY <1>1, <1>5, <1>6, <3>1
      <4> QED BY <1>1, <4>1 DEF LockInv
    <3>2. CASE i \notin 1..Len(lock[d])
      <4>1. lock'[d][i] = s
        BY <1>6, <3>2
      <4> QED BY <1>1, <4>1
    <3> QED BY <3>1, <3>2
  <2> QED BY <2>1, <2>2, <2>3
<1>8. ASSUME NEW l \in Slots, Locking(call'[l])
      PROVE  /\ call'[l].chat \in Chats
             /\ \E i \in 1..Len(lock'[call'[l].chat]) : lock'[call'[l].chat][i] = l
  <2>1. CASE l = s
    BY <1>1, <1>2, <1>3, <2>1
  <2>2. CASE l # s
    <3>1. call'[l] = call[l] /\ Locking(call[l])
      BY <1>1, <1>8, <2>2
    <3>2. call[l].chat \in Chats
      BY <3>1 DEF CallInv, CallOK, Locking
    <3>3. PICK i \in 1..Len(lock[call[l].chat]) : lock[call[l].chat][i] = l
      BY <3>1 DEF LockInv
    <3> QED BY <1>1, <1>6, <3>1, <3>2, <3>3
  <2> QED BY <2>1, <2>2
<1>9. LockInv'
  BY <1>7, <1>8 DEF LockInv, Locking
<1>10. ASSUME NEW d \in Chats, NEW k \in Slots, NEW l \in Slots, Before(d, k, l) PROVE Before(d, k, l)'
  BY <1>1, <1>6, <1>10 DEF Before
<1>11. ASSUME NEW k \in Slots, Locking(call[k]), call[k].chat = c PROVE Before(c, k, s)'
  <2>1. PICK i \in 1..n : q[i] = k
    BY <1>11 DEF LockInv
  <2> QED BY <1>2, <1>3, <2>1 DEF Before
<1> QED BY <1>4, <1>9, <1>10, <1>11

\* A call that is past the lock is the first of its queue.
LEMMA PastLockFirst ==
    ASSUME TypeInv, CallInv, LockInv, NEW k \in Slots, Locking(call[k]),
           call[k].at # "lock" \/ Holds(k)
    PROVE  LET q == lock[call[k].chat] IN
           /\ q # <<>> /\ q \in Seq(Slots) /\ Len(q) \in Nat /\ 1 \in 1..Len(q) /\ q[1] = k
<1> DEFINE q == lock[call[k].chat]
<1>1. call[k].chat \in Chats
  BY DEF CallInv, CallOK, Locking
<1>2. q \in Seq(Slots) /\ Len(q) \in Nat
  BY <1>1, LenProperties DEF TypeInv
<1>3. PICK i \in 1..Len(q) : q[i] = k
  BY DEF LockInv
<1>4. q # <<>> /\ 1 \in 1..Len(q)
  BY <1>2, <1>3, EmptySeq
<1>5. q[1] = k
  <2>1. CASE Holds(k)
    BY <1>2, <1>4, <2>1 DEF Holds
  <2>2. CASE call[k].at # "lock"
    <3>1. i \notin 2..Len(q)
      BY <1>1, <1>3, <2>2 DEF LockInv
    <3> QED BY <1>2, <1>3, <3>1
  <2> QED BY <2>1, <2>2
<1> QED BY <1>2, <1>4, <1>5

LEMMA EndsLock ==
    ASSUME TypeInv, CallInv, LockInv, NEW k \in Slots, Locking(call[k]),
           call[k].at # "lock" \/ Holds(k),
           call' = [call EXCEPT ![k] = Free],
           lock' = [lock EXCEPT ![call[k].chat] = Tail(@)]
    PROVE  /\ LockInv' /\ lock' \in [Chats -> Seq(Slots)]
           /\ \A c \in Chats, x, y \in Slots : x # k /\ Before(c, x, y) => y # k /\ Before(c, x, y)'
<1> DEFINE c == call[k].chat
           q == lock[c]
           n == Len(q)
<1>1. c \in Chats
  BY DEF CallInv, CallOK, Locking
<1>2. q # <<>> /\ q \in Seq(Slots) /\ n \in Nat /\ 1 \in 1..n /\ q[1] = k
  BY PastLockFirst
<1>3. /\ \A l \in Slots : call'[l] = IF l = k THEN Free ELSE call[l]
      /\ \A d \in Chats : lock[d] \in Seq(Slots) /\ Len(lock[d]) \in Nat
      /\ \A d \in Chats : \A i \in 1..Len(lock[d]) : lock[d][i] \in Slots
  BY LenProperties, ElementOfSeq DEF TypeInv
<1>4. /\ Tail(q) \in Seq(Slots) /\ Len(Tail(q)) = n - 1
      /\ \A i \in 1..Len(Tail(q)) : Tail(q)[i] = q[i + 1]
  BY <1>2, HeadTailProperties
<1>5. lock'[c] = Tail(q) /\ \A d \in Chats : d # c => lock'[d] = lock[d]
  BY <1>1 DEF TypeInv
<1>6. lock' \in [Chats -> Seq(Slots)]
  BY <1>4 DEF TypeInv
<1>7. /\ \A d \in Chats \ {c} : \A i \in 1..Len(lock[d]) : lock[d][i] # k
      /\ \A i \in 2..n : q[i] # k
      /\ \A i \in 1..n : q[i] \in Slots
  BY <1>1, <1>2, <1>3 DEF LockInv
<1> HIDE DEF c, q, n
<1>8. ASSUME NEW d \in Chats
      PROVE  /\ \A i, j \in 1..Len(lock'[d]) : lock'[d][i] = lock'[d][j] => i = j
             /\ \A i \in 1..Len(lock'[d]) : Locking(call'[lock'[d][i]]) /\ call'[lock'[d][i]].chat = d
             /\ \A i \in 2..Len(lock'[d]) : call'[lock'[d][i]].at = "lock"
  <2>1. CASE d = c
    <3>0. lock'[d] = Tail(q) /\ Len(lock'[d]) = n - 1 /\ n \in Nat
      BY <1>2, <1>4, <1>5, <2>1
    <3>1. ASSUME NEW i \in 1..Len(lock'[d])
          PROVE  /\ i + 1 \in 2..n /\ i + 1 \in 1..n /\ lock'[d][i] = q[i + 1]
                 /\ call'[q[i + 1]] = call[q[i + 1]]
      <4>1. i + 1 \in 2..n /\ i + 1 \in 1..n /\ lock'[d][i] = q[i + 1]
        <5>1. i \in 1..(n - 1) /\ i \in 1..Len(Tail(q))
          BY <1>4, <3>0
        <5>2. i + 1 \in 2..n /\ i + 1 \in 1..n
          BY <3>0, <5>1
        <5>3. lock'[d][i] = q[i + 1]
          BY <1>4, <3>0, <5>1
        <5> QED BY <5>2, <5>3
      <4>2. q[i + 1] # k /\ q[i + 1] \in Slots
        BY <1>7, <4>1
      <4> QED BY <1>3, <4>1, <4>2
    <3>2. /\ \A i, j \in 1..n : q[i] = q[j] => i = j
          /\ \A i \in 1..n : Locking(call[q[i]]) /\ call[q[i]].chat = d
          /\ \A i \in 2..n : call[q[i]].at = "lock"
      BY <2>1 DEF LockInv, q, n
    <3>3. \A i, j \in 1..Len(lock'[d]) : lock'[d][i] = lock'[d][j] => i = j
      <4> SUFFICES ASSUME NEW i \in 1..Len(lock'[d]), NEW j \in 1..Len(lock'[d]),
                          lock'[d][i] = lock'[d][j]
                   PROVE  i = j
        OBVIOUS
      <4>1. i + 1 \in 1..n /\ j + 1 \in 1..n /\ q[i + 1] = q[j + 1]
        BY <3>1
      <4>2. i + 1 = j + 1
        BY <3>2, <4>1
      <4> QED BY <3>0, <4>2
    <3>4. ASSUME NEW i \in 1..Len(lock'[d])
          PROVE  Locking(call'[lock'[d][i]]) /\ call'[lock'[d][i]].chat = d /\ call'[lock'[d][i]].at = "lock"
      <4>1. i + 1 \in 1..n /\ i + 1 \in 2..n /\ call'[lock'[d][i]] = call[q[i + 1]]
        BY <3>1
      <4>2. Locking(call[q[i + 1]]) /\ call[q[i + 1]].chat = d /\ call[q[i + 1]].at = "lock"
        BY <3>2, <4>1
      <4> QED BY <4>1, <4>2 DEF Locking
    <3>5. \A i \in 2..Len(lock'[d]) : i \in 1..Len(lock'[d])
      BY <3>0
    <3> QED BY <3>3, <3>4, <3>5
  <2>2. CASE d # c
    <3>1. \A i \in 1..Len(lock[d]) : call'[lock[d][i]] = call[lock[d][i]]
      BY <1>3, <1>7, <2>2
    <3>2. \A i \in 2..Len(lock[d]) : i \in 1..Len(lock[d])
      <4>1. Len(lock[d]) \in Nat
        BY <1>3
      <4> QED BY <4>1
    <3>3. /\ \A i, j \in 1..Len(lock[d]) : lock[d][i] = lock[d][j] => i = j
          /\ \A i \in 1..Len(lock[d]) : Locking(call'[lock[d][i]]) /\ call'[lock[d][i]].chat = d
          /\ \A i \in 2..Len(lock[d]) : call'[lock[d][i]].at = "lock"
      BY <3>1, <3>2 DEF LockInv
    <3>4. lock'[d] = lock[d]
      BY <1>5, <2>2
    <3>5. \A i, j \in 1..Len(lock'[d]) : lock'[d][i] = lock'[d][j] => i = j
      BY <3>3, <3>4
    <3>6. ASSUME NEW i \in 1..Len(lock'[d])
          PROVE  Locking(call'[lock'[d][i]]) /\ call'[lock'[d][i]].chat = d
      BY <3>3, <3>4 DEF Locking
    <3>7. \A i \in 2..Len(lock'[d]) : call'[lock'[d][i]].at = "lock"
      BY <3>3, <3>4
    <3> QED BY <3>5, <3>6, <3>7
  <2> QED BY <2>1, <2>2
<1>9. ASSUME NEW l \in Slots, Locking(call'[l])
      PROVE  \E i \in 1..Len(lock'[call'[l].chat]) : lock'[call'[l].chat][i] = l
  <2>1. l # k
    BY <1>3, <1>9 DEF Free, Locking
  <2>2. call'[l] = call[l] /\ Locking(call[l]) /\ call[l].chat \in Chats
    <3>1. call'[l] = call[l] /\ Locking(call[l])
      BY <1>3, <1>9, <2>1
    <3>2. CallOK(call[l])
      BY DEF CallInv
    <3> QED BY <3>1, <3>2 DEF CallOK, Locking
  <2>3. PICK i \in 1..Len(lock[call[l].chat]) : lock[call[l].chat][i] = l
    BY <2>2 DEF LockInv
  <2>4. CASE call[l].chat = c
    <3>1. i \in 1..n /\ q[i] = l /\ i # 1
      BY <1>2, <2>1, <2>3, <2>4 DEF q, n
    <3>2. i - 1 \in 1..Len(Tail(q)) /\ Tail(q)[i - 1] = q[(i - 1) + 1] /\ (i - 1) + 1 = i
      BY <1>2, <1>4, <3>1
    <3>3. lock'[call'[l].chat] = Tail(q)
      BY <1>5, <2>2, <2>4
    <3> QED BY <3>1, <3>2, <3>3
  <2>5. CASE call[l].chat # c
    BY <1>5, <2>2, <2>3, <2>5
  <2> QED BY <2>4, <2>5
<1>10. ASSUME NEW d \in Chats, NEW x \in Slots, NEW y \in Slots, x # k, Before(d, x, y)
       PROVE  y # k /\ Before(d, x, y)'
  <2>1. PICK a, b \in 1..Len(lock[d]) : a < b /\ lock[d][a] = x /\ lock[d][b] = y
    BY <1>10 DEF Before
  <2>2. CASE d = c
    <3>1. a \in 1..n /\ b \in 1..n /\ q[a] = x /\ q[b] = y /\ a # 1 /\ n \in Nat
      BY <1>2, <1>10, <2>1, <2>2 DEF q, n
    <3>2. /\ a - 1 \in 1..Len(Tail(q)) /\ b - 1 \in 1..Len(Tail(q)) /\ a - 1 < b - 1 /\ b \in 2..n
          /\ (a - 1) + 1 = a /\ (b - 1) + 1 = b
      BY <1>4, <2>1, <3>1
    <3>3. Tail(q)[a - 1] = x /\ Tail(q)[b - 1] = y
      BY <1>4, <3>1, <3>2
    <3>4. y # k
      BY <1>7, <3>1, <3>2
    <3>5. lock'[d] = Tail(q)
      BY <1>5, <2>2
    <3> QED BY <3>2, <3>3, <3>4, <3>5 DEF Before
  <2>3. CASE d # c
    BY <1>5, <1>7, <2>1, <2>3 DEF Before
  <2> QED BY <2>2, <2>3
<1> QED BY <1>6, <1>8, <1>9, <1>10 DEF LockInv

-----------------------------------------------------------------------------
(* Messages: what a step does to a call decides what becomes of its message. *)

\* A call goes on with its message, or ends it: as taken, as dropped, or as refused.
LEMMA CallStep ==
    ASSUME TypeInv, MsgInv, NEW k \in Slots, NEW rec, rec \in Calls,
           call' = [call EXCEPT ![k] = rec], UNCHANGED <<taken, arrived>>,
           given \subseteq given', refused \subseteq refused', dropped \subseteq dropped',
           rec.op = "message" => call[k].op = "message" /\ call[k].msg = rec.msg,
           rec.op = "message" => /\ Done(call[k]) => Done(rec)
                                 /\ Done(rec) => Done(call[k]) \/ rec.msg \in dropped',
           call[k].op = "message" => \/ rec.op = "message" \/ Done(call[k])
                                     \/ call[k].msg \in refused' \cup dropped',
           \/ recent' = recent
           \/ /\ call[k].op = "message" /\ rec.op # "message"
              /\ recent' = recent \ {call[k].msg} /\ call[k].msg \in refused'
              /\ ~Done(call[k]) \/ call[k].msg \in given',
           \A c \in Chats, x, y \in Slots :
               Before(c, x, y) /\ (x = k => rec.op = "message") =>
                   /\ y = k /\ call[k].op = "message" => rec.op = "message"
                   /\ Before(c, x, y)'
    PROVE  MsgInv'
<1>1. /\ \A l \in Slots : call'[l] = IF l = k THEN rec ELSE call[l]
      /\ taken \in Seq(Msgs) /\ arrived \in Seq(Msgs)
      /\ \A i \in 1..Len(arrived) : arrived[i] \in Msgs /\ Home(arrived[i]) \in Chats
  BY ElementOfSeq, ConstantsAssumption DEF TypeInv
<1>2. \A l \in Slots, m \in Msgs : Sends(call'[l], m) =>
          /\ Sends(call[l], m) /\ (Done(call[l]) => Done(call'[l]))
          /\ l = k => rec.op = "message"
  BY <1>1 DEF Sends
<1>3. \A m : Taken(m)' <=> Taken(m)
  BY DEF Taken
<1>4. OnceInv'
  <2> SUFFICES ASSUME NEW m \in Msgs, m \notin given'
               PROVE  /\ \A x, y \in Slots : Sends(call'[x], m) /\ Sends(call'[y], m) => x = y
                      /\ \A x \in Slots : Sends(call'[x], m) => m \in recent'
                      /\ Taken(m) => m \in recent' /\ \A x \in Slots : Sends(call'[x], m) => Done(call'[x])
                      /\ \A i, j \in 1..Len(taken) : taken[i] = m /\ taken[j] = m => i = j
    BY <1>3 DEF OnceInv, Sends, Done
  <2>1. /\ \A x, y \in Slots : Sends(call[x], m) /\ Sends(call[y], m) => x = y
        /\ \A x \in Slots : Sends(call[x], m) => m \in recent
        /\ Taken(m) => m \in recent /\ \A x \in Slots : Sends(call[x], m) => Done(call[x])
        /\ \A i, j \in 1..Len(taken) : taken[i] = m /\ taken[j] = m => i = j
    BY DEF MsgInv, OnceInv
  <2>2. CASE recent' = recent
    BY <1>2, <2>1, <2>2
  <2>3. CASE m # call[k].msg \/ call[k].op # "message"
    BY <1>2, <2>1, <2>3
  <2>4. CASE recent' # recent /\ call[k].op = "message" /\ m = call[k].msg
    <3>1. rec.op # "message" /\ ~Done(call[k]) /\ Sends(call[k], m)
      BY <2>4 DEF Sends
    <3>2. ~Taken(m)
      BY <2>1, <3>1
    <3>3. \A x \in Slots : ~Sends(call'[x], m)
      BY <1>2, <2>1, <3>1
    <3> QED BY <2>1, <3>2, <3>3
  <2> QED BY <2>2, <2>3, <2>4
<1>5. LossInv'
  <2>1. ASSUME NEW l \in Slots, call'[l].op = "message", Done(call'[l])
        PROVE  Taken(call'[l].msg) \/ call'[l].msg \in dropped'
    BY <1>1, <2>1 DEF MsgInv, LossInv
  <2>2. ASSUME NEW i \in 1..Len(arrived)
        PROVE  \/ \E l \in Slots : Sends(call'[l], arrived[i])
               \/ Taken(arrived[i])
               \/ arrived[i] \in refused' \cup dropped'
    <3>1. CASE \E l \in Slots : Sends(call[l], arrived[i])
      <4>1. PICK l \in Slots : Sends(call[l], arrived[i])
        BY <3>1
      <4>2. CASE l # k \/ rec.op = "message"
        BY <1>1, <4>1, <4>2 DEF Sends
      <4>3. CASE l = k /\ rec.op # "message"
        BY <4>1, <4>3 DEF Sends, MsgInv, LossInv
      <4> QED BY <4>2, <4>3
    <3>2. CASE ~ \E l \in Slots : Sends(call[l], arrived[i])
      BY <3>2 DEF MsgInv, LossInv
    <3> QED BY <3>1, <3>2
  <2> QED BY <1>3, <2>1, <2>2 DEF LossInv, Sends, Done
<1>6. OrderInv'
  <2>1. \A i \in 1..Len(arrived) : arrived[i] \in recent' \cup Lost'
    BY DEF MsgInv, OrderInv, Lost
  <2>2. \A i, j \in 1..Len(arrived) : i < j /\ arrived[i] = arrived[j] => arrived[i] \in Lost'
    BY DEF MsgInv, OrderInv, Lost
  <2>3. ASSUME NEW i \in 1..Len(arrived), NEW j \in 1..Len(arrived),
               i < j, Home(arrived[i]) = Home(arrived[j]), {arrived[i], arrived[j]} \cap Lost' = {},
               NEW x \in Slots, Sends(call'[x], arrived[i])
        PROVE  \E y \in Slots : Sends(call'[y], arrived[j]) /\ Before(Home(arrived[i]), x, y)'
    <3>1. Sends(call[x], arrived[i]) /\ {arrived[i], arrived[j]} \cap Lost = {} /\ (x = k => rec.op = "message")
      BY <1>1, <1>2, <2>3 DEF Lost
    <3>2. PICK y \in Slots : Sends(call[y], arrived[j]) /\ Before(Home(arrived[i]), x, y)
      BY <2>3, <3>1 DEF MsgInv, OrderInv
    <3>3. Before(Home(arrived[i]), x, y)' /\ (y = k => rec.op = "message")
      BY <1>1, <3>1, <3>2 DEF Sends
    <3>4. Sends(call'[y], arrived[j])
      BY <1>1, <3>2, <3>3 DEF Sends
    <3> QED BY <3>3, <3>4
  <2> QED BY <2>1, <2>2, <2>3 DEF OrderInv, Sends
<1>7. InOrder'
  BY DEF MsgInv, InOrder
<1> QED BY <1>4, <1>5, <1>6, <1>7 DEF MsgInv

\* Desktop takes the message of a call.
LEMMA TakeStep ==
    ASSUME TypeInv, LockInv, MsgInv, NEW k \in Slots, NEW rec, rec \in Calls,
           call[k].op = "message", ~Done(call[k]), call[k].msg \in Msgs,
           rec.op = "message", rec.msg = call[k].msg, Done(rec),
           call' = [call EXCEPT ![k] = rec], taken' = Append(taken, call[k].msg),
           UNCHANGED <<lock, arrived, given, refused, dropped, recent>>
    PROVE  MsgInv'
<1> DEFINE n == Len(taken)
           m == call[k].msg
<1>1. /\ n \in Nat /\ Len(taken') = n + 1 /\ taken'[n + 1] = m
      /\ \A i \in 1..n : taken'[i] = taken[i]
      /\ DOMAIN taken = 1..n /\ DOMAIN taken' = 1..(n + 1)
  BY AppendProperties, LenProperties DEF TypeInv
<1>2. /\ \A l \in Slots : call'[l] = IF l = k THEN rec ELSE call[l]
      /\ arrived \in Seq(Msgs) /\ DOMAIN arrived = 1..Len(arrived) /\ Len(arrived) \in Nat
      /\ \A i \in 1..Len(arrived) : arrived[i] \in Msgs /\ Home(arrived[i]) \in Chats
  BY ElementOfSeq, LenProperties, ConstantsAssumption DEF TypeInv
<1>3. \A x : Taken(x)' <=> Taken(x) \/ x = m
  BY <1>1 DEF Taken
<1>4. \A x : \A l \in Slots : Sends(call'[l], x) <=> Sends(call[l], x)
  BY <1>2 DEF Sends
<1>5. m \in Msgs \ given => ~Taken(m)
  BY DEF MsgInv, OnceInv, Sends
<1> HIDE DEF n, m
<1>6. OnceInv'
  <2> SUFFICES ASSUME NEW x \in Msgs, x \notin given
               PROVE  /\ \A a, b \in Slots : Sends(call'[a], x) /\ Sends(call'[b], x) => a = b
                      /\ \A a \in Slots : Sends(call'[a], x) => x \in recent
                      /\ Taken(x)' => x \in recent /\ \A a \in Slots : Sends(call'[a], x) => Done(call'[a])
                      /\ \A i, j \in 1..Len(taken') : taken'[i] = x /\ taken'[j] = x => i = j
    BY DEF OnceInv, Sends, Done
  <2>1. /\ \A a, b \in Slots : Sends(call[a], x) /\ Sends(call[b], x) => a = b
        /\ \A a \in Slots : Sends(call[a], x) => x \in recent
        /\ Taken(x) => x \in recent /\ \A a \in Slots : Sends(call[a], x) => Done(call[a])
        /\ \A i, j \in 1..n : taken[i] = x /\ taken[j] = x => i = j
    BY DEF MsgInv, OnceInv, n
  <2>2. CASE x = m
    <3>1. \A i \in 1..n : taken[i] # x
      BY <1>1, <1>5, <2>2 DEF Taken
    <3>2. Sends(call[k], x)
      BY <2>2 DEF Sends, m
    <3>3. \A a \in Slots : Sends(call'[a], x) => a = k /\ Done(call'[a])
      BY <1>2, <1>4, <2>1, <3>2
    <3> QED BY <1>1, <1>4, <2>1, <3>1, <3>2, <3>3
  <2>3. CASE x # m
    <3>1. \A a \in Slots : Sends(call'[a], x) => Sends(call[a], x) /\ call'[a] = call[a]
      BY <1>2, <1>4, <2>3 DEF Sends, m
    <3>2. \A i \in 1..Len(taken') : taken'[i] = x => i \in 1..n /\ taken[i] = x
      BY <1>1, <2>3
    <3> QED BY <1>3, <2>1, <2>3, <3>1, <3>2
  <2> QED BY <2>2, <2>3
<1>7. LossInv'
  <2>1. ASSUME NEW l \in Slots, call'[l].op = "message", Done(call'[l])
        PROVE  (\E i \in DOMAIN taken' : taken'[i] = call'[l].msg) \/ call'[l].msg \in dropped
    <3>1. CASE call'[l].msg = m
      BY <1>1, <3>1
    <3>2. CASE call'[l].msg # m
      <4>1. call[l].op = "message" /\ Done(call[l]) /\ call'[l].msg = call[l].msg
        BY <1>2, <2>1, <3>2 DEF m
      <4>2. (\E i \in DOMAIN taken : taken[i] = call[l].msg) \/ call[l].msg \in dropped
        BY <4>1 DEF MsgInv, LossInv, Taken
      <4> QED BY <1>1, <4>1, <4>2
    <3> QED BY <3>1, <3>2
  <2>2. ASSUME NEW i \in 1..Len(arrived)
        PROVE  \/ \E l \in Slots : Sends(call'[l], arrived[i])
               \/ \E j \in DOMAIN taken' : taken'[j] = arrived[i]
               \/ arrived[i] \in refused \cup dropped
    <3>1. CASE Taken(arrived[i])
      <4>1. PICK j \in 1..n : taken[j] = arrived[i]
        BY <1>1, <3>1 DEF Taken
      <4>2. j \in 1..(n + 1) /\ taken'[j] = arrived[i]
        BY <1>1, <4>1
      <4> QED BY <1>1, <4>2
    <3>2. CASE ~Taken(arrived[i])
      BY <1>4, <3>2 DEF MsgInv, LossInv
    <3> QED BY <3>1, <3>2
  <2> QED BY <2>1, <2>2 DEF LossInv, Sends, Done, Taken
<1>8. OrderInv'
  <2>1. Lost' = Lost /\ \A c, a, b : Before(c, a, b)' <=> Before(c, a, b)
    BY DEF Lost, Before
  <2>2. \A x : \A l \in Slots : Sends(call[l], x)' <=> Sends(call[l], x)
    BY <1>4 DEF Sends
  <2> QED BY <2>1, <2>2 DEF MsgInv, OrderInv
<1>9. InOrder'
  <2> SUFFICES ASSUME NEW i \in 1..Len(arrived), NEW j \in 1..Len(arrived),
                      NEW x \in 1..(n + 1), NEW y \in 1..(n + 1),
                      i < j, Home(arrived[i]) = Home(arrived[j]),
                      taken'[x] = arrived[i], taken'[y] = arrived[j],
                      {arrived[i], arrived[j]} \cap Lost = {}
               PROVE  x < y
    BY <1>1, <1>2 DEF InOrder, Lost
  <2>1. arrived[i] # arrived[j]
    BY DEF MsgInv, OrderInv
  <2>2. CASE x = n + 1
    <3>1. Sends(call[k], arrived[i]) /\ y \in 1..n /\ taken[y] = arrived[j]
      BY <1>1, <2>1, <2>2 DEF Sends, m
    <3>2. PICK l \in Slots : Sends(call[l], arrived[j]) /\ Before(Home(arrived[i]), k, l)
      BY <3>1 DEF MsgInv, OrderInv
    <3>3. Taken(arrived[j]) /\ arrived[j] \in Msgs \ given
      BY <1>1, <1>2, <3>1 DEF Taken, Lost
    <3>4. Done(call[l])
      BY <3>2, <3>3 DEF MsgInv, OnceInv
    <3>5. call[l].at = "lock"
      <4>1. PICK p, q \in 1..Len(lock[Home(arrived[i])]) : p < q /\ lock[Home(arrived[i])][q] = l
        BY <3>2 DEF Before
      <4>2. q \in 2..Len(lock[Home(arrived[i])])
        BY <4>1
      <4> QED BY <1>2, <4>1, <4>2 DEF LockInv
    <3> QED BY <3>4, <3>5 DEF Done
  <2>3. CASE x \in 1..n /\ y = n + 1
    BY <1>1, <2>3
  <2>4. CASE x \in 1..n /\ y \in 1..n
    <3>1. taken[x] = arrived[i] /\ taken[y] = arrived[j]
      BY <1>1, <2>4
    <3> QED BY <1>1, <1>2, <2>4, <3>1 DEF MsgInv, InOrder, Lost
  <2> QED BY <1>1, <2>2, <2>3, <2>4
<1> QED BY <1>6, <1>7, <1>8, <1>9 DEF MsgInv

\* Desktop takes, late, what a call gave up.
LEMMA TakeLateStep ==
    ASSUME TypeInv, MsgInv, NEW m \in Msgs, m \in given, taken' = Append(taken, m),
           UNCHANGED <<call, lock, arrived, given, refused, dropped, recent>>
    PROVE  MsgInv'
<1> DEFINE n == Len(taken)
<1>1. /\ n \in Nat /\ Len(taken') = n + 1 /\ taken'[n + 1] = m
      /\ \A i \in 1..n : taken'[i] = taken[i]
      /\ DOMAIN taken = 1..n /\ DOMAIN taken' = 1..(n + 1)
      /\ DOMAIN arrived = 1..Len(arrived)
  BY AppendProperties, LenProperties DEF TypeInv
<1>2. \A x : Taken(x) => \E i \in DOMAIN taken' : taken'[i] = x
  <2> SUFFICES ASSUME NEW x, Taken(x) PROVE \E i \in DOMAIN taken' : taken'[i] = x
    OBVIOUS
  <2>1. PICK i \in 1..n : taken[i] = x
    BY <1>1 DEF Taken
  <2>2. i \in 1..(n + 1)
    BY <1>1
  <2> QED BY <1>1, <2>1, <2>2
<1>3. \A i \in 1..(n + 1) : taken'[i] # m => i \in 1..n /\ taken'[i] = taken[i]
  BY <1>1
<1> HIDE DEF n
<1>4. OnceInv'
  <2> SUFFICES ASSUME NEW x \in Msgs, x \notin given
               PROVE  /\ \A a, b \in Slots : Sends(call[a], x) /\ Sends(call[b], x) => a = b
                      /\ \A a \in Slots : Sends(call[a], x) => x \in recent
                      /\ (\E i \in DOMAIN taken' : taken'[i] = x) =>
                           x \in recent /\ \A a \in Slots : Sends(call[a], x) => Done(call[a])
                      /\ \A i, j \in 1..Len(taken') : taken'[i] = x /\ taken'[j] = x => i = j
    BY DEF OnceInv, Sends, Done, Taken
  <2>1. (\E i \in DOMAIN taken' : taken'[i] = x) => Taken(x)
    BY <1>1, <1>3 DEF Taken
  <2>2. \A i \in 1..Len(taken') : taken'[i] = x => i \in 1..n /\ taken[i] = x
    BY <1>1, <1>3
  <2> QED BY <2>1, <2>2 DEF MsgInv, OnceInv, n
<1>5. LossInv'
  BY <1>2 DEF MsgInv, LossInv, Taken, Sends, Done
<1>6. OrderInv'
  BY DEF MsgInv, OrderInv, Lost, Before, Sends
<1>7. InOrder'
  <2> SUFFICES ASSUME NEW i \in DOMAIN arrived, NEW j \in DOMAIN arrived,
                      NEW x \in 1..(n + 1), NEW y \in 1..(n + 1),
                      i < j, Home(arrived[i]) = Home(arrived[j]),
                      taken'[x] = arrived[i], taken'[y] = arrived[j],
                      {arrived[i], arrived[j]} \cap Lost = {}
               PROVE  x < y
    BY <1>1 DEF InOrder, Lost
  <2>1. x \in 1..n /\ y \in 1..n /\ taken[x] = arrived[i] /\ taken[y] = arrived[j]
    BY <1>3 DEF Lost
  <2> QED BY <1>1, <2>1 DEF MsgInv, InOrder, Lost
<1> QED BY <1>4, <1>5, <1>6, <1>7 DEF MsgInv

\* A message the bridge does not remember comes in: its call queues behind those of its chat.
LEMMA ArriveStep ==
    ASSUME TypeInv, CallInv, LockInv, MsgInv, NEW s \in Slots, NEW rec, rec \in Calls,
           NEW m \in Msgs, m \notin recent, call[s].op = "none",
           rec.op = "message", rec.msg = m, rec.at = "lock", rec.chat = Home(m),
           call' = [call EXCEPT ![s] = rec], lock' = [lock EXCEPT ![rec.chat] = Append(@, s)],
           arrived' = Append(arrived, m), recent' = recent \cup {m},
           UNCHANGED <<taken, given, refused, dropped>>
    PROVE  MsgInv'
<1> DEFINE n == Len(arrived)
<1>1. /\ n \in Nat /\ Len(arrived') = n + 1 /\ arrived'[n + 1] = m
      /\ \A i \in 1..n : arrived'[i] = arrived[i]
      /\ DOMAIN arrived = 1..n /\ DOMAIN arrived' = 1..(n + 1)
      /\ \A i \in 1..n : arrived[i] \in Msgs
  BY AppendProperties, LenProperties, ElementOfSeq DEF TypeInv
<1>2. /\ \A l \in Slots : call'[l] = IF l = s THEN rec ELSE call[l]
      /\ Home(m) \in Chats /\ \A i \in 1..n : Home(arrived[i]) \in Chats
  BY <1>1, ConstantsAssumption DEF TypeInv
<1>3. /\ \A c \in Chats, k, l \in Slots : Before(c, k, l) => Before(c, k, l)'
      /\ \A k \in Slots : Locking(call[k]) /\ call[k].chat = rec.chat => Before(rec.chat, k, s)'
  BY <1>2, JoinLock DEF Locking
<1>4. \A x : Taken(x)' <=> Taken(x)
  BY DEF Taken
<1>5. /\ \A l \in Slots : l # s => call'[l] = call[l]
      /\ \A x : \A l \in Slots : Sends(call'[l], x) => (l = s /\ x = m) \/ (l # s /\ Sends(call[l], x))
      /\ Sends(call'[s], m) /\ ~Done(call'[s])
      /\ \A x : \A l \in Slots : Sends(call[l], x) => Sends(call'[l], x)
  BY <1>2 DEF Sends, Done
<1>6. m \notin given => ~Taken(m) /\ \A l \in Slots : ~Sends(call[l], m)
  BY DEF MsgInv, OnceInv
<1> HIDE DEF n
<1>7. OnceInv'
  <2> SUFFICES ASSUME NEW x \in Msgs, x \notin given
               PROVE  /\ \A a, b \in Slots : Sends(call'[a], x) /\ Sends(call'[b], x) => a = b
                      /\ \A a \in Slots : Sends(call'[a], x) => x \in recent'
                      /\ Taken(x) => x \in recent' /\ \A a \in Slots : Sends(call'[a], x) => Done(call'[a])
                      /\ \A i, j \in 1..Len(taken) : taken[i] = x /\ taken[j] = x => i = j
    BY <1>4 DEF OnceInv, Sends, Done
  <2>1. /\ \A a, b \in Slots : Sends(call[a], x) /\ Sends(call[b], x) => a = b
        /\ \A a \in Slots : Sends(call[a], x) => x \in recent
        /\ Taken(x) => x \in recent /\ \A a \in Slots : Sends(call[a], x) => Done(call[a])
        /\ \A i, j \in 1..Len(taken) : taken[i] = x /\ taken[j] = x => i = j
    BY DEF MsgInv, OnceInv
  <2>2. CASE x = m
    BY <1>5, <1>6, <2>1, <2>2
  <2>3. CASE x # m
    BY <1>5, <2>1, <2>3
  <2> QED BY <2>2, <2>3
<1>8. LossInv'
  <2>1. ASSUME NEW l \in Slots, call'[l].op = "message", Done(call'[l])
        PROVE  Taken(call'[l].msg) \/ call'[l].msg \in dropped
    BY <1>5, <2>1 DEF MsgInv, LossInv
  <2>2. ASSUME NEW i \in 1..Len(arrived')
        PROVE  \/ \E l \in Slots : Sends(call'[l], arrived'[i])
               \/ Taken(arrived'[i])
               \/ arrived'[i] \in refused \cup dropped
    <3>1. CASE i \in 1..n
      BY <1>1, <1>5, <3>1 DEF MsgInv, LossInv, n
    <3>2. CASE i = n + 1
      BY <1>1, <1>5, <3>2
    <3> QED BY <1>1, <3>1, <3>2
  <2> QED BY <2>1, <2>2 DEF LossInv, Sends, Done, Taken
<1>9. OrderInv'
  <2>1. ASSUME NEW i \in 1..Len(arrived') PROVE arrived'[i] \in recent' \cup Lost
    BY <1>1 DEF MsgInv, OrderInv, n
  <2>2. ASSUME NEW i \in 1..Len(arrived'), NEW j \in 1..Len(arrived'), i < j, arrived'[i] = arrived'[j]
        PROVE  arrived'[i] \in Lost
    <3>1. CASE j \in 1..n
      BY <1>1, <2>2, <3>1 DEF MsgInv, OrderInv, n
    <3>2. CASE j = n + 1
      <4>1. i \in 1..n /\ arrived[i] = m
        BY <1>1, <2>2, <3>2
      <4> QED BY <1>1, <4>1 DEF MsgInv, OrderInv, n
    <3> QED BY <1>1, <3>1, <3>2
  <2>3. ASSUME NEW i \in 1..Len(arrived'), NEW j \in 1..Len(arrived'), i < j,
               Home(arrived'[i]) = Home(arrived'[j]), {arrived'[i], arrived'[j]} \cap Lost = {},
               NEW k \in Slots, Sends(call'[k], arrived'[i])
        PROVE  \E l \in Slots : Sends(call'[l], arrived'[j]) /\ Before(Home(arrived[i]), k, l)'
    <3>1. i \in 1..n /\ arrived'[i] = arrived[i] /\ arrived[i] \in recent
      BY <1>1, <2>3 DEF MsgInv, OrderInv, n
    <3>2. k # s /\ call'[k] = call[k] /\ Sends(call[k], arrived[i])
      BY <1>5, <2>3, <3>1
    <3>3. CASE j \in 1..n
      <4>1. arrived'[j] = arrived[j]
        BY <1>1, <3>3
      <4>2. PICK l \in Slots : Sends(call[l], arrived[j]) /\ Before(Home(arrived[i]), k, l)
        BY <2>3, <3>1, <3>2, <3>3, <4>1 DEF MsgInv, OrderInv, n
      <4> QED BY <1>2, <1>3, <1>5, <3>1, <4>1, <4>2
    <3>4. CASE j = n + 1
      <4>1. arrived'[j] = m /\ Home(arrived[i]) = Home(m)
        BY <1>1, <2>3, <3>1, <3>4
      <4>2. Locking(call[k]) /\ call[k].chat = rec.chat
        <5>1. CallOK(call[k]) /\ call[k].op = "message" /\ call[k].msg = arrived[i]
          BY <3>2 DEF CallInv, Sends
        <5>2. call[k].chat = Home(call[k].msg)
          BY <5>1 DEF CallOK
        <5> QED BY <4>1, <5>1, <5>2 DEF Locking
      <4>3. Before(rec.chat, k, s)'
        BY <1>3, <4>2
      <4> QED BY <1>5, <4>1, <4>3
    <3> QED BY <1>1, <3>3, <3>4
  <2> QED BY <2>1, <2>2, <2>3 DEF OrderInv, Lost, Sends
<1>10. InOrder'
  <2> SUFFICES ASSUME NEW i \in 1..(n + 1), NEW j \in 1..(n + 1),
                      NEW x \in DOMAIN taken, NEW y \in DOMAIN taken,
                      i < j, Home(arrived'[i]) = Home(arrived'[j]),
                      taken[x] = arrived'[i], taken[y] = arrived'[j],
                      {arrived'[i], arrived'[j]} \cap Lost = {}
               PROVE  x < y
    BY <1>1 DEF InOrder, Lost
  <2>1. CASE j \in 1..n
    <3>1. i \in 1..n /\ arrived'[i] = arrived[i] /\ arrived'[j] = arrived[j]
      BY <1>1, <2>1
    <3> QED BY <1>1, <2>1, <3>1 DEF MsgInv, InOrder, Lost
  <2>2. CASE j = n + 1
    BY <1>1, <1>6, <2>2 DEF Taken, Lost
  <2> QED BY <1>1, <2>1, <2>2
<1> QED BY <1>7, <1>8, <1>9, <1>10 DEF MsgInv

-----------------------------------------------------------------------------
(* What is common to the actions of calls. *)

CallPart ==
    /\ call \in [Slots -> Calls] /\ lock \in [Chats -> Seq(Slots)]
    /\ \A k \in Slots : CallOK(call[k]) /\ AnswerOK(call[k])
    /\ LockInv /\ MsgInv

LEMMA FreeTyped == Free \in Calls /\ CallOK(Free) /\ ~Locking(Free) /\ ~Done(Free) /\ Free.wire = "none"
<1>1. Free \in Calls
  BY DEF Free, Calls, None
<1>2. CallOK(Free)
  BY DEF Free, CallOK, None, Answers
<1> QED BY <1>1, <1>2 DEF Free, Locking, Done

\* A call sends a request, for the first time or another.
LEMMA AskStep ==
    ASSUME IInv, NEW k \in Slots, NEW rec, rec \in Calls, NEW kind,
           kind \in {"steer", "start", "start v1", "answer", "interrupt"},
           Asking(k, rec, kind, FALSE), rec.chat \in Chats, rec.thread \in Threads,
           rec.op # "none", kind \in {"steer", "start", "start v1"} => rec.op = "message",
           kind = "interrupt" => rec.op # "message",
           rec.op # "interrupt" => /\ rec.op = call[k].op /\ rec.chat = call[k].chat
                                   /\ rec.msg = call[k].msg
                                   /\ call[k].at # "lock" \/ Holds(k),
           rec.op = "interrupt" => ~Locking(call[k]),
           call[k].op = "message" => ~Done(call[k]),
           UNCHANGED <<taken, arrived, decided, recent, refused, given, dropped>>
    PROVE  CallPart'
<1> DEFINE w == Where(rec.thread)
           v == Wire(rec.thread)
           o == owner[rec.thread]
           r == [rec EXCEPT !.kind = kind, !.again = FALSE, !.at = w, !.wire = v, !.to = o]
<1>1. call' = [call EXCEPT ![k] = r] /\ lock' = lock
  BY DEF Asking
<1>2. o \in 0..2 /\ w \in {"rpc", "discover"} /\ v \in {"sent", "none"}
  BY DEF IInv, TypeInv, Where, Wire
<1> HIDE DEF w, v, o
<1>3. /\ r \in Calls /\ r.op = rec.op /\ r.chat = rec.chat /\ r.msg = rec.msg /\ r.thread = rec.thread
      /\ r.kind = kind /\ r.at \in {"rpc", "discover"} /\ r.wire \in {"sent", "none"}
  <2>1. rec \in Calls /\ kind \in {"steer", "start", "start v1", "answer", "interrupt"}
    OBVIOUS
  <2>2. r \in Calls
    BY ONLY <1>2, <2>1 DEF Calls, r
  <2>3. /\ r.op = rec.op /\ r.chat = rec.chat /\ r.msg = rec.msg /\ r.thread = rec.thread
        /\ r.kind = kind /\ r.at = w /\ r.wire = v
    BY ONLY <2>1 DEF Calls, r
  <2> QED BY <1>2, <2>2, <2>3
<1> HIDE DEF r
<1>4. rec.op = "message" => rec.msg \in Msgs /\ rec.chat = Home(rec.msg)
  <2> SUFFICES ASSUME rec.op = "message" PROVE rec.msg \in Msgs /\ rec.chat = Home(rec.msg)
    OBVIOUS
  <2>1. CallOK(call[k]) /\ call[k].op = "message" /\ call[k].msg = rec.msg /\ call[k].chat = rec.chat
    BY DEF IInv, CallInv
  <2> QED BY <2>1 DEF CallOK
<1>5. CallOK(r) /\ AnswerOK(r) /\ ~Done(r)
  BY <1>3, <1>4 DEF CallOK, AnswerOK, Done, Answers
<1>6. Locking(r) <=> Locking(call[k])
  BY <1>3 DEF Locking, Calls
<1>7. LockInv'
  BY <1>1, <1>3, <1>6, ChangeLock DEF IInv, Locking
<1>8. MsgInv'
  <2>1. \A c \in Chats, x, y \in Slots : Before(c, x, y) => Before(c, x, y)'
    BY <1>1 DEF Before
  <2>2. /\ call[k].op = "message" => r.op = "message"
        /\ r.op = "message" => call[k].op = "message" /\ call[k].msg = r.msg
    BY <1>3 DEF Locking
  <2>3. /\ given \subseteq given' /\ refused \subseteq refused' /\ dropped \subseteq dropped'
        /\ recent' = recent /\ taken' = taken /\ arrived' = arrived
    OBVIOUS
  <2>4. /\ r.op = "message" => /\ Done(call[k]) => Done(r)
                               /\ Done(r) => Done(call[k]) \/ r.msg \in dropped'
        /\ call[k].op = "message" => \/ r.op = "message" \/ Done(call[k])
                                     \/ call[k].msg \in refused' \cup dropped'
    BY <1>5, <2>2
  <2>5. \A c \in Chats, x, y \in Slots :
            Before(c, x, y) /\ (x = k => r.op = "message") =>
                /\ y = k /\ call[k].op = "message" => r.op = "message"
                /\ Before(c, x, y)'
    BY <2>1, <2>2
  <2>6. TypeInv /\ MsgInv
    BY DEF IInv
  <2> QED BY ONLY <1>1, <1>3, <2>2, <2>3, <2>4, <2>5, <2>6, k \in Slots, CallStep
<1>9. \A l \in Slots : CallOK(call'[l]) /\ AnswerOK(call'[l])
  BY <1>1, <1>5 DEF IInv, TypeInv, CallInv, ResolvedInv, AnswerOK
<1> QED BY <1>1, <1>3, <1>7, <1>8, <1>9 DEF CallPart, IInv, TypeInv, AnswerOK

\* A call returns.
LEMMA EndStep ==
    ASSUME IInv, NEW k \in Slots, call[k].op # "none", Ends(k), call[k].at # "lock" \/ Holds(k),
           UNCHANGED <<taken, arrived, decided>>,
           given \subseteq given', refused \subseteq refused', dropped \subseteq dropped',
           call[k].op = "message" => Done(call[k]) \/ call[k].msg \in refused' \cup dropped',
           \/ recent' = recent
           \/ /\ call[k].op = "message" /\ recent' = recent \ {call[k].msg}
              /\ call[k].msg \in refused' /\ (~Done(call[k]) \/ call[k].msg \in given')
    PROVE  CallPart'
<1>1. call' = [call EXCEPT ![k] = Free]
  BY DEF Ends
<1>2. TypeInv /\ CallInv /\ LockInv /\ MsgInv /\ call[k] \in Calls
  BY DEF IInv, TypeInv
<1>3. Free.op # "message"
  BY DEF Free
<1>4. /\ LockInv' /\ lock' \in [Chats -> Seq(Slots)]
      /\ \A c \in Chats, x, y \in Slots :
             x # k /\ Before(c, x, y) => /\ y = k => call[k].op # "message"
                                         /\ Before(c, x, y)'
  <2>1. CASE call[k].op = "interrupt"
    <3>1. lock' = lock /\ ~Locking(call[k])
      BY <2>1 DEF Ends, Locking
    <3>2. LockInv'
      BY <1>1, <1>2, <3>1, FreeTyped, ChangeLock
    <3> QED BY <2>1, <3>1, <3>2, <1>2 DEF TypeInv, Before
  <2>2. CASE call[k].op # "interrupt"
    <3>1. lock' = [lock EXCEPT ![call[k].chat] = Tail(@)] /\ Locking(call[k])
      BY <1>2, <2>2 DEF Ends, Locking, Calls
    <3> QED BY <1>1, <1>2, <3>1, EndsLock
  <2> QED BY <2>1, <2>2
<1>5. MsgInv'
  <2>1. \A c \in Chats, x, y \in Slots :
            Before(c, x, y) /\ (x = k => Free.op = "message") =>
                /\ y = k /\ call[k].op = "message" => Free.op = "message"
                /\ Before(c, x, y)'
    BY <1>3, <1>4
  <2>2. /\ Free.op = "message" => call[k].op = "message" /\ call[k].msg = Free.msg
        /\ Free.op = "message" => /\ Done(call[k]) => Done(Free)
                                  /\ Done(Free) => Done(call[k]) \/ Free.msg \in dropped'
        /\ call[k].op = "message" => \/ Free.op = "message" \/ Done(call[k])
                                     \/ call[k].msg \in refused' \cup dropped'
    BY <1>3
  <2>3. \/ recent' = recent
        \/ /\ call[k].op = "message" /\ Free.op # "message"
           /\ recent' = recent \ {call[k].msg} /\ call[k].msg \in refused'
           /\ ~Done(call[k]) \/ call[k].msg \in given'
    BY <1>3
  <2>4. Free \in Calls /\ taken' = taken /\ arrived' = arrived
    BY FreeTyped
  <2>5. given \subseteq given' /\ refused \subseteq refused' /\ dropped \subseteq dropped'
    OBVIOUS
  <2> QED BY ONLY <1>1, <1>2, <2>1, <2>2, <2>3, <2>4, <2>5, k \in Slots, CallStep
<1>6. \A l \in Slots : CallOK(call'[l]) /\ AnswerOK(call'[l])
  <2>1. AnswerOK(Free)
    BY DEF Free, AnswerOK
  <2> QED BY <1>1, <2>1, FreeTyped DEF IInv, TypeInv, CallInv, ResolvedInv, AnswerOK
<1>7. call' \in [Slots -> Calls]
  BY <1>1, <1>2, FreeTyped DEF TypeInv
<1> QED BY <1>4, <1>5, <1>6, <1>7 DEF CallPart, AnswerOK

\* A call is given up before its message is known to be taken, and the user told.
LEMMA FailStep ==
    ASSUME IInv, NEW k \in Slots, call[k].op # "none", Fail(k), call[k].at # "lock" \/ Holds(k),
           UNCHANGED <<taken, arrived, decided, dropped>>, given \subseteq given',
           call[k].op = "message" => ~Done(call[k]) \/ call[k].msg \in given'
    PROVE  CallPart'
<1>1. Ends(k)
  BY DEF Fail
<1>2. CASE call[k].op = "message"
  <2>1. recent' = recent \ {call[k].msg} /\ refused' = refused \cup {call[k].msg}
    BY <1>2 DEF Fail
  <2> QED BY <1>1, <1>2, <2>1, EndStep
<1>3. CASE call[k].op # "message"
  <2>1. recent' = recent /\ refused' = refused
    BY <1>3 DEF Fail
  <2> QED BY <1>1, <1>3, <2>1, EndStep
<1> QED BY <1>2, <1>3

\* A message the thread is through with: the chat returns to the latest turn.
LEMMA LatestStep ==
    ASSUME IInv, NEW k \in Slots, call[k].op = "message", Latest(k), call[k].at # "lock" \/ Holds(k),
           UNCHANGED <<taken, arrived, decided, recent, refused, given>>, dropped \subseteq dropped',
           Done(call[k]) \/ call[k].msg \in dropped'
    PROVE  CallPart'
<1>1. CASE Ends(k)
  BY <1>1, EndStep
<1>2. CASE ~Ends(k)
  <2> DEFINE r == [call[k] EXCEPT !.at = "publish", !.wire = "none"]
  <2>1. lock' = lock /\ call' = [call EXCEPT ![k] = r]
    BY <1>2 DEF Latest, IInv, TypeInv
  <2>2. TypeInv /\ CallInv /\ LockInv /\ MsgInv /\ call[k] \in Calls /\ CallOK(call[k])
    BY DEF IInv, TypeInv, CallInv
  <2>3. /\ r \in Calls /\ r.op = "message" /\ r.msg = call[k].msg /\ r.chat = call[k].chat
        /\ r.thread = call[k].thread /\ r.kind = call[k].kind /\ r.at = "publish" /\ r.wire = "none"
    BY <2>2 DEF Calls
  <2> HIDE DEF r
  <2>4. CallOK(r) /\ AnswerOK(r) /\ Done(r) /\ Locking(r) /\ Locking(call[k])
    BY <2>2, <2>3 DEF CallOK, AnswerOK, Done, Locking, Answers
  <2>5. LockInv'
    BY <2>1, <2>2, <2>3, <2>4, ChangeLock
  <2>6. MsgInv'
    <3>1. \A c \in Chats, x, y \in Slots :
              Before(c, x, y) /\ (x = k => r.op = "message") =>
                  /\ y = k /\ call[k].op = "message" => r.op = "message"
                  /\ Before(c, x, y)'
      BY <2>1, <2>3 DEF Before
    <3>2. /\ given \subseteq given' /\ refused \subseteq refused' /\ dropped \subseteq dropped'
          /\ recent' = recent /\ taken' = taken /\ arrived' = arrived
      OBVIOUS
    <3>3. /\ r.op = "message" => call[k].op = "message" /\ call[k].msg = r.msg
          /\ r.op = "message" => /\ Done(call[k]) => Done(r)
                                 /\ Done(r) => Done(call[k]) \/ r.msg \in dropped'
      BY <2>3, <2>4
    <3> QED BY ONLY <2>1, <2>2, <2>3, <3>1, <3>2, <3>3, k \in Slots, CallStep
  <2>7. \A l \in Slots : CallOK(call'[l]) /\ AnswerOK(call'[l])
    BY <2>1, <2>4 DEF IInv, TypeInv, CallInv, ResolvedInv, AnswerOK
  <2> QED BY <2>1, <2>2, <2>3, <2>5, <2>6, <2>7 DEF CallPart, TypeInv, AnswerOK
<1> QED BY <1>1, <1>2

\* A call past the lock goes on, and its message is as little taken as before.
LEMMA GoOnStep ==
    ASSUME IInv, NEW k \in Slots, NEW r, r \in Calls, call' = [call EXCEPT ![k] = r], lock' = lock,
           r.op = call[k].op, r.chat = call[k].chat, r.msg = call[k].msg, call[k].at # "lock",
           call[k].op = "message" => ~Done(call[k]) /\ ~Done(r), CallOK(r),
           r.wire = "ok" /\ r.kind = "answer" => r.ask \in decided', decided \subseteq decided',
           UNCHANGED <<taken, arrived, recent, refused, given, dropped>>
    PROVE  CallPart'
<1>1. TypeInv /\ CallInv /\ LockInv /\ MsgInv
  BY DEF IInv
<1>2. LockInv'
  BY <1>1, ChangeLock DEF Locking
<1>3. MsgInv'
  <2>1. \A c \in Chats, x, y \in Slots :
            Before(c, x, y) /\ (x = k => r.op = "message") =>
                /\ y = k /\ call[k].op = "message" => r.op = "message"
                /\ Before(c, x, y)'
    BY DEF Before
  <2>2. /\ given \subseteq given' /\ refused \subseteq refused' /\ dropped \subseteq dropped'
        /\ recent' = recent /\ taken' = taken /\ arrived' = arrived
    OBVIOUS
  <2>3. /\ r.op = "message" => call[k].op = "message" /\ call[k].msg = r.msg
        /\ r.op = "message" => /\ Done(call[k]) => Done(r)
                               /\ Done(r) => Done(call[k]) \/ r.msg \in dropped'
        /\ call[k].op = "message" => \/ r.op = "message" \/ Done(call[k])
                                     \/ call[k].msg \in refused' \cup dropped'
    OBVIOUS
  <2>4. r \in Calls /\ call' = [call EXCEPT ![k] = r]
    OBVIOUS
  <2> QED BY ONLY <1>1, <2>1, <2>2, <2>3, <2>4, k \in Slots, CallStep
<1>4. \A l \in Slots : CallOK(call'[l]) /\ (call'[l].wire = "ok" /\ call'[l].kind = "answer" => call'[l].ask \in decided')
  BY DEF IInv, TypeInv, CallInv, ResolvedInv, AnswerOK
<1> QED BY <1>1, <1>2, <1>3, <1>4 DEF CallPart, TypeInv, AnswerOK

RestPart ==
    /\ desk \in [Threads -> Views] /\ seen \in [Threads -> Views]
    /\ owner \in [Threads -> 0..2]
    /\ bound \in [Chats -> Threads \cup {NoThread}]
    /\ budget \in [calls : Nat, asks : Nat, changes : Nat, events : Nat]
    /\ late \subseteq Calls /\ taken \in Seq(Msgs) /\ arrived \in Seq(Msgs)
    /\ \A r \in late : CallOK(r) /\ r.op # "none" /\ (r.op = "message" => r.msg \in given)
    /\ ResolvedDecided

LEMMA IInvParts == IInv => CallPart /\ RestPart
BY DEF IInv, TypeInv, CallInv, ResolvedInv, CallPart, RestPart

LEMMA PartsIInv == ASSUME CallPart', RestPart' PROVE IInv'
BY DEF IInv, TypeInv, CallInv, ResolvedInv, CallPart, RestPart

\* A step that no call and no message takes part in.
LEMMA QuietMsg ==
    ASSUME MsgInv, call' = call, lock' = lock, taken' = taken, arrived' = arrived,
           recent' = recent, refused' = refused, given' = given, dropped' = dropped
    PROVE  MsgInv'
<1>1. OnceInv' /\ LossInv'
  BY DEF MsgInv, OnceInv, LossInv, Taken
<1>2. Lost' = Lost /\ \A c, k, l : Before(c, k, l)' <=> Before(c, k, l)
  BY DEF Lost, Before
<1>3. OrderInv'
  BY <1>2 DEF MsgInv, OrderInv
<1>4. InOrder'
  BY DEF MsgInv, InOrder
<1> QED BY <1>1, <1>3, <1>4 DEF MsgInv

LEMMA QuietStep ==
    ASSUME IInv,
           UNCHANGED <<call, lock, taken, arrived, decided, recent, refused, given, dropped>>
    PROVE  CallPart'
<1>1. /\ call' = call /\ lock' = lock /\ taken' = taken /\ arrived' = arrived /\ decided' = decided
      /\ recent' = recent /\ refused' = refused /\ given' = given /\ dropped' = dropped
  OBVIOUS
<1>2. LockInv'
  BY <1>1 DEF IInv, LockInv
<1>3. MsgInv'
  BY <1>1, QuietMsg DEF IInv
<1>4. \A k \in Slots : CallOK(call'[k]) /\ AnswerOK(call'[k])
  BY <1>1 DEF IInv, CallInv, ResolvedInv, AnswerOK
<1> QED BY <1>1, <1>2, <1>3, <1>4 DEF CallPart, IInv, TypeInv, AnswerOK

LEMMA SpendTyped ==
    ASSUME budget \in [calls : Nat, asks : Nat, changes : Nat, events : Nat],
           NEW what, what \in {"calls", "asks", "changes", "events"}, NEW max, Spend(what, max)
    PROVE  budget' \in [calls : Nat, asks : Nat, changes : Nat, events : Nat]
<1>1. budget' = [budget EXCEPT ![what] = budget[what] + 1]
  BY DEF Spend
<1>2. CASE what = "calls"
  BY <1>1, <1>2
<1>3. CASE what = "asks"
  BY <1>1, <1>3
<1>4. CASE what = "changes"
  BY <1>1, <1>4
<1>5. CASE what = "events"
  BY <1>1, <1>5
<1> QED BY <1>2, <1>3, <1>4, <1>5

\* What Desktop does with a request.
LEMMA HandleStep ==
    ASSUME TypeInv, NEW r, r \in Calls, CallOK(r), r.op # "none", NEW answer, Handle(r, answer)
    PROVE  /\ desk' \in [Threads -> Views] /\ decided \subseteq decided'
           /\ answer \in Answers /\ (answer = "inactive" => r.kind = "steer")
           /\ answer = "ok" /\ r.kind = "answer" => r.ask \in decided'
           /\ \/ taken' = taken /\ (answer = "ok" => r.op # "message")
              \/ taken' = Append(taken, r.msg) /\ r.op = "message" /\ answer = "ok"
<1> DEFINE t == r.thread
           d == desk[t]
<1>1. t \in Threads /\ d \in Views
  BY DEF TypeInv, CallOK
<1>2. CASE UNCHANGED desk
  BY <1>2 DEF Handle, TypeInv, CallOK, Answers
<1>3. CASE desk' # desk
  <2>1. CASE /\ r.kind \in {"start", "start v1"} /\ UNCHANGED decided /\ answer = "ok"
             /\ taken' = Append(taken, r.msg)
             /\ desk' = [desk EXCEPT ![r.thread].turn = IF d.running THEN @ ELSE @ + 1,
                                     ![r.thread].running = TRUE]
    <3> DEFINE n == IF d.running THEN d.turn ELSE d.turn + 1
    <3>0. n \in Nat
      BY <1>1 DEF Views
    <3>1. desk' = [desk EXCEPT ![t] = [d EXCEPT !.turn = n, !.running = TRUE]]
      BY <1>1, <2>1 DEF TypeInv
    <3> HIDE DEF n
    <3>2. [d EXCEPT !.turn = n, !.running = TRUE] \in Views
      BY <1>1, <3>0 DEF Views
    <3>3. desk' \in [Threads -> Views]
      BY <1>1, <3>1, <3>2 DEF TypeInv
    <3> QED BY <2>1, <3>3 DEF CallOK, Answers
  <2>2. CASE /\ r.kind = "answer" /\ answer = "ok" /\ decided' = decided \cup {r.ask}
             /\ taken' = IF r.op = "message" THEN Append(taken, r.msg) ELSE taken
             /\ desk' = [desk EXCEPT ![r.thread].ask = None, ![r.thread].kind = "none"]
    <3>1. desk' = [desk EXCEPT ![t] = [d EXCEPT !.ask = 0, !.kind = "none"]]
      BY <1>1, <2>2 DEF TypeInv, None
    <3>2. desk' \in [Threads -> Views]
      BY <1>1, <3>1 DEF TypeInv, Views
    <3> QED BY <2>2, <3>2 DEF Answers
  <2>3. CASE /\ r.kind = "interrupt" /\ answer = "ok" /\ UNCHANGED <<taken, decided>>
             /\ desk' = [desk EXCEPT ![r.thread] =
                            [@ EXCEPT !.running = FALSE, !.ask = None, !.kind = "none"]]
    <3>1. desk' = [desk EXCEPT ![t] = [d EXCEPT !.running = FALSE, !.ask = 0, !.kind = "none"]]
      BY <1>1, <2>3 DEF TypeInv, None
    <3>2. desk' \in [Threads -> Views]
      BY <1>1, <3>1 DEF TypeInv, Views
    <3> QED BY <2>3, <3>2 DEF CallOK, Answers
  <2> QED BY <1>3, <2>1, <2>2, <2>3 DEF Handle
<1> QED BY <1>2, <1>3

-----------------------------------------------------------------------------
(* The actions. *)

LEMMA InitIInv == Init => IInv
<1> SUFFICES ASSUME Init PROVE IInv
  OBVIOUS
<1>1. /\ \A c \in Chats : lock[c] = <<>> /\ Len(lock[c]) = 0 /\ lock[c] \in Seq(Slots)
      /\ Len(taken) = 0 /\ taken \in Seq(Msgs) /\ Len(arrived) = 0 /\ arrived \in Seq(Msgs)
      /\ DOMAIN arrived = {} /\ DOMAIN taken = {}
  BY EmptySeq, LenProperties DEF Init
<1>2. \A k \in Slots : call[k] = Free
  BY DEF Init
<1>3. TypeInv
  <2>1. /\ desk \in [Threads -> Views] /\ seen \in [Threads -> Views] /\ owner \in [Threads -> 0..2]
        /\ bound \in [Chats -> Threads \cup {NoThread}]
        /\ budget \in [calls : Nat, asks : Nat, changes : Nat, events : Nat] /\ late \subseteq Calls
    BY DEF Init, Views, None
  <2>2. call \in [Slots -> Calls]
    BY FreeTyped DEF Init
  <2>3. lock \in [Chats -> Seq(Slots)]
    BY <1>1 DEF Init
  <2> QED BY <1>1, <2>1, <2>2, <2>3 DEF TypeInv
<1>4. CallInv
  BY <1>2, FreeTyped DEF CallInv, Init
<1>5. LockInv
  BY <1>1, <1>2, FreeTyped DEF LockInv
<1>6. OnceInv /\ LossInv
  BY <1>1, <1>2, FreeTyped DEF OnceInv, LossInv, Taken, Sends, Free
<1>7. OrderInv /\ InOrder
  BY <1>1 DEF OrderInv, InOrder
<1>8. ResolvedInv
  BY <1>2 DEF ResolvedInv, AnswerOK, Free, ResolvedDecided, Init
<1> QED BY <1>3, <1>4, <1>5, <1>6, <1>7, <1>8 DEF IInv, MsgInv

LEMMA DiscoverIInv == ASSUME IInv, NEW k \in Slots, Discover(k) PROVE IInv'
<1> DEFINE w == desk[call[k].thread].window
           r == [call[k] EXCEPT !.at = "rpc", !.wire = "sent", !.to = w]
<1>1. call[k] \in Calls /\ CallOK(call[k]) /\ call[k].at = "discover"
  BY DEF IInv, TypeInv, CallInv, Discover
<1>2. w \in 0..2 /\ call[k].thread \in Threads
  <2>1. call[k].thread \in Threads
    BY <1>1 DEF CallOK
  <2>2. desk[call[k].thread] \in Views
    BY <2>1 DEF IInv, TypeInv
  <2> QED BY <2>1, <2>2 DEF Views
<1>3. call' = [call EXCEPT ![k] = r] /\ lock' = lock /\ owner' = [owner EXCEPT ![call[k].thread] = w]
  BY <1>1 DEF Discover, IInv, TypeInv
<1>4. UNCHANGED <<desktop, seen, bound, resolved, history, budget, recent>>
  BY DEF Discover
<1> HIDE DEF w
<1>5. /\ r \in Calls /\ r.op = call[k].op /\ r.chat = call[k].chat /\ r.msg = call[k].msg
      /\ r.thread = call[k].thread /\ r.kind = call[k].kind /\ r.at = "rpc" /\ r.wire = "sent"
  BY <1>1, <1>2 DEF Calls
<1> HIDE DEF r
<1>6. CallOK(r) /\ ~Done(r) /\ ~Done(call[k])
  BY <1>1, <1>5 DEF CallOK, Done, Answers
<1>7. CallPart'
  BY <1>1, <1>3, <1>4, <1>5, <1>6, GoOnStep DEF desktop, history
<1>8. RestPart'
  BY <1>2, <1>3, <1>4, IInvParts DEF RestPart, desktop, history, ResolvedDecided
<1> QED BY <1>7, <1>8, PartsIInv

LEMMA PublishedIInv == ASSUME IInv, NEW k \in Slots, Published(k) PROVE IInv'
<1>1. CallOK(call[k]) /\ call[k].at = "publish" /\ Ends(k) /\ UNCHANGED <<desktop, bridge, history, budget>>
  BY DEF IInv, CallInv, Published
<1>2. call[k].op # "none" /\ Done(call[k])
  BY <1>1 DEF CallOK, Done
<1>3. CallPart'
  BY <1>1, <1>2, EndStep DEF desktop, bridge, history
<1>4. RestPart'
  BY <1>1, IInvParts DEF RestPart, desktop, bridge, history, ResolvedDecided
<1> QED BY <1>3, <1>4, PartsIInv

\* A call joins the queue of its chat that is not a message.
LEMMA JoinStep ==
    ASSUME IInv, NEW rec, rec \in Calls, Join(rec), rec.op = "answer", rec.at = "lock",
           CallOK(rec), rec.wire = "none",
           UNCHANGED <<taken, arrived, decided, recent, refused, given, dropped>>
    PROVE  CallPart'
<1>1. /\ Slot \in Slots /\ call[Slot].at = "free"
      /\ call' = [call EXCEPT ![Slot] = rec] /\ lock' = [lock EXCEPT ![rec.chat] = Append(@, Slot)]
  BY SlotFree DEF Join
<1>2. call[Slot].op = "none"
  BY <1>1 DEF IInv, CallInv, CallOK
<1>3. TypeInv /\ CallInv /\ LockInv /\ MsgInv /\ rec.chat \in Chats /\ Locking(rec)
  BY DEF IInv, CallOK, Locking
<1>4. /\ LockInv' /\ lock' \in [Chats -> Seq(Slots)]
      /\ \A c \in Chats, k, l \in Slots : Before(c, k, l) => Before(c, k, l)'
  BY ONLY <1>1, <1>2, <1>3, rec \in Calls, rec.at = "lock", JoinLock
<1>5. MsgInv'
  <2>1. \A c \in Chats, x, y \in Slots :
            Before(c, x, y) /\ (x = Slot => rec.op = "message") =>
                /\ y = Slot /\ call[Slot].op = "message" => rec.op = "message"
                /\ Before(c, x, y)'
    BY <1>2, <1>4
  <2>2. /\ given \subseteq given' /\ refused \subseteq refused' /\ dropped \subseteq dropped'
        /\ recent' = recent /\ taken' = taken /\ arrived' = arrived
    OBVIOUS
  <2>3. rec.op # "message" /\ call[Slot].op # "message"
    BY <1>2
  <2> QED BY ONLY <1>1, <1>3, <2>1, <2>2, <2>3, rec \in Calls, CallStep
<1>6. \A l \in Slots : CallOK(call'[l]) /\ AnswerOK(call'[l])
  BY <1>1 DEF IInv, TypeInv, CallInv, ResolvedInv, AnswerOK
<1> QED BY <1>1, <1>3, <1>4, <1>5, <1>6 DEF CallPart, TypeInv, AnswerOK

LEMMA ClickIInv == ASSUME IInv, NEW c \in Chats, NEW ask \in Asks, Click(c, ask) PROVE IInv'
<1> DEFINE t == bound[c]
           rec == [Free EXCEPT !.op = "answer", !.chat = c, !.thread = t, !.ask = ask,
                               !.turn = seen[t].turn, !.at = "lock"]
<1>1. /\ UNCHANGED <<desktop, bridge, history>> /\ Spend("calls", MaxCalls) /\ PendingIs(t, ask)
      /\ (UNCHANGED calls \/ Join(rec))
  BY DEF Click
<1>2. t \in Threads /\ ask \in Nat
  BY <1>1 DEF IInv, TypeInv, PendingIs, Asks
<1>3. seen[t] \in Views
  BY <1>2 DEF IInv, TypeInv
<1>4. seen[t].turn \in Nat
  BY <1>3 DEF Views
<1>5. /\ rec \in Calls /\ rec.op = "answer" /\ rec.at = "lock" /\ rec.chat = c /\ rec.thread = t
      /\ rec.kind = "none" /\ rec.wire = "none"
  <2>1. Free.kind = "none" /\ Free.wire = "none"
    BY DEF Free
  <2> QED BY <1>2, <1>4, <2>1, FreeTyped DEF Calls
<1> HIDE DEF rec
<1>6. CallOK(rec)
  BY <1>2, <1>5 DEF CallOK, Answers
<1>7. CallPart'
  <2>1. CASE Join(rec)
    BY <1>1, <1>5, <1>6, <2>1, JoinStep DEF desktop, bridge, history
  <2>2. CASE UNCHANGED calls
    BY <1>1, <2>2, QuietStep DEF desktop, bridge, history, calls
  <2> QED BY <1>1, <2>1, <2>2
<1>8. budget' \in [calls : Nat, asks : Nat, changes : Nat, events : Nat]
  BY <1>1, SpendTyped DEF IInv, TypeInv
<1>9. RestPart'
  BY <1>1, <1>8, IInvParts DEF RestPart, desktop, bridge, history, ResolvedDecided
<1> QED BY <1>7, <1>9, PartsIInv

LEMMA DeliverIInv == ASSUME IInv, NEW m \in Msgs, Deliver(m) PROVE IInv'
<1> DEFINE c == Home(m)
           rec == [Free EXCEPT !.op = "message", !.chat = c, !.thread = bound[c], !.msg = m,
                               !.at = "lock"]
<1>1. /\ UNCHANGED <<desktop, seen, owner, bound, resolved, refused, given, dropped>>
      /\ Spend("calls", MaxCalls) /\ bound[c] # NoThread
  BY DEF Deliver
<1>2. c \in Chats /\ bound[c] \in Threads
  BY <1>1, ConstantsAssumption DEF IInv, TypeInv
<1>3. budget' \in [calls : Nat, asks : Nat, changes : Nat, events : Nat]
  BY <1>1, SpendTyped DEF IInv, TypeInv
<1>4. CASE m \in recent
  <2>1. UNCHANGED <<recent, arrived, calls>>
    BY <1>4 DEF Deliver
  <2>2. CallPart'
    BY <1>1, <2>1, QuietStep DEF desktop, calls
  <2>3. RestPart'
    BY <1>1, <1>3, <2>1, IInvParts DEF RestPart, desktop, ResolvedDecided
  <2> QED BY <2>2, <2>3, PartsIInv
<1>5. CASE m \notin recent
  <2>1. recent' = recent \cup {m} /\ arrived' = Append(arrived, m) /\ Join(rec)
    BY <1>5 DEF Deliver
  <2>2. /\ rec \in Calls /\ rec.op = "message" /\ rec.at = "lock" /\ rec.chat = c /\ rec.msg = m
        /\ rec.thread = bound[c] /\ rec.kind = "none" /\ rec.wire = "none"
    <3>1. Free.kind = "none" /\ Free.wire = "none"
      BY DEF Free
    <3> QED BY <1>2, <3>1, FreeTyped DEF Calls
  <2> HIDE DEF rec
  <2>3. CallOK(rec) /\ Locking(rec)
    BY <1>2, <2>2 DEF CallOK, Answers, Locking
  <2>4. /\ Slot \in Slots /\ call[Slot].at = "free"
        /\ call' = [call EXCEPT ![Slot] = rec] /\ lock' = [lock EXCEPT ![rec.chat] = Append(@, Slot)]
    BY <2>1, SlotFree DEF Join
  <2>5. call[Slot].op = "none"
    BY <2>4 DEF IInv, CallInv, CallOK
  <2>6. TypeInv /\ CallInv /\ LockInv /\ MsgInv
    BY DEF IInv
  <2>7. LockInv' /\ lock' \in [Chats -> Seq(Slots)]
    BY ONLY <1>2, <2>2, <2>3, <2>4, <2>5, <2>6, JoinLock
  <2>8. MsgInv'
    <3>1. UNCHANGED <<taken, given, refused, dropped>>
      BY <1>1 DEF desktop
    <3> QED BY ONLY <1>5, <2>1, <2>2, <2>4, <2>5, <2>6, <3>1, m \in Msgs, ArriveStep
  <2>9. \A l \in Slots : CallOK(call'[l]) /\ AnswerOK(call'[l])
    BY <2>2, <2>3, <2>4 DEF IInv, TypeInv, CallInv, ResolvedInv, AnswerOK
  <2>10. CallPart'
    BY <1>1, <2>2, <2>4, <2>6, <2>7, <2>8, <2>9 DEF CallPart, TypeInv, AnswerOK, desktop
  <2>11. arrived' \in Seq(Msgs)
    BY <2>1, AppendProperties DEF IInv, TypeInv
  <2>12. RestPart'
    BY <1>1, <1>3, <2>11, IInvParts DEF RestPart, desktop, ResolvedDecided
  <2> QED BY <2>10, <2>12, PartsIInv
<1> QED BY <1>4, <1>5

LEMMA MessageEntersIInv == ASSUME IInv, NEW k \in Slots, MessageEnters(k) PROVE IInv'
<1> DEFINE t == call[k].thread
           ask == seen[t].ask
           question == ask # None /\ seen[t].kind \in {"input", "unsupported"}
           b == bound[call[k].chat]
           unanswerable == seen[t].kind = "unsupported" \/ ~PendingIs(b, ask)
           known == question /\ ~unanswerable /\ Key(b, ask) \in resolved
           rec == [call[k] EXCEPT !.thread = b, !.ask = ask, !.turn = seen[b].turn]
<1>1. /\ UNCHANGED <<desktop, seen, owner, bound, resolved, arrived, given, budget>>
      /\ call[k].op = "message" /\ call[k].at = "lock" /\ Holds(k)
      /\ dropped' = IF known THEN dropped \cup {call[k].msg} ELSE dropped
      /\ \/ question /\ unanswerable /\ Fail(k) /\ UNCHANGED older
         \/ known /\ Latest(k) /\ UNCHANGED <<recent, refused>>
         \/ /\ question /\ ~unanswerable /\ ~known /\ Submit(k, rec)
            /\ UNCHANGED <<recent, refused, older>>
         \/ ~question /\ Steer(k, call[k]) /\ UNCHANGED <<recent, refused, older>>
  BY DEF MessageEnters
<1>2. /\ call[k] \in Calls /\ CallOK(call[k]) /\ ~Done(call[k])
      /\ call[k].chat \in Chats /\ t \in Threads /\ call[k].msg \in Msgs
  BY <1>1 DEF IInv, TypeInv, CallInv, CallOK, Done
<1>3. seen[t] \in Views
  BY <1>2 DEF IInv, TypeInv
<1>4. ask \in Nat
  BY <1>3 DEF Views
<1>5. UNCHANGED <<taken, arrived, decided, given>> /\ (~known => dropped' = dropped)
  BY <1>1 DEF desktop
<1>6. CallPart'
  <2>1. CASE question /\ unanswerable /\ Fail(k)
    BY <1>1, <1>2, <1>5, <2>1, FailStep
  <2>2. CASE known /\ Latest(k) /\ UNCHANGED <<recent, refused>>
    BY <1>1, <1>2, <1>5, <2>2, LatestStep
  <2>3. CASE question /\ ~unanswerable /\ ~known /\ Submit(k, rec) /\ UNCHANGED <<recent, refused>>
    <3>1. b \in Threads
      BY <1>2, <2>3 DEF IInv, TypeInv, PendingIs
    <3>2. seen[b] \in Views
      BY <3>1 DEF IInv, TypeInv
    <3>3. seen[b].turn \in Nat
      BY <3>2 DEF Views
    <3>4. /\ rec \in Calls /\ rec.op = "message" /\ rec.chat = call[k].chat /\ rec.msg = call[k].msg
          /\ rec.thread = b
      BY <1>1, <1>2, <1>4, <3>1, <3>3 DEF Calls
    <3> HIDE DEF rec, question, unanswerable
    <3>5. Asking(k, rec, "answer", FALSE)
      BY <2>3 DEF Submit
    <3>6. UNCHANGED <<taken, arrived, decided, recent, refused, given, dropped>>
      BY <1>5, <2>3
    <3> QED BY <1>1, <1>2, <3>1, <3>4, <3>5, <3>6, AskStep
  <2>4. CASE ~question /\ Steer(k, call[k]) /\ UNCHANGED <<recent, refused>>
    <3>1. Asking(k, call[k], "steer", FALSE)
      BY <2>4 DEF Steer
    <3>2. UNCHANGED <<taken, arrived, decided, recent, refused, given, dropped>>
      BY <1>5, <2>4
    <3> QED BY <1>1, <1>2, <3>1, <3>2, AskStep
  <2> QED BY <1>1, <2>1, <2>2, <2>3, <2>4
<1>7. RestPart'
  BY <1>1, IInvParts DEF RestPart, desktop, ResolvedDecided
<1> QED BY <1>6, <1>7, PartsIInv

LEMMA ClickEntersIInv == ASSUME IInv, NEW k \in Slots, ClickEnters(k) PROVE IInv'
<1>1. /\ UNCHANGED <<desktop, bridge, history, budget>>
      /\ call[k].op = "answer" /\ call[k].at = "lock" /\ Holds(k)
      /\ Ends(k) \/ Asking(k, call[k], "answer", FALSE)
  BY DEF ClickEnters, Submit
<1>2. call[k] \in Calls /\ call[k].chat \in Chats /\ call[k].thread \in Threads
  BY <1>1 DEF IInv, TypeInv, CallInv, CallOK
<1>3. UNCHANGED <<taken, arrived, decided, recent, refused, given, dropped>>
  BY <1>1 DEF desktop, bridge, history
<1>4. RestPart'
  BY <1>1, IInvParts DEF RestPart, desktop, bridge, history, ResolvedDecided
<1>5. CallPart'
  <2>1. CASE Ends(k)
    BY <1>1, <1>3, <2>1, EndStep
  <2>2. CASE Asking(k, call[k], "answer", FALSE)
    BY <1>1, <1>2, <1>3, <2>2, AskStep
  <2> QED BY <1>1, <2>1, <2>2
<1> QED BY <1>4, <1>5, PartsIInv

LEMMA InterruptIInv ==
    ASSUME IInv, NEW c \in Chats, NEW expected \in Nat, Interrupt(c, expected) PROVE IInv'
<1> DEFINE t == bound[c]
           current == IF seen[t].running THEN seen[t].turn ELSE None
           rec == [Free EXCEPT !.op = "interrupt", !.chat = c, !.thread = t, !.ask = expected,
                               !.turn = current]
<1>1. /\ UNCHANGED <<desktop, bridge, history>> /\ Spend("calls", MaxCalls) /\ t # NoThread
      /\ Running # Slots /\ Asking(Slot, rec, "interrupt", FALSE)
  BY DEF Interrupt, Stop
<1>2. t \in Threads
  BY <1>1 DEF IInv, TypeInv
<1>3. seen[t] \in Views
  BY <1>2 DEF IInv, TypeInv
<1>4. current \in Nat
  BY <1>3 DEF Views, None
<1> HIDE DEF current
<1>5. rec \in Calls /\ rec.op = "interrupt" /\ rec.chat = c /\ rec.thread = t
  BY <1>2, <1>4, FreeTyped DEF Calls
<1> HIDE DEF rec
<1>6. Slot \in Slots /\ call[Slot].at = "free" /\ call[Slot].op = "none" /\ ~Locking(call[Slot])
  <2>1. Slot \in Slots /\ call[Slot].at = "free"
    BY <1>1, SlotFree
  <2>2. call[Slot].op = "none"
    BY <2>1 DEF IInv, CallInv, CallOK
  <2> QED BY <2>1, <2>2 DEF Locking
<1>7. CallPart'
  <2>1. UNCHANGED <<taken, arrived, decided, recent, refused, given, dropped>>
    BY <1>1 DEF desktop, bridge, history
  <2> QED BY <1>1, <1>2, <1>5, <1>6, <2>1, AskStep
<1>8. budget' \in [calls : Nat, asks : Nat, changes : Nat, events : Nat]
  BY <1>1, SpendTyped DEF IInv, TypeInv
<1>9. RestPart'
  BY <1>1, <1>8, IInvParts DEF RestPart, desktop, bridge, history, ResolvedDecided
<1> QED BY <1>7, <1>9, PartsIInv

LEMMA AnsweredIInv == ASSUME IInv, NEW k \in Slots, Answered(k) PROVE IInv'
<1> DEFINE r == call[k]
           retry == r.wire = "gone" /\ ~r.again
           older1 == r.wire = "gone" /\ r.again /\ r.kind = "start"
<1>1. /\ UNCHANGED <<desktop, seen, bound, arrived, given, dropped, budget>> /\ r.at = "rpc"
      /\ \/ /\ r.wire = "ok" /\ (IF r.op = "message" THEN Latest(k) ELSE Ends(k))
            /\ resolved' = IF r.kind # "answer" THEN resolved
                           ELSE resolved \cup {<<r.thread, r.turn, r.ask>>}
            /\ UNCHANGED <<owner, recent, refused>>
         \/ /\ r.wire = "inactive" /\ Asking(k, r, "start", FALSE)
            /\ UNCHANGED <<owner, recent, resolved, refused>>
         \/ /\ retry /\ owner' = [owner EXCEPT ![r.thread] = None]
            /\ call' = [call EXCEPT ![k].at = "discover", ![k].again = TRUE, ![k].wire = "none"]
            /\ UNCHANGED <<lock, recent, resolved, refused>>
         \/ older1 /\ Asking(k, r, "start v1", FALSE) /\ UNCHANGED <<owner, recent, resolved, refused>>
         \/ r.wire \in {"gone", "error"} /\ Fail(k) /\ UNCHANGED <<owner, resolved>>
  BY DEF Answered, Start, StartOld
<1>2. /\ r \in Calls /\ CallOK(r) /\ AnswerOK(r) /\ r.op # "none"
      /\ r.chat \in Chats /\ r.thread \in Threads
  BY <1>1 DEF IInv, TypeInv, CallInv, CallOK, ResolvedInv
<1>3. UNCHANGED <<taken, arrived, decided, given, dropped, late, desk, seen, bound, budget>>
  BY <1>1 DEF desktop
<1>4. CASE /\ r.wire = "ok" /\ (IF r.op = "message" THEN Latest(k) ELSE Ends(k))
           /\ resolved' = IF r.kind # "answer" THEN resolved
                          ELSE resolved \cup {<<r.thread, r.turn, r.ask>>}
           /\ UNCHANGED <<owner, recent, refused>>
  <2>1. Done(r)
    BY <1>1, <1>4 DEF Done
  <2>2. CallPart'
    <3>1. CASE r.op = "message"
      BY <1>1, <1>3, <1>4, <2>1, <3>1, LatestStep
    <3>2. CASE r.op # "message"
      BY <1>1, <1>2, <1>3, <1>4, <3>2, EndStep
    <3> QED BY <3>1, <3>2
  <2>3. ASSUME NEW key \in resolved' PROVE key[3] \in decided
    <3>1. CASE key \in resolved
      BY <3>1 DEF IInv, ResolvedInv, ResolvedDecided
    <3>2. CASE key \notin resolved
      <4>1. r.kind = "answer" /\ key = <<r.thread, r.turn, r.ask>>
        BY <1>4, <2>3, <3>2
      <4> QED BY <1>2, <1>4, <4>1 DEF AnswerOK
    <3> QED BY <3>1, <3>2
  <2>4. RestPart'
    BY <1>3, <1>4, <2>3, IInvParts DEF RestPart, ResolvedDecided
  <2> QED BY <2>2, <2>4, PartsIInv
<1>5. CASE /\ r.wire = "inactive" /\ Asking(k, r, "start", FALSE)
           /\ UNCHANGED <<owner, recent, resolved, refused>>
  <2>1. r.op = "message" /\ ~Done(r)
    BY <1>1, <1>2, <1>5 DEF CallOK, Done
  <2>2. CallPart'
    BY <1>1, <1>2, <1>3, <1>5, <2>1, AskStep
  <2>3. RestPart'
    BY <1>3, <1>5, IInvParts DEF RestPart, ResolvedDecided
  <2> QED BY <2>2, <2>3, PartsIInv
<1>6. CASE /\ retry /\ owner' = [owner EXCEPT ![r.thread] = None]
           /\ call' = [call EXCEPT ![k].at = "discover", ![k].again = TRUE, ![k].wire = "none"]
           /\ UNCHANGED <<lock, recent, resolved, refused>>
  <2> DEFINE x == [r EXCEPT !.at = "discover", !.again = TRUE, !.wire = "none"]
  <2>1. call' = [call EXCEPT ![k] = x] /\ lock' = lock
    BY <1>6 DEF IInv, TypeInv
  <2>2. /\ x \in Calls /\ x.op = r.op /\ x.chat = r.chat /\ x.msg = r.msg /\ x.thread = r.thread
        /\ x.kind = r.kind /\ x.at = "discover" /\ x.wire = "none"
    BY <1>2 DEF Calls
  <2> HIDE DEF x
  <2>3. CallOK(x) /\ ~Done(x) /\ ~Done(r)
    BY <1>1, <1>2, <1>6, <2>2 DEF CallOK, Done, Answers
  <2>4. CallPart'
    BY <1>1, <1>3, <1>6, <2>1, <2>2, <2>3, GoOnStep
  <2>5. owner' \in [Threads -> 0..2]
    <3>1. owner \in [Threads -> 0..2] /\ None \in 0..2
      BY DEF IInv, TypeInv, None
    <3> QED BY <1>6, <3>1
  <2>6. RestPart'
    BY <1>3, <1>6, <2>5, IInvParts DEF RestPart, ResolvedDecided
  <2> QED BY <2>4, <2>6, PartsIInv
<1>7. CASE older1 /\ Asking(k, r, "start v1", FALSE) /\ UNCHANGED <<owner, recent, resolved, refused>>
  <2>1. r.op = "message" /\ ~Done(r)
    BY <1>1, <1>2, <1>7 DEF CallOK, Done
  <2>2. CallPart'
    BY <1>1, <1>2, <1>3, <1>7, <2>1, AskStep
  <2>3. RestPart'
    BY <1>3, <1>7, IInvParts DEF RestPart, ResolvedDecided
  <2> QED BY <2>2, <2>3, PartsIInv
<1>8. CASE r.wire \in {"gone", "error"} /\ Fail(k) /\ UNCHANGED <<owner, resolved>>
  <2>1. ~Done(r)
    BY <1>1, <1>8 DEF Done
  <2>2. CallPart'
    BY <1>1, <1>2, <1>3, <1>8, <2>1, FailStep
  <2>3. RestPart'
    BY <1>3, <1>8, IInvParts DEF RestPart, ResolvedDecided
  <2> QED BY <2>2, <2>3, PartsIInv
<1> QED BY <1>1, <1>4, <1>5, <1>6, <1>7, <1>8

LEMMA GiveUpIInv == ASSUME IInv, NEW k \in Slots, GiveUp(k) PROVE IInv'
<1> DEFINE r == call[k]
<1>1. /\ r.at \in {"discover", "rpc"} /\ Event("give up") /\ Fail(k)
      /\ late' = IF r.wire = "sent" THEN late \cup {r} ELSE late
      /\ given' = IF r.op = "message" THEN given \cup {r.msg} ELSE given
      /\ owner' \in {owner, [t \in Threads |-> None]}
      /\ UNCHANGED <<desk, taken, decided, seen, bound, resolved, arrived, dropped>>
  BY DEF GiveUp
<1>2. r \in Calls /\ CallOK(r) /\ r.op # "none"
  BY <1>1 DEF IInv, TypeInv, CallInv, CallOK
<1>3. given \subseteq given' /\ (r.op = "message" => r.msg \in given')
  BY <1>1
<1>4. CallPart'
  BY <1>1, <1>2, <1>3, FailStep
<1>5. budget' \in [calls : Nat, asks : Nat, changes : Nat, events : Nat]
  BY <1>1, SpendTyped DEF IInv, TypeInv, Event
<1>6. owner' \in [Threads -> 0..2]
  <2>1. owner \in [Threads -> 0..2] /\ None \in 0..2
    BY DEF IInv, TypeInv, None
  <2> QED BY <1>1, <2>1
<1>7. late' \subseteq Calls /\ \A x \in late' : CallOK(x) /\ x.op # "none" /\ (x.op = "message" => x.msg \in given')
  BY <1>1, <1>2, <1>3 DEF IInv, TypeInv, CallInv
<1>8. RestPart'
  BY <1>1, <1>5, <1>6, <1>7, IInvParts DEF RestPart, ResolvedDecided
<1> QED BY <1>4, <1>8, PartsIInv

LEMMA TakesIInv == ASSUME IInv, NEW k \in Slots, Takes(k) PROVE IInv'
<1>1. /\ UNCHANGED <<legacy, late, bridge, lock, history, budget>>
      /\ call[k].at = "rpc" /\ call[k].wire = "sent"
  BY DEF Takes
<1>2. PICK answer \in Answers :
          Handle(call[k], answer) /\ call' = [call EXCEPT ![k].wire = answer]
  BY DEF Takes
<1> DEFINE r == [call[k] EXCEPT !.wire = answer]
<1>3. call[k] \in Calls /\ CallOK(call[k]) /\ call[k].op # "none" /\ ~Done(call[k])
  BY <1>1 DEF IInv, TypeInv, CallInv, CallOK, Done
<1>4. /\ desk' \in [Threads -> Views] /\ decided \subseteq decided'
      /\ answer = "inactive" => call[k].kind = "steer"
      /\ answer = "ok" /\ call[k].kind = "answer" => call[k].ask \in decided'
      /\ \/ taken' = taken /\ (answer = "ok" => call[k].op # "message")
         \/ taken' = Append(taken, call[k].msg) /\ call[k].op = "message" /\ answer = "ok"
  <2>1. TypeInv
    BY DEF IInv
  <2> QED BY <1>2, <1>3, <2>1, HandleStep
<1>5. call' = [call EXCEPT ![k] = r] /\ lock' = lock
  BY <1>1, <1>2 DEF IInv, TypeInv
<1>6. /\ r \in Calls /\ r.op = call[k].op /\ r.chat = call[k].chat /\ r.msg = call[k].msg
      /\ r.thread = call[k].thread /\ r.kind = call[k].kind /\ r.at = "rpc" /\ r.wire = answer
      /\ r.ask = call[k].ask
  BY <1>1, <1>3 DEF Calls
<1> HIDE DEF r
<1>7. CallOK(r)
  BY <1>3, <1>4, <1>6 DEF CallOK
<1>8. CASE taken' = taken /\ (answer = "ok" => call[k].op # "message")
  <2>1. call[k].op = "message" => ~Done(r)
    BY <1>6, <1>8 DEF Done
  <2>2. CallPart'
    BY <1>1, <1>3, <1>4, <1>5, <1>6, <1>7, <1>8, <2>1, GoOnStep DEF bridge, history
  <2>3. RestPart'
    BY <1>1, <1>4, <1>8, IInvParts DEF RestPart, ResolvedDecided, bridge, history
  <2> QED BY <2>2, <2>3, PartsIInv
<1>9. CASE taken' = Append(taken, call[k].msg) /\ call[k].op = "message" /\ answer = "ok"
  <2>1. TypeInv /\ CallInv /\ LockInv /\ MsgInv
    BY DEF IInv
  <2>2. Done(r) /\ call[k].msg \in Msgs /\ Locking(r) /\ Locking(call[k])
    BY <1>3, <1>6, <1>9 DEF Done, CallOK, Locking
  <2>3. LockInv'
    BY ONLY <1>1, <1>5, <1>6, <2>1, <2>2, k \in Slots, ChangeLock
  <2>4. MsgInv'
    <3>1. UNCHANGED <<lock, arrived, given, refused, dropped, recent>>
      BY <1>1 DEF bridge, history
    <3> QED BY ONLY <1>3, <1>5, <1>6, <1>9, <2>1, <2>2, <3>1, k \in Slots, TakeStep
  <2>5. \A l \in Slots : /\ CallOK(call'[l])
                         /\ call'[l].wire = "ok" /\ call'[l].kind = "answer" => call'[l].ask \in decided'
    BY <1>4, <1>5, <1>6, <1>7, <1>9 DEF IInv, TypeInv, CallInv, ResolvedInv, AnswerOK
  <2>6. CallPart'
    BY <1>5, <1>6, <2>1, <2>3, <2>4, <2>5 DEF CallPart, TypeInv, AnswerOK
  <2>7. taken' \in Seq(Msgs)
    BY <1>9, <2>2, AppendProperties DEF IInv, TypeInv
  <2>8. RestPart'
    BY <1>1, <1>4, <2>7, IInvParts DEF RestPart, ResolvedDecided, bridge, history
  <2> QED BY <2>6, <2>8, PartsIInv
<1> QED BY <1>4, <1>8, <1>9

LEMMA TakesLateIInv == ASSUME IInv, NEW r \in late, TakesLate(r) PROVE IInv'
<1>1. late' = late \ {r} /\ UNCHANGED <<legacy, bridge, calls, history, budget>>
  BY DEF TakesLate
<1>2. PICK answer \in Answers : Handle(r, answer)
  BY DEF TakesLate
<1>3. r \in Calls /\ CallOK(r) /\ r.op # "none" /\ (r.op = "message" => r.msg \in given)
  BY DEF IInv, TypeInv, CallInv
<1>4. TypeInv /\ MsgInv
  BY DEF IInv
<1>5. /\ desk' \in [Threads -> Views] /\ decided \subseteq decided'
      /\ taken' = taken \/ (taken' = Append(taken, r.msg) /\ r.op = "message")
  BY <1>2, <1>3, <1>4, HandleStep
<1>6. UNCHANGED <<call, lock, arrived, given, refused, dropped, recent>>
  BY <1>1 DEF calls, bridge, history
<1>7. MsgInv' /\ taken' \in Seq(Msgs)
  <2>1. CASE taken' = taken
    BY <1>4, <1>6, <2>1, QuietMsg DEF TypeInv
  <2>2. CASE taken' = Append(taken, r.msg) /\ r.op = "message"
    <3>1. r.msg \in Msgs /\ r.msg \in given
      BY <1>3, <2>2 DEF CallOK
    <3>2. MsgInv'
      BY <1>4, <1>6, <2>2, <3>1, TakeLateStep
    <3> QED BY <1>4, <2>2, <3>1, <3>2, AppendProperties DEF TypeInv
  <2> QED BY <1>5, <2>1, <2>2
<1>8. CallPart'
  <2>1. \A k \in Slots : CallOK(call[k]) /\ AnswerOK(call[k])'
    BY <1>5, <1>6 DEF IInv, CallInv, ResolvedInv, AnswerOK
  <2>2. LockInv'
    BY <1>6 DEF IInv, LockInv
  <2> QED BY <1>6, <1>7, <2>1, <2>2 DEF IInv, TypeInv, CallPart
<1>9. RestPart'
  <2>1. late' \subseteq late
    BY <1>1
  <2> QED BY <1>1, <1>5, <1>7, <2>1, IInvParts DEF RestPart, ResolvedDecided, bridge, history
<1> QED BY <1>8, <1>9, PartsIInv

\* Desktop's own steps, and those of the bridge that no call takes.
DeskTyped ==
    /\ desk \in [Threads -> Views]
    /\ budget \in [calls : Nat, asks : Nat, changes : Nat, events : Nat]

LEMMA DeskStep ==
    ASSUME DeskTyped, NEW t \in Threads, NEW kind,
           \/ TurnEnds(t) \/ TurnStarts(t) \/ AnsweredThere(t) \/ Moves(t)
           \/ kind \in AskKinds /\ AsksUser(t, kind)
    PROVE  DeskTyped'
<1>1. desk[t] \in Views
  BY DEF DeskTyped
<1>2. CASE TurnEnds(t)
  <2>1. desk' = [desk EXCEPT ![t] = [desk[t] EXCEPT !.running = FALSE]] /\ Spend("changes", MaxChanges)
    BY <1>2 DEF TurnEnds, DeskTyped
  <2> QED BY <1>1, <2>1, SpendTyped DEF DeskTyped, Views
<1>3. CASE TurnStarts(t)
  <2> DEFINE n == desk[t].turn + 1
  <2>1. n \in Nat
    BY <1>1 DEF Views
  <2>2. desk' = [desk EXCEPT ![t] = [desk[t] EXCEPT !.running = TRUE, !.turn = n]]
    BY <1>3 DEF TurnStarts, DeskTyped
  <2> HIDE DEF n
  <2>3. Spend("changes", MaxChanges)
    BY <1>3 DEF TurnStarts
  <2> QED BY <1>1, <2>1, <2>2, <2>3, SpendTyped DEF DeskTyped, Views
<1>4. CASE AnsweredThere(t)
  <2>1. /\ desk' = [desk EXCEPT ![t] = [desk[t] EXCEPT !.ask = 0, !.kind = "none"]]
        /\ Spend("changes", MaxChanges)
    BY <1>4 DEF AnsweredThere, DeskTyped, None
  <2> QED BY <1>1, <2>1, SpendTyped DEF DeskTyped, Views
<1>5. CASE Moves(t)
  <2> DEFINE w == 3 - desk[t].window
  <2>1. w \in 1..2
    BY <1>1 DEF Views
  <2>2. desk' = [desk EXCEPT ![t] = [desk[t] EXCEPT !.window = w]] /\ Spend("events", MaxEvents)
    BY <1>5 DEF Moves, DeskTyped, Event
  <2> HIDE DEF w
  <2> QED BY <1>1, <2>1, <2>2, SpendTyped DEF DeskTyped, Views
<1>6. CASE kind \in AskKinds /\ AsksUser(t, kind)
  <2> DEFINE a == budget.asks + 1
             b == budget.changes + 1
  <2>1. a \in Nat /\ b \in Nat /\ kind \in AllKinds
    BY <1>6, ConstantsAssumption DEF DeskTyped
  <2>2. budget' = [budget EXCEPT !.asks = a, !.changes = b]
    BY <1>6 DEF AsksUser
  <2>3. budget'.asks = a
    BY <2>2 DEF DeskTyped
  <2> HIDE DEF a, b
  <2>4. desk' = [desk EXCEPT ![t] = [desk[t] EXCEPT !.ask = a, !.kind = kind]]
    BY <1>6, <2>3 DEF AsksUser, DeskTyped
  <2>5. desk' \in [Threads -> Views]
    BY <1>1, <2>1, <2>4 DEF DeskTyped, Views
  <2>6. budget' \in [calls : Nat, asks : Nat, changes : Nat, events : Nat]
    BY <2>1, <2>2 DEF DeskTyped
  <2> QED BY <2>5, <2>6 DEF DeskTyped
<1> QED BY <1>2, <1>3, <1>4, <1>5, <1>6

DesktopStep ==
    \/ \E t \in Threads : TurnEnds(t) \/ TurnStarts(t) \/ AnsweredThere(t) \/ Moves(t) \/ Broadcast(t)
    \/ \E t \in Threads, kind \in AskKinds : AsksUser(t, kind)
    \/ \E c \in Chats, t \in Threads \cup {NoThread} : Rebind(c, t)

LEMMA DesktopStepIInv == ASSUME IInv, DesktopStep PROVE IInv'
<1>1. UNCHANGED <<call, lock, taken, arrived, decided, recent, refused, given, dropped, late, resolved>>
  BY DEF DesktopStep, TurnEnds, TurnStarts, AnsweredThere, Moves, Broadcast, AsksUser, Rebind,
     desktop, bridge, calls, history
<1>2. CallPart'
  BY <1>1, QuietStep
<1>3. /\ DeskTyped /\ seen \in [Threads -> Views] /\ owner \in [Threads -> 0..2]
      /\ bound \in [Chats -> Threads \cup {NoThread}]
  BY DEF IInv, TypeInv, DeskTyped
<1>4. /\ DeskTyped' /\ seen' \in [Threads -> Views] /\ owner' \in [Threads -> 0..2]
      /\ bound' \in [Chats -> Threads \cup {NoThread}]
  <2>1. CASE \E t \in Threads : TurnEnds(t) \/ TurnStarts(t) \/ AnsweredThere(t) \/ Moves(t)
    <3>1. DeskTyped'
      BY <1>3, <2>1, DeskStep
    <3>2. UNCHANGED <<seen, owner, bound>>
      BY <2>1 DEF TurnEnds, TurnStarts, AnsweredThere, Moves, bridge
    <3> QED BY <1>3, <3>1, <3>2
  <2>2. CASE \E t \in Threads, kind \in AskKinds : AsksUser(t, kind)
    <3>1. DeskTyped'
      BY <1>3, <2>2, DeskStep
    <3>2. UNCHANGED <<seen, owner, bound>>
      BY <2>2 DEF AsksUser, bridge
    <3> QED BY <1>3, <3>1, <3>2
  <2>3. CASE \E t \in Threads : Broadcast(t)
    <3>1. PICK t \in Threads : Broadcast(t)
      BY <2>3
    <3>2. desk[t] \in Views
      BY <1>3 DEF DeskTyped
    <3>3. desk[t].window \in 0..2
      BY <3>2 DEF Views
    <3>4. seen' \in [Threads -> Views] /\ owner' \in [Threads -> 0..2]
      BY <1>3, <3>1, <3>2, <3>3 DEF Broadcast
    <3> QED BY <1>3, <3>1, <3>4 DEF Broadcast, DeskTyped, desktop
  <2>4. CASE \E c \in Chats, t \in Threads \cup {NoThread} : Rebind(c, t)
    <3>1. PICK c \in Chats, t \in Threads \cup {NoThread} : Rebind(c, t)
      BY <2>4
    <3>2. bound' \in [Chats -> Threads \cup {NoThread}]
      BY <1>3, <3>1 DEF Rebind
    <3>3. UNCHANGED <<desk, seen, owner>> /\ Spend("events", MaxEvents)
      BY <3>1 DEF Rebind, Event, desktop
    <3> QED BY <1>3, <3>2, <3>3, SpendTyped DEF DeskTyped
  <2> QED BY <2>1, <2>2, <2>3, <2>4 DEF DesktopStep
<1>5. RestPart'
  BY <1>1, <1>4, IInvParts DEF RestPart, ResolvedDecided, DeskTyped
<1> QED BY <1>2, <1>5, PartsIInv

LEMMA NextIInv == IInv /\ [Next]_vars => IInv'
<1> SUFFICES ASSUME IInv, [Next]_vars PROVE IInv'
  OBVIOUS
<1>1. ASSUME NEW k \in Slots, \/ MessageEnters(k) \/ ClickEnters(k) \/ Discover(k) \/ Takes(k)
                              \/ Answered(k) \/ Published(k) \/ GiveUp(k)
      PROVE  IInv'
  BY <1>1, MessageEntersIInv, ClickEntersIInv, DiscoverIInv, TakesIInv, AnsweredIInv,
     PublishedIInv, GiveUpIInv
<1>2. ASSUME NEW m \in Msgs, Deliver(m) PROVE IInv'
  BY <1>2, DeliverIInv
<1>3. ASSUME NEW c \in Chats, NEW ask \in Asks, Click(c, ask) PROVE IInv'
  BY <1>3, ClickIInv
<1>4. ASSUME NEW c \in Chats, NEW t \in Threads, Interrupt(c, None) \/ Interrupt(c, seen[t].turn)
      PROVE  IInv'
  <2>1. seen[t] \in Views
    BY DEF IInv, TypeInv
  <2>2. None \in Nat /\ seen[t].turn \in Nat
    BY <2>1 DEF None, Views
  <2> QED BY <1>4, <2>2, InterruptIInv
<1>5. ASSUME NEW r \in late, TakesLate(r) PROVE IInv'
  BY <1>5, TakesLateIInv
<1>6. CASE DesktopStep
  BY <1>6, DesktopStepIInv
<1>7. CASE UNCHANGED vars
  <2>1. CallPart'
    BY <1>7, QuietStep DEF vars, desktop, bridge, calls, history
  <2>2. RestPart'
    BY <1>7, IInvParts DEF vars, desktop, bridge, calls, history, RestPart, ResolvedDecided
  <2> QED BY <2>1, <2>2, PartsIInv
<1> QED BY <1>1, <1>2, <1>3, <1>4, <1>5, <1>6, <1>7 DEF Next, DesktopStep

LEMMA SpecIInv == Spec => []IInv
<1>1. Init => IInv
  BY InitIInv
<1>2. IInv /\ [Next]_vars => IInv'
  BY NextIInv
<1> QED BY <1>1, <1>2, PTL DEF Spec

LEMMA IInvLockOK == IInv => LockOK
<1> SUFFICES ASSUME IInv, NEW c \in Chats
             PROVE  /\ IsInjective(lock[c])
                    /\ ToSet(lock[c]) = {k \in Running : call[k].chat = c /\ call[k].op # "interrupt"}
                    /\ \A i \in 2..Len(lock[c]) : call[lock[c][i]].at = "lock"
  BY DEF LockOK
<1>1. /\ DOMAIN lock[c] = 1..Len(lock[c])
      /\ \A i \in 1..Len(lock[c]) : lock[c][i] \in Slots
  BY LenProperties, ElementOfSeq DEF IInv, TypeInv
<1>2. \A k \in Slots : Locking(call[k]) <=> k \in Running /\ call[k].op # "interrupt"
  BY DEF IInv, TypeInv, CallInv, CallOK, Calls, Locking, Running
<1>3. IsInjective(lock[c])
  BY <1>1 DEF IInv, LockInv, IsInjective
<1>4. ASSUME NEW k \in ToSet(lock[c])
      PROVE  k \in Running /\ call[k].chat = c /\ call[k].op # "interrupt"
  <2>1. PICK i \in 1..Len(lock[c]) : k = lock[c][i]
    BY <1>1 DEF ToSet
  <2> QED BY <1>1, <1>2, <2>1 DEF IInv, LockInv
<1>5. ASSUME NEW k \in Running, call[k].chat = c, call[k].op # "interrupt"
      PROVE  k \in ToSet(lock[c])
  <2>1. k \in Slots /\ Locking(call[k])
    BY <1>2, <1>5 DEF Running
  <2>2. PICK i \in 1..Len(lock[c]) : lock[c][i] = k
    BY <1>5, <2>1 DEF IInv, LockInv
  <2> QED BY <1>1, <2>2 DEF ToSet
<1>6. \A i \in 2..Len(lock[c]) : call[lock[c][i]].at = "lock"
  BY DEF IInv, LockInv
<1> QED BY <1>3, <1>4, <1>5, <1>6

\* The calls of a chat are each once in the queue of its lock, in the order they came, and all
\* but the first wait there: no two of them are between taking the lock and returning at the same
\* time (desktop_bridge.py's _operation_lock in send_message, handle_approval, handle_input).
THEOREM LockTheorem == Spec => []LockOK
BY SpecIInv, IInvLockOK, PTL

\* However often Lark delivers a message, and whatever becomes of the thread's turn and owner
\* between its requests, Desktop takes it once, unless a request for it was given up
\* (send_message's _remember_message, _owner_request's one repetition, start-turn v2 and v1).
THEOREM TakenOnceTheorem == Spec => []TakenOnce
<1>1. IInv => TakenOnce
  <2> SUFFICES ASSUME IInv, NEW i \in DOMAIN taken, NEW j \in DOMAIN taken,
                      taken[i] = taken[j], taken[i] \notin given
               PROVE  i = j
    BY DEF TakenOnce
  <2>1. i \in 1..Len(taken) /\ j \in 1..Len(taken) /\ taken[i] \in Msgs
    BY LenProperties, ElementOfSeq DEF IInv, TypeInv
  <2> QED BY <2>1 DEF IInv, MsgInv, OnceInv
<1> QED BY <1>1, SpecIInv, PTL

\* A message the bridge is through with was taken by Desktop, or its user was told that it was
\* not, or the question it answers had been answered (send_message's error path, which forgets
\* the message, and its success path).
THEOREM NoSilentLossTheorem == Spec => []NoSilentLoss
<1>1. IInv => NoSilentLoss
  <2> SUFFICES ASSUME IInv, NEW i \in DOMAIN arrived
               PROVE  Sending(arrived[i]) \/ Taken(arrived[i]) \/ arrived[i] \in refused \cup dropped
    BY DEF NoSilentLoss
  <2>1. i \in 1..Len(arrived)
    BY LenProperties DEF IInv, TypeInv
  <2>2. (\E k \in Slots : Sends(call[k], arrived[i])) => Sending(arrived[i])
    BY DEF IInv, CallInv, CallOK, Sends, Sending, Running
  <2> QED BY <2>1, <2>2 DEF IInv, MsgInv, LossInv
<1> QED BY <1>1, SpecIInv, PTL

\* Two messages of a chat are taken in the order they came, through questions, steer-turn,
\* start-turn and repetitions (the operation lock around all of send_message).
THEOREM InOrderTheorem == Spec => []InOrder
<1>1. IInv => InOrder
  BY DEF IInv, MsgInv
<1> QED BY <1>1, SpecIInv, PTL

\* What the bridge holds for resolved, Desktop has decided by its answer (handle_approval and
\* handle_input add to _resolved_requests after the answer, never before).
THEOREM ResolvedDecidedTheorem == Spec => []ResolvedDecided
<1>1. IInv => ResolvedDecided
  BY DEF IInv, ResolvedInv
<1> QED BY <1>1, SpecIInv, PTL
=============================================================================
