------------------------ MODULE CompletionMonitorProofs ------------------------
(***************************************************************************)
(* Safety of the completion monitor for every number of threads, users,    *)
(* turns and faults: types, nothing settled or confirmed is owed again, no *)
(* turn of another thread or of history, no completion lost, the outbox.   *)
(***************************************************************************)
EXTENDS CompletionMonitor, SequenceTheorems, TLAPS

\* The types of the records the state is made of, for steps that keep them.
FileType == [place : Places, inode : Nat, born : Nat, mtime : Nat,
             meta : BOOLEAN, rows : Seq(Rows), part : Rows \cup {NoRow}]

RegType == [user : Users \cup {NoReg.user}, cutoff : Nat, todo : SUBSET Threads,
            src : [Threads -> Paths \cup {NoPath}], base : [Threads -> Cursors]]
PollType == [src : [Threads -> Paths \cup {NoPath}], todo : SUBSET Threads,
             dirty : BOOLEAN, queue : SUBSET Keys, key : Keys \cup {<<>>},
             left : SUBSET Users, failed : SUBSET Users]

LEMMA NoFileType == NoFile \in FileType
  BY DEF NoFile, FileType, Places, NoRow

LEMMA NoEventType == NoEvent \in Events
  BY DEF NoEvent, Events

LEMMA NoCursorType == NoCursor \in Cursors
  BY DEF NoCursor, Cursors, NoPath

LEMMA NoRegType == NoReg \in RegType
  BY NoCursorType DEF NoReg, RegType, NoSources

LEMMA RegOpen ==
  ASSUME NEW r \in RegType, NEW u \in Users, NEW n \in Nat
  PROVE  [r EXCEPT !.user = u, !.cutoff = n] \in RegType
  BY DEF RegType

LEMMA NoPollType == NoPoll \in PollType
  BY DEF NoPoll, PollType, NoSources

LEMMA PollOpen ==
  ASSUME NEW r \in PollType, NEW src \in [Threads -> Paths \cup {NoPath}]
  PROVE  [r EXCEPT !.src = src] \in PollType
  BY DEF PollType

LEMMA EmptyStoreType == EmptyStore \in Stores
  BY NoEventType, NoCursorType DEF EmptyStore, Stores

LEMMA FaultType ==
  ASSUME faults \in Nat, NEW kind, Fault(kind)
  PROVE  faults' \in Nat
  BY DEF Fault

\* A save leaves the new store on disk, or the old one.
LEMMA SaveType ==
  ASSUME TypeOK, NEW s \in Stores, Save(s)
  PROVE  disk' \in Stores /\ faults' \in Nat
  BY DEF Save, Fault, TypeOK

\* The delivered list stays a list of keys when its oldest part is evicted.
LEMMA RememberType ==
  ASSUME NEW q \in Seq(Keys), NEW k \in Keys
  PROVE  /\ Remember(q, k) \in Seq(Keys)
         /\ Range(Remember(q, k)) \subseteq Range(q) \cup {k}
<1> DEFINE r == Append(q, k)
<1>1. r \in Seq(Keys) /\ Len(r) = Len(q) + 1
  OBVIOUS
<1>2. Range(r) \subseteq Range(q) \cup {k}
  BY <1>1 DEF Range
<1>3. CASE Len(r) > MaxDelivered
  <2>1. EvictCount \in Nat /\ EvictCount + 1 \in 1..Len(r) + 1
    BY <1>1, <1>3, ConstantsAssumption
  <2>2. Remember(q, k) = SubSeq(r, EvictCount + 1, Len(r))
    BY <1>3 DEF Remember
  <2>3. SubSeq(r, EvictCount + 1, Len(r)) \in Seq(Keys)
    BY <1>1, <2>1, SubSeqProperties
  <2>4. Range(SubSeq(r, EvictCount + 1, Len(r))) \subseteq Range(r)
    BY <1>1, <2>1, SubSeqProperties DEF Range
  <2> QED BY <1>2, <2>2, <2>3, <2>4
<1>4. CASE ~(Len(r) > MaxDelivered)
  BY <1>1, <1>2, <1>4 DEF Remember
<1> QED BY <1>3, <1>4

\* The rollout found at a path is a thread's file, or none.
LEMMA AtType ==
  ASSUME TypeOK, NEW path
  PROVE  At(path) \in FileType
<1>1. path \in Paths => path[1] \in Threads
  BY DEF Paths
<1> QED BY <1>1, NoFileType DEF At, TypeOK, FileType

\* A thread's file there from the start has at most one row, of a turn of its own.
LEMMA OldFileShape ==
  ASSUME NEW t \in Threads, NEW f \in {NoFile} \cup OldFiles(t)
  PROVE  /\ f \in FileType /\ f.place = "live" /\ f.inode \in {0, 1} /\ f.mtime = 0
         /\ f.part = NoRow /\ (f.meta <=> f.inode = 1) /\ (~f.meta => f.rows = <<>>)
         /\ f.rows = <<>> \/ (Len(f.rows) = 1 /\ DOMAIN f.rows = {1})
         /\ \A i \in DOMAIN f.rows : /\ i = 1 /\ f.rows[i] \in Rows /\ f.rows[i].at = 1
                                      /\ Author[f.rows[i].turn] = t
<1>1. CASE f = NoFile
  BY <1>1, NoFileType DEF NoFile
<1>2. CASE f \in OldFiles(t)
  <2>1. PICK rows \in {<<>>} \cup {<<[turn |-> turn, at |-> 1]>> :
                                  turn \in {w \in Turns \ Undated : Author[w] = t}} :
          f = [place |-> "live", inode |-> 1, born |-> 0, mtime |-> 0,
               meta |-> TRUE, rows |-> rows, part |-> NoRow]
    BY <1>2 DEF OldFiles
  <2>2. CASE rows = <<>>
    BY <2>1, <2>2 DEF FileType, Places
  <2>3. ASSUME NEW turn \in Turns, Author[turn] = t, rows = <<[turn |-> turn, at |-> 1]>>
        PROVE  /\ rows \in Seq(Rows) /\ Len(rows) = 1 /\ DOMAIN rows = {1}
               /\ rows[1] \in Rows /\ rows[1].at = 1 /\ Author[rows[1].turn] = t
    <3> DEFINE row == [turn |-> turn, at |-> 1]
    <3>1. row \in Rows /\ row.at = 1 /\ row.turn = turn
      BY DEF Rows
    <3> HIDE DEF row
    <3>2. rows = <<row>>
      BY <2>3 DEF row
    <3> QED BY <2>3, <3>1, <3>2
  <2>4. ASSUME NEW turn \in Turns, Author[turn] = t, rows = <<[turn |-> turn, at |-> 1]>>
        PROVE  /\ f \in FileType /\ f.rows = rows /\ f.place = "live" /\ f.inode = 1
               /\ f.mtime = 0 /\ f.part = NoRow /\ f.meta
    BY <2>1, <2>3, <2>4 DEF FileType, Places
  <2> QED BY <2>1, <2>2, <2>3, <2>4
<1> QED BY <1>1, <1>2

\* The empty store with one user, one cursor and one entry in it.
WithEntry(t, u, k, c, e) ==
  [EmptyStore EXCEPT !.targets[u] = 1, !.registered = 1,
                     !.cursors[t] = c, !.pending[k] = e]

LEMMA OneEntry ==
  ASSUME NEW t \in Threads, NEW u \in Users, NEW k \in Keys, NEW c \in Cursors,
         NEW e \in Events, NEW s, s = WithEntry(t, u, k, c, e)
  PROVE  /\ s \in Stores /\ s.registered = 1
         /\ s.targets[u] = 1 /\ \A w \in Users \ {u} : s.targets[w] = 0
         /\ s.delivered = <<>> /\ s.told = {}
         /\ s.cursors[t] = c /\ \A w \in Threads \ {t} : s.cursors[w] = NoCursor
         /\ s.pending[k] = e /\ \A j \in Keys \ {k} : s.pending[j] = NoEvent
<1>1. s \in Stores
  BY EmptyStoreType DEF Stores, WithEntry
<1>2. /\ s.registered = 1 /\ s.targets = [EmptyStore.targets EXCEPT ![u] = 1]
      /\ s.delivered = <<>> /\ s.told = {}
      /\ s.cursors = [EmptyStore.cursors EXCEPT ![t] = c]
      /\ s.pending = [EmptyStore.pending EXCEPT ![k] = e]
  BY DEF EmptyStore, WithEntry
<1>3. s.targets[u] = 1 /\ \A w \in Users \ {u} : s.targets[w] = 0
  BY <1>2 DEF EmptyStore
<1>4. s.cursors[t] = c /\ \A w \in Threads \ {t} : s.cursors[w] = NoCursor
  BY <1>2 DEF EmptyStore
<1>5. s.pending[k] = e /\ \A j \in Keys \ {k} : s.pending[j] = NoEvent
  BY <1>2 DEF EmptyStore
<1> QED BY <1>1, <1>2, <1>3, <1>4, <1>5

\* What an older version left: the key of its entry and its cursor.
LegacyKey(t, v) == <<t, file[v].rows[1].turn>>
LegacyCursor(t, v, kept) ==
  IF kept THEN [path |-> PathOf(v), inode |-> IF v = t THEN file[v].inode ELSE Foreign,
                offset |-> Len(file[v].rows)] ELSE NoCursor
LegacyEvent(u) == [path |-> Unset, verified |-> FALSE, targets |-> {u},
                   attempts |-> 0, cooling |-> FALSE]

LEMMA LegacyShape ==
  ASSUME NEW t \in Threads, NEW v \in Threads, NEW u \in Users, NEW kept \in BOOLEAN,
         file \in [Threads -> FileType], file[v].rows # <<>>,
         NEW s, s = LegacyStore(t, v, u, kept)
  PROVE  /\ 1 \in DOMAIN file[v].rows /\ file[v].rows[1].turn \in Turns
         /\ LegacyKey(t, v) \in Keys /\ LegacyKey(t, v) = <<t, file[v].rows[1].turn>>
         /\ s \in Stores /\ s.registered = 1
         /\ s.targets[u] = 1 /\ \A w \in Users \ {u} : s.targets[w] = 0
         /\ s.delivered = <<>> /\ s.told = {}
         /\ s.cursors[t] = LegacyCursor(t, v, kept)
         /\ \A w \in Threads \ {t} : s.cursors[w] = NoCursor
         /\ s.pending[LegacyKey(t, v)] = LegacyEvent(u)
         /\ \A j \in Keys \ {LegacyKey(t, v)} : s.pending[j] = NoEvent
<1> DEFINE f == file[v]
<1>1. f \in FileType /\ f.rows \in Seq(Rows) /\ Len(f.rows) \in Nat /\ f.inode \in Nat
      /\ f.place \in Places
  BY DEF FileType
<1>2. 1 \in DOMAIN f.rows /\ f.rows[1] \in Rows
  BY <1>1
<1>3. f.rows[1].turn \in Turns /\ LegacyKey(t, v) \in Keys
  BY <1>2 DEF Rows, Keys, LegacyKey
<1>4. PathOf(v) \in Paths \cup {NoPath}
  BY <1>1 DEF PathOf, Paths
<1>5. LegacyCursor(t, v, kept) \in Cursors /\ LegacyEvent(u) \in Events
  BY <1>1, <1>4, NoCursorType DEF Cursors, Events, LegacyCursor, LegacyEvent
<1>6. s = WithEntry(t, u, LegacyKey(t, v), LegacyCursor(t, v, kept), LegacyEvent(u))
  BY DEF LegacyStore, LegacyKey, LegacyCursor, LegacyEvent, WithEntry
<1>7. LegacyKey(t, v) = <<t, file[v].rows[1].turn>>
  BY DEF LegacyKey
<1> HIDE DEF f
<1>8. /\ s \in Stores /\ s.registered = 1
      /\ s.targets[u] = 1 /\ \A w \in Users \ {u} : s.targets[w] = 0
      /\ s.delivered = <<>> /\ s.told = {}
      /\ s.cursors[t] = LegacyCursor(t, v, kept)
      /\ \A w \in Threads \ {t} : s.cursors[w] = NoCursor
      /\ s.pending[LegacyKey(t, v)] = LegacyEvent(u)
      /\ \A j \in Keys \ {LegacyKey(t, v)} : s.pending[j] = NoEvent
  BY <1>3, <1>5, <1>6, OneEntry
<1> QED BY <1>2, <1>3, <1>7, <1>8 DEF f

LEMMA InitType == Init => TypeOK
<1> SUFFICES ASSUME Init PROVE TypeOK
  OBVIOUS
<1>1. file \in [Threads -> FileType]
  <2>1. \A t \in Threads : file[t] \in FileType
    BY OldFileShape DEF Init
  <2> QED BY <2>1 DEF Init
<1>2. disk \in Stores /\ blind \subseteq Threads
  <2>1. CASE disk = EmptyStore /\ blind = {}
    BY <2>1, EmptyStoreType
  <2>2. ASSUME NEW t \in Legacy, NEW v \in Threads, NEW u \in Users, NEW kept \in BOOLEAN,
               file[v].rows # <<>>, disk = LegacyStore(t, v, u, kept)
        PROVE  disk \in Stores
    <3>1. t \in Threads
      BY ConstantsAssumption
    <3> QED BY <1>1, <2>2, <3>1, LegacyShape
  <2> QED BY <2>1, <2>2 DEF Init
<1> QED
  BY <1>1, <1>2 DEF Init, TypeOK, FileType, NoReg, NoPoll, NoSources, Cursors, NoCursor

-----------------------------------------------------------------------------
(* Every action keeps the types *)

LEMMA WrittenType ==
  ASSUME TypeOK, NEW t \in Threads, NEW rows \in Seq(Rows),
         NEW part \in Rows \cup {NoRow}
  PROVE  Written(file[t], rows, part) \in FileType
  BY DEF TypeOK, Written, FileType

LEMMA FileStepType ==
  ASSUME TypeOK, NEW t \in Threads, NEW f \in FileType,
         file' = [file EXCEPT ![t] = f], faults' \in Nat, blind' \subseteq Threads,
         UNCHANGED <<clock, inbox, mem, disk, pc, reg, poll>>
  PROVE  TypeOK'
  BY DEF TypeOK, FileType

LEMMA DesktopType == ASSUME TypeOK, Desktop PROVE TypeOK'
<1>1. PICK t \in Threads :
        \/ CreateFile(t) \/ CreateTornFile(t) \/ FinishMeta(t)
        \/ \E turn \in Turns : StartRow(t, turn)
        \/ FinishRow(t) \/ MoveFile(t) \/ ReplaceFile(t) \/ TruncateFile(t)
  BY DEF Desktop
<1>2. file[t] \in FileType /\ file[t].rows \in Seq(Rows) /\ faults \in Nat /\ clock \in Nat
      /\ blind \subseteq Threads
  BY DEF TypeOK, FileType
<1>3. ASSUME NEW meta \in BOOLEAN PROVE NewFile(meta) \in FileType
  BY <1>2 DEF NewFile, FileType, Places
<1>4. CASE CreateFile(t)
  BY <1>2, <1>3, <1>4, FileStepType DEF CreateFile
<1>5. CASE CreateTornFile(t)
  BY <1>2, <1>3, <1>5, FaultType, FileStepType DEF CreateTornFile
<1>6. CASE FinishMeta(t)
  <2>1. file' = [file EXCEPT ![t] = Written(file[t], <<>>, NoRow)]
    BY <1>6 DEF FinishMeta
  <2>2. <<>> \in Seq(Rows)
    OBVIOUS
  <2> QED BY <1>2, <1>6, <2>1, <2>2, WrittenType, FileStepType DEF FinishMeta
<1>7. ASSUME NEW turn \in Turns, StartRow(t, turn) PROVE TypeOK'
  <2> DEFINE row == [turn |-> turn, at |-> IF turn \in Undated THEN NoStamp ELSE clock]
  <2>1. row \in Rows
    BY <1>2 DEF Rows, NoStamp
  <2>2. file' = [file EXCEPT ![t] = Written(file[t], file[t].rows, row)]
    BY <1>7 DEF StartRow
  <2> QED BY <1>2, <1>7, <2>1, <2>2, WrittenType, FileStepType DEF StartRow
<1>8. CASE FinishRow(t)
  <2>1. file[t].part \in Rows
    BY <1>2, <1>8 DEF FinishRow, FileType
  <2>2. Append(file[t].rows, file[t].part) \in Seq(Rows)
    BY <1>2, <2>1
  <2>3. file' = [file EXCEPT ![t] = Written(file[t], Append(file[t].rows, file[t].part), NoRow)]
    BY <1>8 DEF FinishRow
  <2> QED BY <1>2, <1>8, <2>2, <2>3, WrittenType, FileStepType DEF FinishRow
<1>9. CASE MoveFile(t)
  <2> DEFINE p == IF file[t].place = "live" THEN "archived" ELSE "live"
  <2>1. [file[t] EXCEPT !.place = p] \in FileType
    BY <1>2 DEF FileType, Places
  <2>2. file' = [file EXCEPT ![t] = [file[t] EXCEPT !.place = p]]
    BY <1>9 DEF MoveFile
  <2>3. faults' \in Nat
    BY <1>2, <1>9, FaultType DEF MoveFile
  <2> QED BY <1>2, <1>9, <2>1, <2>2, <2>3, FileStepType DEF MoveFile
<1>10. CASE ReplaceFile(t)
  <2> DEFINE f == [place |-> file[t].place, inode |-> file[t].inode + 1, born |-> clock,
                   mtime |-> clock, meta |-> TRUE, rows |-> file[t].rows, part |-> NoRow]
  <2>1. f \in FileType
    BY <1>2 DEF FileType
  <2>2. file' = [file EXCEPT ![t] = f]
    BY <1>10 DEF ReplaceFile
  <2>3. faults' \in Nat
    BY <1>2, <1>10, FaultType DEF ReplaceFile
  <2> QED BY <1>2, <1>10, <2>1, <2>2, <2>3, FileStepType DEF ReplaceFile
<1>11. CASE TruncateFile(t)
  <2>1. file' = [file EXCEPT ![t] = Written(file[t], <<>>, NoRow)]
    BY <1>11 DEF TruncateFile
  <2>2. faults' \in Nat /\ blind' \subseteq Threads /\ <<>> \in Seq(Rows)
    BY <1>2, <1>11, FaultType DEF TruncateFile
  <2> QED BY <1>2, <1>11, <2>1, <2>2, WrittenType, FileStepType DEF TruncateFile
<1> QED BY <1>1, <1>4, <1>5, <1>6, <1>7, <1>8, <1>9, <1>10, <1>11

LEMMA PathsType ==
  ASSUME TypeOK
  PROVE  \A src \in Listings \cup {NoSources} : src \in [Threads -> Paths \cup {NoPath}]
<1>1. \A t \in Threads : PathOf(t) \in Paths \cup {NoPath}
  BY DEF TypeOK, PathOf, Paths
<1>2. Sources \in [Threads -> Paths \cup {NoPath}]
  BY <1>1 DEF Sources
<1>3. NoSources \in [Threads -> Paths \cup {NoPath}]
  BY DEF NoSources
<1>4. \A t, v \in Threads :
        [Sources EXCEPT ![t] = PathOf(v)] \in [Threads -> Paths \cup {NoPath}]
  BY <1>1, <1>2
<1> QED BY <1>2, <1>3, <1>4 DEF Listings

LEMMA ListedType ==
  ASSUME TypeOK, NEW src, Listed(src)
  PROVE  faults' \in Nat
  BY FaultType DEF TypeOK, Listed

LEMMA RegistrationType == ASSUME TypeOK, Registration PROVE TypeOK'
<1>1. ASSUME NEW u \in Users, RegisterBegin(u) PROVE TypeOK'
  <2>1. reg' = [NoReg EXCEPT !.user = u, !.cutoff = clock + 1]
        /\ clock' \in Nat /\ pc' \in {"list", "register"}
    BY <1>1 DEF RegisterBegin, TypeOK
  <2>2. clock + 1 \in Nat
    BY DEF TypeOK
  <2>3. reg' \in RegType
    BY <2>1, <2>2, NoRegType, RegOpen
  <2> QED BY <1>1, <2>1, <2>3 DEF TypeOK, RegisterBegin, RegType
<1>2. ASSUME NEW u \in Users, RegisterAgain(u) PROVE TypeOK'
  BY <1>2, SaveType DEF TypeOK, RegisterAgain
<1>3. CASE SnapshotList
  <2>1. PICK src \in Listings \cup {NoSources} :
          /\ reg' = [reg EXCEPT !.src = src, !.todo = {t \in Threads : src[t] # NoPath}]
          /\ Listed(src)
    BY <1>3 DEF SnapshotList
  <2>2. src \in [Threads -> Paths \cup {NoPath}] /\ faults' \in Nat
    BY <2>1, PathsType, ListedType
  <2> QED BY <1>3, <2>1, <2>2 DEF TypeOK, SnapshotList
<1>4. ASSUME NEW t \in Threads, SnapshotFile(t) PROVE TypeOK'
  <2>1. reg.src[t] \in Paths \cup {NoPath} /\ At(reg.src[t]).inode \in Nat
        /\ Len(At(reg.src[t]).rows) \in Nat
    <3>1. reg.src[t] \in Paths \cup {NoPath}
      BY DEF TypeOK
    <3>2. At(reg.src[t]) \in FileType
      BY AtType
    <3> QED BY <3>1, <3>2 DEF FileType
  <2>2. PICK c \in Cursors : reg' = [reg EXCEPT !.todo = @ \ {t}, !.base[t] = c]
    <3> DEFINE f == At(reg.src[t])
               c == IF Eligibility(t, reg.src[t]) # "yes" THEN NoCursor
                    ELSE [path |-> reg.src[t], inode |-> f.inode,
                          offset |-> IF f.mtime >= reg.cutoff THEN 0
                                     ELSE CompleteFileOffset(f)]
    <3>1. c \in Cursors
      BY <2>1, NoCursorType DEF Cursors, CompleteFileOffset
    <3>2. reg' = [reg EXCEPT !.todo = @ \ {t}, !.base[t] = c]
      BY <1>4 DEF SnapshotFile
    <3> QED BY <3>1, <3>2
  <2>3. reg' \in RegType
    BY <2>2 DEF TypeOK, RegType
  <2> QED BY <1>4, <2>3 DEF TypeOK, SnapshotFile, RegType
<1>5. CASE RegisterCommit
  <2> DEFINE cs == [t \in Threads |->
               IF reg.base[t] # NoCursor THEN reg.base[t] ELSE mem.cursors[t]]
             s == [mem EXCEPT !.targets[reg.user] = reg.cutoff,
                     !.registered = IF @ = 0 THEN reg.cutoff ELSE @,
                     !.cursors = cs]
  <2>1. cs \in [Threads -> Cursors]
    BY DEF TypeOK, Stores
  <2>2. s \in Stores
    <3> HIDE DEF cs
    <3> QED BY <2>1 DEF TypeOK, Stores
  <2>3. mem' = s /\ Save(s)
    BY <1>5 DEF RegisterCommit
  <2>4. disk' \in Stores /\ faults' \in Nat
    BY <2>2, <2>3, SaveType
  <2>5. mem' \in Stores
    BY <2>2, <2>3
  <2>6. reg' = NoReg /\ blind' \subseteq Threads /\ pc' = "idle"
        /\ UNCHANGED <<file, clock, inbox, poll>>
    BY <1>5 DEF RegisterCommit, TypeOK
  <2> HIDE DEF cs, s
  <2> QED BY <2>4, <2>5, <2>6, NoCursorType DEF TypeOK, NoReg, NoSources
<1> QED BY <1>1, <1>2, <1>3, <1>4, <1>5 DEF Registration

LEMMA SourcesStoreType ==
  ASSUME NEW s \in Stores, NEW k \in Keys, NEW e \in Events
  PROVE  [s EXCEPT !.pending[k] = e] \in Stores
  BY DEF Stores

\* The pending map after a scan or a migration.
LEMMA PendingType ==
  ASSUME TypeOK
  PROVE  /\ \A k \in Keys : mem.pending[k] \in Events
         /\ \A k \in Keys : pc = "preserve" => Preserved(k) \in Events
         /\ \A k \in Keys : poll.src[k[1]] \in Paths => Enqueued(k) \in Events
<1>1. \A k \in Keys : mem.pending[k] \in Events
  BY DEF TypeOK, Stores
<1>2. ASSUME NEW k \in Keys PROVE Preserved(k) \in Events
  <2>1. k[1] \in Threads /\ mem.cursors[k[1]].path \in Paths \cup {NoPath}
    BY DEF Keys, TypeOK, Stores, Cursors
  <2>2. mem.pending[k] \in Events
    BY <1>1
  <2> QED BY <2>1, <2>2, NoEventType DEF Preserved, Events
<1>3. ASSUME NEW k \in Keys, poll.src[k[1]] \in Paths PROVE Enqueued(k) \in Events
  <2>1. Addressees(k[1], k) \subseteq Users
    BY DEF Addressees, Owners, Registered
  <2> QED BY <1>1, <1>3, <2>1 DEF Enqueued, Events
<1> QED BY <1>1, <1>2, <1>3

\* What Lark shows stays well formed, and what it shows is the event sent.
LEMMA MessageType ==
  ASSUME TypeOK, pc = "send", NEW u \in Users
  PROVE  /\ Message(u) \in [uuid : Keys \X Users, key : Keys, user : Users]
         /\ Show(Message(u)) =>
              inbox' \subseteq [uuid : Keys \X Users, key : Keys, user : Users]
<1>1. Message(u) \in [uuid : Keys \X Users, key : Keys, user : Users]
  BY DEF TypeOK, Message, MessageUuid
<1> QED BY <1>1 DEF TypeOK, Show

\* The stores a delivery ends with, field by field.
LEMMA OweType ==
  ASSUME TypeOK, poll.key \in Keys, NEW users \in SUBSET Users
  PROVE  /\ Owe(users) \in Stores /\ Owe(users).targets = mem.targets
         /\ Owe(users).registered = mem.registered /\ Owe(users).cursors = mem.cursors
         /\ Owe(users).delivered = mem.delivered /\ Owe(users).told = Confirmed
         /\ Owe(users).pending[poll.key].path = mem.pending[poll.key].path
         /\ Owe(users).pending[poll.key].verified = mem.pending[poll.key].verified
         /\ Owe(users).pending[poll.key].targets = users
         /\ \A j \in Keys \ {poll.key} : Owe(users).pending[j] = mem.pending[j]
<1> DEFINE k == poll.key
           old == mem.pending[k]
           e == [path |-> old.path, verified |-> old.verified, targets |-> users,
                 attempts |-> old.attempts + 1, cooling |-> TRUE]
           r == [mem EXCEPT !.pending[k] = e, !.told = Confirmed]
<1>1. mem \in Stores /\ k \in Keys /\ old \in Events
  BY DEF TypeOK, Stores
<1>2. e \in Events
  BY <1>1 DEF Events
<1>3. Confirmed \in SUBSET (Keys \X Users)
  <2>1. mem.told \subseteq Keys \X Users /\ Registered(mem) \subseteq Users
    BY <1>1 DEF Stores, Registered
  <2> QED BY <2>1 DEF Confirmed
<1>4. Owe(users) = r /\ k = poll.key
  BY DEF Owe
<1>5. /\ e.path = mem.pending[k].path /\ e.verified = mem.pending[k].verified
      /\ e.targets = users
  OBVIOUS
<1> HIDE DEF e, k
<1>6. /\ r \in Stores /\ r.targets = mem.targets /\ r.registered = mem.registered
      /\ r.cursors = mem.cursors /\ r.delivered = mem.delivered /\ r.told = Confirmed
      /\ r.pending[k] = e /\ \A j \in Keys \ {k} : r.pending[j] = mem.pending[j]
  BY <1>1, <1>2, <1>3 DEF Stores
<1> HIDE DEF r
<1> QED BY <1>4, <1>5, <1>6

LEMMA SettleType ==
  ASSUME TypeOK, poll.key \in Keys
  PROVE  /\ Settle \in Stores /\ Settle.targets = mem.targets
         /\ Settle.registered = mem.registered /\ Settle.cursors = mem.cursors
         /\ Settle.delivered = Remember(mem.delivered, poll.key)
         /\ Settle.told = {p \in Confirmed : \/ p[1] \in Range(Settle.delivered)
                                             \/ InOutbox(mem, p[1])}
         /\ Settle.pending[poll.key] = NoEvent
         /\ \A j \in Keys \ {poll.key} : Settle.pending[j] = mem.pending[j]
<1> DEFINE k == poll.key
           q == Remember(mem.delivered, k)
           told == {p \in Confirmed : p[1] \in Range(q) \/ InOutbox(mem, p[1])}
           r == [mem EXCEPT !.pending[k] = NoEvent, !.delivered = q, !.told = told]
<1>1. mem \in Stores /\ k \in Keys /\ q \in Seq(Keys)
  BY RememberType DEF TypeOK, Stores
<1>2. told \in SUBSET (Keys \X Users)
  <2>1. mem.told \subseteq Keys \X Users /\ Registered(mem) \subseteq Users
    BY <1>1 DEF Stores, Registered
  <2> QED BY <2>1 DEF Confirmed
<1>3. Settle = r
  BY DEF Settle
<1>4. told = {p \in Confirmed : p[1] \in Range(q) \/ InOutbox(mem, p[1])} /\ k = poll.key
      /\ q = Remember(mem.delivered, poll.key)
  OBVIOUS
<1> HIDE DEF k, q, told
<1>5. /\ r \in Stores /\ r.targets = mem.targets /\ r.registered = mem.registered
      /\ r.cursors = mem.cursors /\ r.delivered = q /\ r.told = told
      /\ r.pending[k] = NoEvent /\ \A j \in Keys \ {k} : r.pending[j] = mem.pending[j]
  BY <1>1, <1>2, NoEventType DEF Stores
<1> QED BY <1>3, <1>4, <1>5

LEMMA PollingType == ASSUME TypeOK, Polling PROVE TypeOK'
<1>1. CASE PollBegin
  <2>1. PICK src \in Listings \cup {NoSources} :
          poll' = [NoPoll EXCEPT !.src = src] /\ Listed(src)
    BY <1>1 DEF PollBegin
  <2>2. poll' \in PollType /\ faults' \in Nat
    BY <2>1, PathsType, ListedType, NoPollType, PollOpen
  <2> QED BY <1>1, <2>2 DEF TypeOK, PollBegin, PollType
<1>2. CASE PreservePendingSources
  <2> DEFINE p == [k \in Keys |-> Preserved(k)]
             todo == {t \in Threads : poll.src[t] # NoPath}
  <2>1. p \in [Keys -> Events]
    BY <1>2, PendingType DEF PreservePendingSources
  <2>2. mem' = [mem EXCEPT !.pending = p]
    BY <1>2 DEF PreservePendingSources
  <2>3. PICK d \in BOOLEAN : poll' = [poll EXCEPT !.dirty = d, !.todo = todo]
    BY <1>2 DEF PreservePendingSources
  <2>4. todo \subseteq Threads
    OBVIOUS
  <2> HIDE DEF p, todo
  <2>5. mem' \in Stores
    BY <2>1, <2>2 DEF TypeOK, Stores
  <2>6. poll' \in PollType
    BY <2>3, <2>4 DEF TypeOK, PollType
  <2> QED BY <1>2, <2>5, <2>6 DEF TypeOK, PreservePendingSources, PollType
<1>3. ASSUME NEW t \in Threads, ScanFile(t) PROVE TypeOK'
  <2>1. mem' \in Stores
    <3>1. CASE Eligibility(t, poll.src[t]) # "yes"
      BY <1>3, <3>1 DEF ScanFile, TypeOK
    <3>2. CASE Eligibility(t, poll.src[t]) = "yes"
      <4>1. poll.src[t] \in Paths
        BY <3>2, NoFileType DEF Eligibility, At, NoFile
      <4> DEFINE f == At(poll.src[t])
                 c == [path |-> IF SameFile(mem.cursors[t], f)
                                  THEN mem.cursors[t].path ELSE poll.src[t],
                       inode |-> f.inode, offset |-> CommittedOffset(t)]
                 p == [k \in Keys |-> IF k[1] = t THEN Enqueued(k) ELSE mem.pending[k]]
      <4>2. c \in Cursors
        <5>1. f.inode \in Nat /\ Len(f.rows) \in Nat
          BY AtType DEF FileType
        <5>2. mem.cursors[t].path \in Paths \cup {NoPath}
          BY DEF TypeOK, Stores, Cursors
        <5> QED BY <4>1, <5>1, <5>2 DEF Cursors, CommittedOffset, CompleteFileOffset
      <4>3. p \in [Keys -> Events]
        <5>1. ASSUME NEW k \in Keys, k[1] = t PROVE Enqueued(k) \in Events
          <6>1. poll.src[k[1]] \in Paths
            BY <4>1, <5>1
          <6> QED BY <6>1, PendingType
        <5>2. \A k \in Keys : mem.pending[k] \in Events
          BY PendingType
        <5> QED BY <5>1, <5>2
      <4>4. mem' = [mem EXCEPT !.cursors[t] = c, !.pending = p]
        BY <1>3, <3>2 DEF ScanFile
      <4> HIDE DEF c, p
      <4> QED BY <4>2, <4>3, <4>4 DEF TypeOK, Stores
    <3> QED BY <3>1, <3>2
  <2>2. PICK d : poll' = [poll EXCEPT !.todo = @ \ {t}, !.dirty = d] /\ d \in BOOLEAN
    BY <1>3 DEF ScanFile, TypeOK
  <2>3. poll' \in PollType
    BY <2>2 DEF TypeOK, PollType
  <2> QED BY <1>3, <2>1, <2>3 DEF TypeOK, ScanFile, PollType
<1>4. CASE PollSave
  <2>1. disk' \in Stores /\ faults' \in Nat
    BY <1>4, SaveType DEF PollSave, TypeOK
  <2>2. poll' \in PollType
    BY <1>4 DEF PollSave, TypeOK, PollType
  <2> QED BY <1>4, <2>1, <2>2 DEF TypeOK, PollSave, PollType
<1>5. ASSUME NEW k \in Keys, DeliverDrop(k) PROVE TypeOK'
  <2>1. [mem EXCEPT !.pending[k] = NoEvent] \in Stores
    BY NoEventType, SourcesStoreType DEF TypeOK
  <2>2. mem' \in Stores /\ disk' \in Stores /\ faults' \in Nat
    BY <1>5, <2>1, SaveType DEF DeliverDrop
  <2>3. poll' \in PollType
    BY <1>5 DEF DeliverDrop, TypeOK, PollType
  <2> QED BY <1>5, <2>2, <2>3 DEF TypeOK, DeliverDrop, PollType
<1>6. ASSUME NEW k \in Keys, DeliverDefer(k) PROVE TypeOK'
  <2>1. poll' \in PollType
    BY <1>6 DEF DeliverDefer, TypeOK, PollType
  <2> QED BY <1>6, <2>1 DEF TypeOK, DeliverDefer, PollType
<1>7. ASSUME NEW k \in Keys, DeliverBegin(k) PROVE TypeOK'
  <2>1. mem.pending[k].targets \cap Registered(mem) \subseteq Users
    BY DEF Registered
  <2>2. poll' \in PollType
    BY <1>7, <2>1 DEF DeliverBegin, TypeOK, PollType
  <2> QED BY <1>7, <2>2 DEF TypeOK, DeliverBegin, PollType
<1>8. ASSUME NEW u \in Users, SendAccepted(u) PROVE TypeOK'
  <2>1. inbox' \subseteq [uuid : Keys \X Users, key : Keys, user : Users]
    BY <1>8, MessageType DEF SendAccepted
  <2>2. poll' \in PollType
    BY <1>8 DEF SendAccepted, TypeOK, PollType
  <2>3. poll'.key = poll.key
    BY <1>8 DEF SendAccepted, TypeOK
  <2> QED BY <1>8, <2>1, <2>2, <2>3 DEF TypeOK, SendAccepted, PollType
<1>9. ASSUME NEW u \in Users, SendFailed(u) PROVE TypeOK'
  <2>1. inbox' \subseteq [uuid : Keys \X Users, key : Keys, user : Users]
    BY <1>9, MessageType DEF SendFailed, TypeOK
  <2>2. poll' \in PollType
    BY <1>9 DEF SendFailed, TypeOK, PollType
  <2>3. poll'.key = poll.key
    BY <1>9 DEF SendFailed, TypeOK
  <2>4. faults' \in Nat
    BY <1>9, FaultType DEF SendFailed, TypeOK
  <2> QED BY <1>9, <2>1, <2>2, <2>3, <2>4 DEF TypeOK, SendFailed, PollType
<1>10. CASE DeliverEnd
  <2>1. poll.key \in Keys /\ poll.failed \subseteq Users
    BY <1>10 DEF DeliverEnd, TypeOK
  <2>2. PICK s : s \in {Owe(poll.failed), Settle} /\ mem' = s /\ Save(s)
    BY <1>10 DEF DeliverEnd
  <2>3. s \in Stores
    BY <2>1, <2>2, OweType, SettleType
  <2>4. mem' \in Stores /\ disk' \in Stores /\ faults' \in Nat
    BY <2>2, <2>3, SaveType
  <2>5. poll' \in PollType
    BY <1>10 DEF DeliverEnd, TypeOK, PollType
  <2> QED BY <1>10, <2>4, <2>5 DEF TypeOK, DeliverEnd, PollType
<1>11. CASE PollEnd
  BY <1>11, NoPollType DEF TypeOK, PollEnd, PollType
<1> QED BY <1>1, <1>2, <1>3, <1>4, <1>5, <1>6, <1>7, <1>8, <1>9, <1>10, <1>11 DEF Polling

LEMMA OtherType ==
  ASSUME TypeOK,
         (\E k \in Keys : BackoffOver(k)) \/ Crash \/ Restart
  PROVE  TypeOK'
<1>1. ASSUME NEW k \in Keys, BackoffOver(k) PROVE TypeOK'
  <2>1. ASSUME NEW s \in Stores PROVE [s EXCEPT !.pending[k].cooling = FALSE] \in Stores
    <3> DEFINE e == [s.pending[k] EXCEPT !.cooling = FALSE]
               q == [s.pending EXCEPT ![k] = e]
    <3>1. s.pending \in [Keys -> Events]
      BY DEF Stores
    <3>2. e \in Events
      BY <3>1 DEF Events
    <3>3. [s EXCEPT !.pending[k].cooling = FALSE] = [s EXCEPT !.pending = q]
      BY DEF Stores
    <3> HIDE DEF e
    <3>4. q \in [Keys -> Events]
      BY <3>1, <3>2
    <3> HIDE DEF q
    <3> QED BY <3>3, <3>4 DEF Stores
  <2>2. mem' \in Stores /\ disk' \in Stores
    BY <1>1, <2>1 DEF BackoffOver, TypeOK
  <2> QED BY <1>1, <2>2 DEF BackoffOver, TypeOK
<1>2. CASE Crash
  <2>1. faults' \in Nat
    BY <1>2, FaultType DEF Crash, TypeOK
  <2> QED
    BY <1>2, <2>1, EmptyStoreType, NoRegType, NoPollType
    DEF Crash, TypeOK, RegType, PollType
<1>3. CASE Restart
  BY <1>3 DEF Restart, TypeOK
<1> QED BY <1>1, <1>2, <1>3

LEMMA TypeStep == TypeOK /\ [Next]_vars => TypeOK'
<1> SUFFICES ASSUME TypeOK, [Next]_vars PROVE TypeOK'
  OBVIOUS
<1>1. CASE UNCHANGED vars
  BY <1>1 DEF vars, TypeOK
<1>2. CASE Next
  BY <1>2, DesktopType, RegistrationType, PollingType, OtherType DEF Next
<1> QED BY <1>1, <1>2

\* Every state the monitor, the files, the disk and Lark reach is well formed.
THEOREM TypeCorrect == Spec => []TypeOK
  BY InitType, TypeStep, PTL DEF Spec

-----------------------------------------------------------------------------
(* A message is recognised by its uuid *)

\* A message's identity is its completion and its user: what makes the uuid
\* enough for Lark to recognise a second attempt.
UuidNamesMessage == \A m \in inbox : m.uuid = <<m.key, m.user>>

LEMMA UuidStep == UuidNamesMessage /\ [Next]_vars => UuidNamesMessage'
<1> SUFFICES ASSUME UuidNamesMessage, [Next]_vars PROVE UuidNamesMessage'
  OBVIOUS
<1>1. ASSUME UNCHANGED inbox PROVE UuidNamesMessage'
  BY <1>1 DEF UuidNamesMessage
<1>2. ASSUME NEW u \in Users, Show(Message(u)) PROVE UuidNamesMessage'
  <2>1. Message(u).uuid = <<Message(u).key, Message(u).user>>
    BY DEF Message, MessageUuid
  <2> QED BY <1>2, <2>1 DEF Show, UuidNamesMessage
<1>3. CASE Desktop
  BY <1>1, <1>3 DEF Desktop, CreateFile, CreateTornFile, FinishMeta, StartRow, FinishRow,
                    MoveFile, ReplaceFile, TruncateFile
<1>4. CASE Registration
  BY <1>1, <1>4 DEF Registration, RegisterBegin, RegisterAgain, SnapshotList,
                    SnapshotFile, RegisterCommit
<1>5. CASE Polling
  <2>1. ASSUME NEW u \in Users, SendAccepted(u) PROVE UuidNamesMessage'
    BY <1>2, <2>1 DEF SendAccepted
  <2>2. ASSUME NEW u \in Users, SendFailed(u) PROVE UuidNamesMessage'
    BY <1>1, <1>2, <2>2 DEF SendFailed
  <2> QED BY <1>1, <1>5, <2>1, <2>2
          DEF Polling, PollBegin, PreservePendingSources, ScanFile, PollSave,
              DeliverDrop, DeliverDefer, DeliverBegin, DeliverEnd, PollEnd
<1>6. CASE (\E k \in Keys : BackoffOver(k)) \/ Crash \/ Restart
  BY <1>1, <1>6 DEF BackoffOver, Crash, Restart
<1>7. CASE UNCHANGED vars
  BY <1>1, <1>7 DEF vars
<1> QED BY <1>3, <1>4, <1>5, <1>6, <1>7 DEF Next

-----------------------------------------------------------------------------
(* What was delivered to everybody stays out of the outbox *)

Disjoint(s) == \A k \in Keys : ~(Settled(s, k) /\ InOutbox(s, k))

\* The delivery loop works through entries that are still in the outbox, so
\* that neither a retry nor a settlement can touch a settled completion.
QueueInv ==
  /\ pc \in {"deliver", "send"} => \A k \in poll.queue : InOutbox(mem, k)
  /\ pc = "send" => poll.key \in poll.queue

SettledInv == TypeOK /\ Disjoint(mem) /\ Disjoint(disk) /\ QueueInv

LEMMA DisjointSave ==
  ASSUME NEW s, Disjoint(s), Disjoint(disk), Save(s)
  PROVE  Disjoint(disk')
  BY DEF Save

LEMMA DisjointEmpty == Disjoint(EmptyStore)
  BY DEF Disjoint, InOutbox, EmptyStore, NoEvent

\* A change that puts into the outbox only what is not settled, and settles
\* nothing, keeps the two apart.
LEMMA DisjointPending ==
  ASSUME NEW s \in Stores, NEW r \in Stores, Disjoint(s), r.delivered = s.delivered,
         \A k \in Keys : InOutbox(r, k) => InOutbox(s, k) \/ ~Settled(s, k)
  PROVE  Disjoint(r)
  BY DEF Disjoint, Settled

LEMMA SettledInit == Init => SettledInv
<1> SUFFICES ASSUME Init PROVE SettledInv
  OBVIOUS
<1>1. disk.delivered = <<>>
  <2>1. ASSUME NEW t \in Legacy, NEW v \in Threads, NEW u \in Users, NEW kept \in BOOLEAN,
               file[v].rows # <<>>, disk = LegacyStore(t, v, u, kept)
        PROVE  disk.delivered = <<>>
    <3>1. t \in Threads /\ file \in [Threads -> FileType]
      BY ConstantsAssumption, InitType DEF TypeOK, FileType
    <3> QED BY <2>1, <3>1, LegacyShape
  <2>2. EmptyStore.delivered = <<>>
    BY DEF EmptyStore
  <2> QED BY <2>1, <2>2 DEF Init
<1>2. Disjoint(disk)
  BY <1>1 DEF Disjoint, Settled, Range
<1> QED BY <1>2, InitType DEF Init, SettledInv, QueueInv

LEMMA SettledStep == SettledInv /\ [Next]_vars => SettledInv'
<1> SUFFICES ASSUME SettledInv, [Next]_vars PROVE Disjoint(mem)' /\ Disjoint(disk)' /\ QueueInv'
  BY TypeStep DEF SettledInv
<1> USE DEF SettledInv
<1>0. TypeOK' /\ mem \in Stores /\ mem' \in Stores /\ disk \in Stores
  BY TypeStep DEF TypeOK
<1> DEFINE Goal == Disjoint(mem)' /\ Disjoint(disk)' /\ QueueInv'
<1>1. ASSUME UNCHANGED <<mem, disk, pc, poll>> PROVE Goal
  BY <1>1 DEF Disjoint, Settled, InOutbox, QueueInv
<1>2. ASSUME UNCHANGED <<mem, disk>>, QueueInv' PROVE Goal
  BY <1>2 DEF Disjoint, Settled, InOutbox
<1>3. CASE Desktop
  BY <1>1, <1>3 DEF Desktop, CreateFile, CreateTornFile, FinishMeta, StartRow, FinishRow,
                    MoveFile, ReplaceFile, TruncateFile
<1>4. CASE Registration
  <2>1. ASSUME NEW u \in Users, RegisterBegin(u) PROVE Goal
    BY <1>2, <2>1 DEF RegisterBegin, QueueInv
  <2>2. ASSUME NEW u \in Users, RegisterAgain(u) PROVE Goal
    BY <2>2, DisjointSave DEF RegisterAgain, QueueInv
  <2>3. CASE SnapshotList
    BY <1>2, <2>3 DEF SnapshotList, QueueInv
  <2>4. ASSUME NEW t \in Threads, SnapshotFile(t) PROVE Goal
    BY <1>1, <2>4 DEF SnapshotFile
  <2>5. CASE RegisterCommit
    <3>1. mem'.delivered = mem.delivered /\ mem'.pending = mem.pending
      BY <1>0, <2>5 DEF RegisterCommit, Stores
    <3>2. Disjoint(mem')
      BY <3>1 DEF Disjoint, Settled, InOutbox
    <3>3. Save(mem') /\ pc' = "idle"
      BY <2>5 DEF RegisterCommit
    <3> QED BY <3>2, <3>3, DisjointSave DEF QueueInv
  <2> QED BY <1>4, <2>1, <2>2, <2>3, <2>4, <2>5 DEF Registration
<1>5. CASE Polling
  <2>1. CASE PollBegin
    BY <1>2, <2>1 DEF PollBegin, QueueInv
  <2>2. CASE PreservePendingSources
    <3>1. mem'.delivered = mem.delivered
          /\ mem'.pending = [k \in Keys |-> Preserved(k)]
      BY <1>0, <2>2 DEF PreservePendingSources, Stores
    <3>2. \A k \in Keys : InOutbox(mem', k) => InOutbox(mem, k)
      BY <3>1 DEF InOutbox, Preserved, NoEvent
    <3>3. Disjoint(mem')
      BY <1>0, <3>1, <3>2, DisjointPending
    <3> QED BY <2>2, <3>3 DEF PreservePendingSources, QueueInv
  <2>3. ASSUME NEW t \in Threads, ScanFile(t) PROVE Goal
    <3>1. CASE mem' = mem
      BY <1>2, <2>3, <3>1 DEF ScanFile, QueueInv
    <3>2. CASE mem' # mem
      <4>1. mem'.delivered = mem.delivered
            /\ mem'.pending =
                 [k \in Keys |-> IF k[1] = t THEN Enqueued(k) ELSE mem.pending[k]]
        BY <1>0, <2>3, <3>2 DEF ScanFile, Stores
      <4>2. \A k \in Keys : InOutbox(mem', k) => InOutbox(mem, k) \/ ~Settled(mem, k)
        BY <4>1 DEF InOutbox, Enqueued
      <4>3. Disjoint(mem')
        BY <1>0, <4>1, <4>2, DisjointPending
      <4> QED BY <2>3, <4>3 DEF ScanFile, QueueInv
    <3> QED BY <3>1, <3>2
  <2>4. CASE PollSave
    <3>1. Disjoint(disk')
      BY <2>4, DisjointSave DEF PollSave
    <3>2. poll'.queue = {k \in Keys : InOutbox(mem, k)} /\ mem' = mem /\ pc' = "deliver"
      BY <2>4 DEF PollSave, TypeOK
    <3> QED BY <3>1, <3>2 DEF QueueInv, Disjoint
  <2>5. ASSUME NEW k \in Keys, DeliverDrop(k) PROVE Goal
    <3>1. /\ mem'.delivered = mem.delivered
          /\ \A j \in Keys : mem'.pending[j] = IF j = k THEN NoEvent ELSE mem.pending[j]
      BY <1>0, <2>5 DEF DeliverDrop, Stores
    <3>2. \A j \in Keys : InOutbox(mem', j) <=> j # k /\ InOutbox(mem, j)
      BY <3>1 DEF InOutbox, NoEvent
    <3>3. Disjoint(mem')
      BY <1>0, <3>1, <3>2, DisjointPending
    <3>4. Disjoint(disk')
      BY <2>5, <3>3, DisjointSave DEF DeliverDrop
    <3>5. poll'.queue = poll.queue \ {k} /\ pc = "deliver" /\ pc' = "deliver"
          /\ poll.queue \subseteq Keys
      BY <2>5 DEF DeliverDrop, TypeOK
    <3>6. QueueInv'
      BY <3>2, <3>5 DEF QueueInv
    <3> QED BY <3>3, <3>4, <3>6
  <2>6. ASSUME NEW k \in Keys, DeliverDefer(k) PROVE Goal
    BY <1>2, <2>6 DEF DeliverDefer, QueueInv, TypeOK
  <2>7. ASSUME NEW k \in Keys, DeliverBegin(k) PROVE Goal
    BY <1>2, <2>7 DEF DeliverBegin, QueueInv, TypeOK
  <2>8. ASSUME NEW u \in Users, SendAccepted(u) PROVE Goal
    BY <1>2, <2>8 DEF SendAccepted, QueueInv, TypeOK
  <2>9. ASSUME NEW u \in Users, SendFailed(u) PROVE Goal
    BY <1>2, <2>9 DEF SendFailed, QueueInv, TypeOK
  <2>10. CASE DeliverEnd
    <3> DEFINE k == poll.key
    <3>1. k \in Keys /\ InOutbox(mem, k) /\ ~Settled(mem, k) /\ poll.queue \subseteq Keys
          /\ mem.delivered \in Seq(Keys)
      BY <1>0, <2>10 DEF DeliverEnd, QueueInv, TypeOK, Disjoint, Stores
    <3>2. ASSUME poll.failed # {} PROVE Disjoint(mem')
      <4>1. /\ mem'.delivered = mem.delivered
            /\ \A j \in Keys \ {k} : mem'.pending[j] = mem.pending[j]
        <5>1. mem' = Owe(poll.failed) /\ poll.failed \in SUBSET Users
          BY <2>10, <3>2 DEF DeliverEnd, TypeOK, PollType
        <5>2. /\ Owe(poll.failed).delivered = mem.delivered
              /\ \A j \in Keys \ {k} : Owe(poll.failed).pending[j] = mem.pending[j]
          BY <1>0, <3>1, <5>1, OweType
        <5> QED BY <5>1, <5>2
      <4>2. \A j \in Keys : InOutbox(mem', j) => InOutbox(mem, j)
        BY <3>1, <4>1 DEF InOutbox
      <4> QED BY <1>0, <4>1, <4>2, DisjointPending
    <3>3. ASSUME poll.failed = {} PROVE Disjoint(mem')
      <4>1. /\ mem'.delivered = Remember(mem.delivered, k)
            /\ \A j \in Keys : mem'.pending[j] = IF j = k THEN NoEvent ELSE mem.pending[j]
        BY <2>10, <3>1, <3>3, SettleType DEF DeliverEnd
      <4>2. \A j \in Keys : Settled(mem', j) => Settled(mem, j) \/ j = k
        BY <3>1, <4>1, RememberType DEF Settled
      <4>3. \A j \in Keys : InOutbox(mem', j) => j # k /\ InOutbox(mem, j)
        BY <4>1 DEF InOutbox, NoEvent
      <4> QED BY <4>2, <4>3 DEF Disjoint
    <3>4. Disjoint(mem')
      BY <3>2, <3>3
    <3>5. Disjoint(disk')
      BY <2>10, <3>4, DisjointSave DEF DeliverEnd
    <3>6. \A j \in Keys \ {k} : InOutbox(mem, j) => InOutbox(mem', j)
      <4>1. poll.failed \in SUBSET Users
        BY DEF TypeOK
      <4> QED BY <2>10, <3>1, <4>1, OweType, SettleType DEF DeliverEnd, InOutbox
    <3>7. poll'.queue = poll.queue \ {k} /\ pc = "send" /\ pc' = "deliver"
      BY <2>10 DEF DeliverEnd, TypeOK
    <3>8. QueueInv'
      BY <3>1, <3>6, <3>7 DEF QueueInv
    <3> QED BY <3>4, <3>5, <3>8
  <2>11. CASE PollEnd
    BY <1>2, <2>11 DEF PollEnd, QueueInv
  <2> QED BY <1>5, <2>1, <2>2, <2>3, <2>4, <2>5, <2>6, <2>7, <2>8, <2>9, <2>10, <2>11
          DEF Polling
<1>6. ASSUME NEW k \in Keys, BackoffOver(k) PROVE Goal
  <2>1. \A s \in Stores : LET r == [s EXCEPT !.pending[k].cooling = FALSE]
                         IN  /\ r.delivered = s.delivered
                             /\ \A j \in Keys : r.pending[j].targets = s.pending[j].targets
    BY DEF Stores, Events
  <2> QED BY <1>0, <1>6, <2>1 DEF BackoffOver, Disjoint, Settled, InOutbox, QueueInv
<1>7. CASE Crash
  BY <1>7, DisjointEmpty DEF Crash, QueueInv, Disjoint
<1>8. CASE Restart
  BY <1>8 DEF Restart, QueueInv
<1>9. CASE UNCHANGED vars
  BY <1>1, <1>9 DEF vars
<1> QED BY <1>3, <1>4, <1>5, <1>6, <1>7, <1>8, <1>9 DEF Next

\* A completion delivered to everybody is out of the outbox for good, whatever
\* is scanned again.
THEOREM SettledTheorem == Spec => []SettledStaysOut
<1>1. SettledInv => SettledStaysOut
  BY DEF SettledInv, SettledStaysOut, Disjoint
<1> QED BY <1>1, SettledInit, SettledStep, PTL DEF Spec

-----------------------------------------------------------------------------
(***************************************************************************)
(* Whose turn an outbox entry reports.  A rollout holds turns of its own   *)
(* thread only, so the owner of the path an entry goes by is the author of *)
(* the entry's turn, and an entry that was verified reports a turn of the  *)
(* thread it is kept under.  What the first line of a file lets the monitor *)
(* drop is therefore somebody else's, and what it lets it send is not.     *)
(***************************************************************************)

Authored(t, f) ==
  /\ \A i \in DOMAIN f.rows : Author[f.rows[i].turn] = t
  /\ f.part # NoRow => Author[f.part.turn] = t

\* The path an entry goes by: its own or, of an older version's entry that has
\* none, the one of the cursor.
GoesBy(s, k) ==
  IF s.pending[k].path = Unset THEN s.cursors[k[1]].path ELSE s.pending[k].path

EntryPinned(s, k) ==
  /\ s.pending[k].targets \subseteq Registered(s)
  /\ s.pending[k].verified => Own(k)
  /\ GoesBy(s, k) \in Paths => GoesBy(s, k)[1] = Author[k[2]]

Pinned(s) == \A k \in Keys : InOutbox(s, k) => EntryPinned(s, k)

PinInv ==
  /\ \A t \in Threads : Authored(t, file[t])
  /\ Pinned(mem) /\ Pinned(disk)
  /\ pc \in {"scan", "deliver", "send"} =>
       \A k \in Keys : InOutbox(mem, k) => mem.pending[k].path # Unset
  /\ pc \in {"list", "snapshot", "register"} => reg.cutoff # 0
  /\ pc \in {"list", "snapshot"} => Registered(mem) = {}
  /\ pc = "register" => \A t \in Threads : reg.base[t] = NoCursor
  /\ pc = "send" => /\ Own(poll.key)
                    /\ poll.left \cup poll.failed \subseteq mem.pending[poll.key].targets

\* Which file the first line was read from.
LEMMA EligibleFile ==
  ASSUME NEW t, NEW path, Eligibility(t, path) = "yes"
  PROVE  /\ path \in Paths /\ path[1] = t /\ t \notin Children /\ t \in Threads
         /\ At(path) = file[t] /\ file[t].meta
<1>1. At(path).meta /\ path[1] = t /\ t \notin Children
  BY DEF Eligibility
<1>2. path \in Paths /\ At(path) = file[t]
  BY <1>1 DEF At, NoFile
<1> QED BY <1>1, <1>2 DEF Paths

LEMMA RefusedFile ==
  ASSUME NEW t, NEW path, Eligibility(t, path) = "no"
  PROVE  path \in Paths /\ (path[1] \in Children \/ path[1] # t)
<1>1. At(path).meta /\ (path[1] \in Children \/ path[1] # t)
  BY DEF Eligibility
<1>2. path \in Paths
  BY <1>1 DEF At, NoFile
<1> QED BY <1>1, <1>2

\* What is found of the file an entry goes by is found of its turn's author.
LEMMA FoundOwn ==
  ASSUME NEW k \in Keys, NEW path, path \in Paths => path[1] = Author[k[2]]
  PROVE  /\ Eligibility(k[1], path) = "no" => ~Own(k)
         /\ Eligibility(k[1], path) = "yes" => Own(k)
  BY EligibleFile, RefusedFile DEF Own

LEMMA PathIsSet == \A path \in Paths \cup {NoPath} : path # Unset
  BY DEF Paths, NoPath, Unset

LEMMA PinnedEmpty == Pinned(EmptyStore)
  BY DEF Pinned, InOutbox, EmptyStore, NoEvent

LEMMA PinnedSave ==
  ASSUME NEW s, Pinned(s), Pinned(disk), Save(s)
  PROVE  Pinned(disk')
  BY DEF Save

\* A store with fewer entries, or fewer users in them, and the same cursors.
LEMMA PinnedLess ==
  ASSUME NEW s, NEW r, Pinned(s), r.targets = s.targets, r.cursors = s.cursors,
         \A k \in Keys : InOutbox(r, k) =>
           /\ InOutbox(s, k) /\ r.pending[k].targets \subseteq s.pending[k].targets
           /\ r.pending[k].path = s.pending[k].path
           /\ r.pending[k].verified = s.pending[k].verified
  PROVE  Pinned(r)
<1>1. Registered(r) = Registered(s)
  BY DEF Registered
<1>2. ASSUME NEW k \in Keys, InOutbox(r, k) PROVE EntryPinned(r, k)
  <2>1. EntryPinned(s, k) /\ GoesBy(r, k) = GoesBy(s, k)
    BY <1>2 DEF Pinned, GoesBy
  <2> QED BY <1>1, <1>2, <2>1 DEF EntryPinned
<1> QED BY <1>2 DEF Pinned

LEMMA PinInit == Init => PinInv
<1> SUFFICES ASSUME Init PROVE PinInv
  OBVIOUS
<1>1. file \in [Threads -> FileType] /\ mem = disk /\ pc = "idle"
  BY InitType DEF Init, TypeOK, FileType
<1>2. ASSUME NEW t \in Threads PROVE Authored(t, file[t])
  BY OldFileShape DEF Init, Authored
<1>3. Pinned(disk)
  <2>1. ASSUME NEW t \in Legacy, NEW v \in Threads, NEW u \in Users, NEW kept \in BOOLEAN,
               file[v].rows # <<>>, disk = LegacyStore(t, v, u, kept)
        PROVE  Pinned(disk)
    <3> DEFINE k == LegacyKey(t, v)
    <3>1. /\ k = <<t, file[v].rows[1].turn>> /\ 1 \in DOMAIN file[v].rows /\ t \in Threads
          /\ disk.targets[u] = 1 /\ disk.cursors[t] = LegacyCursor(t, v, kept)
          /\ disk.pending[k] = LegacyEvent(u)
          /\ \A j \in Keys \ {k} : disk.pending[j] = NoEvent
      <4>1. t \in Threads
        BY ConstantsAssumption
      <4> QED BY <1>1, <2>1, <4>1, LegacyShape
    <3>2. Author[k[2]] = v /\ k[1] = t
      BY <1>2, <3>1 DEF Authored
    <3>3. /\ disk.pending[k].path = Unset /\ ~disk.pending[k].verified
          /\ disk.pending[k].targets = {u}
      BY <3>1 DEF LegacyEvent
    <3> HIDE DEF k
    <3>4. ASSUME NEW j \in Keys, InOutbox(disk, j) PROVE j = k
      BY <3>1, <3>4 DEF InOutbox, NoEvent
    <3>5. GoesBy(disk, k) = LegacyCursor(t, v, kept).path
      BY <3>1, <3>2, <3>3 DEF GoesBy
    <3>6. GoesBy(disk, k) \in Paths => GoesBy(disk, k)[1] = v
      BY <3>5 DEF LegacyCursor, NoCursor, PathOf, Paths, NoPath
    <3>7. EntryPinned(disk, k)
      BY <3>1, <3>2, <3>3, <3>6 DEF EntryPinned, Registered
    <3> QED BY <3>4, <3>7 DEF Pinned
  <2> QED BY <2>1, PinnedEmpty DEF Init
<1> QED BY <1>1, <1>2, <1>3 DEF PinInv

\* Codex Desktop writes a thread's turns to the thread's file.
LEMMA DesktopPin == ASSUME TypeOK, PinInv, Desktop PROVE PinInv'
<1>1. PICK t \in Threads :
        \/ CreateFile(t) \/ CreateTornFile(t) \/ FinishMeta(t)
        \/ \E turn \in Turns : StartRow(t, turn)
        \/ FinishRow(t) \/ MoveFile(t) \/ ReplaceFile(t) \/ TruncateFile(t)
  BY DEF Desktop
<1>2. UNCHANGED <<mem, disk, pc, reg, poll>>
  BY <1>1 DEF CreateFile, CreateTornFile, FinishMeta, StartRow, FinishRow,
              MoveFile, ReplaceFile, TruncateFile
<1> DEFINE f == file[t]
<1>3. /\ file \in [Threads -> FileType] /\ f.rows \in Seq(Rows)
      /\ f.part \in Rows \cup {NoRow} /\ Authored(t, f)
  BY DEF TypeOK, FileType, PinInv
<1>4. ASSUME NEW g, file' = [file EXCEPT ![t] = g], Authored(t, g) PROVE PinInv'
  BY <1>2, <1>3, <1>4 DEF PinInv
<1>5. ASSUME NEW g, file' = [file EXCEPT ![t] = g], g.part = NoRow,
             g.rows = <<>> \/ g.rows = f.rows
      PROVE  PinInv'
  <2>1. Authored(t, g)
    BY <1>3, <1>5 DEF Authored
  <2> QED BY <1>4, <1>5, <2>1
<1> HIDE DEF f
<1>6. CASE CreateFile(t) \/ CreateTornFile(t)
  <2>1. PICK meta : file' = [file EXCEPT ![t] = NewFile(meta)]
    BY <1>6 DEF CreateFile, CreateTornFile
  <2>2. NewFile(meta).part = NoRow /\ NewFile(meta).rows = <<>>
    BY DEF NewFile
  <2> QED BY <1>5, <2>1, <2>2
<1>7. CASE FinishMeta(t) \/ TruncateFile(t)
  <2>1. file' = [file EXCEPT ![t] = Written(f, <<>>, NoRow)]
    BY <1>7 DEF FinishMeta, TruncateFile, f
  <2>2. Written(f, <<>>, NoRow).part = NoRow /\ Written(f, <<>>, NoRow).rows = <<>>
    BY DEF Written
  <2> QED BY <1>5, <2>1, <2>2
<1>8. ASSUME NEW turn \in Turns, StartRow(t, turn) PROVE PinInv'
  <2> DEFINE row == [turn |-> turn, at |-> IF turn \in Undated THEN NoStamp ELSE clock]
  <2>1. file' = [file EXCEPT ![t] = Written(f, f.rows, row)] /\ Author[turn] = t
    BY <1>8 DEF StartRow, f
  <2>2. row.turn = turn
    OBVIOUS
  <2> HIDE DEF row
  <2>3. Authored(t, Written(f, f.rows, row))
    BY <1>3, <2>1, <2>2 DEF Authored, Written
  <2> QED BY <1>4, <2>1, <2>3
<1>9. CASE FinishRow(t)
  <2> DEFINE rows == Append(f.rows, f.part)
  <2>1. file' = [file EXCEPT ![t] = Written(f, rows, NoRow)] /\ f.part # NoRow
    BY <1>9 DEF FinishRow, f
  <2>2. \A i \in DOMAIN rows : rows[i] = f.part \/ (i \in DOMAIN f.rows /\ rows[i] = f.rows[i])
    BY <1>3, <2>1
  <2> HIDE DEF rows
  <2>3. Authored(t, Written(f, rows, NoRow))
    BY <1>3, <2>1, <2>2 DEF Authored, Written
  <2> QED BY <1>4, <2>1, <2>3
<1>10. CASE MoveFile(t)
  <2> DEFINE g == [f EXCEPT !.place = IF f.place = "live" THEN "archived" ELSE "live"]
  <2>1. file' = [file EXCEPT ![t] = g]
    BY <1>10 DEF MoveFile, f
  <2>2. g.rows = f.rows /\ g.part = f.part
    BY <1>3 DEF FileType, f
  <2> HIDE DEF g
  <2> QED BY <1>3, <1>4, <2>1, <2>2 DEF Authored
<1>11. CASE ReplaceFile(t)
  <2> DEFINE g == [place |-> f.place, inode |-> f.inode + 1, born |-> clock,
                   mtime |-> clock, meta |-> TRUE, rows |-> f.rows, part |-> NoRow]
  <2>1. file' = [file EXCEPT ![t] = g]
    BY <1>11 DEF ReplaceFile, f
  <2>2. g.rows = f.rows /\ g.part = NoRow
    OBVIOUS
  <2> HIDE DEF g
  <2> QED BY <1>5, <2>1, <2>2
<1> QED BY <1>1, <1>6, <1>7, <1>8, <1>9, <1>10, <1>11

\* A registration moves cursors only while there is nothing in the outbox.
LEMMA RegistrationPin == ASSUME TypeOK, PinInv, Registration PROVE PinInv'
<1>1. ASSUME NEW u \in Users, RegisterBegin(u) PROVE PinInv'
  <2>1. /\ UNCHANGED <<file, mem, disk>> /\ reg'.cutoff = clock + 1 /\ clock \in Nat
        /\ \A t \in Threads : reg'.base[t] = NoCursor
        /\ pc' \in {"list", "register"} /\ (pc' = "list" => Registered(mem) = {})
    BY <1>1 DEF RegisterBegin, NoReg, TypeOK
  <2> QED BY <2>1 DEF PinInv, Registered
<1>2. ASSUME NEW u \in Users, RegisterAgain(u) PROVE PinInv'
  <2>1. pc = "idle" /\ UNCHANGED <<file, mem, pc, reg, poll>> /\ Save(mem)
    BY <1>2 DEF RegisterAgain
  <2> QED BY <2>1, PinnedSave DEF PinInv
<1>3. CASE SnapshotList
  <2>1. /\ pc = "list" /\ pc' = "snapshot" /\ UNCHANGED <<file, mem, disk>>
        /\ reg'.cutoff = reg.cutoff
    BY <1>3 DEF SnapshotList, TypeOK
  <2> QED BY <2>1 DEF PinInv, Registered
<1>4. ASSUME NEW t \in Threads, SnapshotFile(t) PROVE PinInv'
  <2>1. pc = "snapshot" /\ UNCHANGED <<file, mem, disk, pc, poll>> /\ reg'.cutoff = reg.cutoff
    BY <1>4 DEF SnapshotFile, TypeOK
  <2> QED BY <2>1 DEF PinInv, Registered
<1>5. CASE RegisterCommit
  <2> DEFINE cs == [t \in Threads |->
               IF reg.base[t] # NoCursor THEN reg.base[t] ELSE mem.cursors[t]]
  <2>1. /\ pc \in {"register", "snapshot"} /\ pc' = "idle" /\ Save(mem') /\ file' = file
        /\ mem' = [mem EXCEPT !.targets[reg.user] = reg.cutoff,
                              !.registered = IF @ = 0 THEN reg.cutoff ELSE @,
                              !.cursors = cs]
        /\ reg.cutoff # 0 /\ mem \in Stores
    BY <1>5 DEF RegisterCommit, PinInv, TypeOK
  <2> HIDE DEF cs
  <2>2. /\ mem'.targets = [mem.targets EXCEPT ![reg.user] = reg.cutoff]
        /\ mem'.pending = mem.pending /\ mem'.cursors = cs
    BY <2>1 DEF Stores
  <2>3. Registered(mem) \subseteq Registered(mem')
    BY <2>1, <2>2 DEF Registered, Stores
  <2>4. ASSUME NEW k \in Keys, InOutbox(mem', k) PROVE EntryPinned(mem', k)
    <3>1. EntryPinned(mem, k) /\ mem'.pending[k] = mem.pending[k] /\ k[1] \in Threads
      BY <2>2, <2>4 DEF PinInv, Pinned, InOutbox, Keys
    <3>2. pc = "register"
      BY <2>1, <2>2, <2>4, <3>1 DEF PinInv, EntryPinned, InOutbox
    <3>3. mem'.cursors[k[1]] = mem.cursors[k[1]]
      BY <2>2, <3>1, <3>2 DEF PinInv, cs
    <3> QED BY <2>3, <3>1, <3>3 DEF EntryPinned, GoesBy
  <2>5. Pinned(mem')
    BY <2>4 DEF Pinned
  <2>6. Pinned(disk')
    BY <2>1, <2>5, PinnedSave DEF PinInv
  <2> QED BY <2>1, <2>5, <2>6 DEF PinInv
<1> QED BY <1>1, <1>2, <1>3, <1>4, <1>5 DEF Registration

\* Migration pins an entry to the path it goes by, or drops it: somebody else's.
LEMMA PreservedPin ==
  ASSUME TypeOK, PinInv, PreservePendingSources
  PROVE  /\ mem'.targets = mem.targets /\ mem'.registered = mem.registered
         /\ mem'.cursors = mem.cursors /\ mem'.delivered = mem.delivered
         /\ mem'.told = mem.told
         /\ \A k \in Keys :
              /\ mem'.pending[k].targets \in {mem.pending[k].targets, {}}
              /\ Own(k) => mem'.pending[k].targets = mem.pending[k].targets
              /\ InOutbox(mem', k) => EntryPinned(mem', k) /\ mem'.pending[k].path # Unset
<1>1. mem \in Stores /\ mem' = [mem EXCEPT !.pending = [k \in Keys |-> Preserved(k)]]
  BY DEF PreservePendingSources, TypeOK
<1>2. /\ mem'.targets = mem.targets /\ mem'.registered = mem.registered
      /\ mem'.cursors = mem.cursors /\ mem'.delivered = mem.delivered
      /\ mem'.told = mem.told /\ \A k \in Keys : mem'.pending[k] = Preserved(k)
  BY <1>1 DEF Stores
<1>3. ASSUME NEW k \in Keys
      PROVE  /\ mem'.pending[k].targets \in {mem.pending[k].targets, {}}
             /\ Own(k) => mem'.pending[k].targets = mem.pending[k].targets
             /\ InOutbox(mem', k) => EntryPinned(mem', k) /\ mem'.pending[k].path # Unset
  <2> DEFINE e == mem.pending[k]
             path == GoesBy(mem, k)
  <2>1. CASE ~InOutbox(mem, k)
    BY <1>2, <2>1 DEF Preserved, InOutbox
  <2>2. CASE InOutbox(mem, k)
    <3>1. /\ e.targets \subseteq Registered(mem) /\ (e.verified => Own(k))
          /\ (path \in Paths => path[1] = Author[k[2]])
      BY <2>2 DEF PinInv, Pinned, EntryPinned
    <3>2. path # Unset
      <4>1. k[1] \in Threads /\ mem.cursors[k[1]].path \in Paths \cup {NoPath}
        BY <1>1 DEF Keys, Stores, Cursors
      <4> QED BY <4>1, PathIsSet DEF GoesBy
    <3>3. CASE Eligibility(k[1], path) = "no"
      <4>1. Preserved(k) = NoEvent /\ ~Own(k)
        BY <2>2, <3>1, <3>3, FoundOwn DEF Preserved, GoesBy
      <4> QED BY <1>2, <4>1 DEF InOutbox, NoEvent
    <3>4. CASE Eligibility(k[1], path) # "no"
      <4> DEFINE r == [path |-> path,
                       verified |-> e.verified \/ Eligibility(k[1], path) = "yes",
                       targets |-> e.targets, attempts |-> e.attempts,
                       cooling |-> e.cooling]
      <4>1. Preserved(k) = r
        BY <2>2, <3>4 DEF Preserved, GoesBy
      <4>2. /\ r.path = path /\ r.targets = e.targets
            /\ r.verified => Own(k)
        BY <3>1, FoundOwn
      <4>3. mem'.pending[k] = r
        BY <1>2, <4>1
      <4> HIDE DEF r, e, path
      <4>4. GoesBy(mem', k) = path /\ Registered(mem') = Registered(mem)
        BY <1>2, <3>2, <4>2, <4>3 DEF GoesBy, Registered
      <4>5. EntryPinned(mem', k)
        BY <3>1, <4>2, <4>3, <4>4 DEF EntryPinned
      <4> QED BY <3>2, <4>2, <4>3, <4>5 DEF e
    <3> QED BY <3>3, <3>4
  <2> QED BY <2>1, <2>2
<1> QED BY <1>2, <1>3

\* What a scan changes, field by field, and whose turns it finds.
LEMMA ScanFields ==
  ASSUME TypeOK, NEW t \in Threads, ScanFile(t), Eligibility(t, poll.src[t]) = "yes"
  PROVE  /\ poll.src[t] \in Paths /\ poll.src[t][1] = t /\ t \notin Children
         /\ At(poll.src[t]) = file[t] /\ file[t].meta
         /\ mem'.targets = mem.targets /\ mem'.registered = mem.registered
         /\ mem'.delivered = mem.delivered /\ mem'.told = mem.told
         /\ mem'.cursors[t].inode = file[t].inode
         /\ mem'.cursors[t].offset = Len(file[t].rows)
         /\ \A v \in Threads \ {t} : mem'.cursors[v] = mem.cursors[v]
         /\ \A k \in Keys : k[1] # t => mem'.pending[k] = mem.pending[k]
         /\ \A k \in Keys : k[1] = t => mem'.pending[k] = Enqueued(k)
<1>1. /\ poll.src[t] \in Paths /\ poll.src[t][1] = t /\ t \notin Children
      /\ At(poll.src[t]) = file[t] /\ file[t].meta
  BY EligibleFile
<1> DEFINE f == At(poll.src[t])
           c == [path |-> IF SameFile(mem.cursors[t], f) THEN mem.cursors[t].path
                          ELSE poll.src[t],
                 inode |-> f.inode, offset |-> CommittedOffset(t)]
           p == [k \in Keys |-> IF k[1] = t THEN Enqueued(k) ELSE mem.pending[k]]
<1>2. mem' = [mem EXCEPT !.cursors[t] = c, !.pending = p] /\ mem \in Stores
  BY DEF ScanFile, TypeOK
<1>3. c.inode = file[t].inode /\ c.offset = Len(file[t].rows)
  BY <1>1 DEF CommittedOffset, CompleteFileOffset
<1>4. \A k \in Keys : p[k] = IF k[1] = t THEN Enqueued(k) ELSE mem.pending[k]
  OBVIOUS
<1> HIDE DEF c, p, f
<1>5. /\ mem'.targets = mem.targets /\ mem'.registered = mem.registered
      /\ mem'.delivered = mem.delivered /\ mem'.told = mem.told /\ mem'.pending = p
      /\ mem'.cursors[t] = c /\ \A v \in Threads \ {t} : mem'.cursors[v] = mem.cursors[v]
  BY <1>2 DEF Stores
<1> QED BY <1>1, <1>3, <1>4, <1>5

\* An entry a scan makes reports a row of the thread's own file.
LEMMA EnqueuedRow ==
  ASSUME TypeOK, NEW t \in Threads, At(poll.src[t]) = file[t], NEW k \in Keys, k[1] = t,
         Enqueued(k) # mem.pending[k]
  PROVE  /\ ~InOutbox(mem, k) /\ ~Settled(mem, k)
         /\ Enqueued(k) = [path |-> poll.src[t], verified |-> TRUE,
                           targets |-> Addressees(t, k), attempts |-> 0, cooling |-> FALSE]
         /\ Addressees(t, k) \subseteq Registered(mem)
         /\ \A u \in Addressees(t, k) : \E i \in DOMAIN file[t].rows :
              /\ <<t, file[t].rows[i].turn>> = k /\ u \in Owners(file[t].rows[i])
         /\ \E i \in DOMAIN file[t].rows : <<t, file[t].rows[i].turn>> = k
<1>1. /\ ~InOutbox(mem, k) /\ ~Settled(mem, k) /\ Addressees(t, k) # {}
      /\ Enqueued(k) = [path |-> poll.src[t], verified |-> TRUE,
                        targets |-> Addressees(t, k), attempts |-> 0, cooling |-> FALSE]
  BY DEF Enqueued
<1>2. ASSUME NEW u \in Addressees(t, k)
      PROVE  \E i \in DOMAIN file[t].rows :
               <<t, file[t].rows[i].turn>> = k /\ u \in Owners(file[t].rows[i])
  <2>1. PICK row \in ReadCompletionEvents(t) : <<t, row.turn>> = k /\ u \in Owners(row)
    BY <1>2 DEF Addressees
  <2>2. PICK n \in (ScanOffset(t) + 1)..Len(file[t].rows) : row = file[t].rows[n]
    BY <2>1 DEF ReadCompletionEvents, CompleteFileOffset
  <2>3. ScanOffset(t) \in Nat /\ Len(file[t].rows) \in Nat
    <3>1. mem.cursors[t].offset \in Nat /\ Len(file[t].rows) \in Nat
      BY DEF TypeOK, Stores, Cursors
    <3> QED BY <3>1 DEF ScanOffset, CompleteFileOffset
  <2>4. n \in 1..Len(file[t].rows)
    BY <2>2, <2>3
  <2>5. n \in DOMAIN file[t].rows
    BY <2>4 DEF TypeOK
  <2> QED BY <2>1, <2>2, <2>5
<1>3. Addressees(t, k) \subseteq Registered(mem)
  BY <1>2 DEF Owners
<1> QED BY <1>1, <1>2, <1>3

LEMMA ScanPin ==
  ASSUME TypeOK, PinInv, NEW t \in Threads, ScanFile(t)
  PROVE  Pinned(mem') /\ \A k \in Keys : InOutbox(mem', k) => mem'.pending[k].path # Unset
<1>1. pc = "scan"
  BY DEF ScanFile
<1>2. CASE Eligibility(t, poll.src[t]) # "yes"
  <2>1. mem' = mem
    BY <1>2 DEF ScanFile
  <2> QED BY <1>1, <2>1 DEF PinInv
<1>3. ASSUME Eligibility(t, poll.src[t]) = "yes", NEW k \in Keys, InOutbox(mem', k)
      PROVE  EntryPinned(mem', k) /\ mem'.pending[k].path # Unset
  <2>1. Registered(mem') = Registered(mem)
    BY <1>3, ScanFields DEF Registered
  <2>2. CASE mem'.pending[k] = mem.pending[k]
    <3>1. InOutbox(mem, k) /\ EntryPinned(mem, k) /\ mem.pending[k].path # Unset
      BY <1>1, <1>3, <2>2 DEF PinInv, Pinned, InOutbox
    <3> QED BY <2>1, <2>2, <3>1 DEF EntryPinned, GoesBy
  <2>3. CASE mem'.pending[k] # mem.pending[k]
    <3>1. /\ k[1] = t /\ mem'.pending[k] = Enqueued(k) /\ At(poll.src[t]) = file[t]
          /\ poll.src[t] \in Paths /\ poll.src[t][1] = t /\ t \notin Children
      BY <1>3, <2>3, ScanFields
    <3>2. /\ mem'.pending[k] = [path |-> poll.src[t], verified |-> TRUE,
                                targets |-> Addressees(t, k), attempts |-> 0,
                                cooling |-> FALSE]
          /\ Addressees(t, k) \subseteq Registered(mem)
          /\ \E i \in DOMAIN file[t].rows : <<t, file[t].rows[i].turn>> = k
      BY <2>3, <3>1, EnqueuedRow
    <3>3. Author[k[2]] = t
      BY <3>2 DEF PinInv, Authored
    <3>4. /\ mem'.pending[k].path = poll.src[t] /\ mem'.pending[k].targets = Addressees(t, k)
          /\ poll.src[t] # Unset
      BY <3>1, <3>2, PathIsSet
    <3>5. GoesBy(mem', k) = poll.src[t]
      BY <3>4 DEF GoesBy
    <3> QED BY <2>1, <3>1, <3>2, <3>3, <3>4, <3>5 DEF EntryPinned, Own
  <2> QED BY <2>2, <2>3
<1> QED BY <1>2, <1>3 DEF Pinned

\* What is dropped at delivery is somebody else's, what is sent is the thread's
\* own.
LEMMA DroppedOther ==
  ASSUME TypeOK, QueueInv, PinInv, NEW k \in Keys, DeliverDrop(k)
  PROVE  ~Own(k)
<1>1. InOutbox(mem, k) /\ Eligibility(k[1], mem.pending[k].path) = "no"
      /\ mem.pending[k].path # Unset
  BY DEF DeliverDrop, QueueInv, PinInv
<1>2. GoesBy(mem, k) = mem.pending[k].path /\ EntryPinned(mem, k)
  BY <1>1 DEF GoesBy, PinInv, Pinned
<1> QED BY <1>1, <1>2, FoundOwn DEF EntryPinned

LEMMA SentOwn ==
  ASSUME TypeOK, QueueInv, PinInv, NEW k \in Keys, DeliverBegin(k)
  PROVE  Own(k)
<1>1. InOutbox(mem, k) /\ Sendable(k) = "yes" /\ mem.pending[k].path # Unset
  BY DEF DeliverBegin, QueueInv, PinInv
<1>2. GoesBy(mem, k) = mem.pending[k].path /\ EntryPinned(mem, k)
  BY <1>1 DEF GoesBy, PinInv, Pinned
<1>3. Eligibility(k[1], mem.pending[k].path) = "yes" \/ mem.pending[k].verified
  BY <1>1 DEF Sendable
<1> QED BY <1>2, <1>3, FoundOwn DEF EntryPinned

LEMMA PollingPin == ASSUME TypeOK, QueueInv, PinInv, Polling PROVE PinInv'
<1>1. CASE PollBegin \/ PollEnd \/ \E k \in Keys : DeliverDefer(k)
  <2>1. /\ UNCHANGED <<file, mem, disk, reg>> /\ pc' \in {"preserve", "idle", "deliver"}
        /\ pc' = "deliver" => pc = "deliver"
    BY <1>1 DEF PollBegin, PollEnd, DeliverDefer
  <2> QED BY <2>1 DEF PinInv
<1>2. CASE PreservePendingSources
  <2>1. pc' = "scan" /\ UNCHANGED <<file, disk>>
    BY <1>2 DEF PreservePendingSources
  <2> QED BY <1>2, <2>1, PreservedPin DEF PinInv, Pinned
<1>3. ASSUME NEW t \in Threads, ScanFile(t) PROVE PinInv'
  <2>1. pc = "scan" /\ pc' = "scan" /\ UNCHANGED <<file, disk>>
    BY <1>3 DEF ScanFile
  <2> QED BY <1>3, <2>1, ScanPin DEF PinInv
<1>4. CASE PollSave
  <2>1. pc = "scan" /\ pc' = "deliver" /\ UNCHANGED <<file, mem>> /\ (Save(mem) \/ disk' = disk)
    BY <1>4 DEF PollSave
  <2> QED BY <2>1, PinnedSave DEF PinInv
<1>5. ASSUME NEW k \in Keys, DeliverDrop(k) PROVE PinInv'
  <2>1. /\ pc = "deliver" /\ pc' = "deliver" /\ file' = file /\ Save(mem') /\ mem \in Stores
        /\ mem' = [mem EXCEPT !.pending[k] = NoEvent]
    BY <1>5 DEF DeliverDrop, TypeOK
  <2>2. /\ mem'.targets = mem.targets /\ mem'.cursors = mem.cursors
        /\ \A j \in Keys : mem'.pending[j] = IF j = k THEN NoEvent ELSE mem.pending[j]
    BY <2>1 DEF Stores
  <2>3. \A j \in Keys : InOutbox(mem', j) => j # k /\ InOutbox(mem, j)
    BY <2>2 DEF InOutbox, NoEvent
  <2>4. Pinned(mem')
    BY <2>2, <2>3, PinnedLess DEF PinInv
  <2>5. Pinned(disk')
    BY <2>1, <2>4, PinnedSave DEF PinInv
  <2> QED BY <2>1, <2>2, <2>3, <2>4, <2>5 DEF PinInv
<1>6. ASSUME NEW k \in Keys, DeliverBegin(k) PROVE PinInv'
  <2>1. /\ pc = "deliver" /\ pc' = "send" /\ UNCHANGED <<file, mem, disk>> /\ poll'.key = k
        /\ poll'.failed = {} /\ poll'.left \subseteq mem.pending[k].targets
    BY <1>6 DEF DeliverBegin, TypeOK
  <2> QED BY <1>6, <2>1, SentOwn DEF PinInv
<1>7. ASSUME NEW u \in Users, SendAccepted(u) \/ SendFailed(u) PROVE PinInv'
  <2>1. /\ pc = "send" /\ pc' = "send" /\ UNCHANGED <<file, mem, disk>>
        /\ poll'.key = poll.key /\ u \in poll.left
        /\ poll'.left = poll.left \ {u} /\ poll'.failed \subseteq poll.failed \cup {u}
    BY <1>7 DEF SendAccepted, SendFailed, TypeOK
  <2> QED BY <2>1 DEF PinInv
<1>8. CASE DeliverEnd
  <2> DEFINE k == poll.key
  <2>1. /\ pc = "send" /\ pc' = "deliver" /\ file' = file /\ Save(mem') /\ k \in Keys
        /\ poll.failed \in SUBSET Users /\ InOutbox(mem, k)
        /\ mem' = IF poll.failed # {} THEN Owe(poll.failed) ELSE Settle
    BY <1>8 DEF DeliverEnd, TypeOK, QueueInv
  <2>2. /\ mem'.targets = mem.targets /\ mem'.cursors = mem.cursors
        /\ \A j \in Keys \ {k} : mem'.pending[j] = mem.pending[j]
        /\ \/ mem'.pending[k] = NoEvent
           \/ /\ mem'.pending[k].path = mem.pending[k].path
              /\ mem'.pending[k].verified = mem.pending[k].verified
              /\ mem'.pending[k].targets = poll.failed
    <3>1. CASE poll.failed # {}
      BY <2>1, <3>1, OweType
    <3>2. CASE poll.failed = {}
      BY <2>1, <3>2, SettleType
    <3> QED BY <3>1, <3>2
  <2>3. \A j \in Keys : InOutbox(mem', j) =>
          /\ InOutbox(mem, j) /\ mem'.pending[j].targets \subseteq mem.pending[j].targets
          /\ mem'.pending[j].path = mem.pending[j].path
          /\ mem'.pending[j].verified = mem.pending[j].verified
    BY <2>1, <2>2 DEF InOutbox, NoEvent, PinInv
  <2>4. Pinned(mem')
    BY <2>2, <2>3, PinnedLess DEF PinInv
  <2>5. Pinned(disk')
    BY <2>1, <2>4, PinnedSave DEF PinInv
  <2> QED BY <2>1, <2>3, <2>4, <2>5 DEF PinInv
<1> QED BY <1>1, <1>2, <1>3, <1>4, <1>5, <1>6, <1>7, <1>8 DEF Polling

LEMMA OtherPin ==
  ASSUME TypeOK, PinInv, (\E k \in Keys : BackoffOver(k)) \/ Crash \/ Restart
  PROVE  PinInv'
<1>1. ASSUME NEW k \in Keys, BackoffOver(k) PROVE PinInv'
  <2>1. ASSUME NEW s \in Stores, NEW r, r = [s EXCEPT !.pending[k].cooling = FALSE]
        PROVE  /\ r.targets = s.targets /\ r.cursors = s.cursors
               /\ \A j \in Keys : /\ r.pending[j].targets = s.pending[j].targets
                                  /\ r.pending[j].path = s.pending[j].path
                                  /\ r.pending[j].verified = s.pending[j].verified
    BY <2>1 DEF Stores, Events
  <2>2. /\ mem \in Stores /\ disk \in Stores /\ UNCHANGED <<file, pc, reg, poll>>
        /\ pc \notin {"deliver", "send"}
        /\ mem' = [mem EXCEPT !.pending[k].cooling = FALSE]
        /\ disk' = [disk EXCEPT !.pending[k].cooling = FALSE]
    BY <1>1 DEF BackoffOver, TypeOK
  <2>3. /\ mem'.targets = mem.targets /\ mem'.cursors = mem.cursors
        /\ \A j \in Keys : InOutbox(mem', j) =>
             /\ InOutbox(mem, j) /\ mem'.pending[j].targets \subseteq mem.pending[j].targets
             /\ mem'.pending[j].path = mem.pending[j].path
             /\ mem'.pending[j].verified = mem.pending[j].verified
        /\ disk'.targets = disk.targets /\ disk'.cursors = disk.cursors
        /\ \A j \in Keys : InOutbox(disk', j) =>
             /\ InOutbox(disk, j) /\ disk'.pending[j].targets \subseteq disk.pending[j].targets
             /\ disk'.pending[j].path = disk.pending[j].path
             /\ disk'.pending[j].verified = disk.pending[j].verified
    BY <2>1, <2>2 DEF InOutbox
  <2>4. Pinned(mem') /\ Pinned(disk')
    BY <2>3, PinnedLess DEF PinInv
  <2>5. Registered(mem') = Registered(mem)
        /\ \A j \in Keys : InOutbox(mem', j) =>
             InOutbox(mem, j) /\ mem'.pending[j].path = mem.pending[j].path
    BY <2>1, <2>2 DEF Registered, InOutbox
  <2> QED BY <2>2, <2>4, <2>5 DEF PinInv
<1>2. CASE Crash \/ Restart
  <2>1. UNCHANGED <<file, disk>> /\ pc' \in {"down", "idle"} /\ mem' \in {EmptyStore, disk}
    BY <1>2 DEF Crash, Restart
  <2> QED BY <2>1, PinnedEmpty DEF PinInv
<1> QED BY <1>1, <1>2

LEMMA PinStep == TypeOK /\ QueueInv /\ PinInv /\ [Next]_vars => PinInv'
<1> SUFFICES ASSUME TypeOK, QueueInv, PinInv, [Next]_vars PROVE PinInv'
  OBVIOUS
<1>1. CASE UNCHANGED vars
  BY <1>1 DEF vars, PinInv
<1>2. CASE Next
  BY <1>2, DesktopPin, RegistrationPin, PollingPin, OtherPin DEF Next
<1> QED BY <1>1, <1>2

\* The monitor's outbox, its queue and the files, in every reachable state.
LEMMA PinAlways == Spec => [](TypeOK /\ QueueInv /\ PinInv)
<1>1. SettledInv => TypeOK /\ QueueInv
  BY DEF SettledInv
<1> QED BY <1>1, SettledInit, SettledStep, PinInit, PinStep, PTL DEF Spec

\* Every message shown reports a turn of the root thread it is sent for: no
\* sub-agent's, and no turn of another thread whose rollout the index or an
\* older version's outbox attributed to the root, whichever paths have gone,
\* come back or changed hands before the entry is checked.
THEOREM NoChildTheorem == Spec => []NoChildNotified
<1>1. Init => NoChildNotified
  BY DEF Init, NoChildNotified
<1>2. PinInv /\ NoChildNotified /\ [Next]_vars => NoChildNotified'
  <2> SUFFICES ASSUME PinInv, NoChildNotified, [Next]_vars PROVE NoChildNotified'
    OBVIOUS
  <2>1. ASSUME UNCHANGED inbox PROVE NoChildNotified'
    BY <2>1 DEF NoChildNotified
  <2>2. ASSUME NEW u \in Users, SendAccepted(u) \/ SendFailed(u) PROVE NoChildNotified'
    <3>1. pc = "send" /\ Own(poll.key)
      BY <2>2 DEF SendAccepted, SendFailed, PinInv
    <3>2. \A m \in inbox' : m \in inbox \/ m.key = poll.key
      BY <2>2 DEF SendAccepted, SendFailed, Show, Message
    <3> QED BY <3>1, <3>2 DEF NoChildNotified
  <2> QED BY <2>1, <2>2
          DEF vars, Next, Desktop, CreateFile, CreateTornFile, FinishMeta, StartRow, FinishRow,
              MoveFile, ReplaceFile, TruncateFile, Registration, RegisterBegin, RegisterAgain,
              SnapshotList, SnapshotFile, RegisterCommit, Polling, PollBegin,
              PreservePendingSources, ScanFile, PollSave, DeliverDrop, DeliverDefer,
              DeliverBegin, DeliverEnd, PollEnd, BackoffOver, Crash, Restart
<1> QED BY <1>1, <1>2, PinAlways, PTL DEF Spec

-----------------------------------------------------------------------------
(***************************************************************************)
(* Whom Lark confirmed a completion is not owed it again.  The confirmation *)
(* is of the thread's own completion, so that no migration and no check    *)
(* drops the entry it stands on: while the store knows the completion, in  *)
(* its outbox or as delivered, a scan leaves it alone, and a failed send to *)
(* another user puts back that user only.                                  *)
(***************************************************************************)

Known(s, k) == InOutbox(s, k) \/ Settled(s, k)

ToldOK(s) ==
  \A p \in s.told : Own(p[1]) /\ Known(s, p[1]) /\ p[2] \notin s.pending[p[1]].targets
ToldInv == ToldOK(mem) /\ ToldOK(disk)

\* A store that differs only in how entries are to be retried.
SameButRetries(s, r) ==
  /\ r \in Stores /\ r.targets = s.targets /\ r.registered = s.registered
  /\ r.cursors = s.cursors /\ r.delivered = s.delivered /\ r.told = s.told
  /\ \A j \in Keys : r.pending[j].targets = s.pending[j].targets

LEMMA CoolingOver ==
  ASSUME NEW s \in Stores, NEW k \in Keys
  PROVE  SameButRetries(s, [s EXCEPT !.pending[k].cooling = FALSE])
<1> DEFINE r == [s EXCEPT !.pending[k].cooling = FALSE]
           e == [s.pending[k] EXCEPT !.cooling = FALSE]
<1>1. s.pending \in [Keys -> Events] /\ s.pending[k] \in Events
  BY DEF Stores
<1>2. e \in Events /\ e.targets = s.pending[k].targets
  BY <1>1 DEF Events
<1>3. /\ r.pending = [s.pending EXCEPT ![k] = e] /\ r.targets = s.targets
      /\ r.registered = s.registered /\ r.cursors = s.cursors
      /\ r.delivered = s.delivered /\ r.told = s.told
  BY DEF Stores
<1>4. r = [s EXCEPT !.pending = [s.pending EXCEPT ![k] = e]]
  BY DEF Stores
<1> HIDE DEF e
<1>5. [s.pending EXCEPT ![k] = e] \in [Keys -> Events]
  BY <1>1, <1>2
<1>6. r \in Stores
  BY <1>4, <1>5 DEF Stores
<1>7. \A j \in Keys : r.pending[j].targets = s.pending[j].targets
  BY <1>1, <1>2, <1>3
<1> QED BY <1>3, <1>6, <1>7 DEF SameButRetries

LEMMA SameKnown ==
  ASSUME NEW s, NEW r, SameButRetries(s, r)
  PROVE  /\ Registered(r) = Registered(s)
         /\ \A j \in Keys : Known(r, j) <=> Known(s, j)
  BY DEF SameButRetries, Known, InOutbox, Settled, Registered

\* The completion just delivered is not the one that is evicted.
LEMMA RememberLast ==
  ASSUME NEW q \in Seq(Keys), NEW k \in Keys
  PROVE  k \in Range(Remember(q, k))
<1> DEFINE r == Append(q, k)
<1>1. r \in Seq(Keys) /\ Len(r) \in Nat /\ Len(r) > 0 /\ r[Len(r)] = k
  OBVIOUS
<1> HIDE DEF r
<1>2. CASE Len(r) > MaxDelivered
  <2> DEFINE n == Len(r) - EvictCount
             s == SubSeq(r, EvictCount + 1, Len(r))
  <2>1. EvictCount \in Nat /\ MaxDelivered \in Nat /\ EvictCount <= MaxDelivered
    BY ConstantsAssumption
  <2>2. EvictCount + 1 \in 1..Len(r) /\ n \in 1..n
    BY <1>1, <1>2, <2>1
  <2>3. Len(s) = n /\ s[n] = r[Len(r)] /\ s \in Seq(Keys)
    <3>1. /\ EvictCount + 1 \in Int /\ Len(r) \in Int /\ EvictCount + 1 <= Len(r)
          /\ Len(r) - (EvictCount + 1) + 1 = n /\ (EvictCount + 1) + n - 1 = Len(r)
          /\ \A i \in (EvictCount + 1)..Len(r) : r[i] \in Keys
      BY <1>1, <2>1, <2>2
    <3>2. /\ s \in Seq(Keys) /\ Len(s) = Len(r) - (EvictCount + 1) + 1
          /\ \A i \in 1..Len(r) - (EvictCount + 1) + 1 : s[i] = r[(EvictCount + 1) + i - 1]
      BY <3>1, SubSeqProperties
    <3> QED BY <2>2, <3>1, <3>2
  <2>4. Remember(q, k) = s
    BY <1>2 DEF Remember, r
  <2> HIDE DEF s
  <2>5. n \in DOMAIN s
    BY <2>2, <2>3
  <2> QED BY <1>1, <2>3, <2>4, <2>5 DEF Range
<1>3. CASE ~(Len(r) > MaxDelivered)
  <2>1. Remember(q, k) = r /\ Len(r) \in DOMAIN r
    BY <1>1, <1>3 DEF Remember, r
  <2> QED BY <1>1, <2>1 DEF Range
<1> QED BY <1>2, <1>3

LEMMA ToldSaved ==
  ASSUME NEW s, ToldOK(s), ToldOK(disk), Save(s)
  PROVE  ToldOK(disk')
  BY DEF Save

\* A store in which nothing happened to what it was told of.
LEMMA ToldSame ==
  ASSUME NEW s \in Stores, NEW r, ToldOK(s), r.told = s.told, r.delivered = s.delivered,
         \A k \in Keys : Own(k) /\ Known(s, k) =>
                           r.pending[k].targets = s.pending[k].targets
  PROVE  ToldOK(r)
<1>1. \A p \in s.told : p[1] \in Keys
  BY DEF Stores
<1> QED BY <1>1 DEF ToldOK, Known, InOutbox, Settled

LEMMA ToldEmpty == ToldOK(EmptyStore)
  BY DEF ToldOK, EmptyStore

LEMMA ToldInit == Init => ToldInv
<1> SUFFICES ASSUME Init PROVE ToldInv
  OBVIOUS
<1>1. ASSUME NEW t \in Legacy, NEW v \in Threads, NEW u \in Users, NEW kept \in BOOLEAN,
             file[v].rows # <<>>, disk = LegacyStore(t, v, u, kept)
      PROVE  disk.told = {}
  <2>1. t \in Threads /\ file \in [Threads -> FileType]
    BY ConstantsAssumption, InitType DEF TypeOK, FileType
  <2> QED BY <1>1, <2>1, LegacyShape
<1>2. EmptyStore.told = {}
  BY DEF EmptyStore
<1> QED BY <1>1, <1>2 DEF Init, ToldInv, ToldOK

\* Who failed is owed the event again, who did not is told.
LEMMA DeliverEndTold ==
  ASSUME TypeOK, QueueInv, PinInv, ToldInv, DeliverEnd
  PROVE  ToldOK(mem')
<1> DEFINE k == poll.key
<1>1. /\ k \in Keys /\ Own(k) /\ poll.failed \in SUBSET Users
      /\ poll.failed \subseteq mem.pending[k].targets
      /\ mem.delivered \in Seq(Keys) /\ \A p \in mem.told : p[1] \in Keys
      /\ mem' = IF poll.failed # {} THEN Owe(poll.failed) ELSE Settle
  <2>1. \A p \in mem.told : p[1] \in Keys
    BY DEF TypeOK, Stores
  <2> QED BY <2>1 DEF DeliverEnd, TypeOK, Stores, PinInv
<1>2. \A p \in Confirmed : p[1] = k \/ p \in mem.told
  BY DEF Confirmed
<1>3. \A p \in Confirmed : p[1] = k => p[2] \notin poll.failed
  BY <1>1 DEF Confirmed, ToldInv, ToldOK
<1>4. CASE poll.failed # {}
  <2>1. /\ mem'.told = Confirmed /\ mem'.delivered = mem.delivered
        /\ mem'.pending[k].targets = poll.failed
        /\ \A j \in Keys \ {k} : mem'.pending[j] = mem.pending[j]
    BY <1>1, <1>4, OweType
  <2> SUFFICES ASSUME NEW p \in Confirmed
               PROVE  Own(p[1]) /\ Known(mem', p[1]) /\ p[2] \notin mem'.pending[p[1]].targets
    BY <2>1 DEF ToldOK
  <2>2. CASE p[1] = k
    BY <1>1, <1>3, <1>4, <2>1, <2>2 DEF Known, InOutbox
  <2>3. CASE p[1] # k
    BY <1>1, <1>2, <2>1, <2>3 DEF ToldInv, ToldOK, Known, InOutbox, Settled
  <2> QED BY <2>2, <2>3
<1>5. CASE poll.failed = {}
  <2>1. /\ mem'.told = {p \in Confirmed : Settled(mem', p[1]) \/ InOutbox(mem, p[1])}
        /\ mem'.delivered = Remember(mem.delivered, k) /\ mem'.pending[k] = NoEvent
        /\ \A j \in Keys \ {k} : mem'.pending[j] = mem.pending[j]
    BY <1>1, <1>5, SettleType DEF Settled
  <2>2. Settled(mem', k)
    BY <1>1, <2>1, RememberLast DEF Settled
  <2> SUFFICES ASSUME NEW p \in Confirmed, Settled(mem', p[1]) \/ InOutbox(mem, p[1])
               PROVE  Own(p[1]) /\ Known(mem', p[1]) /\ p[2] \notin mem'.pending[p[1]].targets
    BY <2>1 DEF ToldOK
  <2>3. CASE p[1] = k
    BY <1>1, <2>1, <2>2, <2>3 DEF Known, NoEvent
  <2>4. CASE p[1] # k
    BY <1>1, <1>2, <2>1, <2>4 DEF ToldInv, ToldOK, Known, InOutbox
  <2> QED BY <2>3, <2>4
<1> QED BY <1>4, <1>5

LEMMA ToldStep == TypeOK /\ QueueInv /\ PinInv /\ ToldInv /\ [Next]_vars => ToldInv'
<1> SUFFICES ASSUME TypeOK, QueueInv, PinInv, ToldInv, [Next]_vars PROVE ToldInv'
  OBVIOUS
<1>1. mem \in Stores /\ disk \in Stores /\ ToldOK(mem) /\ ToldOK(disk)
  BY DEF TypeOK, ToldInv
<1>2. CASE UNCHANGED <<mem, disk>>
  BY <1>2 DEF ToldInv, ToldOK, Known, InOutbox, Settled
<1>3. ASSUME ToldOK(mem'), Save(mem') \/ disk' = disk PROVE ToldInv'
  BY <1>1, <1>3, ToldSaved DEF ToldInv
<1>4. CASE Registration
  <2>1. CASE RegisterCommit
    <3>1. Save(mem') /\ mem'.told = mem.told /\ mem'.delivered = mem.delivered
          /\ mem'.pending = mem.pending
      BY <1>1, <2>1 DEF RegisterCommit, Stores
    <3>2. ToldOK(mem')
      BY <1>1, <3>1, ToldSame
    <3> QED BY <1>3, <3>1, <3>2
  <2>2. ASSUME NEW u \in Users, RegisterAgain(u) PROVE ToldInv'
    <3>1. mem' = mem /\ Save(mem)
      BY <2>2 DEF RegisterAgain
    <3> QED BY <1>1, <3>1, ToldSaved DEF ToldInv
  <2> QED BY <1>2, <1>4, <2>1, <2>2
          DEF Registration, RegisterBegin, SnapshotList, SnapshotFile
<1>5. CASE Polling
  <2>1. CASE PreservePendingSources
    <3>1. /\ mem'.told = mem.told /\ mem'.delivered = mem.delivered
          /\ \A k \in Keys : Own(k) => mem'.pending[k].targets = mem.pending[k].targets
      BY <2>1, PreservedPin
    <3>2. ToldOK(mem')
      BY <1>1, <3>1, ToldSame
    <3> QED BY <1>3, <2>1, <3>2 DEF PreservePendingSources
  <2>2. ASSUME NEW t \in Threads, ScanFile(t) PROVE ToldInv'
    <3>1. CASE Eligibility(t, poll.src[t]) = "yes"
      <4>1. \A k \in Keys : Known(mem, k) => mem'.pending[k].targets = mem.pending[k].targets
        <5>1. \A k \in Keys : Known(mem, k) => Enqueued(k) = mem.pending[k]
          BY DEF Known, Enqueued
        <5> QED BY <2>2, <3>1, <5>1, ScanFields
      <4>2. mem'.told = mem.told /\ mem'.delivered = mem.delivered
        BY <2>2, <3>1, ScanFields
      <4>3. ToldOK(mem')
        BY <1>1, <4>1, <4>2, ToldSame
      <4> QED BY <1>3, <2>2, <4>3 DEF ScanFile
    <3> QED BY <1>2, <2>2, <3>1 DEF ScanFile
  <2>3. CASE PollSave
    <3>1. mem' = mem /\ (Save(mem) \/ disk' = disk)
      BY <2>3 DEF PollSave
    <3> QED BY <1>1, <3>1, ToldSaved DEF ToldInv
  <2>4. ASSUME NEW k \in Keys, DeliverDrop(k) PROVE ToldInv'
    <3>1. mem' = [mem EXCEPT !.pending[k] = NoEvent] /\ Save(mem') /\ ~Own(k)
      BY <2>4, DroppedOther DEF DeliverDrop
    <3>2. /\ mem'.told = mem.told /\ mem'.delivered = mem.delivered
          /\ \A j \in Keys \ {k} : mem'.pending[j] = mem.pending[j]
      BY <1>1, <3>1 DEF Stores
    <3>3. \A j \in Keys : Own(j) /\ Known(mem, j) =>
                             mem'.pending[j].targets = mem.pending[j].targets
      BY <3>1, <3>2
    <3>4. ToldOK(mem')
      BY <1>1, <3>2, <3>3, ToldSame
    <3> QED BY <1>3, <3>1, <3>4
  <2>5. CASE DeliverEnd
    BY <1>3, <2>5, DeliverEndTold DEF DeliverEnd
  <2> QED BY <1>2, <1>5, <2>1, <2>2, <2>3, <2>4, <2>5
          DEF Polling, PollBegin, DeliverDefer, DeliverBegin, SendAccepted, SendFailed, PollEnd
<1>6. ASSUME NEW k \in Keys, BackoffOver(k) PROVE ToldInv'
  <2>1. SameButRetries(mem, mem') /\ SameButRetries(disk, disk')
    BY <1>1, <1>6, CoolingOver DEF BackoffOver
  <2> QED BY <1>1, <2>1, ToldSame DEF SameButRetries, ToldInv
<1>7. CASE Crash \/ Restart
  BY <1>1, <1>7, ToldEmpty DEF Crash, Restart, ToldInv
<1>8. CASE Desktop
  BY <1>2, <1>8 DEF Desktop, CreateFile, CreateTornFile, FinishMeta, StartRow, FinishRow,
                    MoveFile, ReplaceFile, TruncateFile
<1> QED BY <1>2, <1>4, <1>5, <1>6, <1>7, <1>8 DEF Next, vars

\* Whom Lark confirmed a completion is not owed it again, in memory or on disk,
\* while the store knows of the confirmation: over retries for other users, files
\* read again, failed saves, evictions, crashes and restarts.
THEOREM ConfirmedTheorem == Spec => []ConfirmedNotOwed
<1>1. ToldInv => ConfirmedNotOwed
  BY DEF ToldInv, ToldOK, ConfirmedNotOwed
<1> QED BY <1>1, PinAlways, ToldInit, ToldStep, PTL DEF Spec

-----------------------------------------------------------------------------
(***************************************************************************)
(* No completion is lost, for every number of threads, users, turns and    *)
(* faults.  The argument: a cursor's inode is never ahead of its file's, a *)
(* cursor of the file itself lies within its complete rows, and a file     *)
(* without a cursor is younger than the first registration, so a scan      *)
(* starts no later than where the last one ended; and whatever a cursor    *)
(* has passed, or the outbox or the delivered list knows, is owed to or    *)
(* was shown to everybody it concerns.  The exceptions are the files the   *)
(* monitor cannot vouch for, collected in blind.                           *)
(***************************************************************************)

Shown(shown, k, u) == \E m \in shown : m.key = k /\ m.user = u
Passed(c, f, i) == SameFile(c, f) /\ i <= c.offset
RowKey(t, f, i) == <<t, f.rows[i].turn>>

\* A row is not stamped later than its file was written; only what was there
\* before the monitor carries the stamp 1 whatever the file's time.
FileOK(f, now) ==
  /\ f.meta => Exists(f)
  /\ ~f.meta => f.rows = <<>> /\ f.part = NoRow
  /\ f.mtime <= now
  /\ \A i \in DOMAIN f.rows : f.rows[i].at <= 1 \/ f.rows[i].at <= f.mtime
  /\ f.part # NoRow => f.part.at <= f.mtime /\ f.part.turn \notin Finished(f)

CursorOK(s, t, f) ==
  /\ s.cursors[t].inode = f.inode => s.cursors[t].offset <= Len(f.rows)
  /\ s.registered # 0 /\ Exists(f) /\ s.cursors[t].inode = 0 => f.born >= s.registered

\* Everybody completion row concerns is owed it or has seen it.
Covered(s, t, row, shown) ==
  \A u \in Users : Concerns(s, t, row, u) =>
    u \in s.pending[<<t, row.turn>>].targets \/ Shown(shown, <<t, row.turn>>, u)

HandledOK(s, t, f, shown) ==
  /\ \A turn \in Turns : Known(s, <<t, turn>>) /\ Author[turn] = t => turn \in Finished(f)
  /\ \A i \in DOMAIN f.rows :
       Passed(s.cursors[t], f, i) \/ Known(s, RowKey(t, f, i)) =>
         Covered(s, t, f.rows[i], shown)

StoreOK(s, files, now, shown, unsure) ==
  /\ s.registered <= now
  /\ Registered(s) = {} <=> s.registered = 0
  /\ s.registered = 0 => \A t \in Threads : s.cursors[t] = NoCursor
  /\ \A t \in Threads : s.cursors[t].inode <= files[t].inode
  /\ \A t \in Threads \ unsure :
       CursorOK(s, t, files[t]) /\ HandledOK(s, t, files[t], shown)

\* While a registration is under way, what the monitor has passed or knows, and
\* what the snapshot lets it pass, finished before the cutoff.
BaseOK(b, s, t, f, cutoff) ==
  /\ b.inode = f.inode => b.offset <= Len(f.rows)
  /\ \A i \in DOMAIN f.rows :
       Passed(b, f, i) \/ Passed(s.cursors[t], f, i) \/ Known(s, RowKey(t, f, i)) =>
         f.rows[i].at < cutoff

RegOK ==
  pc \in {"list", "snapshot", "register"} =>
    /\ reg.user \in Users /\ reg.cutoff >= 2 /\ reg.cutoff <= clock
    /\ pc \in {"list", "snapshot"} <=> Registered(mem) = {}
    /\ pc \in {"list", "register"} => \A t \in Threads : reg.base[t] = NoCursor
    /\ \A t \in Threads : /\ reg.base[t].inode <= file[t].inode
                          /\ reg.base[t] # NoCursor => reg.base[t].inode # 0
    /\ \A t \in Threads \ blind : BaseOK(reg.base[t], mem, t, file[t], reg.cutoff)

\* Of the users an event is being sent to, each is still to be sent to, failed,
\* or has seen it.
SendOK ==
  pc = "send" =>
    \A u \in mem.pending[poll.key].targets \cap Registered(mem) :
      u \in poll.left \cup poll.failed \/ Shown(inbox, poll.key, u)

ScanOK == pc \in {"preserve", "scan"} => Registered(mem) # {}

FilesOK == clock >= 1 /\ \A t \in Threads : FileOK(file[t], clock)
StoresOK == \A s \in {mem, disk} : StoreOK(s, file, clock, inbox, blind)

LossInv ==
  TypeOK /\ UuidNamesMessage /\ FilesOK /\ StoresOK /\ RegOK /\ SendOK /\ ScanOK

-----------------------------------------------------------------------------
(* What a store knows survives what happens to the files *)

LEMMA FileTyped ==
  ASSUME TypeOK, NEW t \in Threads
  PROVE  file[t] \in FileType
  BY DEF TypeOK, FileType

LEMMA SizeBound ==
  ASSUME NEW f \in FileType
  PROVE  Len(f.rows) \in Nat /\ Size(f) \in Nat /\ Len(f.rows) <= Size(f)
  BY DEF FileType, Size

LEMMA KeyTyped ==
  ASSUME NEW t \in Threads, NEW f \in FileType, NEW i \in DOMAIN f.rows
  PROVE  /\ i \in 1..Len(f.rows) /\ f.rows[i] \in Rows /\ f.rows[i].turn \in Turns
         /\ f.rows[i].at \in Nat
         /\ RowKey(t, f, i) = <<t, f.rows[i].turn>> /\ RowKey(t, f, i) \in Keys
         /\ f.rows[i].turn \in Finished(f)
<1>1. f.rows \in Seq(Rows)
  BY DEF FileType
<1>2. i \in 1..Len(f.rows) /\ f.rows[i] \in Rows
  BY <1>1
<1> QED BY <1>2 DEF Rows, RowKey, Keys, Finished

LEMMA StoreTyped ==
  ASSUME NEW s \in Stores
  PROVE  /\ s.registered \in Nat /\ s.delivered \in Seq(Keys)
         /\ s.targets \in [Users -> Nat]
         /\ \A t \in Threads : /\ s.cursors[t] \in Cursors
                               /\ s.cursors[t].inode \in Int /\ s.cursors[t].offset \in Nat
         /\ \A k \in Keys : s.pending[k] \in Events /\ s.pending[k].targets \subseteq Users
  BY DEF Stores, Cursors, Events, Foreign

\* The file got a row nobody knows of, or none.
Grown(f, g) ==
  /\ g.inode = f.inode /\ g.born = f.born
  /\ \/ g.rows = f.rows
     \/ \E row \in Rows : row.turn \notin Finished(f) /\ g.rows = Append(f.rows, row)

\* Another file with the same rows is in its place.
Renewed(f, g, now) == g.inode > f.inode /\ g.rows = f.rows /\ g.born = now

LEMMA GrownRows ==
  ASSUME NEW f \in FileType, NEW g \in FileType, Grown(f, g)
  PROVE  /\ Len(f.rows) <= Len(g.rows) /\ Finished(f) \subseteq Finished(g)
         /\ \A i \in DOMAIN f.rows : i \in DOMAIN g.rows /\ g.rows[i] = f.rows[i]
         /\ \A i \in DOMAIN g.rows \ DOMAIN f.rows :
              i > Len(f.rows) /\ g.rows[i].turn \notin Finished(f)
<1>1. f.rows \in Seq(Rows) /\ g.rows \in Seq(Rows)
  BY DEF FileType
<1>2. CASE g.rows = f.rows
  BY <1>1, <1>2 DEF Finished
<1>3. ASSUME NEW row \in Rows, row.turn \notin Finished(f), g.rows = Append(f.rows, row)
      PROVE  /\ Len(f.rows) <= Len(g.rows)
             /\ \A i \in DOMAIN f.rows : i \in DOMAIN g.rows /\ g.rows[i] = f.rows[i]
             /\ \A i \in DOMAIN g.rows \ DOMAIN f.rows :
                  i > Len(f.rows) /\ g.rows[i].turn \notin Finished(f)
  BY <1>1, <1>3
<1>4. ASSUME \A i \in DOMAIN f.rows : i \in DOMAIN g.rows /\ g.rows[i] = f.rows[i]
      PROVE  Finished(f) \subseteq Finished(g)
  BY <1>4 DEF Finished
<1> QED BY <1>2, <1>3, <1>4 DEF Grown

\* A cursor within the complete rows passes nothing that is appended.
LEMMA GrownPassed ==
  ASSUME NEW f \in FileType, NEW g \in FileType, Grown(f, g), NEW c \in Cursors,
         c.inode = f.inode => c.offset <= Len(f.rows),
         NEW i \in DOMAIN g.rows, Passed(c, g, i)
  PROVE  i \in DOMAIN f.rows /\ Passed(c, f, i)
<1>1. c.inode = f.inode /\ c.inode # 0 /\ i <= c.offset
  BY DEF Passed, SameFile, Grown
<1>2. c.offset \in Nat /\ Len(f.rows) \in Nat /\ Size(f) \in Nat /\ Len(f.rows) <= Size(f)
  BY SizeBound DEF Cursors
<1>3. i \in Nat
  BY DEF FileType
<1>4. i <= Len(f.rows) /\ c.offset <= Size(f)
  BY <1>1, <1>2, <1>3
<1>5. ~(i > Len(f.rows))
  BY <1>2, <1>3, <1>4
<1>6. i \in DOMAIN f.rows
  BY <1>5, GrownRows
<1> QED BY <1>1, <1>4, <1>6 DEF Passed, SameFile

LEMMA GrownStore ==
  ASSUME NEW s \in Stores, NEW t \in Threads, NEW f \in FileType, NEW g \in FileType,
         Grown(f, g), Authored(t, g),
         NEW shown, CursorOK(s, t, f), HandledOK(s, t, f, shown)
  PROVE  CursorOK(s, t, g) /\ HandledOK(s, t, g, shown)
<1> DEFINE c == s.cursors[t]
<1>1. c \in Cursors /\ (c.inode = f.inode => c.offset <= Len(f.rows))
  BY StoreTyped DEF CursorOK
<1>2. CursorOK(s, t, g)
  <2>1. c.offset \in Nat /\ Len(f.rows) \in Nat /\ Len(g.rows) \in Nat
        /\ Len(f.rows) <= Len(g.rows)
    BY <1>1, SizeBound, GrownRows DEF Cursors
  <2> QED BY <1>1, <2>1 DEF CursorOK, Grown, Exists
<1>3. \A turn \in Turns : Known(s, <<t, turn>>) /\ Author[turn] = t => turn \in Finished(g)
  BY GrownRows DEF HandledOK
<1>4. ASSUME NEW i \in DOMAIN g.rows,
             Passed(c, g, i) \/ Known(s, RowKey(t, g, i))
      PROVE  Covered(s, t, g.rows[i], shown)
  <2>1. g.rows[i].turn \in Turns /\ RowKey(t, g, i) = <<t, g.rows[i].turn>>
    BY KeyTyped
  <2>2. i \in DOMAIN f.rows
    <3>1. CASE Passed(c, g, i)
      BY <1>1, <3>1, GrownPassed
    <3>2. CASE Known(s, RowKey(t, g, i))
      <4>1. g.rows[i].turn \in Finished(f)
        BY <2>1, <3>2 DEF HandledOK, Authored
      <4> QED BY <4>1, GrownRows
    <3> QED BY <1>4, <3>1, <3>2
  <2>3. g.rows[i] = f.rows[i] /\ RowKey(t, g, i) = RowKey(t, f, i)
    BY <2>2, GrownRows DEF RowKey
  <2>4. Passed(c, f, i) \/ Known(s, RowKey(t, f, i))
    BY <1>1, <1>4, <2>3, GrownPassed
  <2> QED BY <2>2, <2>3, <2>4 DEF HandledOK
<1> QED BY <1>2, <1>3, <1>4 DEF HandledOK

LEMMA RenewedPassed ==
  ASSUME NEW c \in Cursors, NEW f \in FileType, NEW g \in FileType, NEW now,
         Renewed(f, g, now), c.inode <= f.inode
  PROVE  c.inode # g.inode /\ \A i \in DOMAIN g.rows : ~Passed(c, g, i)
  BY DEF Renewed, Passed, SameFile, Cursors, Foreign, FileType

LEMMA RenewedStore ==
  ASSUME NEW s \in Stores, NEW t \in Threads, NEW f \in FileType, NEW g \in FileType,
         NEW now, Renewed(f, g, now), NEW shown, s.cursors[t].inode <= f.inode,
         s.registered <= now, CursorOK(s, t, f), HandledOK(s, t, f, shown)
  PROVE  CursorOK(s, t, g) /\ HandledOK(s, t, g, shown)
<1>1. s.cursors[t] \in Cursors
  BY StoreTyped
<1>2. s.cursors[t].inode # g.inode /\ \A i \in DOMAIN g.rows : ~Passed(s.cursors[t], g, i)
  BY <1>1, RenewedPassed
<1>3. CursorOK(s, t, g)
  BY <1>2 DEF CursorOK, Renewed
<1>4. g.rows = f.rows
  BY DEF Renewed
<1> QED BY <1>2, <1>3, <1>4 DEF HandledOK, Finished, RowKey

\* One file changed; the threads that may have become blind are left out.
LEMMA StoreFileStep ==
  ASSUME NEW s \in Stores, NEW files \in [Threads -> FileType], NEW now \in Nat, NEW shown,
         NEW unsure, NEW more, unsure \subseteq more,
         StoreOK(s, files, now, shown, unsure),
         NEW t \in Threads, NEW g \in FileType, Authored(t, g), files[t].inode <= g.inode,
         t \in more \/ Grown(files[t], g) \/ Renewed(files[t], g, now)
  PROVE  StoreOK(s, [files EXCEPT ![t] = g], now, shown, more)
<1> DEFINE fs == [files EXCEPT ![t] = g]
<1>1. fs[t] = g /\ \A v \in Threads \ {t} : fs[v] = files[v]
  OBVIOUS
<1>2. ASSUME NEW v \in Threads PROVE s.cursors[v].inode <= fs[v].inode
  <2>1. s.cursors[v].inode \in Int /\ files[v].inode \in Nat /\ g.inode \in Nat
    BY StoreTyped DEF FileType
  <2>2. s.cursors[v].inode <= files[v].inode
    BY DEF StoreOK
  <2> QED BY <1>1, <2>1, <2>2
<1>3. ASSUME NEW v \in Threads \ more
      PROVE  CursorOK(s, v, fs[v]) /\ HandledOK(s, v, fs[v], shown)
  <2>1. /\ CursorOK(s, v, files[v]) /\ HandledOK(s, v, files[v], shown)
        /\ s.cursors[v].inode <= files[v].inode /\ s.registered <= now
    BY DEF StoreOK
  <2>2. CASE v # t
    BY <1>1, <2>1, <2>2
  <2>3. CASE v = t
    BY <1>1, <2>1, <2>3, GrownStore, RenewedStore
  <2> QED BY <2>2, <2>3
<1> HIDE DEF fs
<1>4. StoreOK(s, fs, now, shown, more)
  BY <1>2, <1>3 DEF StoreOK
<1> QED BY <1>4 DEF fs

LEMMA GrownBase ==
  ASSUME NEW s \in Stores, NEW t \in Threads, NEW f \in FileType, NEW g \in FileType,
         Grown(f, g), Authored(t, g),
         NEW shown, CursorOK(s, t, f), HandledOK(s, t, f, shown),
         NEW b \in Cursors, NEW cutoff, BaseOK(b, s, t, f, cutoff)
  PROVE  BaseOK(b, s, t, g, cutoff)
<1> DEFINE c == s.cursors[t]
<1>1. /\ c \in Cursors /\ (c.inode = f.inode => c.offset <= Len(f.rows))
      /\ (b.inode = f.inode => b.offset <= Len(f.rows))
  BY StoreTyped DEF CursorOK, BaseOK
<1>2. b.inode = g.inode => b.offset <= Len(g.rows)
  <2>1. b.offset \in Nat /\ Len(f.rows) \in Nat /\ Len(g.rows) \in Nat
        /\ Len(f.rows) <= Len(g.rows)
    BY SizeBound, GrownRows DEF Cursors
  <2> QED BY <1>1, <2>1 DEF Grown
<1>3. ASSUME NEW i \in DOMAIN g.rows,
             Passed(b, g, i) \/ Passed(c, g, i) \/ Known(s, RowKey(t, g, i))
      PROVE  g.rows[i].at < cutoff
  <2>1. g.rows[i].turn \in Turns /\ RowKey(t, g, i) = <<t, g.rows[i].turn>>
    BY KeyTyped
  <2>2. i \in DOMAIN f.rows
    <3>1. CASE Passed(b, g, i) \/ Passed(c, g, i)
      BY <1>1, <3>1, GrownPassed
    <3>2. CASE Known(s, RowKey(t, g, i))
      <4>1. g.rows[i].turn \in Finished(f)
        BY <2>1, <3>2 DEF HandledOK, Authored
      <4> QED BY <4>1, GrownRows
    <3> QED BY <1>3, <3>1, <3>2
  <2>3. g.rows[i] = f.rows[i] /\ RowKey(t, g, i) = RowKey(t, f, i)
    BY <2>2, GrownRows DEF RowKey
  <2>4. Passed(b, f, i) \/ Passed(c, f, i) \/ Known(s, RowKey(t, f, i))
    BY <1>1, <1>3, <2>3, GrownPassed
  <2> QED BY <2>2, <2>3, <2>4 DEF BaseOK
<1> QED BY <1>2, <1>3 DEF BaseOK

LEMMA RenewedBase ==
  ASSUME NEW s \in Stores, NEW t \in Threads, NEW f \in FileType, NEW g \in FileType,
         NEW now, Renewed(f, g, now), s.cursors[t].inode <= f.inode,
         NEW b \in Cursors, b.inode <= f.inode, NEW cutoff, BaseOK(b, s, t, f, cutoff)
  PROVE  BaseOK(b, s, t, g, cutoff)
<1>1. s.cursors[t] \in Cursors
  BY StoreTyped
<1>2. /\ b.inode # g.inode
      /\ \A i \in DOMAIN g.rows : ~Passed(s.cursors[t], g, i) /\ ~Passed(b, g, i)
  BY <1>1, RenewedPassed
<1>3. g.rows = f.rows
  BY DEF Renewed
<1> QED BY <1>2, <1>3 DEF BaseOK, RowKey

-----------------------------------------------------------------------------
(* Codex Desktop's steps *)

\* What a step of Codex Desktop does to a file: rows are only appended, or the
\* file is another one, or the thread is blind from then on.
LEMMA DesktopFile ==
  ASSUME TypeOK, FilesOK, Desktop
  PROVE  /\ UNCHANGED <<clock, inbox, mem, disk, pc, reg, poll>> /\ blind \subseteq blind'
         /\ \E t \in Threads, g \in FileType :
              /\ file' = [file EXCEPT ![t] = g] /\ FileOK(g, clock)
              /\ file[t].inode <= g.inode
              /\ t \in blind' \/ Grown(file[t], g) \/ Renewed(file[t], g, clock)
<1>1. PICK t \in Threads :
        \/ CreateFile(t) \/ CreateTornFile(t) \/ FinishMeta(t)
        \/ \E turn \in Turns : StartRow(t, turn)
        \/ FinishRow(t) \/ MoveFile(t) \/ ReplaceFile(t) \/ TruncateFile(t)
  BY DEF Desktop
<1>2. UNCHANGED <<clock, inbox, mem, disk, pc, reg, poll>> /\ blind \subseteq blind'
  BY <1>1 DEF CreateFile, CreateTornFile, FinishMeta, StartRow, FinishRow,
              MoveFile, ReplaceFile, TruncateFile
<1> DEFINE f == file[t]
<1>3. f \in FileType /\ FileOK(f, clock) /\ clock \in Nat /\ clock >= 1
  BY FileTyped DEF FilesOK, TypeOK
<1>4. /\ f.inode \in Nat /\ f.mtime \in Nat /\ f.rows \in Seq(Rows)
      /\ \A i \in DOMAIN f.rows : f.rows[i].at \in Nat
      /\ f.part # NoRow => f.part \in Rows /\ f.part.at \in Nat
  <2>1. /\ f.inode \in Nat /\ f.mtime \in Nat /\ f.rows \in Seq(Rows)
        /\ f.part # NoRow => f.part \in Rows
    BY <1>3 DEF FileType
  <2>2. \A row \in Rows : row.at \in Nat
    BY DEF Rows
  <2>3. \A i \in DOMAIN f.rows : f.rows[i] \in Rows
    BY <2>1
  <2> QED BY <2>1, <2>2, <2>3
<1> HIDE DEF f
<1> DEFINE Goal(g) == /\ g \in FileType /\ file' = [file EXCEPT ![t] = g] /\ FileOK(g, clock)
                      /\ f.inode <= g.inode
                      /\ t \in blind' \/ Grown(f, g) \/ Renewed(f, g, clock)
<1>5. ASSUME NEW meta \in BOOLEAN, ~Exists(f), file' = [file EXCEPT ![t] = NewFile(meta)]
      PROVE  Goal(NewFile(meta))
  <2>1. NewFile(meta) \in FileType
    BY <1>3 DEF NewFile, FileType, Places
  <2>2. f.rows = <<>> /\ f.inode = 0
    BY <1>3, <1>5 DEF FileOK, Exists
  <2>3. FileOK(NewFile(meta), clock)
    BY <1>3 DEF FileOK, NewFile, Exists
  <2>4. Renewed(f, NewFile(meta), clock)
    BY <2>2 DEF Renewed, NewFile
  <2> QED BY <1>5, <2>1, <2>2, <2>3, <2>4 DEF NewFile
<1>6. ASSUME NEW rows \in Seq(Rows), NEW part \in Rows \cup {NoRow}, Exists(f),
             file' = [file EXCEPT ![t] = Written(f, rows, part)],
             \A i \in DOMAIN rows : rows[i].at <= clock,
             part # NoRow => part.at <= clock /\ part.turn \notin {rows[i].turn : i \in DOMAIN rows},
             \/ t \in blind' \/ rows = f.rows
             \/ \E row \in Rows : row.turn \notin Finished(f) /\ rows = Append(f.rows, row)
      PROVE  Goal(Written(f, rows, part))
  <2>1. Written(f, rows, part) \in FileType
    BY <1>3 DEF Written, FileType
  <2>2. FileOK(Written(f, rows, part), clock)
    BY <1>3, <1>6 DEF FileOK, Written, Exists, Finished
  <2>3. t \in blind' \/ Grown(f, Written(f, rows, part))
    BY <1>6 DEF Grown, Written
  <2>4. f.inode <= Written(f, rows, part).inode
    BY <1>4 DEF Written
  <2> QED BY <1>6, <2>1, <2>2, <2>3, <2>4
<1>7. \A i \in DOMAIN f.rows : f.rows[i].at <= clock
  <2> TAKE i \in DOMAIN f.rows
  <2>1. f.rows[i].at <= 1 \/ f.rows[i].at <= f.mtime
    BY <1>3 DEF FileOK
  <2>2. f.mtime <= clock
    BY <1>3 DEF FileOK
  <2> QED BY <1>3, <1>4, <2>1, <2>2
<1> SUFFICES \E g \in FileType : Goal(g)
  BY <1>2 DEF f
<1>8. CASE CreateFile(t)
  BY <1>5, <1>8 DEF CreateFile, f
<1>9. CASE CreateTornFile(t)
  BY <1>5, <1>9 DEF CreateTornFile, f
<1>10. CASE FinishMeta(t)
  <2>1. f.rows = <<>> /\ Exists(f)
        /\ file' = [file EXCEPT ![t] = Written(f, <<>>, NoRow)]
    BY <1>3, <1>10 DEF FinishMeta, FileOK, f
  <2>2. <<>> \in Seq(Rows) /\ DOMAIN <<>> = {}
    OBVIOUS
  <2>3. Goal(Written(f, <<>>, NoRow))
    BY <1>6, <2>1, <2>2
  <2> QED BY <2>3
<1>11. ASSUME NEW turn \in Turns, StartRow(t, turn) PROVE \E g \in FileType : Goal(g)
  <2> DEFINE row == [turn |-> turn, at |-> IF turn \in Undated THEN NoStamp ELSE clock]
  <2>1. row \in Rows /\ row.at <= clock /\ row.turn = turn
    BY <1>3 DEF Rows, NoStamp
  <2>2. file' = [file EXCEPT ![t] = Written(f, f.rows, row)]
    BY <1>11 DEF StartRow, f
  <2>3. Exists(f) /\ turn \notin {f.rows[i].turn : i \in DOMAIN f.rows}
    BY <1>3, <1>11 DEF StartRow, FileOK, f, Finished
  <2> HIDE DEF row
  <2> QED BY <1>4, <1>6, <1>7, <2>1, <2>2, <2>3
<1>12. CASE FinishRow(t)
  <2> DEFINE rows == Append(f.rows, f.part)
  <2>1. /\ f.part \in Rows /\ f.part.at \in Nat /\ f.part.at <= f.mtime /\ f.mtime <= clock
        /\ f.part.turn \notin Finished(f) /\ f.part # NoRow /\ Exists(f)
    BY <1>3, <1>4, <1>12 DEF FinishRow, FileOK, f
  <2>2. file' = [file EXCEPT ![t] = Written(f, rows, NoRow)]
    BY <1>12 DEF FinishRow, f
  <2>3. f.part.at <= clock
    BY <1>3, <1>4, <2>1
  <2>4. rows \in Seq(Rows) /\ \A i \in DOMAIN rows : rows[i].at <= clock
    BY <1>4, <1>7, <2>1, <2>3
  <2> HIDE DEF rows
  <2>5. \E row \in Rows : row.turn \notin Finished(f) /\ rows = Append(f.rows, row)
    BY <2>1 DEF rows
  <2> QED BY <1>6, <2>1, <2>2, <2>4, <2>5
<1>13. CASE MoveFile(t)
  <2> DEFINE p == IF f.place = "live" THEN "archived" ELSE "live"
             g == [f EXCEPT !.place = p]
  <2>1. g \in FileType
    BY <1>3 DEF FileType, Places
  <2>2. file' = [file EXCEPT ![t] = g]
    BY <1>13 DEF MoveFile, f
  <2>3. /\ g.inode = f.inode /\ g.born = f.born /\ g.rows = f.rows /\ g.part = f.part
        /\ g.mtime = f.mtime /\ g.meta = f.meta
    BY <1>3 DEF FileType
  <2> HIDE DEF g
  <2>4. FileOK(g, clock) /\ Grown(f, g) /\ f.inode <= g.inode
    BY <1>3, <1>4, <2>3 DEF FileOK, Finished, Exists, Grown
  <2> QED BY <2>1, <2>2, <2>4
<1>14. CASE ReplaceFile(t)
  <2> DEFINE g == [place |-> f.place, inode |-> f.inode + 1, born |-> clock,
                   mtime |-> clock, meta |-> TRUE, rows |-> f.rows, part |-> NoRow]
  <2>1. g \in FileType
    BY <1>3 DEF FileType
  <2>2. file' = [file EXCEPT ![t] = g]
    BY <1>14 DEF ReplaceFile, f
  <2>3. FileOK(g, clock) /\ Renewed(f, g, clock) /\ f.inode <= g.inode
    BY <1>3, <1>4, <1>7 DEF FileOK, Exists, Renewed
  <2> HIDE DEF g
  <2> QED BY <2>1, <2>2, <2>3
<1>15. CASE TruncateFile(t)
  <2>1. file' = [file EXCEPT ![t] = Written(f, <<>>, NoRow)] /\ Exists(f) /\ t \in blind'
    BY <1>15 DEF TruncateFile, f
  <2>2. <<>> \in Seq(Rows) /\ DOMAIN <<>> = {}
    OBVIOUS
  <2>3. Goal(Written(f, <<>>, NoRow))
    BY <1>6, <2>1, <2>2
  <2> QED BY <2>3
<1> HIDE DEF Goal
<1> QED BY <1>1, <1>8, <1>9, <1>10, <1>11, <1>12, <1>13, <1>14, <1>15

LEMMA DesktopLoss == ASSUME LossInv, PinInv, Desktop PROVE LossInv'
<1> USE DEF LossInv
<1>1. /\ UNCHANGED <<clock, inbox, mem, disk, pc, reg, poll>> /\ blind \subseteq blind'
      /\ \E t \in Threads, g \in FileType :
           /\ file' = [file EXCEPT ![t] = g] /\ FileOK(g, clock)
           /\ file[t].inode <= g.inode
           /\ t \in blind' \/ Grown(file[t], g) \/ Renewed(file[t], g, clock)
  BY DesktopFile
<1>2. PICK t \in Threads, g \in FileType :
        /\ file' = [file EXCEPT ![t] = g] /\ FileOK(g, clock)
        /\ file[t].inode <= g.inode
        /\ t \in blind' \/ Grown(file[t], g) \/ Renewed(file[t], g, clock)
  BY <1>1
<1>3. file \in [Threads -> FileType] /\ clock \in Nat /\ mem \in Stores /\ disk \in Stores
  BY DEF TypeOK, FileType
<1>4. TypeOK'
  BY DesktopType
<1>5. file'[t] = g /\ \A v \in Threads \ {t} : file'[v] = file[v]
  BY <1>2, <1>3
<1>11. Authored(t, g)
  <2>1. PinInv'
    BY DesktopPin
  <2> QED BY <1>5, <2>1 DEF PinInv
<1>6. FilesOK'
  BY <1>1, <1>2, <1>5 DEF FilesOK
<1>7. StoreOK(mem, file, clock, inbox, blind) /\ StoreOK(disk, file, clock, inbox, blind)
  BY DEF StoresOK
<1>8. StoresOK'
  <2>1. \A s \in Stores : StoreOK(s, file, clock, inbox, blind) =>
                            StoreOK(s, file', clock, inbox, blind')
    BY <1>1, <1>2, <1>3, <1>11, StoreFileStep
  <2> QED BY <1>1, <1>3, <1>7, <2>1 DEF StoresOK
<1>9. RegOK'
  <2> SUFFICES ASSUME pc \in {"list", "snapshot", "register"} PROVE RegOK'
    BY <1>1 DEF RegOK
  <2>1. \A v \in Threads : reg.base[v] \in Cursors
    BY DEF TypeOK
  <2>2. ASSUME NEW v \in Threads PROVE reg.base[v].inode <= file'[v].inode
    <3>1. reg.base[v].inode <= file[v].inode
      BY DEF RegOK
    <3>2. reg.base[v].inode \in Int
      BY <2>1 DEF Cursors, Foreign
    <3>3. file[v].inode \in Nat /\ g.inode \in Nat
      BY <1>3 DEF FileType
    <3> QED BY <1>2, <1>5, <3>1, <3>2, <3>3
  <2>3. ASSUME NEW v \in Threads \ blind'
        PROVE  BaseOK(reg.base[v], mem, v, file'[v], reg.cutoff)
    <3>1. /\ BaseOK(reg.base[v], mem, v, file[v], reg.cutoff)
          /\ CursorOK(mem, v, file[v]) /\ HandledOK(mem, v, file[v], inbox)
          /\ mem.cursors[v].inode <= file[v].inode /\ reg.base[v].inode <= file[v].inode
      BY <1>1, <1>7 DEF RegOK, StoreOK
    <3>2. CASE v # t
      BY <1>5, <3>1, <3>2
    <3>3. CASE v = t
      BY <1>2, <1>3, <1>5, <1>11, <2>1, <3>1, <3>3, GrownBase, RenewedBase
    <3> QED BY <3>2, <3>3
  <2> QED BY <1>1, <2>2, <2>3 DEF RegOK
<1>10. UuidNamesMessage' /\ SendOK' /\ ScanOK'
  BY <1>1 DEF UuidNamesMessage, SendOK, ScanOK
<1> QED BY <1>4, <1>6, <1>8, <1>9, <1>10

-----------------------------------------------------------------------------
(* Steps of the monitor that move no file *)

LEMMA LessSure ==
  ASSUME NEW s \in Stores, NEW files, NEW now \in Nat, NEW later \in Nat, now <= later,
         NEW shown, NEW unsure, NEW more, unsure \subseteq more,
         StoreOK(s, files, now, shown, unsure)
  PROVE  StoreOK(s, files, later, shown, more)
<1>1. s.registered \in Nat
  BY StoreTyped
<1> QED BY <1>1 DEF StoreOK

\* A store that knows no more than before, and in which nobody who was owed a
\* completion or had seen it stops being owed it unseen.
LEMMA NothingForgotten ==
  ASSUME NEW s \in Stores, NEW r \in Stores, NEW files \in [Threads -> FileType], NEW now,
         NEW shown, NEW seen, NEW unsure, StoreOK(s, files, now, shown, unsure),
         \A t \in Threads : Authored(t, files[t]),
         r.registered = s.registered, r.targets = s.targets, r.cursors = s.cursors,
         \A k \in Keys : Known(r, k) => Known(s, k),
         \A k \in Keys, u \in Users :
           /\ Own(k) /\ r.targets[u] # 0
           /\ u \in s.pending[k].targets \/ Shown(shown, k, u)
           => u \in r.pending[k].targets \/ Shown(seen, k, u)
  PROVE  StoreOK(r, files, now, seen, unsure)
<1>1. Registered(r) = Registered(s)
  BY DEF Registered
<1>2. ASSUME NEW t \in Threads \ unsure
      PROVE  CursorOK(r, t, files[t]) /\ HandledOK(r, t, files[t], seen)
  <2>1. CursorOK(s, t, files[t]) /\ HandledOK(s, t, files[t], shown)
    BY DEF StoreOK
  <2>2. CursorOK(r, t, files[t])
    BY <2>1 DEF CursorOK
  <2>3. \A turn \in Turns :
          Known(r, <<t, turn>>) /\ Author[turn] = t => turn \in Finished(files[t])
    BY <2>1 DEF HandledOK, Keys
  <2>4. ASSUME NEW i \in DOMAIN files[t].rows,
               Passed(r.cursors[t], files[t], i) \/ Known(r, RowKey(t, files[t], i)),
               NEW u \in Users, Concerns(r, t, files[t].rows[i], u)
        PROVE  \/ u \in r.pending[RowKey(t, files[t], i)].targets
               \/ Shown(seen, RowKey(t, files[t], i), u)
    <3> DEFINE k == RowKey(t, files[t], i)
    <3>1. k = <<t, files[t].rows[i].turn>> /\ k \in Keys /\ k[1] = t /\ Author[k[2]] = t
      BY KeyTyped DEF RowKey, Authored
    <3>2. Passed(s.cursors[t], files[t], i) \/ Known(s, k)
      BY <2>4, <3>1
    <3>3. Covered(s, t, files[t].rows[i], shown)
      BY <2>1, <3>2 DEF HandledOK
    <3>4. Concerns(s, t, files[t].rows[i], u) /\ t \notin Children /\ r.targets[u] # 0
      BY <2>4 DEF Concerns
    <3>5. u \in s.pending[k].targets \/ Shown(shown, k, u)
      BY <3>1, <3>3, <3>4 DEF Covered
    <3>6. Own(k)
      BY <3>1, <3>4 DEF Own
    <3> QED BY <3>1, <3>4, <3>5, <3>6
  <2> QED BY <2>2, <2>3, <2>4 DEF HandledOK, Covered, RowKey
<1> QED BY <1>1, <1>2 DEF StoreOK

LEMMA MoreSeen ==
  ASSUME NEW s \in Stores, NEW files \in [Threads -> FileType], NEW now,
         NEW shown, NEW seen, shown \subseteq seen, NEW unsure,
         \A t \in Threads : Authored(t, files[t]), StoreOK(s, files, now, shown, unsure)
  PROVE  StoreOK(s, files, now, seen, unsure)
<1>1. \A k \in Keys, u \in Users : Shown(shown, k, u) => Shown(seen, k, u)
  BY DEF Shown
<1> QED BY <1>1, NothingForgotten

LEMMA EmptyStoreOK ==
  ASSUME NEW files \in [Threads -> FileType], NEW now \in Nat, NEW shown, NEW unsure
  PROVE  StoreOK(EmptyStore, files, now, shown, unsure)
<1>1. /\ EmptyStore.registered = 0 /\ EmptyStore.delivered = <<>>
      /\ \A u \in Users : EmptyStore.targets[u] = 0
      /\ \A t \in Threads : EmptyStore.cursors[t] = NoCursor
      /\ \A k \in Keys : EmptyStore.pending[k].targets = {}
  BY DEF EmptyStore, NoEvent
<1>2. NoCursor.inode = 0 /\ NoCursor.offset = 0
  BY DEF NoCursor
<1>3. \A t \in Threads : files[t].inode \in Nat /\ Len(files[t].rows) \in Nat
  BY DEF FileType
<1>4. \A k \in Keys : ~Known(EmptyStore, k)
  BY <1>1 DEF Known, InOutbox, Settled, Range
<1>5. ASSUME NEW t \in Threads
      PROVE  CursorOK(EmptyStore, t, files[t]) /\ HandledOK(EmptyStore, t, files[t], shown)
  <2>1. CursorOK(EmptyStore, t, files[t])
    BY <1>1, <1>2, <1>3 DEF CursorOK
  <2>2. \A row : \A u \in Users : ~Concerns(EmptyStore, t, row, u)
    BY <1>1 DEF Concerns
  <2>3. \A row : Covered(EmptyStore, t, row, shown)
    BY <2>2 DEF Covered
  <2>4. \A turn \in Turns : ~Known(EmptyStore, <<t, turn>>)
    BY <1>4 DEF Keys
  <2> QED BY <2>1, <2>3, <2>4 DEF HandledOK
<1>6. Registered(EmptyStore) = {}
  BY <1>1 DEF Registered
<1> QED BY <1>1, <1>2, <1>3, <1>5, <1>6 DEF StoreOK

\* The file on disk is the new store or the old one.
LEMMA SavedOK ==
  ASSUME NEW s, NEW files, NEW now, NEW shown, NEW unsure, Save(s),
         StoreOK(s, files, now, shown, unsure), StoreOK(disk, files, now, shown, unsure)
  PROVE  StoreOK(disk', files, now, shown, unsure)
  BY DEF Save

\* Everything in the files finished before a cutoff that is still to come.
LEMMA BeforeNow ==
  ASSUME TypeOK, FilesOK, NEW t \in Threads, NEW i \in DOMAIN file[t].rows
  PROVE  file[t].rows[i].at < clock + 1
<1>1. file[t] \in FileType /\ FileOK(file[t], clock) /\ clock \in Nat /\ clock >= 1
  BY FileTyped DEF FilesOK, TypeOK
<1>2. file[t].rows[i].at \in Nat /\ file[t].mtime \in Nat
  BY <1>1, KeyTyped DEF FileType
<1> QED BY <1>1, <1>2 DEF FileOK

LEMMA RegisterBeginLoss ==
  ASSUME LossInv, NEW u \in Users, RegisterBegin(u) PROVE LossInv'
<1> USE DEF LossInv
<1>1. /\ pc = "idle" /\ clock' = clock + 1
      /\ UNCHANGED <<file, inbox, faults, mem, disk, poll, blind>>
      /\ pc' \in {"list", "register"} /\ (pc' = "list" <=> Registered(mem) = {})
      /\ reg' = [NoReg EXCEPT !.user = u, !.cutoff = clock + 1]
  <2>1. Registered(mem) = {} => \A t \in Threads : mem.cursors[t] = NoCursor
    BY DEF StoresOK, StoreOK
  <2> QED BY <2>1 DEF RegisterBegin
<1>2. clock \in Nat /\ clock' \in Nat /\ clock <= clock' /\ clock >= 1
      /\ mem \in Stores /\ disk \in Stores /\ file \in [Threads -> FileType]
  BY <1>1 DEF TypeOK, FilesOK, FileType
<1>3. TypeOK'
  BY RegistrationType DEF Registration
<1>4. FilesOK'
  <2>1. \A t \in Threads : file[t].mtime \in Nat
    BY <1>2 DEF FileType
  <2> QED BY <1>1, <1>2, <2>1 DEF FilesOK, FileOK
<1>5. StoresOK'
  BY <1>1, <1>2, LessSure DEF StoresOK
<1>6. /\ reg'.user = u /\ reg'.cutoff = clock + 1
      /\ \A t \in Threads : reg'.base[t] = NoCursor
  BY <1>1 DEF NoReg
<1>7. NoCursor.inode = 0 /\ NoCursor.offset = 0
  BY DEF NoCursor
<1>8. RegOK'
  <2>1. ASSUME NEW t \in Threads PROVE BaseOK(NoCursor, mem, t, file[t], clock + 1)
    <3>1. Len(file[t].rows) \in Nat
      BY <1>2 DEF FileType
    <3> QED BY <1>7, <3>1, BeforeNow DEF BaseOK
  <2>2. \A t \in Threads : file[t].inode \in Nat
    BY <1>2 DEF FileType
  <2> QED BY <1>1, <1>2, <1>6, <1>7, <2>1, <2>2 DEF RegOK
<1>9. UuidNamesMessage' /\ SendOK' /\ ScanOK'
  BY <1>1 DEF UuidNamesMessage, SendOK, ScanOK
<1> QED BY <1>3, <1>4, <1>5, <1>8, <1>9

LEMMA SnapshotListLoss == ASSUME LossInv, SnapshotList PROVE LossInv'
<1> USE DEF LossInv
<1>1. pc = "list" /\ pc' = "snapshot"
      /\ UNCHANGED <<file, clock, inbox, mem, disk, poll, blind>>
  BY DEF SnapshotList
<1>2. reg'.user = reg.user /\ reg'.cutoff = reg.cutoff /\ reg'.base = reg.base
  <2>1. PICK src : reg' = [reg EXCEPT !.src = src, !.todo = {t \in Threads : src[t] # NoPath}]
    BY DEF SnapshotList
  <2> QED BY <2>1 DEF TypeOK
<1>3. TypeOK'
  BY RegistrationType DEF Registration
<1>4. RegOK'
  BY <1>1, <1>2 DEF RegOK
<1>5. FilesOK' /\ StoresOK' /\ UuidNamesMessage' /\ SendOK' /\ ScanOK'
  BY <1>1 DEF FilesOK, StoresOK, UuidNamesMessage, SendOK, ScanOK
<1> QED BY <1>3, <1>4, <1>5

\* The snapshot passes only rows of a file last written before the cutoff.
LEMMA SnapshotFileLoss ==
  ASSUME LossInv, NEW t \in Threads, SnapshotFile(t) PROVE LossInv'
<1> USE DEF LossInv
<1> DEFINE f == file[t]
           c == IF Eligibility(t, reg.src[t]) # "yes" THEN NoCursor
                ELSE [path |-> reg.src[t], inode |-> f.inode,
                      offset |-> IF f.mtime >= reg.cutoff THEN 0
                                 ELSE CompleteFileOffset(f)]
<1>1. pc = "snapshot" /\ reg' = [reg EXCEPT !.todo = @ \ {t}, !.base[t] = c]
      /\ UNCHANGED <<file, clock, inbox, faults, mem, disk, pc, poll, blind>>
  <2>1. Eligibility(t, reg.src[t]) = "yes" => At(reg.src[t]) = f
    BY EligibleFile
  <2> QED BY <2>1 DEF SnapshotFile
<1>2. /\ f \in FileType /\ FileOK(f, clock) /\ f.inode \in Nat /\ f.mtime \in Nat
      /\ Len(f.rows) \in Nat /\ reg.cutoff \in Nat /\ reg.cutoff >= 2
      /\ StoreOK(mem, file, clock, inbox, blind)
  <2>1. f \in FileType
    BY FileTyped
  <2>2. f.inode \in Nat /\ f.mtime \in Nat /\ Len(f.rows) \in Nat
    BY <2>1 DEF FileType
  <2>3. FileOK(f, clock) /\ StoreOK(mem, file, clock, inbox, blind)
    BY DEF FilesOK, StoresOK
  <2>4. reg.cutoff >= 2
    BY <1>1 DEF RegOK
  <2>5. reg.cutoff \in Nat
    BY DEF TypeOK, RegType
  <2> QED BY <2>1, <2>2, <2>3, <2>4, <2>5
<1>3. c = NoCursor \/ (c.inode = f.inode /\ Exists(f))
  BY <1>2, EligibleFile DEF FileOK
<1>4. /\ c.inode <= f.inode
      /\ c # NoCursor => c.inode # 0
      /\ c.inode = f.inode => c.offset <= Len(f.rows)
  BY <1>2, <1>3 DEF NoCursor, Exists, CompleteFileOffset
<1>5. ASSUME NEW i \in DOMAIN f.rows, Passed(c, f, i) PROVE f.rows[i].at < reg.cutoff
  <2>1. c.inode # 0 /\ i <= c.offset /\ i \in 1..Len(f.rows) /\ f.rows[i].at \in Nat
    BY <1>2, <1>5, KeyTyped DEF Passed, SameFile
  <2>2. c # NoCursor
    BY <2>1 DEF NoCursor
  <2>3. ~(f.mtime >= reg.cutoff)
    BY <1>2, <2>1, <2>2
  <2>4. f.rows[i].at <= 1 \/ f.rows[i].at <= f.mtime
    BY <1>2 DEF FileOK
  <2> QED BY <1>2, <2>1, <2>3, <2>4
<1> HIDE DEF c
<1>6. /\ reg'.user = reg.user /\ reg'.cutoff = reg.cutoff /\ reg'.base[t] = c
      /\ \A v \in Threads \ {t} : reg'.base[v] = reg.base[v]
  BY <1>1 DEF TypeOK
<1>7. TypeOK'
  BY RegistrationType DEF Registration
<1>8. RegOK'
  <2>1. ASSUME t \notin blind PROVE BaseOK(c, mem, t, f, reg.cutoff)
    <3>1. BaseOK(reg.base[t], mem, t, f, reg.cutoff)
      BY <1>1, <2>1 DEF RegOK
    <3> QED BY <1>4, <1>5, <3>1 DEF BaseOK
  <2> QED BY <1>1, <1>4, <1>6, <2>1 DEF RegOK
<1>9. FilesOK' /\ StoresOK' /\ UuidNamesMessage' /\ SendOK' /\ ScanOK'
  BY <1>1 DEF FilesOK, StoresOK, UuidNamesMessage, SendOK, ScanOK
<1> QED BY <1>7, <1>8, <1>9

\* The new user is concerned only by rows of the cutoff and later, of which the
\* monitor has passed none; a file the snapshot missed is blind or new.
LEMMA RegisterCommitStore ==
  ASSUME LossInv, RegisterCommit PROVE StoreOK(mem', file, clock, inbox, blind')
<1> USE DEF LossInv
<1> DEFINE u == reg.user
           r == mem'
<1>1. pc \in {"register", "snapshot"} /\ TypeOK'
  BY RegistrationType DEF RegisterCommit, Registration
<1>2. /\ u \in Users /\ reg.cutoff \in Nat /\ reg.cutoff >= 2 /\ reg.cutoff <= clock
      /\ clock \in Nat /\ mem \in Stores /\ r \in Stores /\ file \in [Threads -> FileType]
      /\ StoreOK(mem, file, clock, inbox, blind)
  BY <1>1 DEF RegOK, TypeOK, StoresOK, FileType
<1>3. /\ r.targets = [mem.targets EXCEPT ![u] = reg.cutoff]
      /\ r.registered = IF mem.registered = 0 THEN reg.cutoff ELSE mem.registered
      /\ r.cursors = [t \in Threads |->
           IF reg.base[t] # NoCursor THEN reg.base[t] ELSE mem.cursors[t]]
      /\ r.pending = mem.pending /\ r.delivered = mem.delivered
  BY <1>2 DEF RegisterCommit, Stores
<1>4. /\ r.targets[u] = reg.cutoff /\ r.registered # 0 /\ r.registered <= clock
      /\ \A w \in Users \ {u} : r.targets[w] = mem.targets[w]
  <2>1. mem.targets \in [Users -> Nat] /\ mem.registered \in Nat
        /\ mem.registered <= clock
    BY <1>2, StoreTyped DEF StoreOK
  <2> QED BY <1>2, <1>3, <2>1
<1>5. Registered(r) # {}
  BY <1>2, <1>4 DEF Registered
<1>6. \A t \in Threads : /\ reg.base[t].inode <= file[t].inode
                         /\ reg.base[t] # NoCursor => reg.base[t].inode # 0
  BY <1>1 DEF RegOK
<1>7. \A t \in Threads : r.cursors[t].inode <= file[t].inode
  BY <1>2, <1>3, <1>6 DEF StoreOK
<1>8. ASSUME NEW t \in Threads \ blind'
      PROVE  CursorOK(r, t, file[t]) /\ HandledOK(r, t, file[t], inbox)
  <2>1. t \notin blind
    BY DEF RegisterCommit
  <2>2. /\ BaseOK(reg.base[t], mem, t, file[t], reg.cutoff)
        /\ CursorOK(mem, t, file[t]) /\ HandledOK(mem, t, file[t], inbox)
    BY <1>1, <1>2, <2>1 DEF RegOK, StoreOK
  <2>3. r.cursors[t] \in {reg.base[t], mem.cursors[t]}
        /\ (reg.base[t] # NoCursor => r.cursors[t] = reg.base[t])
        /\ (reg.base[t] = NoCursor => r.cursors[t] = mem.cursors[t])
    BY <1>3
  <2>4. CursorOK(r, t, file[t])
    <3>1. r.cursors[t].inode = file[t].inode => r.cursors[t].offset <= Len(file[t].rows)
      BY <2>2, <2>3 DEF CursorOK, BaseOK
    <3>2. ASSUME Exists(file[t]), r.cursors[t].inode = 0
          PROVE  file[t].born >= r.registered
      <4>1. reg.base[t] = NoCursor /\ r.cursors[t] = mem.cursors[t]
        BY <1>6, <2>3, <3>2
      <4>2. CASE mem.registered # 0
        BY <1>3, <2>2, <3>2, <4>1, <4>2 DEF CursorOK
      <4>3. CASE mem.registered = 0
        <5>1. r.registered = reg.cutoff
          BY <1>3, <4>3
        <5>2. pc # "register"
          BY <1>1, <1>2, <4>3 DEF StoreOK, RegOK
        <5>3. ~(file[t].born < reg.cutoff)
          BY <3>2, <4>1, <5>2 DEF RegisterCommit
        <5>4. file[t].born \in Nat
          BY <1>2 DEF FileType
        <5> QED BY <1>2, <5>1, <5>3, <5>4
      <4> QED BY <4>2, <4>3
    <3> QED BY <3>1, <3>2 DEF CursorOK
  <2>5. \A k : Known(r, k) <=> Known(mem, k)
    BY <1>3 DEF Known, InOutbox, Settled
  <2>6. ASSUME NEW i \in DOMAIN file[t].rows,
               Passed(r.cursors[t], file[t], i) \/ Known(r, RowKey(t, file[t], i)),
               NEW w \in Users, Concerns(r, t, file[t].rows[i], w)
        PROVE  \/ w \in r.pending[<<t, file[t].rows[i].turn>>].targets
               \/ Shown(inbox, <<t, file[t].rows[i].turn>>, w)
    <3>1. file[t].rows[i].at < reg.cutoff /\ file[t].rows[i].at \in Nat
      BY <1>2, <2>2, <2>3, <2>5, <2>6, KeyTyped DEF BaseOK
    <3>2. w # u
      BY <1>2, <1>4, <2>6, <3>1 DEF Concerns
    <3>3. Concerns(mem, t, file[t].rows[i], w)
      BY <1>4, <2>6, <3>2 DEF Concerns
    <3>4. reg.base[t] = NoCursor /\ r.cursors[t] = mem.cursors[t]
      <4>1. Registered(mem) # {}
        BY <3>3 DEF Registered, Concerns
      <4>2. pc = "register"
        BY <1>1, <4>1 DEF RegOK
      <4> QED BY <2>3, <4>2 DEF RegOK
    <3>5. Covered(mem, t, file[t].rows[i], inbox)
      BY <2>2, <2>5, <2>6, <3>4 DEF HandledOK
    <3> QED BY <1>3, <3>3, <3>5 DEF Covered
  <2>7. \A turn \in Turns :
          Known(r, <<t, turn>>) /\ Author[turn] = t => turn \in Finished(file[t])
    BY <2>2, <2>5 DEF HandledOK
  <2> QED BY <2>4, <2>6, <2>7 DEF HandledOK, Covered
<1> HIDE DEF r
<1> QED BY <1>4, <1>5, <1>7, <1>8 DEF StoreOK, r

LEMMA RegistrationLoss == ASSUME LossInv, Registration PROVE LossInv'
<1> USE DEF LossInv
<1>1. ASSUME NEW u \in Users, RegisterAgain(u) PROVE LossInv'
  <2>1. pc = "idle" /\ UNCHANGED <<file, clock, inbox, mem, pc, reg, poll, blind>> /\ Save(mem)
    BY <1>1 DEF RegisterAgain
  <2>2. StoresOK'
    BY <2>1, SavedOK DEF StoresOK
  <2>3. TypeOK'
    BY <1>1, RegistrationType DEF Registration
  <2> QED BY <2>1, <2>2, <2>3 DEF FilesOK, UuidNamesMessage, RegOK, SendOK, ScanOK
<1>2. CASE RegisterCommit
  <2>1. /\ UNCHANGED <<file, clock, inbox, poll>> /\ pc' = "idle" /\ Save(mem')
        /\ blind \subseteq blind'
    BY <1>2 DEF RegisterCommit
  <2>2. StoreOK(disk, file, clock, inbox, blind')
    BY <2>1, LessSure DEF StoresOK, TypeOK
  <2>3. StoreOK(mem', file, clock, inbox, blind')
    BY <1>2, RegisterCommitStore
  <2>4. StoresOK'
    BY <2>1, <2>2, <2>3, SavedOK DEF StoresOK
  <2>5. TypeOK'
    BY <1>2, RegistrationType DEF Registration
  <2> QED BY <2>1, <2>4, <2>5 DEF FilesOK, UuidNamesMessage, RegOK, SendOK, ScanOK
<1> QED BY <1>1, <1>2, RegisterBeginLoss, SnapshotListLoss, SnapshotFileLoss DEF Registration

-----------------------------------------------------------------------------
(* Polling *)

\* A scan begins no later than where the cursor stands or, for a file without a
\* cursor of its own, at its beginning.
LEMMA ScanOffsetRight ==
  ASSUME LossInv, NEW t \in Threads \ blind, Exists(file[t]), Registered(mem) # {},
         At(poll.src[t]) = file[t]
  PROVE  \/ ScanOffset(t) = 0
         \/ SameFile(mem.cursors[t], file[t]) /\ ScanOffset(t) = mem.cursors[t].offset
<1>1. StoreOK(mem, file, clock, inbox, blind)
  BY DEF LossInv, StoresOK
<1>2. CursorOK(mem, t, file[t]) /\ mem.registered # 0
  BY <1>1 DEF StoreOK
<1> QED BY <1>2 DEF ScanOffset, CursorOK

\* After the scan everybody a row concerns is owed it, was owed it before, or
\* has seen it.
LEMMA ScanFileStore ==
  ASSUME LossInv, NEW t \in Threads, ScanFile(t), Eligibility(t, poll.src[t]) = "yes"
  PROVE  StoreOK(mem', file, clock, inbox, blind)
<1> USE DEF LossInv
<1> DEFINE r == mem'
           f == file[t]
<1>1. /\ pc = "scan" /\ Registered(mem) # {} /\ Exists(f) /\ TypeOK'
      /\ At(poll.src[t]) = f
  <2>1. f.meta /\ At(poll.src[t]) = f
    BY EligibleFile
  <2> QED BY <2>1, PollingType DEF ScanFile, ScanOK, Polling, FilesOK, FileOK
<1>2. /\ f \in FileType /\ f.inode \in Nat /\ f.inode # 0 /\ Len(f.rows) \in Nat
      /\ mem \in Stores /\ r \in Stores /\ file \in [Threads -> FileType]
      /\ StoreOK(mem, file, clock, inbox, blind)
  <2>1. r \in Stores
    BY <1>1 DEF TypeOK
  <2>2. mem \in Stores /\ file \in [Threads -> FileType]
    BY DEF TypeOK, FileType
  <2>3. f \in FileType /\ f.inode \in Nat /\ Len(f.rows) \in Nat
    BY FileTyped DEF FileType
  <2>4. f.inode # 0
    BY <1>1 DEF Exists
  <2> QED BY <2>1, <2>2, <2>3, <2>4 DEF StoresOK
<1>3. /\ r.targets = mem.targets /\ r.registered = mem.registered
      /\ r.delivered = mem.delivered
  BY ScanFields
<1>4. /\ r.cursors[t].inode = f.inode /\ r.cursors[t].offset = Len(f.rows)
      /\ \A v \in Threads \ {t} : r.cursors[v] = mem.cursors[v]
      /\ \A k \in Keys : k[1] # t => r.pending[k] = mem.pending[k]
      /\ \A k \in Keys : k[1] = t => r.pending[k] = Enqueued(k)
  BY ScanFields
<1> HIDE DEF r
<1>5. Registered(r) = Registered(mem) /\ Registered(r) # {} /\ r.registered # 0
  BY <1>1, <1>2, <1>3 DEF Registered, StoreOK
<1>6. \A v \in Threads : r.cursors[v].inode <= file[v].inode
  BY <1>2, <1>4 DEF StoreOK
<1>7. ASSUME NEW v \in Threads \ blind, v # t
      PROVE  CursorOK(r, v, file[v]) /\ HandledOK(r, v, file[v], inbox)
  <2>1. CursorOK(mem, v, file[v]) /\ HandledOK(mem, v, file[v], inbox)
    BY <1>2 DEF StoreOK
  <2>2. r.cursors[v] = mem.cursors[v]
        /\ \A turn \in Turns : r.pending[<<v, turn>>] = mem.pending[<<v, turn>>]
    BY <1>4, <1>7 DEF Keys
  <2>3. \A turn \in Turns : Known(r, <<v, turn>>) <=> Known(mem, <<v, turn>>)
    BY <1>3, <2>2 DEF Known, InOutbox, Settled
  <2>4. CursorOK(r, v, file[v])
    BY <1>3, <2>1, <2>2 DEF CursorOK
  <2>5. ASSUME NEW i \in DOMAIN file[v].rows,
               Passed(r.cursors[v], file[v], i) \/ Known(r, RowKey(v, file[v], i))
        PROVE  Covered(r, v, file[v].rows[i], inbox)
    <3>1. file[v] \in FileType
      BY <1>2
    <3>2. file[v].rows[i].turn \in Turns
      BY <3>1, KeyTyped
    <3>3. Covered(mem, v, file[v].rows[i], inbox)
      BY <2>1, <2>2, <2>3, <2>5, <3>2 DEF HandledOK, RowKey
    <3> QED BY <1>3, <2>2, <3>2, <3>3 DEF Covered, Concerns
  <2> QED BY <2>1, <2>3, <2>4, <2>5 DEF HandledOK
<1>8. ASSUME t \notin blind PROVE CursorOK(r, t, f) /\ HandledOK(r, t, f, inbox)
  <2>1. CursorOK(mem, t, f) /\ HandledOK(mem, t, f, inbox)
    BY <1>2, <1>8 DEF StoreOK
  <2>2. CursorOK(r, t, f)
    BY <1>2, <1>4 DEF CursorOK
  <2>3. \A k : Settled(r, k) <=> Settled(mem, k)
    BY <1>3 DEF Settled
  <2>4. ASSUME NEW turn \in Turns, Known(r, <<t, turn>>), Author[turn] = t
        PROVE  turn \in Finished(f)
    <3> DEFINE k == <<t, turn>>
    <3>1. k \in Keys /\ k[1] = t
      BY DEF Keys
    <3>2. CASE Known(mem, k)
      BY <2>1, <2>4, <3>2 DEF HandledOK
    <3>3. CASE ~Known(mem, k)
      <4>1. InOutbox(r, k) /\ r.pending[k] = Enqueued(k) /\ ~InOutbox(mem, k)
        BY <1>4, <2>3, <2>4, <3>1, <3>3 DEF Known
      <4>2. Enqueued(k) # mem.pending[k]
        BY <4>1 DEF InOutbox
      <4>3. \E i \in DOMAIN f.rows : <<t, f.rows[i].turn>> = k
        BY <1>1, <3>1, <4>2, EnqueuedRow
      <4> QED BY <4>3 DEF Finished
    <3> QED BY <3>2, <3>3
  <2>5. ASSUME NEW i \in DOMAIN f.rows, NEW u \in Users, Concerns(r, t, f.rows[i], u)
        PROVE  \/ u \in r.pending[<<t, f.rows[i].turn>>].targets
               \/ Shown(inbox, <<t, f.rows[i].turn>>, u)
    <3> DEFINE row == f.rows[i]
               k == <<t, row.turn>>
    <3>1. /\ i \in 1..Len(f.rows) /\ k \in Keys /\ k = RowKey(t, f, i) /\ k[1] = t
          /\ r.pending[k] = Enqueued(k)
      BY <1>2, <1>4, KeyTyped
    <3>2. Concerns(mem, t, row, u)
      BY <1>3, <2>5 DEF Concerns
    <3>3. ASSUME Passed(mem.cursors[t], f, i) \/ Known(mem, k)
          PROVE  u \in mem.pending[k].targets \/ Shown(inbox, k, u)
      BY <2>1, <3>1, <3>2, <3>3 DEF HandledOK, Covered
    <3>4. CASE Known(mem, k)
      BY <3>1, <3>3, <3>4 DEF Known, Enqueued
    <3>5. CASE ~Known(mem, k) /\ Passed(mem.cursors[t], f, i)
      <4>1. mem.pending[k].targets = {}
        BY <3>5 DEF Known, InOutbox
      <4> QED BY <3>3, <3>5, <4>1
    <3>6. CASE ~Known(mem, k) /\ ~Passed(mem.cursors[t], f, i)
      <4>1. i \in (ScanOffset(t) + 1)..Len(f.rows)
        <5>1. \/ ScanOffset(t) = 0
              \/ SameFile(mem.cursors[t], f) /\ ScanOffset(t) = mem.cursors[t].offset
          BY <1>1, <1>8, ScanOffsetRight
        <5>2. mem.cursors[t].offset \in Nat
          BY <1>2, StoreTyped
        <5> QED BY <1>2, <3>1, <3>6, <5>1, <5>2 DEF Passed
      <4>2. row \in ReadCompletionEvents(t)
        BY <1>1, <4>1 DEF ReadCompletionEvents, CompleteFileOffset
      <4>3. u \in Owners(row)
        BY <3>2 DEF Concerns, Owners, Registered, CompletedAt
      <4>4. u \in Addressees(k[1], k)
        BY <3>1, <4>2, <4>3 DEF Addressees
      <4> QED BY <3>1, <3>6, <4>4 DEF Enqueued, Known
    <3> QED BY <3>4, <3>5, <3>6
  <2> QED BY <2>2, <2>4, <2>5 DEF HandledOK, Covered
<1>9. r.registered <= clock
  BY <1>2, <1>3 DEF StoreOK
<1> QED BY <1>5, <1>6, <1>7, <1>8, <1>9 DEF StoreOK, r

LEMMA PollFrame ==
  ASSUME LossInv, Polling, UNCHANGED <<file, clock, blind>>,
         pc' \in {"preserve", "scan", "deliver", "send", "idle"},
         StoreOK(mem', file, clock, inbox', blind), StoreOK(disk', file, clock, inbox', blind),
         SendOK', ScanOK'
  PROVE  LossInv'
<1>1. TypeOK' /\ UuidNamesMessage'
  BY PollingType, UuidStep DEF LossInv, Next
<1>2. StoresOK' /\ FilesOK' /\ RegOK'
  BY DEF LossInv, StoresOK, FilesOK, RegOK
<1> QED BY <1>1, <1>2 DEF LossInv

LEMMA PreserveLoss == ASSUME LossInv, PinInv, PreservePendingSources PROVE LossInv'
<1> USE DEF LossInv
<1>1. /\ pc = "preserve" /\ pc' = "scan"
      /\ UNCHANGED <<file, clock, inbox, faults, disk, reg, blind>> /\ TypeOK'
  BY PollingType DEF PreservePendingSources, Polling
<1>2. mem \in Stores /\ mem' \in Stores /\ file \in [Threads -> FileType]
      /\ StoreOK(mem, file, clock, inbox, blind) /\ StoreOK(disk, file, clock, inbox, blind)
  BY <1>1 DEF TypeOK, FileType, StoresOK
<1>3. /\ mem'.targets = mem.targets /\ mem'.registered = mem.registered
      /\ mem'.cursors = mem.cursors /\ mem'.delivered = mem.delivered
  BY PreservedPin
<1>4. \A k \in Keys :
        /\ mem'.pending[k].targets \in {mem.pending[k].targets, {}}
        /\ Own(k) => mem'.pending[k].targets = mem.pending[k].targets
  BY PreservedPin
<1>5. \A k \in Keys : Known(mem', k) => Known(mem, k)
  BY <1>3, <1>4 DEF Known, InOutbox, Settled
<1>6. StoreOK(mem', file, clock, inbox, blind)
  BY <1>2, <1>3, <1>4, <1>5, NothingForgotten DEF PinInv
<1>7. ScanOK'
  BY <1>1, <1>3 DEF ScanOK, Registered
<1> QED BY <1>1, <1>2, <1>6, <1>7, PollFrame DEF SendOK, Polling

LEMMA DeliverDropLoss ==
  ASSUME LossInv, QueueInv, PinInv, NEW k \in Keys, DeliverDrop(k) PROVE LossInv'
<1> USE DEF LossInv
<1>1. /\ pc' = "deliver" /\ mem' = [mem EXCEPT !.pending[k] = NoEvent] /\ Save(mem')
      /\ UNCHANGED <<file, clock, inbox, reg, blind>> /\ TypeOK'
  BY PollingType DEF DeliverDrop, Polling, TypeOK
<1>2. mem \in Stores /\ mem' \in Stores /\ file \in [Threads -> FileType]
      /\ StoreOK(mem, file, clock, inbox, blind) /\ StoreOK(disk, file, clock, inbox, blind)
  BY <1>1 DEF TypeOK, FileType, StoresOK
<1>3. /\ mem'.targets = mem.targets /\ mem'.registered = mem.registered
      /\ mem'.cursors = mem.cursors /\ mem'.delivered = mem.delivered
      /\ mem'.pending[k] = NoEvent
      /\ \A j \in Keys \ {k} : mem'.pending[j] = mem.pending[j]
  BY <1>1, <1>2 DEF Stores
<1>4. ~Own(k)
  BY DroppedOther
<1>5. \A j \in Keys : Known(mem', j) => Known(mem, j)
  BY <1>3 DEF Known, InOutbox, Settled, NoEvent
<1>6. StoreOK(mem', file, clock, inbox, blind)
  BY <1>2, <1>3, <1>4, <1>5, NothingForgotten DEF PinInv
<1>7. StoreOK(disk', file, clock, inbox, blind)
  BY <1>1, <1>2, <1>6, SavedOK
<1> QED BY <1>1, <1>6, <1>7, PollFrame DEF SendOK, ScanOK, Polling

\* A send begins with everybody the event is owed to.
LEMMA DeliverBeginLoss ==
  ASSUME LossInv, NEW k \in Keys, DeliverBegin(k) PROVE LossInv'
<1> USE DEF LossInv
<1>1. /\ pc' = "send" /\ UNCHANGED <<file, clock, inbox, faults, mem, disk, reg, blind>>
      /\ poll' = [poll EXCEPT !.key = k, !.failed = {},
                              !.left = mem.pending[k].targets \cap Registered(mem)]
  BY DEF DeliverBegin
<1>2. poll'.key = k /\ poll'.left = mem.pending[k].targets \cap Registered(mem)
  BY <1>1 DEF TypeOK
<1>4. SendOK' /\ ScanOK'
  BY <1>1, <1>2 DEF SendOK, ScanOK
<1> QED BY <1>1, <1>4, PollFrame DEF StoresOK, Polling

\* What Lark was shown stays shown, and the message sent is there afterwards.
LEMMA ShowSeen ==
  ASSUME UuidNamesMessage, TypeOK, NEW u \in Users, Show(Message(u))
  PROVE  inbox \subseteq inbox' /\ Shown(inbox', poll.key, u)
<1>1. /\ Message(u).uuid = <<poll.key, u>> /\ Message(u).key = poll.key
      /\ Message(u).user = u
  BY DEF Message, MessageUuid
<1>2. CASE \E n \in inbox : n.uuid = Message(u).uuid
  BY <1>1, <1>2 DEF Show, UuidNamesMessage, Shown
<1>3. CASE ~\E n \in inbox : n.uuid = Message(u).uuid
  BY <1>1, <1>3 DEF Show, Shown
<1> QED BY <1>2, <1>3

LEMMA SendLoss ==
  ASSUME LossInv, PinInv, NEW u \in Users, SendAccepted(u) \/ SendFailed(u)
  PROVE  LossInv'
<1> USE DEF LossInv
<1>1. /\ pc = "send" /\ pc' = "send" /\ u \in poll.left
      /\ UNCHANGED <<file, clock, mem, disk, reg, blind>>
  BY DEF SendAccepted, SendFailed
<1>2. Polling
  BY DEF Polling
<1>3. inbox \subseteq inbox'
  BY ShowSeen DEF SendAccepted, SendFailed
<1>4. /\ poll'.key = poll.key /\ poll'.left = poll.left \ {u}
      /\ \/ poll'.failed = poll.failed /\ Shown(inbox', poll.key, u)
         \/ poll'.failed = poll.failed \cup {u}
  BY ShowSeen DEF SendAccepted, SendFailed, TypeOK
<1>5. SendOK'
  BY <1>1, <1>3, <1>4 DEF SendOK, Shown
<1>6. StoreOK(mem', file, clock, inbox', blind) /\ StoreOK(disk', file, clock, inbox', blind)
  <2>1. mem \in Stores /\ disk \in Stores /\ file \in [Threads -> FileType]
    BY DEF TypeOK, FileType
  <2> QED BY <1>1, <1>3, <2>1, MoreSeen DEF StoresOK, PinInv
<1> QED BY <1>1, <1>2, <1>5, <1>6, PollFrame DEF ScanOK

\* Who is taken out of an entry has seen its message or is not registered.
LEMMA DeliverEndLoss == ASSUME LossInv, QueueInv, PinInv, DeliverEnd PROVE LossInv'
<1> USE DEF LossInv
<1> DEFINE k == poll.key
<1>1. /\ pc = "send" /\ poll.left = {} /\ pc' = "deliver" /\ Save(mem')
      /\ UNCHANGED <<file, clock, inbox, reg, blind>> /\ TypeOK' /\ k \in Keys
  BY PollingType DEF DeliverEnd, Polling, TypeOK
<1>2. mem \in Stores /\ mem' \in Stores /\ file \in [Threads -> FileType]
      /\ StoreOK(mem, file, clock, inbox, blind) /\ StoreOK(disk, file, clock, inbox, blind)
  BY <1>1 DEF TypeOK, FileType, StoresOK
<1>5. /\ mem'.targets = mem.targets /\ mem'.registered = mem.registered
      /\ mem'.cursors = mem.cursors /\ mem'.pending[k].targets = poll.failed
      /\ \A j \in Keys \ {k} : mem'.pending[j] = mem.pending[j]
      /\ mem'.delivered \in {mem.delivered, Remember(mem.delivered, k)}
  <2>1. poll.failed \in SUBSET Users
        /\ mem' = IF poll.failed # {} THEN Owe(poll.failed) ELSE Settle
    BY DEF DeliverEnd, TypeOK
  <2>2. CASE poll.failed # {}
    BY <1>1, <2>1, <2>2, OweType
  <2>3. CASE poll.failed = {}
    BY <1>1, <2>1, <2>3, SettleType DEF NoEvent
  <2> QED BY <2>2, <2>3
<1>6. \A u \in mem.pending[k].targets \cap Registered(mem) :
        u \in poll.failed \/ Shown(inbox, k, u)
  BY <1>1 DEF SendOK
<1>7. \A j \in Keys : Settled(mem', j) => Settled(mem, j) \/ j = k
  <2>1. mem.delivered \in Seq(Keys)
    BY <1>2, StoreTyped
  <2> QED BY <1>1, <1>5, <2>1, RememberType DEF Settled
<1>8. ASSUME NEW j \in Keys, NEW u \in Users, mem'.targets[u] # 0,
             u \in mem.pending[j].targets \/ Shown(inbox, j, u)
      PROVE  u \in mem'.pending[j].targets \/ Shown(inbox, j, u)
  <2>1. u \in Registered(mem)
    BY <1>5, <1>8 DEF Registered
  <2> QED BY <1>1, <1>5, <1>6, <1>8, <2>1
<1>9. Known(mem, k)
  BY <1>1 DEF Known, QueueInv
<1>10. \A j \in Keys : Known(mem', j) => Known(mem, j)
  BY <1>5, <1>7, <1>9 DEF Known, InOutbox
<1>11. StoreOK(mem', file, clock, inbox, blind)
  BY <1>2, <1>5, <1>8, <1>10, NothingForgotten DEF PinInv
<1>12. StoreOK(disk', file, clock, inbox, blind)
  BY <1>1, <1>2, <1>11, SavedOK
<1> QED BY <1>1, <1>11, <1>12, PollFrame DEF SendOK, ScanOK, Polling

LEMMA PollingLoss == ASSUME LossInv, QueueInv, PinInv, Polling PROVE LossInv'
<1> USE DEF LossInv
<1>1. StoreOK(mem, file, clock, inbox, blind) /\ StoreOK(disk, file, clock, inbox, blind)
  BY DEF StoresOK
<1>2. CASE PollBegin
  <2>1. pc' = "preserve" /\ Registered(mem) # {}
        /\ UNCHANGED <<file, clock, inbox, mem, disk, reg, blind>>
    BY <1>2 DEF PollBegin
  <2> QED BY <1>1, <2>1, PollFrame DEF SendOK, ScanOK, Registered
<1>3. ASSUME NEW t \in Threads, ScanFile(t) PROVE LossInv'
  <2>1. pc = "scan" /\ pc' = "scan" /\ UNCHANGED <<file, clock, inbox, faults, disk, reg, blind>>
    BY <1>3 DEF ScanFile
  <2>2. StoreOK(mem', file, clock, inbox, blind) /\ mem'.targets = mem.targets
    <3>1. CASE Eligibility(t, poll.src[t]) # "yes"
      BY <1>1, <1>3, <3>1 DEF ScanFile
    <3>2. CASE Eligibility(t, poll.src[t]) = "yes"
      BY <1>3, <3>2, ScanFileStore, ScanFields
    <3> QED BY <3>1, <3>2
  <2> QED BY <1>1, <2>1, <2>2, PollFrame DEF SendOK, ScanOK, Registered
<1>4. CASE PollSave
  <2>1. pc' = "deliver" /\ UNCHANGED <<file, clock, inbox, mem, reg, blind>>
        /\ (Save(mem) \/ disk' = disk)
    BY <1>4 DEF PollSave
  <2>2. StoreOK(disk', file, clock, inbox, blind)
    BY <1>1, <2>1, SavedOK
  <2> QED BY <1>1, <2>1, <2>2, PollFrame DEF SendOK, ScanOK
<1>5. ASSUME NEW k \in Keys, DeliverDefer(k) PROVE LossInv'
  <2>1. pc' = "deliver" /\ UNCHANGED <<file, clock, inbox, faults, mem, disk, reg, blind>>
    BY <1>5 DEF DeliverDefer
  <2> QED BY <1>1, <2>1, PollFrame DEF SendOK, ScanOK
<1>6. CASE PollEnd
  <2>1. pc' = "idle" /\ UNCHANGED <<file, clock, inbox, faults, mem, disk, reg, blind>>
    BY <1>6 DEF PollEnd
  <2> QED BY <1>1, <2>1, PollFrame DEF SendOK, ScanOK
<1> QED BY <1>2, <1>3, <1>4, <1>5, <1>6, PreserveLoss, DeliverDropLoss, DeliverBeginLoss,
           SendLoss, DeliverEndLoss DEF Polling

-----------------------------------------------------------------------------
(* Time, the crash and the restart *)

LEMMA SameStoreOK ==
  ASSUME NEW s \in Stores, NEW r, SameButRetries(s, r), NEW files \in [Threads -> FileType],
         \A t \in Threads : Authored(t, files[t]),
         NEW now, NEW shown, NEW unsure, StoreOK(s, files, now, shown, unsure)
  PROVE  StoreOK(r, files, now, shown, unsure)
<1>1. /\ r \in Stores /\ r.targets = s.targets /\ r.registered = s.registered
      /\ r.cursors = s.cursors
      /\ \A j \in Keys : r.pending[j].targets = s.pending[j].targets
  BY DEF SameButRetries
<1> QED BY <1>1, SameKnown, NothingForgotten

LEMMA BackoffLoss == ASSUME LossInv, PinInv, NEW k \in Keys, BackoffOver(k) PROVE LossInv'
<1> USE DEF LossInv
<1>1. /\ mem' = [mem EXCEPT !.pending[k].cooling = FALSE]
      /\ disk' = [disk EXCEPT !.pending[k].cooling = FALSE]
      /\ pc \notin {"deliver", "send"}
      /\ UNCHANGED <<file, clock, inbox, faults, pc, reg, poll, blind>>
  BY DEF BackoffOver
<1>2. mem \in Stores /\ disk \in Stores /\ file \in [Threads -> FileType]
  BY DEF TypeOK, FileType
<1>3. SameButRetries(mem, mem') /\ SameButRetries(disk, disk')
  BY <1>1, <1>2, CoolingOver
<1>4. StoreOK(mem, file, clock, inbox, blind) /\ StoreOK(disk, file, clock, inbox, blind)
  BY DEF StoresOK
<1>5. StoreOK(mem', file, clock, inbox, blind) /\ StoreOK(disk', file, clock, inbox, blind)
  BY <1>2, <1>3, <1>4, SameStoreOK DEF PinInv
<1>6. StoresOK'
  BY <1>1, <1>5 DEF StoresOK
<1>7. RegOK'
  <2>1. mem'.cursors = mem.cursors /\ Registered(mem') = Registered(mem)
        /\ \A j \in Keys : Known(mem', j) <=> Known(mem, j)
    BY <1>3, SameKnown DEF SameButRetries
  <2>2. ASSUME NEW t \in Threads, BaseOK(reg.base[t], mem, t, file[t], reg.cutoff)
        PROVE  BaseOK(reg.base[t], mem', t, file[t], reg.cutoff)
    <3>1. \A i \in DOMAIN file[t].rows : RowKey(t, file[t], i) \in Keys
      BY <1>2, KeyTyped
    <3> QED BY <2>1, <2>2, <3>1 DEF BaseOK
  <2> QED BY <1>1, <2>1, <2>2 DEF RegOK
<1>8. TypeOK'
  BY OtherType
<1>9. ScanOK'
  BY <1>1, <1>3, SameKnown DEF ScanOK
<1> QED BY <1>1, <1>6, <1>7, <1>8, <1>9 DEF FilesOK, UuidNamesMessage, SendOK

LEMMA CrashLoss == ASSUME LossInv, Crash \/ Restart PROVE LossInv'
<1> USE DEF LossInv
<1>1. /\ pc' \in {"down", "idle"} /\ UNCHANGED <<file, clock, inbox, disk, blind>>
      /\ mem' \in {EmptyStore, disk} /\ TypeOK'
  BY OtherType DEF Crash, Restart
<1>2. StoreOK(EmptyStore, file, clock, inbox, blind)
  BY EmptyStoreOK DEF TypeOK, FileType
<1>3. StoresOK'
  BY <1>1, <1>2 DEF StoresOK
<1> QED BY <1>1, <1>3 DEF FilesOK, UuidNamesMessage, RegOK, SendOK, ScanOK

LEMMA LossStep == LossInv /\ QueueInv /\ PinInv /\ [Next]_vars => LossInv'
<1> SUFFICES ASSUME LossInv, QueueInv, PinInv, [Next]_vars PROVE LossInv'
  OBVIOUS
<1>1. CASE UNCHANGED vars
  BY <1>1, TypeStep
  DEF vars, LossInv, FilesOK, StoresOK, UuidNamesMessage, RegOK, SendOK, ScanOK
<1>2. CASE Next
  BY <1>2, DesktopLoss, RegistrationLoss, PollingLoss, BackoffLoss, CrashLoss DEF Next
<1> QED BY <1>1, <1>2

-----------------------------------------------------------------------------
(* The start, and the theorem *)

LEMMA NothingDelivered ==
  ASSUME NEW s, s.delivered = <<>>, NEW j PROVE ~Settled(s, j)
  BY DEF Settled, Range

LEMMA SomebodyRegistered ==
  ASSUME NEW s, NEW u \in Users, s.targets[u] = 1 PROVE Registered(s) # {}
  BY DEF Registered

\* What an older version left: its cursor, if kept, stands at the end of the
\* one row, which is still owed to the only user it knew; or it is of another
\* thread's rollout, and neither it nor the entry has to do with this one's.
LEMMA LegacyStoreOK ==
  ASSUME Init, NEW t \in Threads, NEW v \in Threads, NEW u \in Users, NEW kept \in BOOLEAN,
         file[v].rows # <<>>, disk = LegacyStore(t, v, u, kept),
         blind = {w \in Threads : disk.cursors[w] = NoCursor}
  PROVE  StoreOK(disk, file, clock, inbox, blind)
<1> DEFINE f == file[v]
           k == LegacyKey(t, v)
           c == LegacyCursor(t, v, kept)
<1>1. /\ clock = 1 /\ inbox = {} /\ file \in [Threads -> FileType]
  BY InitType DEF Init, TypeOK, FileType
<1>2. /\ \A w \in Threads : file[w].inode \in {0, 1}
      /\ \A w \in Threads : \A i \in DOMAIN file[w].rows : Author[file[w].rows[i].turn] = w
      /\ f.inode = 1 /\ Len(f.rows) = 1 /\ DOMAIN f.rows = {1}
  <2>1. \A w \in Threads : file[w] \in {NoFile} \cup OldFiles(w)
    BY DEF Init
  <2> QED BY <2>1, OldFileShape
<1>3. /\ disk \in Stores /\ disk.registered = 1 /\ k = <<t, f.rows[1].turn>> /\ k \in Keys
      /\ disk.targets[u] = 1 /\ \A w \in Users \ {u} : disk.targets[w] = 0
      /\ disk.delivered = <<>>
      /\ disk.cursors[t] = c /\ \A w \in Threads \ {t} : disk.cursors[w] = NoCursor
      /\ disk.pending[k] = LegacyEvent(u)
      /\ \A j \in Keys \ {k} : disk.pending[j] = NoEvent
  BY <1>1, LegacyShape
<1>4. /\ NoCursor.inode = 0 /\ NoCursor.offset = 0 /\ NoEvent.targets = {}
      /\ LegacyEvent(u).targets = {u}
      /\ (kept => c.inode = (IF v = t THEN 1 ELSE -1) /\ c.offset = 1)
      /\ (~kept => c = NoCursor)
  BY <1>2 DEF NoCursor, NoEvent, LegacyEvent, LegacyCursor, Foreign
<1> HIDE DEF c, k
<1>5. Registered(disk) # {}
  BY <1>3, SomebodyRegistered
<1>6. ASSUME NEW j \in Keys, Known(disk, j) PROVE j = k
  <2>1. ~Settled(disk, j)
    BY <1>3, NothingDelivered
  <2> QED BY <1>3, <1>4, <1>6, <2>1 DEF Known, InOutbox
<1>7. ASSUME NEW w \in Threads PROVE disk.cursors[w].inode <= file[w].inode
  <2>1. CASE w = t /\ v = t
    <3>1. disk.cursors[w].inode \in {0, 1} /\ file[w].inode = 1
      BY <1>2, <1>3, <1>4, <2>1
    <3> QED BY <3>1
  <2>2. CASE ~(w = t /\ v = t)
    <3>1. disk.cursors[w].inode \in {0, -1} /\ file[w].inode \in {0, 1}
      BY <1>2, <1>3, <1>4, <2>2
    <3> QED BY <3>1
  <2> QED BY <2>1, <2>2
<1>8. ASSUME NEW w \in Threads \ blind
      PROVE  CursorOK(disk, w, file[w]) /\ HandledOK(disk, w, file[w], inbox)
  <2>1. w = t /\ kept /\ w \in Threads
    BY <1>3, <1>4
  <2>2. CASE v = t
    <3>1. disk.cursors[t].inode = 1 /\ disk.cursors[t].offset = 1 /\ Len(f.rows) = 1
      BY <1>2, <1>3, <1>4, <2>1, <2>2
    <3>2. CursorOK(disk, t, f)
      BY <3>1 DEF CursorOK
    <3>3. \A turn \in Turns : Known(disk, <<t, turn>>) => turn \in Finished(f)
      <4>1. f.rows[1].turn \in Finished(f)
        BY <1>2 DEF Finished
      <4> TAKE turn \in Turns
      <4>2. <<t, turn>> \in Keys /\ (<<t, turn>> = k => turn = f.rows[1].turn)
        BY <1>3 DEF Keys
      <4> QED BY <1>6, <4>1, <4>2
    <3>4. ASSUME NEW i \in DOMAIN f.rows PROVE Covered(disk, t, f.rows[i], inbox)
      <4>1. i = 1
        BY <1>2
      <4>2. \A x \in Users : disk.targets[x] # 0 => x = u
        BY <1>3
      <4> QED BY <1>3, <1>4, <4>1, <4>2 DEF Covered, Concerns
    <3> QED BY <2>1, <2>2, <3>2, <3>3, <3>4 DEF HandledOK
  <2>3. CASE v # t
    <3>1. disk.cursors[t].inode = -1 /\ file[t].inode \in {0, 1}
      BY <1>2, <1>3, <1>4, <2>1, <2>3
    <3>2. CursorOK(disk, t, file[t])
      BY <3>1 DEF CursorOK
    <3>3. Author[f.rows[1].turn] = v
      BY <1>2
    <3>4. ASSUME NEW turn \in Turns, Known(disk, <<t, turn>>) PROVE Author[turn] # t
      <4>1. <<t, turn>> \in Keys /\ (<<t, turn>> = k => turn = f.rows[1].turn)
        BY <1>3 DEF Keys
      <4> QED BY <1>6, <2>3, <3>3, <3>4, <4>1
    <3>5. ASSUME NEW i \in DOMAIN file[t].rows
          PROVE  ~Passed(disk.cursors[t], file[t], i) /\ ~Known(disk, RowKey(t, file[t], i))
      <4>1. ~Passed(disk.cursors[t], file[t], i)
        BY <3>1 DEF Passed, SameFile
      <4>2. /\ file[t].rows[i].turn \in Turns /\ Author[file[t].rows[i].turn] = t
            /\ RowKey(t, file[t], i) = <<t, file[t].rows[i].turn>>
        BY <1>1, <1>2, KeyTyped
      <4> QED BY <3>4, <4>1, <4>2
    <3> QED BY <2>1, <3>2, <3>4, <3>5 DEF HandledOK
  <2> QED BY <2>2, <2>3
<1>9. disk.registered <= clock /\ disk.registered # 0
  BY <1>1, <1>3
<1> QED BY <1>5, <1>7, <1>8, <1>9 DEF StoreOK

LEMMA LossInit == Init => LossInv
<1> SUFFICES ASSUME Init PROVE LossInv
  OBVIOUS
<1>1. TypeOK /\ file \in [Threads -> FileType]
  BY InitType DEF TypeOK, FileType
<1>2. clock = 1 /\ inbox = {} /\ pc = "idle" /\ mem = disk
  BY DEF Init
<1>3. FilesOK
  <2> SUFFICES ASSUME NEW t \in Threads PROVE FileOK(file[t], 1)
    BY <1>2 DEF FilesOK
  <2>1. file[t] \in {NoFile} \cup OldFiles(t)
    BY DEF Init
  <2>2. /\ file[t].mtime = 0 /\ file[t].part = NoRow /\ (file[t].meta <=> file[t].inode = 1)
        /\ (~file[t].meta => file[t].rows = <<>>)
        /\ \A i \in DOMAIN file[t].rows : file[t].rows[i].at = 1
    BY <2>1, OldFileShape
  <2> QED BY <2>2 DEF FileOK, Exists
<1>4. StoreOK(disk, file, clock, inbox, blind)
  <2>1. CASE disk = EmptyStore
    BY <1>1, <1>2, <2>1, EmptyStoreOK
  <2>2. ASSUME NEW t \in Legacy, NEW v \in Threads, NEW u \in Users, NEW kept \in BOOLEAN,
               file[v].rows # <<>>, disk = LegacyStore(t, v, u, kept),
               blind = {w \in Threads : disk.cursors[w] = NoCursor}
        PROVE  StoreOK(disk, file, clock, inbox, blind)
    <3>1. t \in Threads
      BY ConstantsAssumption
    <3> QED BY <2>2, <3>1, LegacyStoreOK
  <2> QED BY <2>1, <2>2 DEF Init
<1>5. StoresOK
  BY <1>2, <1>4 DEF StoresOK
<1> QED BY <1>1, <1>2, <1>3, <1>5 DEF LossInv, UuidNamesMessage, RegOK, SendOK, ScanOK

LEMMA LossInvFollows == LossInv => NoLostCompletion
<1> SUFFICES ASSUME LossInv, NEW s \in {mem, disk}, NEW t \in Threads \ blind,
                    NEW u \in Users, NEW i \in DOMAIN file[t].rows,
                    Consumed(s, t, i), Concerns(s, t, file[t].rows[i], u)
             PROVE  Accounted(s, <<t, file[t].rows[i].turn>>, u)
  BY DEF NoLostCompletion, Drops
<1>1. StoreOK(s, file, clock, inbox, blind)
  BY DEF LossInv, StoresOK
<1>2. HandledOK(s, t, file[t], inbox)
  BY <1>1 DEF StoreOK
<1>3. Passed(s.cursors[t], file[t], i)
  BY DEF Passed, Consumed
<1> QED BY <1>2, <1>3 DEF HandledOK, Covered, Accounted, Reached, Shown

LEMMA LossAlways == Spec => []LossInv
  BY PinAlways, LossInit, LossStep, PTL DEF Spec

\* What a cursor has passed, in memory or on disk, is owed to or was shown to
\* everybody it concerns, over any crashes, failed saves, refused and lost
\* sends, and files moved or replaced.
THEOREM NoLossTheorem == Spec => []NoLostCompletion
  BY LossAlways, LossInvFollows, PTL

-----------------------------------------------------------------------------
(* What finished before a registration is not shown to the user *)

\* A turn is in a file once, so what a key was owed for is the row of that key.
OnceOnly(f) == \A i, j \in DOMAIN f.rows : f.rows[i].turn = f.rows[j].turn => i = j

Since(row, turn, from) == row.turn = turn /\ row.at # NoStamp => row.at >= from

\* Who is owed a completion is registered, and was when it finished, whatever
\* row of that turn the file has now or is being written.
Owed(s, t, f) ==
  \A turn \in Turns : \A u \in s.pending[<<t, turn>>].targets :
    /\ s.targets[u] # 0
    /\ \A i \in DOMAIN f.rows : Since(f.rows[i], turn, s.targets[u])
    /\ f.part # NoRow => Since(f.part, turn, s.targets[u])

OwedOK(s, files, now) ==
  /\ \A u \in Users : s.targets[u] <= now
  /\ \A t \in Threads : Owed(s, t, files[t])

HistInv ==
  /\ \A t \in Threads : OnceOnly(file[t])
  /\ \A s \in {mem, disk} : OwedOK(s, file, clock)
  /\ pc \in {"list", "register", "snapshot"} => reg.user \notin Registered(mem)

\* The rows of a file after a step are rows it had or the one being written;
\* one that is begun is stamped now or not at all.
LEMMA DesktopRows ==
  ASSUME TypeOK, FilesOK, \A t \in Threads : OnceOnly(file[t]), Desktop
  PROVE  \E t \in Threads, g \in FileType :
           /\ file' = [file EXCEPT ![t] = g] /\ OnceOnly(g)
           /\ \A i \in DOMAIN g.rows :
                \/ \E j \in DOMAIN file[t].rows : g.rows[i] = file[t].rows[j]
                \/ file[t].part # NoRow /\ g.rows[i] = file[t].part
           /\ g.part # NoRow => g.part = file[t].part \/ g.part.at \in {NoStamp, clock}
<1>1. PICK t \in Threads :
        \/ CreateFile(t) \/ CreateTornFile(t) \/ FinishMeta(t)
        \/ \E turn \in Turns : StartRow(t, turn)
        \/ FinishRow(t) \/ MoveFile(t) \/ ReplaceFile(t) \/ TruncateFile(t)
  BY DEF Desktop
<1> DEFINE f == file[t]
           Goal(g) == /\ g \in FileType /\ file' = [file EXCEPT ![t] = g] /\ OnceOnly(g)
                      /\ \A i \in DOMAIN g.rows :
                           \/ \E j \in DOMAIN f.rows : g.rows[i] = f.rows[j]
                           \/ f.part # NoRow /\ g.rows[i] = f.part
                      /\ g.part # NoRow => g.part = f.part \/ g.part.at \in {NoStamp, clock}
<1>2. /\ f \in FileType /\ FileOK(f, clock) /\ OnceOnly(f) /\ f.rows \in Seq(Rows)
      /\ f.part \in Rows \cup {NoRow} /\ file \in [Threads -> FileType] /\ clock \in Nat
  BY FileTyped DEF FilesOK, TypeOK, FileType
<1>3. ASSUME NEW g \in FileType, g.rows = f.rows, file' = [file EXCEPT ![t] = g],
             g.part # NoRow => g.part = f.part \/ g.part.at \in {NoStamp, clock}
      PROVE  Goal(g)
  BY <1>2, <1>3 DEF OnceOnly
<1>4. ASSUME NEW g \in FileType, g.rows = <<>>, g.part = NoRow, file' = [file EXCEPT ![t] = g]
      PROVE  Goal(g)
  BY <1>4 DEF OnceOnly
<1>5. ASSUME NEW rows \in Seq(Rows), NEW part \in Rows \cup {NoRow}
      PROVE  /\ Written(f, rows, part) \in FileType /\ Written(f, rows, part).rows = rows
             /\ Written(f, rows, part).part = part
  BY WrittenType DEF Written
<1> HIDE DEF f
<1> SUFFICES \E g \in FileType : Goal(g)
  BY DEF f
<1>6. ASSUME NEW meta \in BOOLEAN, file' = [file EXCEPT ![t] = NewFile(meta)]
      PROVE  Goal(NewFile(meta))
  <2>1. /\ NewFile(meta) \in FileType /\ NewFile(meta).rows = <<>>
        /\ NewFile(meta).part = NoRow
    BY <1>2 DEF NewFile, FileType, Places
  <2> QED BY <1>4, <1>6, <2>1
<1>7. CASE CreateFile(t) \/ CreateTornFile(t)
  BY <1>6, <1>7 DEF CreateFile, CreateTornFile
<1>8. CASE FinishMeta(t) \/ TruncateFile(t)
  <2>1. file' = [file EXCEPT ![t] = Written(f, <<>>, NoRow)]
    BY <1>8 DEF FinishMeta, TruncateFile, f
  <2>2. <<>> \in Seq(Rows)
    OBVIOUS
  <2>3. Goal(Written(f, <<>>, NoRow))
    BY <1>4, <1>5, <2>1, <2>2
  <2> QED BY <2>3
<1>9. ASSUME NEW turn \in Turns, StartRow(t, turn) PROVE \E g \in FileType : Goal(g)
  <2> DEFINE row == [turn |-> turn, at |-> IF turn \in Undated THEN NoStamp ELSE clock]
  <2>1. row \in Rows /\ row.at \in {NoStamp, clock}
    BY <1>2 DEF Rows, NoStamp
  <2>2. file' = [file EXCEPT ![t] = Written(f, f.rows, row)]
    BY <1>9 DEF StartRow, f
  <2> HIDE DEF row
  <2> DEFINE g == Written(f, f.rows, row)
  <2>3. g \in FileType /\ g.rows = f.rows /\ g.part = row
    BY <1>2, <1>5, <2>1
  <2> HIDE DEF g
  <2>4. Goal(g)
    BY <1>3, <2>1, <2>2, <2>3 DEF g
  <2> QED BY <2>3, <2>4
<1>10. CASE FinishRow(t)
  <2> DEFINE rows == Append(f.rows, f.part)
  <2>1. f.part \in Rows /\ f.part # NoRow /\ f.part.turn \notin Finished(f)
    BY <1>2, <1>10 DEF FinishRow, FileOK, f
  <2>2. file' = [file EXCEPT ![t] = Written(f, rows, NoRow)]
    BY <1>10 DEF FinishRow, f
  <2>3. /\ rows \in Seq(Rows) /\ Len(f.rows) \in Nat /\ DOMAIN f.rows = 1..Len(f.rows)
        /\ DOMAIN rows = 1..(Len(f.rows) + 1) /\ rows[Len(f.rows) + 1] = f.part
        /\ \A i \in DOMAIN f.rows : rows[i] = f.rows[i]
    BY <1>2, <2>1
  <2> HIDE DEF rows
  <2>4. \A i \in DOMAIN f.rows : f.rows[i].turn # f.part.turn
    BY <2>1 DEF Finished
  <2>5. \A i \in DOMAIN rows : i \in DOMAIN f.rows \/ i = Len(f.rows) + 1
    BY <2>3
  <2>6. \A i, j \in DOMAIN rows : rows[i].turn = rows[j].turn => i = j
    BY <1>2, <2>3, <2>4, <2>5 DEF OnceOnly
  <2>7. \A i \in DOMAIN rows : rows[i] = f.part \/ \E j \in DOMAIN f.rows : rows[i] = f.rows[j]
    BY <2>3, <2>5
  <2> DEFINE g == Written(f, rows, NoRow)
  <2>8. g \in FileType /\ g.rows = rows /\ g.part = NoRow /\ file' = [file EXCEPT ![t] = g]
    BY <1>5, <2>2, <2>3
  <2> HIDE DEF g
  <2>9. OnceOnly(g)
    BY <2>6, <2>8 DEF OnceOnly
  <2>10. Goal(g)
    BY <2>1, <2>7, <2>8, <2>9
  <2> QED BY <2>8, <2>10
<1>11. CASE MoveFile(t)
  <2> DEFINE p == IF f.place = "live" THEN "archived" ELSE "live"
             g == [f EXCEPT !.place = p]
  <2>1. g \in FileType /\ g.rows = f.rows /\ g.part = f.part
    BY <1>2 DEF FileType, Places
  <2>2. file' = [file EXCEPT ![t] = g]
    BY <1>11 DEF MoveFile, f
  <2> HIDE DEF g
  <2> QED BY <1>3, <2>1, <2>2
<1>12. CASE ReplaceFile(t)
  <2> DEFINE g == [place |-> f.place, inode |-> f.inode + 1, born |-> clock,
                   mtime |-> clock, meta |-> TRUE, rows |-> f.rows, part |-> NoRow]
  <2>1. g \in FileType /\ g.rows = f.rows /\ g.part = NoRow
    BY <1>2 DEF FileType
  <2>2. file' = [file EXCEPT ![t] = g]
    BY <1>12 DEF ReplaceFile, f
  <2> HIDE DEF g
  <2> QED BY <1>3, <2>1, <2>2
<1> HIDE DEF Goal
<1> QED BY <1>1, <1>7, <1>8, <1>9, <1>10, <1>11, <1>12

LEMMA DesktopHist ==
  ASSUME LossInv, HistInv, Desktop PROVE HistInv'
<1>1. UNCHANGED <<clock, inbox, mem, disk, pc, reg, poll>> /\ TypeOK /\ FilesOK
  BY DesktopFile DEF LossInv
<1>2. PICK t \in Threads, g \in FileType :
        /\ file' = [file EXCEPT ![t] = g] /\ OnceOnly(g)
        /\ \A i \in DOMAIN g.rows :
             \/ \E j \in DOMAIN file[t].rows : g.rows[i] = file[t].rows[j]
             \/ file[t].part # NoRow /\ g.rows[i] = file[t].part
        /\ g.part # NoRow => g.part = file[t].part \/ g.part.at \in {NoStamp, clock}
  BY <1>1, DesktopRows DEF HistInv
<1>3. file \in [Threads -> FileType] /\ mem \in Stores /\ disk \in Stores /\ clock \in Nat
  BY <1>1 DEF TypeOK, FileType
<1>4. file'[t] = g /\ \A v \in Threads \ {t} : file'[v] = file[v]
  BY <1>2, <1>3
<1>5. ASSUME NEW s \in Stores, OwedOK(s, file, clock) PROVE OwedOK(s, file', clock)
  <2>1. Owed(s, t, g)
    <3> SUFFICES ASSUME NEW turn \in Turns, NEW u \in s.pending[<<t, turn>>].targets
                 PROVE  /\ s.targets[u] # 0
                        /\ \A i \in DOMAIN g.rows : Since(g.rows[i], turn, s.targets[u])
                        /\ g.part # NoRow => Since(g.part, turn, s.targets[u])
      BY DEF Owed
    <3>1. u \in Users
      <4>1. <<t, turn>> \in Keys
        BY DEF Keys
      <4> QED BY <4>1, StoreTyped
    <3>2. /\ s.targets[u] # 0 /\ s.targets[u] <= clock
          /\ \A i \in DOMAIN file[t].rows : Since(file[t].rows[i], turn, s.targets[u])
          /\ file[t].part # NoRow => Since(file[t].part, turn, s.targets[u])
      BY <1>5, <3>1 DEF OwedOK, Owed
    <3>3. s.targets[u] \in Nat
      BY <3>1, StoreTyped
    <3>4. \A i \in DOMAIN g.rows : Since(g.rows[i], turn, s.targets[u])
      BY <1>2, <3>2
    <3>5. g.part.at \in {NoStamp, clock} => Since(g.part, turn, s.targets[u])
      BY <1>3, <3>2, <3>3 DEF Since, NoStamp
    <3>6. g.part # NoRow => Since(g.part, turn, s.targets[u])
      BY <1>2, <3>2, <3>5
    <3> QED BY <3>2, <3>4, <3>6
  <2> QED BY <1>4, <1>5, <2>1 DEF OwedOK
<1>6. \A v \in Threads : OnceOnly(file'[v])
  BY <1>2, <1>4 DEF HistInv
<1>7. OwedOK(mem, file', clock) /\ OwedOK(disk, file', clock)
  BY <1>3, <1>5 DEF HistInv
<1> QED BY <1>1, <1>6, <1>7 DEF HistInv

LEMMA OwedLess ==
  ASSUME NEW s \in Stores, NEW r \in Stores, r.targets = s.targets,
         \A k \in Keys : r.pending[k].targets \subseteq s.pending[k].targets,
         NEW files, NEW now, OwedOK(s, files, now)
  PROVE  OwedOK(r, files, now)
<1>1. \A t \in Threads, turn \in Turns : <<t, turn>> \in Keys
  BY DEF Keys
<1>2. ASSUME NEW t \in Threads PROVE Owed(r, t, files[t])
  <2>1. Owed(s, t, files[t])
    BY DEF OwedOK
  <2> QED BY <1>1, <2>1 DEF Owed
<1> QED BY <1>2 DEF OwedOK

LEMMA OwedEmpty ==
  ASSUME NEW files, NEW now \in Nat
  PROVE  OwedOK(EmptyStore, files, now)
<1>1. /\ \A u \in Users : EmptyStore.targets[u] = 0
      /\ \A k \in Keys : EmptyStore.pending[k].targets = {}
  BY DEF EmptyStore, NoEvent
<1> QED BY <1>1 DEF OwedOK, Owed, Keys

LEMMA OwedSaved ==
  ASSUME NEW s, NEW files, NEW now, Save(s), OwedOK(s, files, now), OwedOK(disk, files, now)
  PROVE  OwedOK(disk', files, now)
  BY DEF Save

\* The new user is owed nothing yet.
LEMMA CommitOwed ==
  ASSUME LossInv, HistInv, RegisterCommit PROVE OwedOK(mem', file, clock)
<1>1. /\ pc \in {"register", "snapshot"} /\ mem \in Stores /\ mem' \in Stores
      /\ OwedOK(mem, file, clock) /\ clock \in Nat
  BY RegistrationType DEF RegisterCommit, LossInv, TypeOK, HistInv, Registration
<1>2. /\ reg.user \in Users /\ reg.cutoff \in Nat /\ reg.cutoff <= clock
      /\ mem.targets[reg.user] = 0
  BY <1>1 DEF LossInv, RegOK, HistInv, Registered, TypeOK
<1>3. /\ mem'.targets = [mem.targets EXCEPT ![reg.user] = reg.cutoff]
      /\ mem'.pending = mem.pending
  BY <1>1 DEF RegisterCommit, Stores
<1>4. mem.targets \in [Users -> Nat]
  BY <1>1, StoreTyped
<1>5. ASSUME NEW t \in Threads PROVE Owed(mem', t, file[t])
  <2>1. Owed(mem, t, file[t])
    BY <1>1 DEF OwedOK
  <2>2. ASSUME NEW turn \in Turns, NEW u \in mem.pending[<<t, turn>>].targets
        PROVE  mem'.targets[u] = mem.targets[u]
    <3>1. mem.targets[u] # 0
      BY <2>1, <2>2 DEF Owed
    <3>2. u \in Users
      <4>1. <<t, turn>> \in Keys
        BY DEF Keys
      <4> QED BY <1>1, <4>1, StoreTyped
    <3> QED BY <1>2, <1>3, <1>4, <3>1, <3>2
  <2> QED BY <1>3, <2>1, <2>2 DEF Owed
<1>6. \A u \in Users : mem'.targets[u] <= clock
  BY <1>1, <1>2, <1>3, <1>4 DEF OwedOK
<1> QED BY <1>5, <1>6 DEF OwedOK

\* A scan owes a completion to users whose registration its row was compared
\* with, and the file has no other row of that turn.
LEMMA ScanOwed ==
  ASSUME LossInv, HistInv, NEW t \in Threads, ScanFile(t) PROVE OwedOK(mem', file, clock)
<1>1. /\ mem \in Stores /\ mem' \in Stores /\ OwedOK(mem, file, clock) /\ TypeOK
      /\ file[t] \in FileType /\ OnceOnly(file[t]) /\ FileOK(file[t], clock)
  BY PollingType, FileTyped DEF LossInv, TypeOK, HistInv, Polling, FilesOK
<1>2. CASE Eligibility(t, poll.src[t]) # "yes"
  BY <1>1, <1>2 DEF ScanFile
<1>3. CASE Eligibility(t, poll.src[t]) = "yes"
  <2>1. /\ mem'.targets = mem.targets /\ At(poll.src[t]) = file[t]
        /\ \A k \in Keys : k[1] # t => mem'.pending[k] = mem.pending[k]
        /\ \A k \in Keys : k[1] = t => mem'.pending[k] = Enqueued(k)
    BY <1>1, <1>3, ScanFields
  <2>2. ASSUME NEW v \in Threads, NEW turn \in Turns,
               NEW u \in mem'.pending[<<v, turn>>].targets
        PROVE  /\ mem.targets[u] # 0
               /\ \A i \in DOMAIN file[v].rows : Since(file[v].rows[i], turn, mem.targets[u])
               /\ file[v].part # NoRow => Since(file[v].part, turn, mem.targets[u])
    <3> DEFINE k == <<v, turn>>
    <3>1. k \in Keys /\ k[1] = v /\ Owed(mem, v, file[v])
      BY <1>1 DEF Keys, OwedOK
    <3>2. CASE mem'.pending[k] = mem.pending[k]
      BY <2>2, <3>1, <3>2 DEF Owed
    <3>3. CASE mem'.pending[k] # mem.pending[k]
      <4>1. v = t /\ mem'.pending[k] = Enqueued(k)
        BY <2>1, <3>1, <3>3
      <4>2. mem'.pending[k].targets = Addressees(t, k)
        BY <1>1, <2>1, <3>1, <3>3, <4>1, EnqueuedRow
      <4>3. PICK n \in DOMAIN file[t].rows :
              <<t, file[t].rows[n].turn>> = k /\ u \in Owners(file[t].rows[n])
        BY <1>1, <2>1, <2>2, <3>1, <3>3, <4>1, <4>2, EnqueuedRow
      <4> DEFINE row == file[t].rows[n]
      <4>6. /\ row.turn = turn /\ mem.targets[u] # 0
            /\ row.at # NoStamp => row.at >= mem.targets[u]
        BY <4>3, <4>1 DEF Owners, Registered, CompletedAt
      <4>7. ASSUME NEW i \in DOMAIN file[t].rows
            PROVE  Since(file[t].rows[i], turn, mem.targets[u])
        <5>1. file[t].rows[i].turn = turn => i = n
          BY <1>1, <4>6 DEF OnceOnly
        <5> QED BY <4>6, <5>1 DEF Since
      <4>8. file[t].part # NoRow => file[t].part.turn # turn
        BY <1>1, <4>6 DEF FileOK, Finished
      <4> QED BY <4>1, <4>6, <4>7, <4>8 DEF Since
    <3> QED BY <3>2, <3>3
  <2>3. \A v \in Threads : Owed(mem', v, file[v])
    BY <2>1, <2>2 DEF Owed
  <2> QED BY <1>1, <2>1, <2>3 DEF OwedOK
<1> QED BY <1>2, <1>3

LEMMA RegistrationHist == ASSUME LossInv, HistInv, Registration PROVE HistInv'
<1>1. /\ mem \in Stores /\ disk \in Stores /\ clock \in Nat
      /\ OwedOK(mem, file, clock) /\ OwedOK(disk, file, clock)
  BY DEF LossInv, TypeOK, HistInv
<1>2. ASSUME NEW u \in Users, RegisterBegin(u) PROVE HistInv'
  <2>1. /\ clock' = clock + 1 /\ pc' \in {"list", "register"} /\ reg'.user = u
        /\ UNCHANGED <<file, mem, disk>> /\ u \notin Registered(mem)
    BY <1>2 DEF RegisterBegin, NoReg
  <2>2. \A s \in Stores : OwedOK(s, file, clock) => OwedOK(s, file, clock')
    <3>1. \A s \in Stores, u2 \in Users : s.targets[u2] \in Nat
      BY StoreTyped
    <3> QED BY <1>1, <2>1, <3>1 DEF OwedOK
  <2> QED BY <1>1, <2>1, <2>2 DEF HistInv
<1>3. ASSUME NEW u \in Users, RegisterAgain(u) PROVE HistInv'
  <2>1. UNCHANGED <<file, clock, mem, pc, reg, poll>> /\ Save(mem)
    BY <1>3 DEF RegisterAgain
  <2>2. OwedOK(disk', file, clock)
    BY <1>1, <2>1, OwedSaved
  <2> QED BY <1>1, <2>1, <2>2 DEF HistInv
<1>4. CASE SnapshotList
  BY <1>4 DEF SnapshotList, HistInv, LossInv, TypeOK
<1>5. ASSUME NEW t \in Threads, SnapshotFile(t) PROVE HistInv'
  BY <1>5 DEF SnapshotFile, HistInv, LossInv, TypeOK
<1>6. CASE RegisterCommit
  <2>1. UNCHANGED <<file, clock, poll>> /\ pc' = "idle" /\ Save(mem')
    BY <1>6 DEF RegisterCommit
  <2>2. OwedOK(mem', file, clock)
    BY <1>6, CommitOwed
  <2>3. OwedOK(disk', file, clock)
    BY <1>1, <2>1, <2>2, OwedSaved
  <2> QED BY <2>1, <2>2, <2>3 DEF HistInv
<1> QED BY <1>2, <1>3, <1>4, <1>5, <1>6 DEF Registration

LEMMA SendingHist ==
  ASSUME LossInv, HistInv,
         \/ \E k \in Keys : DeliverBegin(k)
         \/ \E u \in Users : SendAccepted(u) \/ SendFailed(u)
  PROVE  HistInv'
<1>1. UNCHANGED <<file, clock, mem, disk, reg>> /\ pc' = "send"
  BY DEF DeliverBegin, SendAccepted, SendFailed
<1> QED BY <1>1 DEF HistInv

\* The outbox entry a delivery took up keeps the users whose send failed.
LEMMA DeliveredHist ==
  ASSUME LossInv, PinInv, HistInv, DeliverEnd \/ \E k \in Keys : DeliverDrop(k)
  PROVE  HistInv'
<1>1. /\ UNCHANGED <<file, clock, reg>> /\ pc' = "deliver" /\ Save(mem')
      /\ mem \in Stores /\ mem' \in Stores
  BY PollingType DEF DeliverEnd, DeliverDrop, LossInv, TypeOK, Polling
<1>2. /\ mem'.targets = mem.targets
      /\ \A k \in Keys : mem'.pending[k].targets \subseteq mem.pending[k].targets
  <2>1. ASSUME NEW j \in Keys, DeliverDrop(j)
        PROVE  /\ mem'.targets = mem.targets
               /\ \A k \in Keys : mem'.pending[k].targets \subseteq mem.pending[k].targets
    <3>1. mem' = [mem EXCEPT !.pending[j] = NoEvent]
      BY <2>1 DEF DeliverDrop
    <3> QED BY <1>1, <3>1 DEF Stores, NoEvent
  <2>2. ASSUME DeliverEnd
        PROVE  /\ mem'.targets = mem.targets
               /\ \A k \in Keys : mem'.pending[k].targets \subseteq mem.pending[k].targets
    <3>1. /\ poll.key \in Keys /\ poll.failed \subseteq mem.pending[poll.key].targets
          /\ poll.failed \in SUBSET Users /\ TypeOK
          /\ mem' = IF poll.failed # {} THEN Owe(poll.failed) ELSE Settle
      BY <2>2 DEF DeliverEnd, LossInv, TypeOK, PinInv
    <3>2. CASE poll.failed # {}
      BY <3>1, <3>2, OweType
    <3>3. CASE poll.failed = {}
      BY <3>1, <3>3, SettleType DEF NoEvent
    <3> QED BY <3>2, <3>3
  <2> QED BY <2>1, <2>2
<1>3. OwedOK(mem', file, clock)
  BY <1>1, <1>2, OwedLess DEF HistInv
<1>4. OwedOK(disk', file, clock)
  BY <1>1, <1>3, OwedSaved DEF HistInv
<1> QED BY <1>1, <1>3, <1>4 DEF HistInv

LEMMA PollingHist == ASSUME LossInv, PinInv, HistInv, Polling PROVE HistInv'
<1>1. mem \in Stores /\ OwedOK(mem, file, clock) /\ OwedOK(disk, file, clock)
  BY DEF LossInv, TypeOK, HistInv
<1>2. CASE PollBegin \/ PollEnd \/ \E k \in Keys : DeliverDefer(k)
  <2>1. UNCHANGED <<file, clock, mem, disk, reg>> /\ pc' \in {"preserve", "idle", "deliver"}
    BY <1>2 DEF PollBegin, PollEnd, DeliverDefer
  <2> QED BY <2>1 DEF HistInv
<1>3. CASE PreservePendingSources
  <2>1. UNCHANGED <<file, clock, disk, reg>> /\ pc' = "scan" /\ mem' \in Stores
    BY <1>3, PollingType DEF PreservePendingSources, LossInv, TypeOK, Polling
  <2>2. OwedOK(mem', file, clock)
    <3>1. /\ mem'.targets = mem.targets
          /\ \A k \in Keys : mem'.pending[k].targets \in {mem.pending[k].targets, {}}
      BY <1>3, PreservedPin DEF LossInv
    <3> QED BY <1>1, <2>1, <3>1, OwedLess
  <2> QED BY <1>1, <2>1, <2>2 DEF HistInv
<1>4. ASSUME NEW t \in Threads, ScanFile(t) PROVE HistInv'
  <2>1. UNCHANGED <<file, clock, disk, reg, pc>> /\ pc = "scan"
    BY <1>4 DEF ScanFile
  <2> QED BY <1>1, <1>4, <2>1, ScanOwed DEF HistInv
<1>5. CASE PollSave
  <2>1. UNCHANGED <<file, clock, mem, reg>> /\ pc' = "deliver" /\ (Save(mem) \/ disk' = disk)
    BY <1>5 DEF PollSave
  <2>2. OwedOK(disk', file, clock)
    BY <1>1, <2>1, OwedSaved
  <2> QED BY <1>1, <2>1, <2>2 DEF HistInv
<1> QED BY <1>2, <1>3, <1>4, <1>5, SendingHist, DeliveredHist DEF Polling

LEMMA OtherHist ==
  ASSUME LossInv, HistInv, (\E k \in Keys : BackoffOver(k)) \/ Crash \/ Restart
  PROVE  HistInv'
<1>1. /\ mem \in Stores /\ disk \in Stores /\ clock \in Nat
      /\ OwedOK(mem, file, clock) /\ OwedOK(disk, file, clock)
  BY DEF LossInv, TypeOK, HistInv
<1>2. ASSUME NEW k \in Keys, BackoffOver(k) PROVE HistInv'
  <2>1. /\ SameButRetries(mem, mem') /\ SameButRetries(disk, disk')
        /\ pc \notin {"deliver", "send"} /\ UNCHANGED <<file, clock, pc, reg, poll>>
    BY <1>1, <1>2, CoolingOver DEF BackoffOver
  <2>2. OwedOK(mem', file, clock) /\ OwedOK(disk', file, clock)
    BY <1>1, <2>1, OwedLess DEF SameButRetries
  <2> QED BY <2>1, <2>2, SameKnown DEF HistInv
<1>3. CASE Crash \/ Restart
  <2>1. /\ UNCHANGED <<file, clock, disk>> /\ pc' \in {"down", "idle"}
        /\ mem' \in {EmptyStore, disk}
    BY <1>3 DEF Crash, Restart
  <2> QED BY <1>1, <2>1, OwedEmpty DEF HistInv
<1> QED BY <1>2, <1>3

LEMMA HistInit == Init => HistInv
<1> SUFFICES ASSUME Init PROVE HistInv
  OBVIOUS
<1>1. clock = 1 /\ pc = "idle" /\ mem = disk /\ disk \in Stores
  BY InitType DEF Init, TypeOK
<1>2. ASSUME NEW t \in Threads
      PROVE  /\ OnceOnly(file[t]) /\ file[t].part = NoRow
             /\ \A i \in DOMAIN file[t].rows : file[t].rows[i].at = 1
  <2>1. file[t] \in {NoFile} \cup OldFiles(t)
    BY DEF Init
  <2> QED BY <2>1, OldFileShape DEF OnceOnly
<1>3. OwedOK(disk, file, clock)
  <2>1. CASE disk = EmptyStore
    BY <1>1, <2>1, OwedEmpty
  <2>2. ASSUME NEW v \in Legacy, NEW x \in Threads, NEW w \in Users, NEW kept \in BOOLEAN,
               file[x].rows # <<>>, disk = LegacyStore(v, x, w, kept)
        PROVE  OwedOK(disk, file, clock)
    <3>1. v \in Threads /\ file \in [Threads -> FileType]
      BY ConstantsAssumption, InitType DEF TypeOK, FileType
    <3>2. LegacyEvent(w).targets = {w} /\ NoEvent.targets = {}
      BY DEF NoEvent, LegacyEvent
    <3>3. \A j \in Keys : disk.pending[j].targets \subseteq {w}
      BY <2>2, <3>1, <3>2, LegacyShape
    <3>4. disk.targets[w] = 1 /\ \A u \in Users : disk.targets[u] \in {0, 1}
      BY <2>2, <3>1, LegacyShape
    <3>5. \A t \in Threads, turn \in Turns :
            disk.pending[<<t, turn>>].targets \subseteq {w}
      BY <3>3 DEF Keys
    <3>6. \A t \in Threads : Owed(disk, t, file[t])
      BY <1>2, <3>4, <3>5 DEF Owed, Since
    <3> QED BY <1>1, <3>4, <3>6 DEF OwedOK
  <2> QED BY <2>1, <2>2 DEF Init
<1> QED BY <1>1, <1>2, <1>3 DEF HistInv

LEMMA HistStep == LossInv /\ PinInv /\ HistInv /\ [Next]_vars => HistInv'
<1> SUFFICES ASSUME LossInv, PinInv, HistInv, [Next]_vars PROVE HistInv'
  OBVIOUS
<1>1. CASE UNCHANGED vars
  BY <1>1 DEF vars, HistInv
<1>2. CASE Next
  BY <1>2, DesktopHist, RegistrationHist, PollingHist, OtherHist DEF Next
<1> QED BY <1>1, <1>2

LEMMA HistAlways == Spec => []HistInv
  BY PinAlways, LossAlways, HistInit, HistStep, PTL DEF Spec

\* What is shown to a user finished, if it is dated, when the user was already
\* registered.
THEOREM HistoryTheorem == Spec => HistoryNotShown
<1>1. LossInv /\ PinInv /\ HistInv /\ [Next]_vars =>
        [\A m \in inbox' \ inbox : \A i \in DOMAIN file[m.key[1]].rows :
           LET row == file[m.key[1]].rows[i]
           IN  row.turn = m.key[2] /\ row.at # NoStamp
                 => mem.targets[m.user] # 0 /\ row.at >= mem.targets[m.user]]_vars
  <2> DEFINE Fresh(m) ==
        \A i \in DOMAIN file[m.key[1]].rows :
          LET row == file[m.key[1]].rows[i]
          IN  row.turn = m.key[2] /\ row.at # NoStamp
                => mem.targets[m.user] # 0 /\ row.at >= mem.targets[m.user]
  <2> SUFFICES ASSUME LossInv, PinInv, HistInv, Next, NEW m \in inbox' \ inbox PROVE Fresh(m)
    OBVIOUS
  <2>1. PICK u \in Users : SendAccepted(u) \/ SendFailed(u)
    BY DEF Next, Desktop, CreateFile, CreateTornFile, FinishMeta, StartRow, FinishRow,
           MoveFile, ReplaceFile, TruncateFile, Registration, RegisterBegin, RegisterAgain,
           SnapshotList, SnapshotFile, RegisterCommit, Polling, PollBegin,
           PreservePendingSources, ScanFile, PollSave, DeliverDrop, DeliverDefer,
           DeliverBegin, DeliverEnd, PollEnd, BackoffOver, Crash, Restart
  <2>2. m.key = poll.key /\ m.user = u /\ u \in poll.left /\ pc = "send"
    BY <2>1 DEF SendAccepted, SendFailed, Show, Message
  <2>3. /\ poll.key \in Keys /\ u \in mem.pending[poll.key].targets
        /\ OwedOK(mem, file, clock)
    BY <2>2 DEF LossInv, TypeOK, HistInv, PinInv
  <2>4. PICK t \in Threads, turn \in Turns : poll.key = <<t, turn>>
    BY <2>3 DEF Keys
  <2>5. mem.targets[u] # 0 /\ \A i \in DOMAIN file[t].rows : Since(file[t].rows[i], turn, mem.targets[u])
    BY <2>3, <2>4 DEF OwedOK, Owed
  <2> QED BY <2>2, <2>4, <2>5 DEF Since
<1> QED BY <1>1, PinAlways, LossAlways, HistAlways, PTL DEF Spec, HistoryNotShown

-----------------------------------------------------------------------------
(* The monitor keeps the promise of NotificationOutbox where every save      *)
(* succeeds.  A save that fails is retried only with the next change, and    *)
(* what is sent meanwhile is shown before the disk owes it.                  *)

Saves == "save" \notin FaultKinds

\* Between two scans the disk has what the memory has; a scan adds to what is
\* owed in memory and takes nothing from it but somebody else's.
SavedInv ==
  /\ pc \notin {"scan", "down"} => mem = disk
  /\ pc = "scan" /\ ~poll.dirty => mem = disk
  /\ pc = "scan" => \A k \in Keys :
       ~Own(k) \/ disk.pending[k].targets \subseteq mem.pending[k].targets

LEMMA SaveDone ==
  ASSUME Saves, NEW s, Save(s)
  PROVE  disk' = s
  BY DEF Saves, Save, Fault

LEMMA ScanKeeps ==
  ASSUME TypeOK, NEW t \in Threads, ScanFile(t)
  PROVE  \A k \in Keys : mem.pending[k].targets \subseteq mem'.pending[k].targets
<1>1. CASE Eligibility(t, poll.src[t]) # "yes"
  BY <1>1 DEF ScanFile
<1>2. CASE Eligibility(t, poll.src[t]) = "yes"
  <2>1. \A k \in Keys : mem.pending[k].targets = {} \/ Enqueued(k) = mem.pending[k]
    BY DEF Enqueued, InOutbox
  <2>2. \A k \in Keys : mem'.pending[k] = mem.pending[k] \/ mem'.pending[k] = Enqueued(k)
    BY <1>2, ScanFields
  <2> QED BY <2>1, <2>2
<1> QED BY <1>1, <1>2

LEMMA SavedStep ==
  ASSUME Saves PROVE LossInv /\ PinInv /\ SavedInv /\ [Next]_vars => SavedInv'
<1> SUFFICES ASSUME LossInv, PinInv, SavedInv, [Next]_vars PROVE SavedInv'
  OBVIOUS
<1>1. mem \in Stores /\ disk \in Stores /\ TypeOK
  BY DEF LossInv, TypeOK
<1>2. CASE UNCHANGED <<mem, disk, pc, poll>>
  BY <1>2 DEF SavedInv
<1>3. CASE Desktop
  BY <1>2, <1>3 DEF Desktop, CreateFile, CreateTornFile, FinishMeta, StartRow, FinishRow,
                    MoveFile, ReplaceFile, TruncateFile
<1>4. ASSUME mem = disk, UNCHANGED <<mem, disk>>, pc' # "scan" PROVE SavedInv'
  BY <1>4 DEF SavedInv
<1>5. ASSUME Save(mem'), pc' # "scan" PROVE SavedInv'
  BY <1>5, SaveDone DEF SavedInv
<1>6. CASE Registration
  <2>1. ASSUME NEW u \in Users, RegisterBegin(u) PROVE SavedInv'
    BY <1>4, <2>1 DEF RegisterBegin, SavedInv
  <2>2. ASSUME NEW u \in Users, RegisterAgain(u) PROVE SavedInv'
    BY <1>5, <2>2 DEF RegisterAgain
  <2>3. CASE SnapshotList
    BY <1>4, <2>3 DEF SnapshotList, SavedInv
  <2>4. ASSUME NEW t \in Threads, SnapshotFile(t) PROVE SavedInv'
    BY <1>4, <2>4 DEF SnapshotFile, SavedInv
  <2>5. CASE RegisterCommit
    BY <1>5, <2>5 DEF RegisterCommit
  <2> QED BY <1>6, <2>1, <2>2, <2>3, <2>4, <2>5 DEF Registration
<1>7. CASE Polling
  <2>1. CASE PollBegin \/ PollEnd \/ \E k \in Keys : DeliverDefer(k) \/ DeliverBegin(k)
    BY <1>4, <2>1 DEF PollBegin, PollEnd, DeliverDefer, DeliverBegin, SavedInv
  <2>2. CASE PreservePendingSources
    <3>1. /\ pc' = "scan" /\ disk' = disk /\ mem = disk
          /\ poll' = [poll EXCEPT !.dirty = mem'.pending # mem.pending,
                                  !.todo = {t \in Threads : poll.src[t] # NoPath}]
          /\ mem' = [mem EXCEPT !.pending = [k \in Keys |-> Preserved(k)]]
      BY <2>2 DEF PreservePendingSources, SavedInv
    <3>2. poll'.dirty = (mem'.pending # mem.pending)
      BY <1>1, <3>1 DEF TypeOK
    <3>3. mem'.pending = mem.pending => mem' = mem
      BY <1>1, <3>1 DEF Stores
    <3>4. \A k \in Keys : Own(k) => mem'.pending[k].targets = mem.pending[k].targets
      BY <1>1, <2>2, PreservedPin
    <3> QED BY <3>1, <3>2, <3>3, <3>4 DEF SavedInv
  <2>3. ASSUME NEW t \in Threads, ScanFile(t) PROVE SavedInv'
    <3>1. /\ pc = "scan" /\ pc' = "scan" /\ disk' = disk
          /\ poll' = [poll EXCEPT !.todo = @ \ {t}, !.dirty = @ \/ mem' # mem]
      BY <2>3 DEF ScanFile
    <3>2. ~poll'.dirty => mem' = mem /\ ~poll.dirty
      BY <1>1, <3>1 DEF TypeOK
    <3> QED BY <1>1, <2>3, <3>1, <3>2, ScanKeeps DEF SavedInv
  <2>4. CASE PollSave
    <3>1. pc = "scan" /\ pc' = "deliver" /\ mem' = mem
          /\ IF poll.dirty THEN Save(mem) ELSE disk' = disk
      BY <2>4 DEF PollSave
    <3> QED BY <3>1, SaveDone DEF SavedInv
  <2>5. ASSUME NEW k \in Keys, DeliverDrop(k) PROVE SavedInv'
    BY <1>5, <2>5 DEF DeliverDrop
  <2>6. ASSUME NEW u \in Users, SendAccepted(u) \/ SendFailed(u) PROVE SavedInv'
    BY <1>4, <2>6 DEF SendAccepted, SendFailed, SavedInv
  <2>7. CASE DeliverEnd
    BY <1>5, <2>7 DEF DeliverEnd
  <2> QED BY <1>7, <2>1, <2>2, <2>3, <2>4, <2>5, <2>6, <2>7 DEF Polling
<1>8. ASSUME NEW k \in Keys, BackoffOver(k) PROVE SavedInv'
  <2>1. /\ mem' = [mem EXCEPT !.pending[k].cooling = FALSE]
        /\ disk' = [disk EXCEPT !.pending[k].cooling = FALSE] /\ UNCHANGED <<pc, poll>>
    BY <1>8 DEF BackoffOver
  <2>2. \A j \in Keys : /\ mem'.pending[j].targets = mem.pending[j].targets
                        /\ disk'.pending[j].targets = disk.pending[j].targets
    BY <1>1, <2>1, CoolingOver DEF SameButRetries
  <2>3. mem = disk => mem' = disk'
    BY <2>1
  <2> QED BY <2>1, <2>2, <2>3 DEF SavedInv
<1>9. CASE Crash \/ Restart
  BY <1>9 DEF Crash, Restart, SavedInv
<1> QED BY <1>2, <1>3, <1>6, <1>7, <1>8, <1>9 DEF Next, vars

\* A step that shows nothing and takes off the disk only what was shown or is
\* somebody else's revises the outbox.
LEMMA Revised ==
  ASSUME UNCHANGED inbox,
         \A k \in Keys : \A u \in Users :
           u \in disk.pending[k].targets =>
             u \in disk'.pending[k].targets \/ Reached(k, u) \/ ~Own(k)
  PROVE  Outbox!Next
<1> DEFINE new == {p \in Pairs : PairStatus[p] = "none" /\ PairStatus'[p] = "owed"}
           gone == {p \in Pairs : /\ ~Own(p[1])
                                  /\ PairStatus[p] = "owed" /\ PairStatus'[p] = "none"}
<1>1. ASSUME NEW p \in Pairs
      PROVE  /\ p[1] \in Keys /\ p[2] \in Users
             /\ Reached(p[1], p[2])' <=> Reached(p[1], p[2])
             /\ PairStatus[p] = IF Reached(p[1], p[2]) THEN "shown"
                                ELSE IF p[2] \in disk.pending[p[1]].targets
                                  THEN "owed" ELSE "none"
             /\ PairStatus'[p] = IF Reached(p[1], p[2]) THEN "shown"
                                 ELSE IF p[2] \in disk'.pending[p[1]].targets
                                   THEN "owed" ELSE "none"
  BY DEF Pairs, PairStatus, Reached
<1>2. PairStatus' = [p \in Pairs |-> PairStatus'[p]]
  BY DEF PairStatus
<1>3. \A p \in Pairs : PairStatus'[p] = IF p \in new THEN "owed"
                                        ELSE IF p \in gone THEN "none" ELSE PairStatus[p]
  BY <1>1
<1>4. /\ new \in SUBSET {p \in Pairs : PairStatus[p] = "none"}
      /\ gone \in SUBSET {p \in {p \in Pairs : ~Own(p[1])} : PairStatus[p] = "owed"}
  OBVIOUS
<1> HIDE DEF new, gone
<1>5. PairStatus' = [p \in Pairs |-> IF p \in new THEN "owed"
                                     ELSE IF p \in gone THEN "none" ELSE PairStatus[p]]
  BY <1>2, <1>3
<1>6. Outbox!Revise
  BY <1>4, <1>5 DEF Outbox!Revise
<1> QED BY <1>6 DEF Outbox!Next

\* A message is shown while the disk owes it, or was shown before.
LEMMA ShownPair ==
  ASSUME LossInv, PinInv, SavedInv, NEW u \in Users, u \in poll.left, pc = "send",
         UNCHANGED disk, UNCHANGED inbox \/ Show(Message(u))
  PROVE  Outbox!Next
<1>1. CASE UNCHANGED inbox
  BY <1>1, Revised
<1>2. CASE inbox' # inbox
  <2> DEFINE q == <<poll.key, u>>
  <2>1. /\ Message(u).uuid = <<poll.key, u>> /\ Message(u).key = poll.key
        /\ Message(u).user = u
    BY DEF Message, MessageUuid
  <2>2. ~Reached(poll.key, u) /\ inbox' = inbox \cup {Message(u)}
    BY <1>2, <2>1 DEF Show, LossInv, UuidNamesMessage, Reached
  <2>3. poll.key \in Keys /\ q \in Pairs /\ u \in disk.pending[poll.key].targets
    BY DEF LossInv, TypeOK, Pairs, PinInv, SavedInv
  <2>4. PairStatus[q] = "owed"
    BY <2>2, <2>3 DEF PairStatus
  <2>5. \A p \in Pairs : Reached(p[1], p[2])' <=> Reached(p[1], p[2]) \/ p = q
    BY <2>1, <2>2 DEF Reached, Pairs
  <2>6. PairStatus' = [PairStatus EXCEPT ![q] = "shown"]
    BY <2>3, <2>5 DEF PairStatus
  <2> QED BY <2>3, <2>4, <2>6 DEF Outbox!Next, Outbox!ShowPair
<1> QED BY <1>1, <1>2

LEMMA OutboxStep ==
  ASSUME Saves
  PROVE  LossInv /\ QueueInv /\ PinInv /\ SavedInv /\ [Next]_vars => [Outbox!Next]_PairStatus
<1> SUFFICES ASSUME LossInv, QueueInv, PinInv, SavedInv, [Next]_vars
             PROVE  Outbox!Next \/ UNCHANGED PairStatus
  OBVIOUS
<1>1. mem \in Stores /\ disk \in Stores /\ TypeOK
  BY DEF LossInv, TypeOK
<1>2. ASSUME UNCHANGED <<inbox, disk>> PROVE Outbox!Next
  BY <1>2, Revised
<1>3. CASE UNCHANGED vars
  BY <1>2, <1>3 DEF vars
<1>4. CASE Desktop
  BY <1>2, <1>4 DEF Desktop, CreateFile, CreateTornFile, FinishMeta, StartRow, FinishRow,
                    MoveFile, ReplaceFile, TruncateFile
<1>5. CASE Registration
  <2>1. ASSUME NEW u \in Users, RegisterAgain(u) PROVE Outbox!Next
    BY <1>2, <2>1, SaveDone DEF RegisterAgain, SavedInv
  <2>2. CASE RegisterCommit
    <3>1. mem'.pending = mem.pending /\ disk' = mem' /\ mem = disk /\ UNCHANGED inbox
      BY <1>1, <2>2, SaveDone DEF RegisterCommit, SavedInv, Stores
    <3> QED BY <3>1, Revised
  <2> QED BY <1>2, <1>5, <2>1, <2>2
          DEF Registration, RegisterBegin, SnapshotList, SnapshotFile
<1>6. CASE Polling
  <2>1. CASE PollSave
    <3>1. /\ pc = "scan" /\ UNCHANGED inbox
          /\ IF poll.dirty THEN disk' = mem ELSE disk' = disk
      BY <2>1, SaveDone DEF PollSave
    <3> QED BY <3>1, Revised DEF SavedInv
  <2>2. ASSUME NEW k \in Keys, DeliverDrop(k) PROVE Outbox!Next
    <3>1. /\ mem' = [mem EXCEPT !.pending[k] = NoEvent] /\ disk' = mem' /\ mem = disk
          /\ UNCHANGED inbox
      BY <2>2, SaveDone DEF DeliverDrop, SavedInv
    <3>2. \A j \in Keys \ {k} : disk'.pending[j] = disk.pending[j]
      BY <1>1, <3>1 DEF Stores
    <3>3. ~Own(k)
      BY <1>1, <2>2, DroppedOther
    <3> QED BY <3>1, <3>2, <3>3, Revised
  <2>3. CASE DeliverEnd
    <3> DEFINE j == poll.key
    <3>1. /\ j \in Keys /\ pc = "send" /\ poll.left = {} /\ disk' = mem' /\ mem = disk
          /\ UNCHANGED inbox /\ poll.failed \in SUBSET Users
          /\ mem' = IF poll.failed # {} THEN Owe(poll.failed) ELSE Settle
      BY <1>1, <2>3, SaveDone DEF DeliverEnd, SavedInv, TypeOK
    <3>4. /\ mem'.pending[j].targets = poll.failed
          /\ \A k \in Keys \ {j} : mem'.pending[k] = mem.pending[k]
      <4>1. CASE poll.failed # {}
        BY <1>1, <3>1, <4>1, OweType
      <4>2. CASE poll.failed = {}
        BY <1>1, <3>1, <4>2, SettleType DEF NoEvent
      <4> QED BY <4>1, <4>2
    <3>5. \A u \in Users : u \in mem.pending[j].targets => u \in Registered(mem)
      <4>1. InOutbox(mem, j)
        BY <3>1 DEF QueueInv
      <4> QED BY <3>1, <4>1 DEF PinInv, Pinned, EntryPinned
    <3>6. \A u \in Users : u \in mem.pending[j].targets => u \in poll.failed \/ Reached(j, u)
      BY <3>1, <3>5 DEF LossInv, SendOK, Shown, Reached
    <3> QED BY <3>1, <3>4, <3>6, Revised
  <2>4. ASSUME NEW u \in Users, SendAccepted(u) \/ SendFailed(u) PROVE Outbox!Next
    BY <2>4, ShownPair DEF SendAccepted, SendFailed
  <2> QED BY <1>2, <1>6, <2>1, <2>2, <2>3, <2>4
          DEF Polling, PollBegin, PreservePendingSources, ScanFile, DeliverDefer,
              DeliverBegin, PollEnd
<1>7. ASSUME NEW k \in Keys, BackoffOver(k) PROVE Outbox!Next
  <2>1. SameButRetries(disk, disk') /\ UNCHANGED inbox
    BY <1>1, <1>7, CoolingOver DEF BackoffOver
  <2> QED BY <2>1, Revised DEF SameButRetries
<1>8. CASE Crash \/ Restart
  BY <1>2, <1>8 DEF Crash, Restart
<1> QED BY <1>3, <1>4, <1>5, <1>6, <1>7, <1>8 DEF Next

\* With saves that succeed, the monitor implements the persistent outbox: a
\* completion is shown only once the disk owes it, and is taken off the disk
\* only by being shown, unless somebody else's, whatever crashes, refused and lost
\* sends, and files moved, replaced or cut short come in between.
THEOREM OutboxTheorem == ASSUME Saves PROVE Spec => ImplementsOutbox
<1>1. Init => Outbox!Init
  <2>1. Init => \A k \in Keys, u \in Users : ~Reached(k, u)
    BY DEF Init, Reached
  <2> QED BY <2>1 DEF Outbox!Init, PairStatus, Pairs
<1>2. Init => SavedInv
  BY DEF Init, SavedInv
<1>3. LossInv /\ PinInv /\ SavedInv /\ [Next]_vars => SavedInv'
  BY SavedStep
<1>4. LossInv /\ QueueInv /\ PinInv /\ SavedInv /\ [Next]_vars => [Outbox!Next]_PairStatus
  BY OutboxStep
<1> QED BY <1>1, <1>2, <1>3, <1>4, PinAlways, LossAlways, PTL
        DEF Spec, ImplementsOutbox, Outbox!Spec
=============================================================================
