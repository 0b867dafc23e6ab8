--------------------------- MODULE CompletionMonitor ---------------------------
(***************************************************************************)
(* The completion monitor of lark_client/desktop_notifications.py: it      *)
(* tails the rollout files Codex Desktop appends to, puts every finished   *)
(* turn of a root thread into a persistent outbox, and sends the outbox to *)
(* the Lark users registered when the turn finished.                       *)
(*                                                                         *)
(* The monitor is one coroutine at a time (self._lock); its steps here are *)
(* the stretches between two awaits, or one file of a scan that runs in a  *)
(* worker thread.  Between them Codex Desktop appends to, moves and        *)
(* replaces rollout files, Lark answers or does not, and the process may   *)
(* die, to be started again from the file _save_state last replaced.       *)
(*                                                                         *)
(* A rollout file is a sequence of finished completion rows; lines that    *)
(* report no completion move offsets and nothing else and are left out.    *)
(* A path names a rollout, where Codex Desktop put it, and whose it is; the *)
(* provider and an older version's records may give a thread the path of   *)
(* another's rollout, so the monitor decides by the file's first line.     *)
(* Time moves only where the code compares times: when a user registers.   *)
(***************************************************************************)
EXTENDS Integers, Sequences, FiniteSets, Functions

CONSTANTS
  Threads,        \* thread ids the source provider may list
  Children,       \* those whose rollout says it belongs to a sub-agent
  Session,        \* session id in a rollout's first line: a fork of a thread,
                  \* be it a sub-agent or not, carries the root's
  Users,          \* Lark users who may register
  Turns,          \* turn ids
  Author,         \* the thread a turn runs in, which no other thread shares
  Undated,        \* turns whose rows carry no parseable timestamp
  Legacy,         \* threads an older version may have left in the outbox
  MaxDelivered,   \* _MAX_DELIVERED (4096 in the code)
  EvictCount,     \* how many of the oldest are then dropped (1024)
  FaultKinds,     \* which misfortunes this instance allows
  MaxFaults,      \* and how many of them in one behaviour
  MaxClock        \* bound on registrations in one behaviour

Faults == {"crash", "save", "refuse", "lost", "provider", "index", "torn",
           "move", "replace", "truncate"}

ASSUME ConstantsAssumption ==
  /\ Children \subseteq Threads
  /\ Session \in [Threads -> Threads] /\ Author \in [Turns -> Threads]
  /\ Undated \subseteq Turns
  /\ Legacy \subseteq Threads
  /\ FaultKinds \subseteq Faults
  /\ MaxDelivered \in Nat \ {0} /\ EvictCount \in 1..MaxDelivered
  /\ MaxFaults \in Nat /\ MaxClock \in Nat

NoStamp == 0                       \* an absent or unparseable timestamp
Places == {"live", "archived"}      \* sessions/ and archived_sessions/
Paths == Threads \X Places          \* of whose rollout, and where
NoPath == <<>>                     \* a path recorded as null
Unset == <<"unset">>               \* the key is missing (older version)
Keys == Threads \X Turns           \* _event_key: the hash of thread and turn
Rows == [turn : Turns, at : Nat]
NoRow == [turn |-> "no turn", at |-> NoStamp]

\* The inodes of a thread's own rollout are counted from 1; the cursor an older
\* version took from the rollout of another thread has a foreign one.
Foreign == -1
Cursors == [path : Paths \cup {NoPath}, inode : Nat \cup {Foreign}, offset : Nat]
NoCursor == [path |-> NoPath, inode |-> 0, offset |-> 0]

\* An outbox entry; the ones with no target left are absent.
Events == [path : Paths \cup {NoPath, Unset}, verified : BOOLEAN,
           targets : SUBSET Users, attempts : Nat, cooling : BOOLEAN]
NoEvent == [path |-> NoPath, verified |-> FALSE,
            targets |-> {}, attempts |-> 0, cooling |-> FALSE]

\* What _save_state writes and _load_state reads, and a history kept along with
\* it: whom Lark confirmed which of the completions the store still knows.
Stores == [targets : [Users -> Nat], registered : Nat,
           cursors : [Threads -> Cursors], pending : [Keys -> Events],
           delivered : Seq(Keys), told : SUBSET (Keys \X Users)]
EmptyStore == [targets |-> [u \in Users |-> 0], registered |-> 0,
               cursors |-> [t \in Threads |-> NoCursor],
               pending |-> [k \in Keys |-> NoEvent],
               delivered |-> <<>>, told |-> {}]

VARIABLES
  file,     \* the rollout file of each thread, inode 0 before it exists
  clock,    \* now
  inbox,    \* the messages Lark has shown, identified by their uuid
  faults,   \* misfortunes so far
  mem,      \* the monitor's fields
  disk,     \* desktop_notifications.json
  pc,       \* where the coroutine that holds the lock stands
  reg,      \* locals of register_target
  poll,     \* locals of poll_once
  blind     \* history: threads whose rows the offsets cannot vouch for, because
            \* the first snapshot missed the file or it shrank in place

vars == <<file, clock, inbox, faults, mem, disk, pc, reg, poll, blind>>

NoSources == [t \in Threads |-> NoPath]
NoReg == [user |-> "no user", cutoff |-> 0, src |-> NoSources, todo |-> {},
          base |-> [t \in Threads |-> NoCursor]]
NoPoll == [src |-> NoSources, todo |-> {}, dirty |-> FALSE,
           queue |-> {}, key |-> <<>>, left |-> {}, failed |-> {}]

Fault(kind) == kind \in FaultKinds /\ faults < MaxFaults /\ faults' = faults + 1

-----------------------------------------------------------------------------
(* Reading files and outbox *)

Exists(f) == f.inode # 0
NoFile == [place |-> "live", inode |-> 0, born |-> 0, mtime |-> 0,
           meta |-> FALSE, rows |-> <<>>, part |-> NoRow]
Size(f) == Len(f.rows) + (IF f.part = NoRow THEN 0 ELSE 1)

\* The last line end at or before the end of the file.
CompleteFileOffset(f) == Len(f.rows)

\* _notification_sources: current and archived threads with their files.
PathOf(t) == IF Exists(file[t]) THEN <<t, file[t].place>> ELSE NoPath
Sources == [t \in Threads |-> PathOf(t)]

\* Codex's index may list under a root the rollout of another thread that
\* carries the root's session id, if its first line does not give it away yet.
Misfiled(t, v) ==
  v # t /\ Session[v] = t /\ Exists(file[v]) /\ (v \in Children => ~file[v].meta)
Listings == {Sources} \cup
  {[Sources EXCEPT ![p[1]] = PathOf(p[2])] :
     p \in {q \in Threads \X Threads : Misfiled(q[1], q[2])}}

\* The provider answers; on an exception _safe_sources answers with nothing.
Listed(src) ==
  IF src = Sources THEN UNCHANGED faults
  ELSE Fault(IF src = NoSources THEN "provider" ELSE "index")

\* The rollout found at a path.
At(path) ==
  IF path \in Paths /\ file[path[1]].place = path[2] THEN file[path[1]] ELSE NoFile

\* Three answers, by the first line of the file at the path: "no" it is flagged
\* a sub-agent's or its own id is not the thread's, "yes" it is the thread's own
\* root rollout, "unknown" there is no complete first line to read (yet).
Eligibility(t, path) ==
  IF ~At(path).meta THEN "unknown"
  ELSE IF path[1] \in Children \/ path[1] # t THEN "no" ELSE "yes"

\* The turn ran in this very thread, and that is no sub-agent's.
Own(k) == Author[k[2]] = k[1] /\ k[1] \notin Children

SameFile(c, f) == c.inode # 0 /\ c.inode = f.inode /\ c.offset <= Size(f)

InOutbox(s, k) == s.pending[k].targets # {}
Settled(s, k) == k \in Range(s.delivered)
Registered(s) == {u \in Users : s.targets[u] # 0}
CompletedAt(row) == IF row.at = NoStamp THEN clock ELSE row.at

\* uuid5 of the event and the user: the same for every attempt.
MessageUuid(k, u) == <<k, u>>
Reached(k, u) == \E m \in inbox : m.key = k /\ m.user = u

Remember(q, k) ==
  LET r == Append(q, k)
  IN  IF Len(r) > MaxDelivered THEN SubSeq(r, EvictCount + 1, Len(r)) ELSE r

\* _save_state replaces the whole file or, on OSError, leaves the old one.
Save(s) == \/ disk' = s /\ UNCHANGED faults
           \/ Fault("save") /\ UNCHANGED disk

-----------------------------------------------------------------------------
(* Codex Desktop, Lark and the operating system *)

NewFile(meta) == [place |-> "live", inode |-> 1, born |-> clock, mtime |-> clock,
                  meta |-> meta, rows |-> <<>>, part |-> NoRow]

\* The file written to, now.
Written(f, rows, part) ==
  [place |-> f.place, inode |-> f.inode, born |-> f.born, mtime |-> clock,
   meta |-> TRUE, rows |-> rows, part |-> part]

CreateFile(t) ==
  /\ ~Exists(file[t])
  /\ file' = [file EXCEPT ![t] = NewFile(TRUE)]
  /\ UNCHANGED <<clock, inbox, faults, mem, disk, pc, reg, poll, blind>>

\* The session_meta line of a new file is being written.
CreateTornFile(t) ==
  /\ ~Exists(file[t])
  /\ Fault("torn")
  /\ file' = [file EXCEPT ![t] = NewFile(FALSE)]
  /\ UNCHANGED <<clock, inbox, mem, disk, pc, reg, poll, blind>>

FinishMeta(t) ==
  /\ Exists(file[t]) /\ ~file[t].meta
  /\ file' = [file EXCEPT ![t] = Written(@, <<>>, NoRow)]
  /\ UNCHANGED <<clock, inbox, faults, mem, disk, pc, reg, poll, blind>>

Finished(f) == {f.rows[i].turn : i \in DOMAIN f.rows}

\* A turn finishes; its row is stamped first and then written, which a reader
\* may see half done.
StartRow(t, turn) ==
  /\ Author[turn] = t
  /\ file[t].meta /\ file[t].part = NoRow /\ turn \notin Finished(file[t])
  /\ LET row == [turn |-> turn, at |-> IF turn \in Undated THEN NoStamp ELSE clock]
     IN  file' = [file EXCEPT ![t] = Written(@, @.rows, row)]
  /\ UNCHANGED <<clock, inbox, faults, mem, disk, pc, reg, poll, blind>>

FinishRow(t) ==
  /\ file[t].part # NoRow
  /\ file' = [file EXCEPT ![t] = Written(@, Append(@.rows, @.part), NoRow)]
  /\ UNCHANGED <<clock, inbox, faults, mem, disk, pc, reg, poll, blind>>

\* Archiving and unarchiving rename the file.
MoveFile(t) ==
  /\ Exists(file[t]) /\ file[t].meta
  /\ Fault("move")
  /\ file' = [file EXCEPT ![t].place = IF @ = "live" THEN "archived" ELSE "live"]
  /\ UNCHANGED <<clock, inbox, mem, disk, pc, reg, poll, blind>>

\* A rewritten copy takes the place of the file.
ReplaceFile(t) ==
  /\ Exists(file[t]) /\ file[t].meta /\ file[t].part = NoRow
  /\ Fault("replace")
  /\ file' = [file EXCEPT ![t] =
       [place |-> @.place, inode |-> @.inode + 1, born |-> clock, mtime |-> clock,
        meta |-> TRUE, rows |-> @.rows, part |-> NoRow]]
  /\ UNCHANGED <<clock, inbox, mem, disk, pc, reg, poll, blind>>

TruncateFile(t) ==
  /\ Exists(file[t]) /\ file[t].meta /\ file[t].rows # <<>>
  /\ Fault("truncate")
  /\ file' = [file EXCEPT ![t] = Written(@, <<>>, NoRow)]
  /\ blind' = blind \cup {t}
  /\ UNCHANGED <<clock, inbox, mem, disk, pc, reg, poll>>

\* next_attempt_at passes.
BackoffOver(k) ==
  /\ pc \notin {"deliver", "send"}
  /\ mem.pending[k].cooling \/ disk.pending[k].cooling
  /\ mem' = [mem EXCEPT !.pending[k].cooling = FALSE]
  /\ disk' = [disk EXCEPT !.pending[k].cooling = FALSE]
  /\ UNCHANGED <<file, clock, inbox, faults, pc, reg, poll, blind>>

Crash ==
  /\ pc # "down"
  /\ Fault("crash")
  /\ pc' = "down" /\ mem' = EmptyStore /\ reg' = NoReg /\ poll' = NoPoll
  /\ UNCHANGED <<file, clock, inbox, disk, blind>>

\* __init__ and start().
Restart ==
  /\ pc = "down"
  /\ pc' = "idle" /\ mem' = disk
  /\ UNCHANGED <<file, clock, inbox, faults, disk, reg, poll, blind>>

-----------------------------------------------------------------------------
(* register_target *)

\* Up to the first await: the cutoff is taken, and the very first user also
\* needs a snapshot of where the files end.
RegisterBegin(u) ==
  /\ pc = "idle" /\ u \notin Registered(mem) /\ clock < MaxClock
  /\ clock' = clock + 1
  /\ reg' = [NoReg EXCEPT !.user = u, !.cutoff = clock + 1]
  /\ pc' = IF Registered(mem) = {} /\ \A t \in Threads : mem.cursors[t] = NoCursor
             THEN "list" ELSE "register"
  /\ UNCHANGED <<file, inbox, faults, mem, disk, poll, blind>>

\* Registering again only saves.
RegisterAgain(u) ==
  /\ pc = "idle" /\ u \in Registered(mem) /\ disk # mem
  /\ Save(mem)
  /\ UNCHANGED <<file, clock, inbox, mem, pc, reg, poll, blind>>

\* _snapshot_cursors asks the provider for its files.
SnapshotList ==
  /\ pc = "list"
  /\ \E src \in Listings \cup {NoSources} :
       /\ reg' = [reg EXCEPT !.src = src, !.todo = {t \in Threads : src[t] # NoPath}]
       /\ Listed(src)
  /\ pc' = "snapshot"
  /\ UNCHANGED <<file, clock, inbox, mem, disk, poll, blind>>

SnapshotFile(t) ==
  /\ pc = "snapshot" /\ t \in reg.todo
  /\ LET f == At(reg.src[t]) IN
     reg' = [reg EXCEPT !.todo = @ \ {t},
       !.base[t] = IF Eligibility(t, reg.src[t]) # "yes" THEN NoCursor
                   ELSE [path |-> reg.src[t], inode |-> f.inode,
                         offset |-> IF f.mtime >= reg.cutoff THEN 0
                                    ELSE CompleteFileOffset(f)]]
  /\ UNCHANGED <<file, clock, inbox, faults, mem, disk, pc, poll, blind>>

\* The subscription becomes active together with the baseline.
RegisterCommit ==
  /\ \/ pc = "register"
     \/ pc = "snapshot" /\ reg.todo = {}
  /\ LET s == [mem EXCEPT
           !.targets[reg.user] = reg.cutoff,
           !.registered = IF @ = 0 THEN reg.cutoff ELSE @,
           !.cursors = [t \in Threads |->
             IF reg.base[t] # NoCursor THEN reg.base[t] ELSE @[t]]]
     IN mem' = s /\ Save(s)
  /\ blind' = IF pc = "register" THEN blind
              ELSE blind \cup {t \in Threads : /\ Exists(file[t])
                                              /\ file[t].born < reg.cutoff
                                              /\ reg.base[t] = NoCursor}
  /\ pc' = "idle" /\ reg' = NoReg
  /\ UNCHANGED <<file, clock, inbox, poll>>

-----------------------------------------------------------------------------
(* poll_once *)

PollBegin ==
  /\ pc = "idle" /\ Registered(mem) # {}
  /\ \E src \in Listings \cup {NoSources} :
       poll' = [NoPoll EXCEPT !.src = src] /\ Listed(src)
  /\ pc' = "preserve"
  /\ UNCHANGED <<file, clock, inbox, mem, disk, reg, blind>>

\* _preserve_pending_sources: entries of an older version are pinned to the
\* path their cursor had before the scan can move it.
Preserved(k) ==
  LET e == mem.pending[k]
      path == IF e.path = Unset THEN mem.cursors[k[1]].path ELSE e.path
      found == Eligibility(k[1], path)
  IN  IF ~InOutbox(mem, k) THEN e
      ELSE IF found = "no" THEN NoEvent
      ELSE [path |-> path, verified |-> e.verified \/ found = "yes",
            targets |-> e.targets, attempts |-> e.attempts, cooling |-> e.cooling]

PreservePendingSources ==
  /\ pc = "preserve"
  /\ mem' = [mem EXCEPT !.pending = [k \in Keys |-> Preserved(k)]]
  /\ poll' = [poll EXCEPT !.dirty = mem'.pending # mem.pending,
                          !.todo = {t \in Threads : poll.src[t] # NoPath}]
  /\ pc' = "scan"
  /\ UNCHANGED <<file, clock, inbox, faults, disk, reg, blind>>

\* Where _scan_new_events starts to read: at the cursor if it is of this very
\* file, at 0 if the file took the place of a known one or is younger than the
\* first registration, else at its end.
ScanOffset(t) ==
  LET f == At(poll.src[t])  c == mem.cursors[t]
  IN  IF SameFile(c, f) THEN c.offset
      ELSE IF c.inode # 0 \/ (mem.registered # 0 /\ f.born >= mem.registered) THEN 0
      ELSE CompleteFileOffset(f)

\* _read_completion_events stops before a line that has no end yet.
ReadCompletionEvents(t) ==
  LET f == At(poll.src[t])
  IN  {f.rows[i] : i \in (ScanOffset(t) + 1)..CompleteFileOffset(f)}

\* Mutant: a line that has no end yet is passed as well.
CommittedOffset_Eof(t) == Size(At(poll.src[t]))

\* The offset _read_completion_events returns.
CommittedOffset(t) == CompleteFileOffset(At(poll.src[t]))

\* Mutant: whoever is registered.
Owners_Everybody(row) == Registered(mem)

Owners(row) == {u \in Registered(mem) : CompletedAt(row) >= mem.targets[u]}

\* The users told of completion k of thread t if this scan finds it.
Addressees(t, k) ==
  UNION {Owners(row) : row \in {r \in ReadCompletionEvents(t) : <<t, r.turn>> = k}}

\* Mutant: what was delivered is not remembered.
Enqueued_Again(k) ==
  IF InOutbox(mem, k) \/ Addressees(k[1], k) = {}
    THEN mem.pending[k]
    ELSE [path |-> poll.src[k[1]], verified |-> TRUE,
          targets |-> Addressees(k[1], k), attempts |-> 0, cooling |-> FALSE]

\* The outbox entry of k after thread k[1] was scanned.
Enqueued(k) ==
  IF Settled(mem, k) \/ InOutbox(mem, k) \/ Addressees(k[1], k) = {}
    THEN mem.pending[k]
    ELSE [path |-> poll.src[k[1]], verified |-> TRUE,
          targets |-> Addressees(k[1], k), attempts |-> 0, cooling |-> FALSE]

ScanFile(t) ==
  /\ pc = "scan" /\ t \in poll.todo
  /\ IF Eligibility(t, poll.src[t]) # "yes" THEN UNCHANGED mem
     ELSE mem' = [mem EXCEPT
            !.cursors[t] =
              LET f == At(poll.src[t]) IN
              [path |-> IF SameFile(@, f) THEN @.path ELSE poll.src[t],
               inode |-> f.inode, offset |-> CommittedOffset(t)],
            !.pending = [k \in Keys |-> IF k[1] = t THEN Enqueued(k) ELSE @[k]]]
  /\ poll' = [poll EXCEPT !.todo = @ \ {t}, !.dirty = @ \/ mem' # mem]
  /\ UNCHANGED <<file, clock, inbox, faults, disk, pc, reg, blind>>

\* Mutant: the scan is not saved before its findings are sent.
PollSave_Later ==
  /\ pc = "scan" /\ poll.todo = {}
  /\ poll' = [poll EXCEPT !.queue = {k \in Keys : InOutbox(mem, k)}]
  /\ pc' = "deliver"
  /\ UNCHANGED <<file, clock, inbox, faults, mem, disk, reg, blind>>

PollSave ==
  /\ pc = "scan" /\ poll.todo = {}
  /\ IF poll.dirty THEN Save(mem) ELSE UNCHANGED <<disk, faults>>
  /\ poll' = [poll EXCEPT !.queue = {k \in Keys : InOutbox(mem, k)}]
  /\ pc' = "deliver"
  /\ UNCHANGED <<file, clock, inbox, mem, reg, blind>>

\* Mutant: any entry whose file is gone may go by the one listed now.
Sendable_Borrowed(k) ==
  LET found == Eligibility(k[1], mem.pending[k].path)
  IN  IF found = "unknown" THEN Eligibility(k[1], poll.src[k[1]]) ELSE found

\* An entry may be sent if the file it was found in is still the root's, or,
\* once that was verified, if the file the provider lists now is.
Sendable(k) ==
  LET e == mem.pending[k]  found == Eligibility(k[1], e.path)
  IN  IF found = "unknown" /\ e.verified
        THEN Eligibility(k[1], poll.src[k[1]]) ELSE found

DeliverDrop(k) ==
  /\ pc = "deliver" /\ k \in poll.queue
  /\ Eligibility(k[1], mem.pending[k].path) = "no"
  /\ LET s == [mem EXCEPT !.pending[k] = NoEvent] IN mem' = s /\ Save(s)
  /\ poll' = [poll EXCEPT !.queue = @ \ {k}]
  /\ UNCHANGED <<file, clock, inbox, pc, reg, blind>>

DeliverDefer(k) ==
  /\ pc = "deliver" /\ k \in poll.queue
  /\ Eligibility(k[1], mem.pending[k].path) # "no"
  /\ Sendable(k) # "yes" \/ mem.pending[k].cooling
  /\ poll' = [poll EXCEPT !.queue = @ \ {k}]
  /\ UNCHANGED <<file, clock, inbox, faults, mem, disk, pc, reg, blind>>

DeliverBegin(k) ==
  /\ pc = "deliver" /\ k \in poll.queue
  /\ Sendable(k) = "yes" /\ ~mem.pending[k].cooling
  /\ poll' = [poll EXCEPT !.key = k, !.failed = {},
                          !.left = mem.pending[k].targets \cap Registered(mem)]
  /\ pc' = "send"
  /\ UNCHANGED <<file, clock, inbox, faults, mem, disk, reg, blind>>

Message(u) == [uuid |-> MessageUuid(poll.key, u), key |-> poll.key, user |-> u]

\* Lark shows a message once per uuid.
Show(m) == inbox' = IF \E n \in inbox : n.uuid = m.uuid THEN inbox ELSE inbox \cup {m}

SendAccepted(u) ==
  /\ pc = "send" /\ u \in poll.left
  /\ Show(Message(u))
  /\ poll' = [poll EXCEPT !.left = @ \ {u}]
  /\ UNCHANGED <<file, clock, faults, mem, disk, pc, reg, blind>>

\* create_and_send_card_to_user returns None or raises: Lark refused, or
\* ("lost") showed the message and the answer did not arrive.
SendFailed(u) ==
  /\ pc = "send" /\ u \in poll.left
  /\ \/ Fault("refuse") /\ UNCHANGED inbox
     \/ Fault("lost") /\ Show(Message(u))
  /\ poll' = [poll EXCEPT !.left = @ \ {u}, !.failed = @ \cup {u}]
  /\ UNCHANGED <<file, clock, mem, disk, pc, reg, blind>>

Confirmed ==
  mem.told \cup {poll.key} \X ((mem.pending[poll.key].targets \cap Registered(mem))
                               \ poll.failed)

\* The event stays in the outbox for these users, to be tried again later.
Owe(users) ==
  [mem EXCEPT !.pending[poll.key] =
                [path |-> @.path, verified |-> @.verified, targets |-> users,
                 attempts |-> @.attempts + 1, cooling |-> TRUE],
              !.told = Confirmed]

\* It is remembered as delivered, and the oldest such may be forgotten.
Settle ==
  LET q == Remember(mem.delivered, poll.key)
  IN  [mem EXCEPT !.pending[poll.key] = NoEvent, !.delivered = q,
                  !.told = {p \in Confirmed : p[1] \in Range(q) \/ InOutbox(mem, p[1])}]

\* Mutant: the users whose send failed are forgotten.
DeliverEnd_GiveUp ==
  /\ pc = "send" /\ poll.left = {}
  /\ mem' = Settle /\ Save(Settle)
  /\ poll' = [poll EXCEPT !.queue = @ \ {poll.key}, !.key = <<>>, !.failed = {}]
  /\ pc' = "deliver"
  /\ UNCHANGED <<file, clock, inbox, reg, blind>>

\* Mutant: the event is kept as it was until everybody has got it.
DeliverEnd_All ==
  /\ pc = "send" /\ poll.left = {}
  /\ LET s == IF poll.failed # {} THEN Owe(mem.pending[poll.key].targets) ELSE Settle
     IN  mem' = s /\ Save(s)
  /\ poll' = [poll EXCEPT !.queue = @ \ {poll.key}, !.key = <<>>, !.failed = {}]
  /\ pc' = "deliver"
  /\ UNCHANGED <<file, clock, inbox, reg, blind>>

DeliverEnd ==
  /\ pc = "send" /\ poll.left = {}
  /\ LET s == IF poll.failed # {} THEN Owe(poll.failed) ELSE Settle
     IN  mem' = s /\ Save(s)
  /\ poll' = [poll EXCEPT !.queue = @ \ {poll.key}, !.key = <<>>, !.failed = {}]
  /\ pc' = "deliver"
  /\ UNCHANGED <<file, clock, inbox, reg, blind>>

PollEnd ==
  /\ pc = "deliver" /\ poll.queue = {}
  /\ pc' = "idle" /\ poll' = NoPoll
  /\ UNCHANGED <<file, clock, inbox, faults, mem, disk, reg, blind>>

-----------------------------------------------------------------------------
(* The specification *)

\* A file that was there before the monitor, with what had finished by then.
OldFiles(t) ==
  {[place |-> "live", inode |-> 1, born |-> 0, mtime |-> 0,
    meta |-> TRUE, rows |-> rows, part |-> NoRow] :
     rows \in {<<>>} \cup {<<[turn |-> turn, at |-> 1]>> :
                            turn \in {w \in Turns \ Undated : Author[w] = t}}}

\* What an older version may have left: an outbox entry of thread t without its
\* source, and perhaps without its cursor.  It did not look at the first line, so
\* that the rollout v it read for t may be another thread's.
LegacyStore(t, v, u, kept) ==
  LET f == file[v]
  IN  [EmptyStore EXCEPT
         !.targets[u] = 1, !.registered = 1,
         !.cursors[t] = IF kept THEN [path |-> PathOf(v),
                                      inode |-> IF v = t THEN f.inode ELSE Foreign,
                                      offset |-> Len(f.rows)] ELSE NoCursor,
         !.pending[<<t, f.rows[1].turn>>] =
           [path |-> Unset, verified |-> FALSE, targets |-> {u},
            attempts |-> 0, cooling |-> FALSE]]

Init ==
  /\ file \in [Threads -> {NoFile} \cup UNION {OldFiles(t) : t \in Threads}]
  /\ \A t \in Threads : file[t] \in {NoFile} \cup OldFiles(t)
  /\ clock = 1 /\ inbox = {} /\ faults = 0
  /\ \/ disk = EmptyStore /\ blind = {}
     \/ \E t \in Legacy, v \in Threads, u \in Users, kept \in BOOLEAN :
          /\ file[v].rows # <<>> /\ (v = t \/ Session[v] = t)
          /\ disk = LegacyStore(t, v, u, kept)
          /\ blind = {w \in Threads : disk.cursors[w] = NoCursor}
  /\ mem = disk /\ pc = "idle" /\ reg = NoReg /\ poll = NoPoll

Desktop ==
  \E t \in Threads :
    \/ CreateFile(t) \/ CreateTornFile(t) \/ FinishMeta(t)
    \/ \E turn \in Turns : StartRow(t, turn)
    \/ FinishRow(t) \/ MoveFile(t) \/ ReplaceFile(t) \/ TruncateFile(t)

Registration ==
  \/ \E u \in Users : RegisterBegin(u) \/ RegisterAgain(u)
  \/ SnapshotList
  \/ \E t \in Threads : SnapshotFile(t)
  \/ RegisterCommit

Polling ==
  \/ PollBegin \/ PreservePendingSources
  \/ \E t \in Threads : ScanFile(t)
  \/ PollSave
  \/ \E k \in Keys : DeliverDrop(k) \/ DeliverDefer(k) \/ DeliverBegin(k)
  \/ \E u \in Users : SendAccepted(u) \/ SendFailed(u)
  \/ DeliverEnd \/ PollEnd

Next ==
  \/ Desktop \/ Registration \/ Polling
  \/ \E k \in Keys : BackoffOver(k)
  \/ Crash \/ Restart

Spec == Init /\ [][Next]_vars

\* The event loop runs the coroutine that holds the lock, the poll loop calls
\* poll_once again, the service manager restarts the process, time passes.
\* Registering is the users' choice and gets no fairness.
MonitorStep ==
  \/ SnapshotList \/ RegisterCommit \/ Polling
  \/ \E t \in Threads : SnapshotFile(t)
FairSpec ==
  /\ Spec /\ WF_vars(MonitorStep) /\ WF_vars(Restart)
  /\ \A t \in Threads : WF_vars(FinishRow(t)) /\ WF_vars(FinishMeta(t))
  /\ \A turn \in Turns : SF_vars(BackoffOver(<<Author[turn], turn>>))

-----------------------------------------------------------------------------
(* Properties *)

TypeOK ==
  /\ file \in [Threads -> [place : Places, inode : Nat, born : Nat, mtime : Nat,
                           meta : BOOLEAN, rows : Seq(Rows), part : Rows \cup {NoRow}]]
  /\ clock \in Nat /\ faults \in Nat
  /\ inbox \subseteq [uuid : Keys \X Users, key : Keys, user : Users]
  /\ mem \in Stores /\ disk \in Stores
  /\ blind \subseteq Threads
  /\ pc \in {"idle", "list", "register", "snapshot", "preserve", "scan",
             "deliver", "send", "down"}
  /\ reg \in [user : Users \cup {NoReg.user}, cutoff : Nat, todo : SUBSET Threads,
              src : [Threads -> Paths \cup {NoPath}], base : [Threads -> Cursors]]
  /\ poll \in [src : [Threads -> Paths \cup {NoPath}], todo : SUBSET Threads,
               dirty : BOOLEAN, queue : SUBSET Keys, key : Keys \cup {<<>>},
               left : SUBSET Users, failed : SUBSET Users]
  /\ pc = "send" => poll.key \in Keys

\* Row i of thread t is behind the cursor of store s, which will never read it
\* again.
Consumed(s, t, i) == SameFile(s.cursors[t], file[t]) /\ i <= s.cursors[t].offset

\* It finished when u was already registered, in a thread u is told about.
Concerns(s, t, row, u) ==
  t \notin Children /\ s.targets[u] # 0 /\ row.at # NoStamp /\ row.at >= s.targets[u]

Accounted(s, k, u) == u \in s.pending[k].targets \/ Reached(k, u)

\* No completion is silently dropped: what a store's cursor has passed is in
\* that store's outbox for every user it concerns, or has reached the user.
\* This holds of the memory and, so that a crash at any point loses nothing,
\* of the file on disk.
Drops(s, t) ==
  \E u \in Users : \E i \in DOMAIN file[t].rows :
    /\ Consumed(s, t, i) /\ Concerns(s, t, file[t].rows[i], u)
    /\ ~Accounted(s, <<t, file[t].rows[i].turn>>, u)
NoLostCompletion == \A s \in {mem, disk}, t \in Threads \ blind : ~Drops(s, t)

\* A completion that was delivered to everybody is never back in the outbox,
\* in memory or on disk, whatever is read again after a crash or after a file
\* took another's place: it is not sent a second time.
SettledStaysOut ==
  \A s \in {mem, disk}, k \in Keys : ~(Settled(s, k) /\ InOutbox(s, k))

\* Whom Lark confirmed a completion is never again owed it by a store that knows
\* of the confirmation, though others of its users are still to be told, the file
\* is read again from its beginning, or the process dies in between: a second
\* attempt, which only Lark's memory of the uuid would keep from being a second
\* message, is made for those alone whose answer did not come or was not saved.
ConfirmedNotOwed ==
  \A s \in {mem, disk} : \A p \in s.told : p[2] \notin s.pending[p[1]].targets

\* What is shown is the thread's own turn: never a sub-agent's, nor under a
\* root's name the turn of another thread whose rollout the index, or an older
\* version's outbox, passed off as the root's.
NoChildNotified == \A m \in inbox : Own(m.key)

\* A dated turn that finished before the user registered is never shown.
HistoryNotShown ==
  [][\A m \in inbox' \ inbox : \A i \in DOMAIN file[m.key[1]].rows :
       LET row == file[m.key[1]].rows[i]
       IN  row.turn = m.key[2] /\ row.at # NoStamp
             => mem.targets[m.user] # 0 /\ row.at >= mem.targets[m.user]]_vars

\* Every finished turn that concerns a user reaches the user, over refused
\* sends, lost answers, crashes, failed saves, archived and replaced files;
\* a crash may forget a registration whose save failed. Not reached for ever
\* is an entry of an older version whose file was archived before its first
\* check: it stays pinned to the path the file left (see the hazards).
Owing(t, turn, u) ==
  \E i \in DOMAIN file[t].rows :
    file[t].rows[i].turn = turn /\ Concerns(mem, t, file[t].rows[i], u)
Stranded(k) ==
  LET e == mem.pending[k]
  IN  InOutbox(mem, k) /\ ~e.verified /\ e.path # PathOf(k[1])
EveryCompletionShown ==
  \A turn \in Turns, u \in Users :
    LET t == Author[turn] IN
    Owing(t, turn, u) ~>
      \/ Reached(<<t, turn>>, u) \/ Stranded(<<t, turn>>)
      \/ t \in blind \/ u \notin Registered(mem)

\* The monitor implements the promise of NotificationOutbox, read off the file
\* on disk and the messages shown: a completion is shown only once the disk
\* owes it, and nothing but its being shown takes it off the disk.
Pairs == Keys \X Users
PairStatus ==
  [p \in Pairs |-> IF Reached(p[1], p[2]) THEN "shown"
                   ELSE IF p[2] \in disk.pending[p[1]].targets THEN "owed" ELSE "none"]
Outbox == INSTANCE NotificationOutbox WITH
  Withdrawable <- {p \in Pairs : ~Own(p[1])}, status <- PairStatus
ImplementsOutbox == Outbox!Spec
=============================================================================
