------------------------- MODULE DesktopProjection -------------------------
(***************************************************************************)
(* The public projection of a Desktop conversation                          *)
(* (lark_client/desktop_card.py).                                           *)
(*                                                                          *)
(* Desktop keeps a document: `turns`, the container of the current turn,    *)
(* `past`, the turns of the history in their order, the requests the user   *)
(* has to answer, and the runtime status.  A turn has items; an item is     *)
(* public when it is a user's text, an agent's message of a public phase or *)
(* the activity of a sub-agent.  The bridge sees a snapshot of the document *)
(* or a batch of patches.  Of a snapshot it keeps the projection Normalize  *)
(* and, by path, the public items it may have to patch; PatchOnly follows   *)
(* the document by these alone.                                             *)
(*                                                                          *)
(* A path is <<container, turn, item>>: the turn is an index in `turns` and *)
(* a key in `past`, and item 0 is the turn itself.  Texts are numbers, 0 is *)
(* none.  The bounds on how much a projection holds and images are left out.*)
(***************************************************************************)
EXTENDS Integers, Sequences, SequencesExt

NoPending == [id |-> 0, kind |-> "none"]
NoItem == [id |-> 0, type |-> "none", kind |-> "", text |-> 0, who |-> 0, turn |-> 0]

-----------------------------------------------------------------------------
(* Items and turns. *)

IsUser(item) == item.type = "user" /\ item.text # 0
IsAgent(item) == /\ item.type = "agent" /\ item.text # 0
                 /\ item.kind \in {"commentary", "final_answer"}

ActivityStatus == [started |-> "running", interacted |-> "unknown", completed |-> "completed"]
IsActivity(item) == item.type = "sub" /\ item.kind \in DOMAIN ActivityStatus

Message(item) == [id |-> item.id, kind |-> item.kind, text |-> item.text]
SubAgent(item) == [who |-> item.who, status |-> ActivityStatus[item.kind]]

\* the latest activity of a sub-agent, behind those of the others
MergeSubAgent(rows, row) == Append(SelectSeq(rows, LAMBDA r : r.who # row.who), row)
SubAgents(activities) == FoldLeft(LAMBDA rows, a : MergeSubAgent(rows, SubAgent(a)), <<>>, activities)

Messages(items) == [i \in DOMAIN items |-> Message(items[i])]

WireStatus == [active |-> "running", inProgress |-> "running", idle |-> "idle",
               completed |-> "completed", failed |-> "failed", interrupted |-> "interrupted"]
NormalizedStatus(value) == IF value \in DOMAIN WireStatus THEN WireStatus[value] ELSE "unknown"

ProjectPublicTurn(turn) ==
    [id |-> turn.id, status |-> NormalizedStatus(turn.status),
     users  |-> Messages(SelectSeq(turn.items, IsUser)),
     agents |-> Messages(SelectSeq(turn.items, IsAgent)),
     subs   |-> SubAgents(SelectSeq(turn.items, IsActivity))]

\* the history, and the current turn unless it is there already
OrderedTurns(doc) ==
    doc.past \o SelectSeq(doc.turns, LAMBDA t : \A p \in ToSet(doc.past) : p.id # t.id)

\* the newest request of a kind that is known
PendingRequest(requests) ==
    LET known == SelectSeq(requests, LAMBDA r : r.kind \in {"approval", "input"})
    IN  IF known = <<>> THEN NoPending ELSE Last(known)

Waiting(pending) == IF pending.kind = "input" THEN "waiting_input" ELSE "waiting_approval"

StatusFromState(doc, turns, pending) ==
    CASE pending # NoPending                -> Waiting(pending)
      [] doc.runtime \in {"active", "idle"} -> NormalizedStatus(doc.runtime)
      [] OTHER -> IF turns = <<>> THEN "unknown" ELSE NormalizedStatus(Last(turns).status)

-----------------------------------------------------------------------------
(* A snapshot. *)

Prefix(at) == <<at[1], at[2]>>

TurnPaths(doc) == {<<"past", t.id>> : t \in ToSet(doc.past)} \cup {<<"turns", n>> : n \in DOMAIN doc.turns}
TurnAt(doc, p) == IF p[1] = "turns" THEN doc.turns[p[2]]
                  ELSE CHOOSE t \in ToSet(doc.past) : t.id = p[2]

\* what may be kept of an item of turn `id`
SafePatchItem(item, id) ==
    IF IsActivity(item) \/ IsAgent(item) \/ IsUser(item)
    THEN [id |-> item.id, type |-> item.type, kind |-> item.kind, text |-> item.text,
          who |-> item.who, turn |-> id]
    ELSE NoItem

Known(kept) == [k \in {x \in DOMAIN kept : kept[x] # NoItem} |-> kept[k]]

SafePatchItems(doc) ==
    LET keys == UNION {{<<p[1], p[2], i>> : i \in DOMAIN TurnAt(doc, p).items} : p \in TurnPaths(doc)}
    IN  Known([k \in keys |-> SafePatchItem(TurnAt(doc, Prefix(k)).items[k[3]], TurnAt(doc, Prefix(k)).id)])

NormalizeConversationState(doc) ==
    LET turns == OrderedTurns(doc)
        pending == PendingRequest(doc.requests)
    IN  [turns   |-> [n \in DOMAIN turns |-> ProjectPublicTurn(turns[n])],
         status  |-> StatusFromState(doc, turns, pending),
         active  |-> IF turns # <<>> /\ Last(turns).status = "inProgress" THEN Last(turns).id ELSE 0,
         pending |-> pending,
         items   |-> SafePatchItems(doc),
         ids     |-> [p \in TurnPaths(doc) |-> TurnAt(doc, p).id]]

-----------------------------------------------------------------------------
(* The document under patches: [op, at, field, value], the field "" for a whole turn or item. *)

\* a row takes the place of the one with its id, or comes last
Upsert(rows, row) ==
    IF \E n \in DOMAIN rows : rows[n].id = row.id
    THEN [n \in DOMAIN rows |-> IF rows[n].id = row.id THEN row ELSE rows[n]]
    ELSE Append(rows, row)

Spliced(list, patch, n) ==
    CASE patch.op = "add"     -> InsertAt(list, n, patch.value)
      [] patch.op = "replace" -> ReplaceAt(list, n, patch.value)
      [] OTHER                -> RemoveAt(list, n)

InTurn(turn, patch) ==
    LET i == patch.at[3]
    IN  CASE i = 0            -> [turn EXCEPT !.status = patch.value]
          [] patch.field = "" -> [turn EXCEPT !.items = Spliced(@, patch, i)]
          [] OTHER            -> [turn EXCEPT !.items[i][patch.field] = patch.value]

ApplyPatch(doc, patch) ==
    LET c == patch.at[1]
        n == patch.at[2]
        whole == patch.field = "" /\ patch.at[3] = 0
    IN  CASE c = "runtime"  -> [doc EXCEPT !.runtime = patch.value]
          [] c = "requests" -> [doc EXCEPT !.requests = Spliced(@, patch, n)]
          [] c = "turns"    -> [doc EXCEPT !.turns = IF whole THEN Spliced(@, patch, n)
                                                     ELSE [@ EXCEPT ![n] = InTurn(@, patch)]]
          [] OTHER          -> [doc EXCEPT !.past =
                                  IF whole THEN Upsert(@, patch.value)
                                  ELSE [k \in DOMAIN @ |-> IF @[k].id = n THEN InTurn(@[k], patch) ELSE @[k]]]

ApplyImmerPatches(doc, patches) == FoldLeft(ApplyPatch, doc, patches)

-----------------------------------------------------------------------------
(* The projection under patches. *)

With(f, k, v) == (k :> v) @@ f
Without(f, S) == [x \in DOMAIN f \ S |-> f[x]]
Under(items, p) == {k \in DOMAIN items : Prefix(k) = p}

\* the turn a path leads to, as far as it is known
TurnIdForPath(r, p) ==
    CASE p \in DOMAIN r.ids -> r.ids[p]
      [] p[1] = "past"      -> p[2]
      [] OTHER              -> 0

\* variant: it goes although another path has it
RemoveTurn_Always(r, p) ==
    LET old == IF p \in DOMAIN r.ids THEN r.ids[p] ELSE 0
    IN  [r EXCEPT !.turns = SelectSeq(@, LAMBDA t : t.id # old),
                  !.active = IF p[1] = "turns" /\ @ = old THEN 0 ELSE @,
                  !.ids = Without(@, {p}), !.items = Without(@, Under(r.items, p))]

\* a whole turn goes: unless another path has it, it is shown no more
RemoveTurn(r, p) ==
    LET old == IF p \in DOMAIN r.ids THEN r.ids[p] ELSE 0
        elsewhere == \E q \in DOMAIN r.ids \ {p} : r.ids[q] = old
    IN  [r EXCEPT !.turns = IF elsewhere THEN @ ELSE SelectSeq(@, LAMBDA t : t.id # old),
                  !.active = IF p[1] = "turns" /\ @ = old THEN 0 ELSE @,
                  !.ids = Without(@, {p}), !.items = Without(@, Under(r.items, p))]

\* a whole turn comes: its items take the place of what is kept under its path
PutTurn(r, p, turn) ==
    LET new == Known([k \in {<<p[1], p[2], i>> : i \in DOMAIN turn.items} |->
                        SafePatchItem(turn.items[k[3]], turn.id)])
        running == turn.status = "inProgress"
    IN  [r EXCEPT !.turns = Upsert(@, ProjectPublicTurn(turn)),
                  !.ids = With(@, p, turn.id),
                  !.items = Without(@, Under(r.items, p)) @@ new,
                  !.status = IF running THEN "running" ELSE @,
                  !.active = IF running THEN turn.id ELSE @]

RemovePublicItem(turns, item) ==
    LET others(rows) == SelectSeq(rows, LAMBDA m : m.id # item.id)
    IN  [n \in DOMAIN turns |->
           CASE turns[n].id # item.turn \/ item.type = "sub" -> turns[n]
             [] item.type = "agent" -> [turns[n] EXCEPT !.agents = others(@)]
             [] OTHER               -> [turns[n] EXCEPT !.users = others(@)]]

\* an item is shown in its turn, which is made for it if it is not there
UpsertPublicItem(turns, item) ==
    LET blank == [id |-> item.turn, status |-> "unknown", users |-> <<>>, agents |-> <<>>, subs |-> <<>>]
        all == IF \E t \in ToSet(turns) : t.id = item.turn THEN turns ELSE Append(turns, blank)
    IN  IF item = NoItem \/ item.turn = 0 THEN turns
        ELSE [n \in DOMAIN all |->
                CASE all[n].id # item.turn -> all[n]
                  [] IsAgent(item) -> [all[n] EXCEPT !.agents = Upsert(@, Message(item))]
                  [] IsUser(item)  -> [all[n] EXCEPT !.users = Upsert(@, Message(item))]
                  [] IsActivity(item) -> [all[n] EXCEPT !.subs = MergeSubAgent(@, SubAgent(item))]
                  [] OTHER -> all[n]]

\* variant: they stay
ShiftPatchItems_Stays(items, p, from, delta) == items

\* items behind an inserted or removed one move
ShiftPatchItems(items, p, from, delta) ==
    LET moves(k) == Prefix(k) = p /\ k[3] >= from
        to(k) == IF moves(k) THEN <<k[1], k[2], k[3] + delta>> ELSE k
    IN  [x \in {to(k) : k \in DOMAIN items} |-> items[CHOOSE k \in DOMAIN items : to(k) = x]]

\* what a sub-agent did last in a turn, by the items that are kept; the current turn's last
RefreshSubAgent(turns, items, item) ==
    LET mine == {k \in DOMAIN items : /\ IsActivity(items[k]) /\ items[k].who = item.who
                                      /\ items[k].turn = item.turn}
        later(j, k) == IF (j[1] = "turns") = (k[1] = "turns") THEN j[3] >= k[3] ELSE j[1] = "turns"
        last == CHOOSE j \in mine : \A k \in mine : later(j, k)
        others(rows) == SelectSeq(rows, LAMBDA r : r.who # item.who)
    IN  IF ~IsActivity(item) THEN turns
        ELSE [n \in DOMAIN turns |->
                IF turns[n].id # item.turn THEN turns[n]
                ELSE [turns[n] EXCEPT !.subs = IF mine = {} THEN others(@)
                                               ELSE Append(others(@), SubAgent(items[last]))]]

\* a field of an item that is kept; those of a type it has not are left out
SetField(item, field, value) ==
    CASE field = "text" /\ item.type = "sub"                                 -> item
      [] field = "kind" /\ item.type = "user"                                -> item
      [] field = "text"                                                      -> [item EXCEPT !.text = value]
      [] OTHER                                                               -> [item EXCEPT !.kind = value]

ItemAt(items, k) == IF k \in DOMAIN items THEN items[k] ELSE NoItem

\* an item, or a field of one: what it showed is taken away and shown anew
PatchItem(r, patch) ==
    LET k == patch.at
        p == Prefix(k)
        whole == patch.field = ""
        kept == IF whole /\ patch.op = "add" THEN ShiftPatchItems(r.items, p, k[3], 1) ELSE r.items
        old == ItemAt(kept, k)
        known == TurnIdForPath(r, p)
        turn == IF known = 0 /\ p[1] = "turns" THEN r.active ELSE known
        new == CASE whole /\ patch.op = "remove" -> NoItem
                 [] whole                        -> SafePatchItem(patch.value, turn)
                 [] old = NoItem                 -> NoItem
                 [] OTHER -> [SetField(old, patch.field, patch.value)
                                EXCEPT !.turn = IF turn = 0 THEN @ ELSE turn]
        held == IF new = NoItem THEN Without(kept, {k}) ELSE With(kept, k, new)
        items == IF whole /\ patch.op = "remove" THEN ShiftPatchItems(held, p, k[3] + 1, -1) ELSE held
        shown == UpsertPublicItem(RemovePublicItem(r.turns, old), ItemAt(items, k))
    IN  [r EXCEPT !.items = items,
                  !.turns = RefreshSubAgent(RefreshSubAgent(shown, items, old), items, ItemAt(items, k))]

\* a status, of the thread or of a turn, is the thread's status
PatchStatus(r, patch) ==
    LET mapped == NormalizedStatus(patch.value)
        id == IF patch.at[1] = "runtime" THEN 0 ELSE TurnIdForPath(r, Prefix(patch.at))
    IN  IF mapped = "unknown" THEN r
        ELSE [r EXCEPT !.status = mapped,
                       !.turns = [n \in DOMAIN @ |-> IF @[n].id = id THEN [@[n] EXCEPT !.status = mapped] ELSE @[n]],
                       !.active = IF mapped = "running" THEN @ ELSE 0]

PatchPublic(r, patch) ==
    LET p == Prefix(patch.at)
    IN  CASE patch.at[1] = "requests" -> [r EXCEPT !.pending = IF patch.op = "remove" THEN NoPending
                                                               ELSE PendingRequest(<<patch.value>>)]
          [] patch.at[1] = "runtime" \/ patch.field = "status" -> PatchStatus(r, patch)
          [] patch.at[3] # 0          -> PatchItem(r, patch)
          [] patch.op = "remove"      -> RemoveTurn(r, p)
          [] OTHER                    -> PutTurn(r, p, patch.value)

NormalizePatchOnlyUpdate(current, patches) ==
    LET r == FoldLeft(PatchPublic, current, patches)
    IN  IF r.pending = NoPending THEN r ELSE [r EXCEPT !.status = Waiting(r.pending)]
=============================================================================
