---------------------------- MODULE DesktopState ----------------------------
(***************************************************************************)
(* The projection of a thread that the bridge keeps while Desktop works at  *)
(* it (desktop_bridge.py _on_state_change, desktop_card.py).                *)
(*                                                                          *)
(* Desktop changes its document by batches of patches.  The bridge gets     *)
(* them in order and follows with its projection; a batch is missed only    *)
(* when the connection is lost, and then a snapshot puts the projection     *)
(* right.  A thread too large for snapshots is followed from an empty       *)
(* projection.  What Desktop does is external and stands for every batch    *)
(* the tests of the projection use.                                         *)
(***************************************************************************)
EXTENDS DesktopProjection, FiniteSets

CONSTANTS MaxTurns,    \* turns Desktop begins
          MaxItems,    \* items of a turn
          MaxTexts,    \* texts an item can have
          MaxRequests, \* requests that are open at once
          MaxBatches,  \* batches
          Starts       \* what is known at first: "snapshot", "nothing"

ASSUME StateAssumption ==
    /\ {MaxTurns, MaxItems, MaxTexts, MaxRequests, MaxBatches} \subseteq Nat \ {0}
    /\ Starts \subseteq {"snapshot", "nothing"}

VARIABLES
    doc,      \* Desktop's document
    ids,      \* the last id given
    public,   \* the bridge's projection
    batches,  \* how many there were
    history   \* missed: a batch was missed since the last snapshot; blind: no snapshot yet;
              \* late: items that were not public when the bridge got them whole; moved: a message
              \* with others behind it changed; answered: a request went and no status came
              \* since; crossed: two requests were open, or one of no known kind

vars == <<doc, ids, public, batches, history>>

Hidden(items) == {i \in ToSet(items) : SafePatchItem(i, 1) = NoItem}
Ids(items) == {i.id : i \in items}

\* what a snapshot leaves of the history
Seen(d) == [missed |-> FALSE, blind |-> FALSE, moved |-> FALSE, answered |-> FALSE,
            crossed |-> Len(d.requests) > 1,
            late |-> UNION {Ids(Hidden(TurnAt(d, p).items)) : p \in TurnPaths(d)}]

NothingKnown == [turns |-> <<>>, status |-> "unknown", active |-> 0, pending |-> NoPending,
                 items |-> <<>>, ids |-> <<>>]

Item(id, type, kind, text, who) == [id |-> id, type |-> type, kind |-> kind, text |-> text, who |-> who]
Asks(id) == Item(id, "user", "initial", 1, 0)
Turn(id, items) == [id |-> id, status |-> "inProgress", items |-> items]

Init ==
    /\ \E where \in {"turns", "past"} :
         LET turn == Turn(1, <<Asks(2), Item(3, "agent", "commentary", 1, 0)>>)
         IN  doc = [turns |-> IF where = "turns" THEN <<turn>> ELSE <<>>,
                    past |-> IF where = "past" THEN <<turn>> ELSE <<>>,
                    requests |-> <<>>, runtime |-> "active"]
    /\ ids = 3 /\ batches = 0
    /\ \E start \in Starts :
         /\ public = IF start = "snapshot" THEN NormalizeConversationState(doc) ELSE NothingKnown
         /\ history = [Seen(doc) EXCEPT !.blind = (start = "nothing")]

-----------------------------------------------------------------------------
(* Batches. *)

Patch(op, at, field, value) == [op |-> op, at |-> at, field |-> field, value |-> value]
Runtime(value) == Patch("replace", <<"runtime", 0, 0>>, "", value)

EitherWay(pair) == {pair, <<pair[2], pair[1]>>}

\* Desktop sends a batch; the bridge follows unless its connection is down (_on_state_change)
Send(batch, seen) ==
    /\ batches < MaxBatches
    /\ batches' = batches + 1
    /\ doc' = ApplyImmerPatches(doc, batch)
    /\ \/ /\ public' = NormalizePatchOnlyUpdate(public, batch)
          /\ history' = seen
       \/ /\ public' = public
          /\ history' = [seen EXCEPT !.missed = TRUE]

\* _on_state_change: a snapshot
Snapshot ==
    /\ public # NormalizeConversationState(doc)
    /\ public' = NormalizeConversationState(doc)
    /\ history' = Seen(doc)
    /\ UNCHANGED <<doc, ids, batches>>

Turns == {TurnAt(doc, p) : p \in TurnPaths(doc)}
At(status) == {p \in TurnPaths(doc) : TurnAt(doc, p).status = status}
Items(p) == TurnAt(doc, p).items

\* a turn begins in the current container, in place of a finished one that is archived, or in
\* the history
StartTurn ==
    LET turn == Turn(ids + 1, <<Asks(ids + 2)>>)
        first == <<Patch("add", <<"turns", 1, 0>>, "", turn), Runtime("active")>>
        archive == <<Patch("add", <<"past", doc.turns[1].id, 0>>, "", doc.turns[1]),
                     Patch("replace", <<"turns", 1, 0>>, "", turn)>>
        listed == <<Patch("add", <<"past", ids + 1, 0>>, "", turn), Runtime("active")>>
        seen == [history EXCEPT !.answered = FALSE]
    IN
    /\ At("inProgress") = {} /\ Cardinality(Turns) < MaxTurns
    /\ ids' = ids + 2
    /\ \/ doc.turns = <<>> /\ \E batch \in EitherWay(first) : Send(batch, seen)
       \/ doc.turns = <<>> /\ Send(listed, seen)
       \/ doc.turns # <<>> /\ \E batch \in EitherWay(archive) :
             Send(Append(batch, Runtime("active")),
                  [seen EXCEPT !.late = @ \cup Ids(Hidden(doc.turns[1].items))])

\* the turn at work ends, and with it the thread's work
Finish ==
    \E p \in At("inProgress") :
      LET patches == <<Patch("replace", Append(p, 0), "status", "completed"), Runtime("idle")>>
      IN  /\ doc.requests = <<>>
          /\ \E batch \in EitherWay(patches) : Send(batch, [history EXCEPT !.answered = FALSE])
          /\ UNCHANGED ids

\* a finished turn goes to the history
Archive ==
    /\ doc.turns # <<>> /\ At("inProgress") = {}
    /\ LET patches == <<Patch("add", <<"past", doc.turns[1].id, 0>>, "", doc.turns[1]),
                        Patch("remove", <<"turns", 1, 0>>, "", 0)>>
       IN  \E batch \in EitherWay(patches) :
             Send(batch, [history EXCEPT !.late = @ \cup Ids(Hidden(doc.turns[1].items))])
    /\ UNCHANGED ids

\* what an item may be: a user's text, an agent's message, public or not, written or not yet,
\* a sub-agent that starts, or something the bridge does not know
NewItems(id) ==
    {Item(id, "user", "steering", 1, 0), Item(id, "sub", "started", 0, 1), Item(id, "other", "", 1, 0),
     Item(id, "agent", "analysis", 1, 0)} \cup {Item(id, "agent", "commentary", text, 0) : text \in 0..1}

\* an item is behind place n that is of the type
Behind(p, n, type) == \E m \in (n + 1)..Len(Items(p)) : Items(p)[m].type = type

\* an item comes, between others or last
AddItem ==
    \E p \in At("inProgress"), n \in 1..MaxItems, new \in NewItems(ids + 1) :
      /\ n <= Len(Items(p)) + 1 /\ Len(Items(p)) < MaxItems
      /\ ids' = ids + 1
      /\ Send(<<Patch("add", Append(p, n), "", new)>>,
              [history EXCEPT !.moved = @ \/ Behind(p, n - 1, new.type),
                              !.late = @ \cup Ids(Hidden(<<new>>))])

\* a whole item is replaced, by its next state or by another item
ReplaceItem ==
    \E p \in At("inProgress") : \E n \in DOMAIN Items(p) :
      \E new \in NewItems(ids + 1) \cup {i \in NewItems(Items(p)[n].id) : i.type = Items(p)[n].type} :
        /\ ids' = ids + 1
        /\ Send(<<Patch("replace", Append(p, n), "", new)>>,
                [history EXCEPT !.moved = @ \/ Behind(p, n, new.type),
                                !.late = (@ \ {new.id}) \cup Ids(Hidden(<<new>>))])

RemoveItem ==
    \E p \in At("inProgress") : \E n \in DOMAIN Items(p) :
      /\ Send(<<Patch("remove", Append(p, n), "", 0)>>, history)
      /\ UNCHANGED ids

\* a message is written on, or emptied
SetText ==
    \E p \in At("inProgress") : \E n \in DOMAIN Items(p) : \E text \in 0..MaxTexts :
      /\ Items(p)[n].type # "sub" /\ Items(p)[n].text # text
      /\ Send(<<Patch("replace", Append(p, n), "text", text)>>,
              [history EXCEPT !.moved = @ \/ Behind(p, n, Items(p)[n].type)])
      /\ UNCHANGED ids

\* an agent's message becomes public or private, a sub-agent goes on
SetKind ==
    \E p \in At("inProgress") : \E n \in DOMAIN Items(p) :
      \E kind \in IF Items(p)[n].type = "sub" THEN {"interacted", "completed"}
                  ELSE {"commentary", "analysis", "final_answer"} :
        /\ Items(p)[n].type \in {"agent", "sub"} /\ Items(p)[n].kind # kind
        /\ Send(<<Patch("replace", Append(p, n), "kind", kind)>>,
                [history EXCEPT !.moved = @ \/ Behind(p, n, Items(p)[n].type)])
        /\ UNCHANGED ids

\* a request is made
Ask ==
    \E kind \in {"approval", "input", "other"} :
      /\ At("inProgress") # {} /\ Len(doc.requests) < MaxRequests
      /\ ids' = ids + 1
      /\ Send(<<Patch("add", <<"requests", Len(doc.requests) + 1, 0>>, "", [id |-> ids + 1, kind |-> kind])>>,
              [history EXCEPT !.answered = FALSE,
                              !.crossed = @ \/ kind = "other" \/ doc.requests # <<>>])

\* one is answered
Resolve ==
    \E n \in DOMAIN doc.requests :
      /\ Send(<<Patch("remove", <<"requests", n, 0>>, "", 0)>>, [history EXCEPT !.answered = TRUE])
      /\ UNCHANGED ids

Next ==
    \/ StartTurn \/ Finish \/ Archive
    \/ AddItem \/ ReplaceItem \/ RemoveItem \/ SetText \/ SetKind
    \/ Ask \/ Resolve
    \/ Snapshot

Spec == Init /\ [][Next]_vars

-----------------------------------------------------------------------------
(* Properties. *)

Group(status) == IF status \in {"waiting_input", "waiting_approval", "running"} THEN status ELSE "rest"

\* messages as they are compared: those the bridge could not know are left out
Compared(rows) ==
    LET told == SelectSeq(rows, LAMBDA m : m.id \notin history.late)
    IN  IF history.moved THEN ToSet(told) ELSE told

ShownTurns(r) == [n \in DOMAIN r.turns |->
    [id |-> r.turns[n].id, status |-> Group(r.turns[n].status), users |-> Compared(r.turns[n].users),
     agents |-> Compared(r.turns[n].agents), subs |-> ToSet(r.turns[n].subs)]]

\* As long as no batch is missed, what the patches leave of the projection is what a snapshot of
\* Desktop's document would show: the turns and their order, who said what, what each sub-agent
\* did last, the turn at work, the open request and whether the thread works, waits or rests.
PublicFollows ==
    LET fresh == NormalizeConversationState(doc)
    IN  ~history.missed /\ ~history.blind =>
          /\ ShownTurns(public) = ShownTurns(fresh)
          /\ public.active = fresh.active
          /\ ~history.crossed => public.pending = fresh.pending
          /\ ~history.crossed /\ ~history.answered => Group(public.status) = Group(fresh.status)

Texts(t) == {[id |-> m.id, text |-> m.text] : m \in ToSet(t.users) \cup ToSet(t.agents)}
PublicItems == {i \in UNION {ToSet(t.items) : t \in Turns} : IsUser(i) \/ IsAgent(i)}

\* As long as no batch is missed, also when no snapshot ever came, every text the card can show
\* is the present one of an item of that id that is public.
OnlyPublic ==
    ~history.missed =>
      UNION {Texts(t) : t \in ToSet(public.turns)} \subseteq {[id |-> i.id, text |-> i.text] : i \in PublicItems}
=============================================================================
