--------------------------- MODULE DesktopCardsProofs ---------------------------
(***************************************************************************)
(* A projection never gives way to an older one, Desktop broadcasts the    *)
(* threads chats are bound to, and cards at rest are current, for any      *)
(* number of chats, threads, changes, clicks, commands and failures.       *)
(*                                                                         *)
(* The identity check alone does not give the first: the projection a      *)
(* handler puts in place of its own must not be older than its own.  The   *)
(* invariant Inv therefore follows the sub-agent's flag from the file to   *)
(* the handlers: no projection runs ahead of its thread, and what was read *)
(* from the file lies between the projection it was read for and the file. *)
(*                                                                         *)
(* The second speaks of chats without a command.  FollowInv says what a    *)
(* command owes before it ends: a thread bound in advance is yet to be     *)
(* followed, and one that was left is yet to be unfollowed.                *)
(*                                                                         *)
(* The third speaks of the bridge at rest, and CardInv of every moment     *)
(* before: who has yet to bring a card up to date.                         *)
(***************************************************************************)
EXTENDS DesktopCards, SequenceTheorems, TLAPS

Projected == [thread : Threads \cup {NoThread}, rev : Nat, pub : Nat, kid : 0..1,
              made : {"none", "seed", "raw", "enriched", "refreshed"}]

\* A lookup under way, for a thread of Desktop.
Vouched(h) ==
  /\ h \in [state : Projected, read : {0, 1, Unread}]
  /\ h.state.thread \in Threads
  /\ h.state.kid <= desk[h.state.thread].kid
  /\ h.read # Unread => /\ h.state.kid <= h.read
                        /\ h.read <= desk[h.state.thread].kid

DeskInv == desk \in [Threads -> [pub : Nat, kid : 0..1]]
StatesInv ==
  /\ states \in [Threads -> Projected] /\ built \in [Threads -> Nat]
  /\ \A t \in Threads : /\ states[t] # NoState => states[t].thread = t
                        /\ states[t].rev <= built[t]
                        /\ states[t].kid <= desk[t].kid
ChangesInv == \A h \in changes : Vouched(h)
RefreshInv == refresh # NoLookup => Vouched(refresh)
Inv == DeskInv /\ StatesInv /\ ChangesInv /\ RefreshInv

\* One step of ProjectionNeverOlder.
NotOlder ==
  \A t \in Threads :
    states[t] # NoState /\ states'[t] # NoState =>
      \/ states'[t].rev > states[t].rev
      \/ states'[t].rev = states[t].rev /\ states'[t].kid >= states[t].kid

\* Desktop moves on, or stays.
DeskMoves ==
  /\ desk' \in [Threads -> [pub : Nat, kid : 0..1]]
  /\ \A t \in Threads : desk[t].kid <= desk'[t].kid

-----------------------------------------------------------------------------

\* The restored projections are seeds of version 1.
LEMMA InitInv == Init => Inv
  <1> SUFFICES ASSUME Init PROVE Inv
      OBVIOUS
  <1> DEFINE seed == [thread |-> Home, rev |-> 1, made |-> "seed", pub |-> 1, kid |-> 0]
  <1>1. DeskInv /\ \A t \in Threads : desk[t].kid = 0
    BY DEF Init, DeskInv
  <1>2. seed \in Projected /\ NoState \in Projected
    BY ConstantsAssumption DEF Projected, NoState, Partial
  <1>3. states = [t \in Threads |-> IF t \in BoundThreads THEN seed ELSE NoState]
    BY DEF Init
  <1>4. BoundThreads \subseteq {Home}
    BY DEF Init, BoundThreads, Range
  <1> HIDE DEF seed
  <1>5. seed.thread = Home /\ seed.rev = 1 /\ seed.kid = 0
    BY DEF seed
  <1>6. NoState.rev = 0 /\ NoState.kid = 0
    BY DEF NoState
  <1>7. states \in [Threads -> Projected]
    BY <1>2, <1>3
  <1>8. built = [t \in Threads |-> states[t].rev]
    BY DEF Init
  <1>9. \A t \in Threads : states[t].rev \in Nat
    BY <1>7 DEF Projected
  <1>10. StatesInv
    BY <1>1, <1>3, <1>4, <1>5, <1>6, <1>7, <1>8, <1>9 DEF StatesInv
  <1>11. ChangesInv /\ RefreshInv
    BY DEF Init, ChangesInv, RefreshInv
  <1> QED BY <1>1, <1>10, <1>11 DEF Inv

\* A step that leaves Desktop and the projections alone.
LEMMA Frame == ASSUME Inv, UNCHANGED <<desk, projection>>
               PROVE  Inv' /\ NotOlder
  <1>1. states' = states /\ built' = built /\ changes' = changes /\ refresh' = refresh
        /\ desk' = desk
    BY DEF projection
  <1>2. DeskInv' /\ StatesInv' /\ ChangesInv' /\ RefreshInv'
    BY <1>1 DEF Inv, DeskInv, StatesInv, ChangesInv, RefreshInv, Vouched
  <1>3. NotOlder
    BY <1>1 DEF NotOlder, Inv, StatesInv, Projected
  <1> QED BY <1>2, <1>3 DEF Inv

\* Lookups stay sound while Desktop moves on.
LEMMA LookupsLast ==
  ASSUME DeskInv, DeskMoves, NEW h, Vouched(h) PROVE Vouched(h)'
  <1>1. h.state.thread \in Threads /\ h.state.kid \in Int /\ h.read \in Int
    BY DEF Vouched, Projected, Unread
  <1>2. desk[h.state.thread].kid \in Int /\ desk'[h.state.thread].kid \in Int
        /\ desk[h.state.thread].kid <= desk'[h.state.thread].kid
    BY <1>1 DEF DeskInv, DeskMoves
  <1> QED BY <1>1, <1>2 DEF Vouched

\* Desktop moves on and the projections do not.
LEMMA DeskStep ==
  ASSUME Inv, DeskMoves, UNCHANGED projection PROVE Inv' /\ NotOlder
  <1>1. states' = states /\ built' = built /\ changes' = changes /\ refresh' = refresh
    BY DEF projection
  <1>2. DeskInv'
    BY DEF DeskInv, DeskMoves
  <1>3. \A t \in Threads : states[t].kid \in Int /\ desk[t].kid \in Int /\ desk'[t].kid \in Int
    BY DEF Inv, StatesInv, DeskInv, DeskMoves, Projected
  <1>4. StatesInv'
    BY <1>1, <1>3 DEF Inv, StatesInv, DeskMoves
  <1>5. ChangesInv' /\ RefreshInv'
    BY <1>1, LookupsLast DEF Inv, ChangesInv, RefreshInv
  <1>6. NotOlder
    BY <1>1 DEF NotOlder, Inv, StatesInv, Projected
  <1> QED BY <1>2, <1>4, <1>5, <1>6 DEF Inv

\* Storing a projection of thread t that is no older than the one there.
LEMMA Store ==
  ASSUME Inv, NEW t \in Threads, NEW s \in Projected, s.thread = t, s.kid <= desk'[t].kid,
         DeskMoves, states' = [states EXCEPT ![t] = s],
         built' \in [Threads -> Nat], \A u \in Threads : built[u] <= built'[u],
         s.rev <= built'[t],
         states[t] = NoState \/ s.rev > states[t].rev
           \/ (s.rev = states[t].rev /\ s.kid >= states[t].kid)
  PROVE  StatesInv' /\ NotOlder
  <1>1. states' \in [Threads -> Projected]
    BY DEF Inv, StatesInv
  <1>2. \A u \in Threads : u # t => states'[u] = states[u]
    BY DEF Inv, StatesInv
  <1>3. states'[t] = s
    BY DEF Inv, StatesInv
  <1>4. \A u \in Threads : /\ states[u].kid \in Int /\ states[u].rev \in Int
                           /\ desk[u].kid \in Int /\ desk'[u].kid \in Int
                           /\ built[u] \in Int /\ built'[u] \in Int
    <2> TAKE u \in Threads
    <2>1. states[u] \in Projected /\ built[u] \in Nat /\ built'[u] \in Nat
      BY DEF Inv, StatesInv
    <2>2. desk[u] \in [pub : Nat, kid : 0..1] /\ desk'[u] \in [pub : Nat, kid : 0..1]
      BY DEF Inv, DeskInv, DeskMoves
    <2> QED BY <2>1, <2>2 DEF Projected
  <1>5. \A u \in Threads : /\ states'[u] # NoState => states'[u].thread = u
                           /\ states'[u].rev <= built'[u]
                           /\ states'[u].kid <= desk'[u].kid
    <2> TAKE u \in Threads
    <2>1. CASE u = t
      BY <2>1, <1>3
    <2>2. CASE u # t
      BY <2>2, <1>2, <1>4 DEF Inv, StatesInv, DeskMoves
    <2> QED BY <2>1, <2>2
  <1>6. NotOlder
    BY <1>2, <1>3, <1>4 DEF NotOlder
  <1> QED BY <1>1, <1>5, <1>6 DEF StatesInv

\* Other lookups stay sound when nothing they speak of goes back.
LEMMA LookupsFrame ==
  ASSUME Inv, DeskMoves, changes' \subseteq changes, refresh' \in {refresh, NoLookup}
  PROVE  ChangesInv' /\ RefreshInv'
  BY LookupsLast DEF Inv, ChangesInv, RefreshInv

\* A change or a snapshot is projected: one version more.
LEMMA OnStateChangeStep ==
  ASSUME Inv, NEW t \in Threads, NEW snapshot \in BOOLEAN, DeskMoves,
         OnStateChange(t, snapshot)
  PROVE  Inv' /\ NotOlder
  <1> DEFINE prev == states[t]
             pub == IF snapshot \/ prev.pub = desk[t].pub THEN desk'[t].pub
                    ELSE IF desk'[t].pub # desk[t].pub THEN Partial ELSE prev.pub
             raw == [thread |-> t, rev |-> built[t] + 1, made |-> "raw", pub |-> pub,
                     kid |-> IF snapshot THEN 0 ELSE prev.kid]
  <1>0. DeskInv'
    BY DEF DeskInv, DeskMoves
  <1>1. CASE Bound(t) = {}
    BY <1>1, DeskStep DEF OnStateChange
  <1>2. CASE Bound(t) # {}
    <2>1. /\ built' = [built EXCEPT ![t] = @ + 1]
          /\ states' = [states EXCEPT ![t] = raw]
          /\ changes' = changes \cup {[state |-> raw, read |-> Unread]}
          /\ refresh' = refresh
      BY <1>2 DEF OnStateChange
    <2>2. prev \in Projected /\ built[t] \in Nat /\ prev.rev <= built[t]
          /\ prev.kid <= desk[t].kid
      BY DEF Inv, StatesInv
    <2>3. desk[t] \in [pub : Nat, kid : 0..1] /\ desk'[t] \in [pub : Nat, kid : 0..1]
          /\ desk[t].kid <= desk'[t].kid
      BY DEF Inv, DeskInv, DeskMoves
    <2>4. pub \in Nat
      BY <2>2, <2>3 DEF Projected, Partial
    <2> HIDE DEF pub
    <2>5. raw \in Projected
      BY <2>2, <2>4 DEF Projected
    <2>6. raw.thread = t /\ raw.rev = built[t] + 1 /\ raw.kid <= desk'[t].kid
      BY <2>2, <2>3 DEF Projected
    <2> HIDE DEF raw
    <2>7. /\ built' \in [Threads -> Nat] /\ built'[t] = built[t] + 1
          /\ \A u \in Threads : built[u] <= built'[u]
      <3>1. built \in [Threads -> Nat]
        BY DEF Inv, StatesInv
      <3> QED BY <3>1, <2>1
    <2>8. raw.rev <= built'[t] /\ raw.rev > states[t].rev
      BY <2>2, <2>6, <2>7 DEF Projected
    <2>9. StatesInv' /\ NotOlder
      BY <2>1, <2>5, <2>6, <2>7, <2>8, Store
    <2>10. ASSUME NEW h, h = [state |-> raw, read |-> Unread] PROVE Vouched(h)'
      <3>1. h.state = raw /\ h.read = Unread
        BY <2>10
      <3>2. h \in [state : Projected, read : {0, 1, Unread}]
        BY <2>5, <2>10
      <3> QED BY <3>1, <3>2, <2>6 DEF Vouched
    <2>11. ChangesInv' /\ RefreshInv'
      <3>1. \A h \in changes : Vouched(h)'
        BY LookupsLast DEF Inv, ChangesInv
      <3>2. RefreshInv'
        BY <2>1, LookupsLast DEF Inv, RefreshInv
      <3> QED BY <3>1, <3>2, <2>1, <2>10 DEF ChangesInv
    <2> QED BY <1>0, <2>9, <2>11 DEF Inv
  <1> QED BY <1>1, <1>2

\* What the file says is at least what the projection says, and no more than
\* the thread.
LEMMA ReadStep ==
  ASSUME DeskInv, desk' = desk, NEW h, Vouched(h), NEW r, r = LookupRead(h)
  PROVE  Vouched(r)'
  <1>1. /\ h \in [state : Projected, read : {0, 1, Unread}]
        /\ h.state.thread \in Threads /\ h.state.kid <= desk[h.state.thread].kid
    BY DEF Vouched
  <1>2. desk[h.state.thread].kid \in 0..1
    BY <1>1 DEF DeskInv
  <1>3. r.state = h.state /\ r.read = desk[h.state.thread].kid
        /\ r \in [state : Projected, read : {0, 1, Unread}]
    BY <1>1, <1>2 DEF LookupRead
  <1> QED BY <1>1, <1>2, <1>3 DEF Vouched

\* The enriched projection of a finished lookup may be stored.
LEMMA DoneStep ==
  ASSUME Inv, desk' = desk, built' = built, NEW h, Vouched(h), h.read # Unread, Current(h.state),
         NEW made \in {"enriched", "refreshed"},
         states' = [states EXCEPT ![h.state.thread] =
                      [h.state EXCEPT !.made = made, !.kid = h.read]]
  PROVE  StatesInv' /\ NotOlder
  <1> DEFINE t == h.state.thread
             s == [h.state EXCEPT !.made = made, !.kid = h.read]
  <1>1. /\ h.state \in Projected /\ h.read \in 0..1 /\ t \in Threads
        /\ h.state.kid <= h.read /\ h.read <= desk[t].kid
    BY DEF Vouched, Unread
  <1>2. s \in Projected /\ s.thread = t /\ s.kid = h.read /\ s.rev = h.state.rev
    BY <1>1 DEF Projected
  <1> HIDE DEF s
  <1>3. states[t] = h.state
    BY DEF Current
  <1>4. DeskMoves
    BY DEF Inv, DeskInv, DeskMoves
  <1>5. /\ built' \in [Threads -> Nat] /\ \A u \in Threads : built[u] <= built'[u]
    BY DEF Inv, StatesInv
  <1>6. s.rev <= built'[t]
    BY <1>1, <1>2, <1>3 DEF Inv, StatesInv
  <1>7. s.kid <= desk'[t].kid
    BY <1>1, <1>2
  <1>8. s.rev = states[t].rev /\ s.kid >= states[t].kid
    BY <1>1, <1>2, <1>3 DEF Projected
  <1>9. states' = [states EXCEPT ![t] = s]
    BY DEF s
  <1> HIDE DEF t
  <1> QED BY <1>1, <1>2, <1>4, <1>5, <1>6, <1>7, <1>8, <1>9, Store

-----------------------------------------------------------------------------

\* A handler has read the sub-agent's file.
LEMMA ChangeReadInv == ASSUME Inv, NEW h \in changes, ChangeRead(h)
                       PROVE  Inv' /\ NotOlder
  <1>1. states' = states /\ built' = built /\ refresh' = refresh /\ desk' = desk
        /\ changes' = (changes \ {h}) \cup {LookupRead(h)}
    BY DEF ChangeRead, desktop
  <1>2. \A r : r = LookupRead(h) => Vouched(r)'
    BY <1>1, ReadStep DEF Inv, ChangesInv
  <1>3. \A k \in changes : Vouched(k)'
    BY <1>1 DEF Inv, ChangesInv, Vouched
  <1>4. DeskInv' /\ StatesInv' /\ RefreshInv'
    BY <1>1 DEF Inv, DeskInv, StatesInv, RefreshInv, Vouched
  <1>5. ChangesInv'
    BY <1>1, <1>2, <1>3 DEF ChangesInv
  <1>6. NotOlder
    BY <1>1 DEF NotOlder, Inv, StatesInv, Projected
  <1> QED BY <1>4, <1>5, <1>6 DEF Inv

\* A handler is done: its projection is stored if it is still the current one.
LEMMA ChangeDoneInv == ASSUME Inv, NEW h \in changes, ChangeDone(h)
                       PROVE  Inv' /\ NotOlder
  <1>1. /\ h.read # Unread /\ changes' = changes \ {h}
        /\ built' = built /\ refresh' = refresh /\ desk' = desk
    BY DEF ChangeDone, desktop
  <1>2. DeskInv' /\ DeskMoves
    BY <1>1 DEF Inv, DeskInv, DeskMoves
  <1>3. ChangesInv' /\ RefreshInv'
    BY <1>1, <1>2, LookupsFrame
  <1>4. Vouched(h)
    BY DEF Inv, ChangesInv
  <1>5. CASE Current(h.state)
    <2>1. states' = [states EXCEPT ![h.state.thread] =
                       [h.state EXCEPT !.made = "enriched", !.kid = h.read]]
      BY <1>5 DEF ChangeDone
    <2>2. StatesInv' /\ NotOlder
      BY <1>1, <1>4, <1>5, <2>1, DoneStep
    <2> QED BY <1>2, <1>3, <2>2 DEF Inv
  <1>6. CASE ~Current(h.state)
    <2>1. states' = states
      BY <1>6 DEF ChangeDone
    <2>2. StatesInv' /\ NotOlder
      BY <1>1, <2>1 DEF Inv, StatesInv, NotOlder, Projected
    <2> QED BY <1>2, <1>3, <2>2 DEF Inv
  <1> QED BY <1>5, <1>6

\* The refresh loop takes the projection of a thread.
LEMMA RefreshBeginInv == ASSUME Inv, NEW t \in Threads, RefreshBegin(t)
                         PROVE  Inv' /\ NotOlder
  <1>1. /\ states[t] # NoState /\ refresh' = [state |-> states[t], read |-> Unread]
        /\ states' = states /\ built' = built /\ changes' = changes /\ desk' = desk
    BY DEF RefreshBegin, desktop
  <1>2. states[t] \in Projected /\ states[t].thread = t /\ states[t].kid <= desk[t].kid
    BY <1>1 DEF Inv, StatesInv
  <1>3. refresh'.state = states[t] /\ refresh'.read = Unread
        /\ refresh' \in [state : Projected, read : {0, 1, Unread}]
    BY <1>1, <1>2
  <1>4. RefreshInv'
    BY <1>1, <1>2, <1>3 DEF RefreshInv, Vouched
  <1>5. DeskInv' /\ StatesInv' /\ ChangesInv'
    BY <1>1 DEF Inv, DeskInv, StatesInv, ChangesInv, Vouched
  <1>6. NotOlder
    BY <1>1 DEF NotOlder, Inv, StatesInv, Projected
  <1> QED BY <1>4, <1>5, <1>6 DEF Inv

\* The refresh loop has read the sub-agent's file.
LEMMA RefreshReadInv == ASSUME Inv, RefreshRead PROVE Inv' /\ NotOlder
  <1>1. /\ refresh # NoLookup /\ refresh' = LookupRead(refresh)
        /\ states' = states /\ built' = built /\ changes' = changes /\ desk' = desk
    BY DEF RefreshRead, desktop
  <1>2. \A r : r = LookupRead(refresh) => Vouched(r)'
    BY <1>1, ReadStep DEF Inv, RefreshInv
  <1>3. DeskInv' /\ StatesInv' /\ ChangesInv'
    BY <1>1 DEF Inv, DeskInv, StatesInv, ChangesInv, Vouched
  <1>4. NotOlder
    BY <1>1 DEF NotOlder, Inv, StatesInv, Projected
  <1>5. RefreshInv'
    BY <1>1, <1>2 DEF RefreshInv
  <1> QED BY <1>3, <1>4, <1>5 DEF Inv

\* The refresh loop is done.
LEMMA RefreshDoneInv == ASSUME Inv, RefreshDone PROVE Inv' /\ NotOlder
  <1>1. /\ refresh # NoLookup /\ refresh.read # Unread /\ refresh' = NoLookup
        /\ built' = built /\ changes' = changes /\ desk' = desk
    BY DEF RefreshDone, desktop
  <1>2. DeskInv' /\ DeskMoves
    BY <1>1 DEF Inv, DeskInv, DeskMoves
  <1>3. ChangesInv' /\ RefreshInv'
    BY <1>1, <1>2, LookupsFrame
  <1>4. Vouched(refresh)
    BY <1>1 DEF Inv, RefreshInv
  <1>5. CASE /\ Current(refresh.state)
             /\ states' = [states EXCEPT ![refresh.state.thread] =
                             [refresh.state EXCEPT !.made = "refreshed", !.kid = refresh.read]]
    <2>1. StatesInv' /\ NotOlder
      BY <1>1, <1>4, <1>5, DoneStep
    <2> QED BY <1>2, <1>3, <2>1 DEF Inv
  <1>6. CASE states' = states
    <2>1. StatesInv' /\ NotOlder
      BY <1>1, <1>6 DEF Inv, StatesInv, NotOlder, Projected
    <2> QED BY <1>2, <1>3, <2>1 DEF Inv
  <1> QED BY <1>5, <1>6 DEF RefreshDone

\* attach() seeds a thread that has no projection.
LEMMA AttachBindInv == ASSUME Inv, NEW c \in Chats, attach[c].target \in Threads, AttachBind(c)
                       PROVE  Inv' /\ NotOlder
  <1> DEFINE t == attach[c].target
  <1>1. changes' = changes /\ refresh' = refresh /\ desk' = desk
    BY DEF AttachBind, desktop
  <1>2. DeskInv' /\ DeskMoves
    BY <1>1 DEF Inv, DeskInv, DeskMoves
  <1>3. ChangesInv' /\ RefreshInv'
    BY <1>1, <1>2, LookupsFrame
  <1>4. CASE states[t] # NoState
    <2>1. states' = states /\ built' = built
      BY <1>4 DEF AttachBind
    <2>2. StatesInv' /\ NotOlder
      BY <1>1, <2>1 DEF Inv, StatesInv, NotOlder, Projected
    <2> QED BY <1>2, <1>3, <2>2 DEF Inv
  <1>5. CASE states[t] = NoState
    <2>1. PICK pub \in {Partial, desk[t].pub} :
            /\ built' = [built EXCEPT ![t] = @ + 1]
            /\ states' = [states EXCEPT ![t] =
                 [thread |-> t, rev |-> built[t] + 1, made |-> "seed", pub |-> pub, kid |-> 0]]
      BY <1>5 DEF AttachBind
    <2> DEFINE s == [thread |-> t, rev |-> built[t] + 1, made |-> "seed",
                     pub |-> pub, kid |-> 0]
    <2>2. built[t] \in Nat /\ desk[t] \in [pub : Nat, kid : 0..1]
      BY DEF Inv, StatesInv, DeskInv
    <2>3. s \in Projected
      BY <2>2 DEF Projected, Partial
    <2>4. s.thread = t /\ s.rev = built[t] + 1 /\ s.kid = 0
      OBVIOUS
    <2>5. states' = [states EXCEPT ![t] = s]
      BY <2>1
    <2> HIDE DEF s
    <2>6. /\ built' \in [Threads -> Nat] /\ built'[t] = built[t] + 1
          /\ \A u \in Threads : built[u] <= built'[u]
      <3>1. built \in [Threads -> Nat]
        BY DEF Inv, StatesInv
      <3> QED BY <3>1, <2>1
    <2>7. s.rev <= built'[t] /\ s.kid <= desk'[t].kid
      BY <1>1, <2>2, <2>4, <2>6
    <2> HIDE DEF t
    <2>8. t \in Threads
      BY DEF t
    <2>9. StatesInv' /\ NotOlder
      BY <1>2, <1>5, <2>3, <2>4, <2>5, <2>6, <2>7, <2>8, Store
    <2> QED BY <1>2, <1>3, <2>9 DEF Inv
  <1> QED BY <1>4, <1>5

\* detach() forgets the projection.
LEMMA DetachDoneInv == ASSUME Inv, NEW c \in Chats, DetachDone(c)
                       PROVE  Inv' /\ NotOlder
  <1> DEFINE t == detach[c].target
  <1>1. /\ states' = [states EXCEPT ![t] = NoState] /\ built' = built
        /\ changes' = changes /\ refresh' = refresh /\ desk' = desk
    BY DEF DetachDone, desktop
  <1>2. NoState \in Projected /\ NoState.rev = 0 /\ NoState.kid = 0
    BY DEF NoState, Projected, Partial
  <1>3. DeskInv' /\ DeskMoves
    BY <1>1 DEF Inv, DeskInv, DeskMoves
  <1>4. ChangesInv' /\ RefreshInv'
    BY <1>1, <1>3, LookupsFrame
  <1>5. states' \in [Threads -> Projected]
    BY <1>1, <1>2 DEF Inv, StatesInv
  <1>6. \A u \in Threads : states'[u] = states[u] \/ states'[u] = NoState
    BY <1>1 DEF Inv, StatesInv
  <1>7. \A u \in Threads : built[u] \in Nat /\ desk[u].kid \in 0..1
    BY DEF Inv, StatesInv, DeskInv
  <1>8. StatesInv'
    BY <1>1, <1>2, <1>5, <1>6, <1>7 DEF Inv, StatesInv
  <1>9. NotOlder
    BY <1>6 DEF NotOlder, Inv, StatesInv, Projected
  <1> QED BY <1>3, <1>4, <1>8, <1>9 DEF Inv

-----------------------------------------------------------------------------
(* The thread attach() was asked for reaches AttachBind *)

\* A command has its fields, and a thread while it looks for the owner.
Command(a) ==
  /\ a = [at |-> a.at, target |-> a.target, previous |-> a.previous,
          slot |-> a.slot, reuse |-> a.reuse]
  /\ a.at \in {"cancel", "discover"} => a.target \in Threads
Targets ==
  /\ attach = [c \in Chats |-> attach[c]]
  /\ \A c \in Chats : Command(attach[c])

\* A command of one chat is replaced by a sound one.
LEMMA TargetsSet ==
  ASSUME Targets, NEW c \in Chats, NEW a, Command(a), attach' = [attach EXCEPT ![c] = a]
  PROVE  Targets'
  <1>1. attach' = [d \in Chats |-> IF d = c THEN a ELSE attach[d]]
    BY DEF Targets
  <1>2. attach' = [d \in Chats |-> attach'[d]]
    BY <1>1
  <1>3. ASSUME NEW d \in Chats PROVE Command(attach'[d])
    <2>1. attach'[d] = IF d = c THEN a ELSE attach[d]
      BY <1>1
    <2>2. CASE d = c
      BY <2>1, <2>2
    <2>3. CASE d # c
      BY <2>1, <2>3 DEF Targets
    <2> QED BY <2>2, <2>3
  <1> QED BY <1>2, <1>3 DEF Targets, Command

\* A command goes on to a phase where nobody looks for an owner.
LEMMA TargetsAt ==
  ASSUME Targets, NEW c \in Chats, NEW at, at \notin {"cancel", "discover"},
         attach' = [attach EXCEPT ![c].at = at]
  PROVE  Targets'
  <1> DEFINE old == attach[c]
             a == [at |-> at, target |-> old.target, previous |-> old.previous,
                   slot |-> old.slot, reuse |-> old.reuse]
  <1>1. Command(old)
    BY DEF Targets
  <1>2. attach' = [attach EXCEPT ![c] = [old EXCEPT !.at = at]]
    BY DEF Targets
  <1> HIDE DEF old
  <1>3. [old EXCEPT !.at = at] = a
    BY <1>1 DEF Command
  <1>4. Command(a)
    BY DEF Command
  <1> HIDE DEF a
  <1> QED BY <1>2, <1>3, <1>4, TargetsSet

\* No step gives attach() a thread Desktop does not have.
LEMMA TargetsStep == ASSUME Targets, Next PROVE Targets'
  <1>1. CASE UNCHANGED attach
    BY <1>1 DEF Targets, Command
  <1>2. ASSUME NEW c \in Chats, NEW t \in Threads, NEW reuse, AttachBegin(c, t, reuse)
        PROVE  Targets'
    <2>1. PICK a : Command(a) /\ attach' = [attach EXCEPT ![c] = a]
      BY <1>2 DEF AttachBegin, AttachDiscover, Command
    <2> QED BY <2>1, TargetsSet
  <1>3. ASSUME NEW c \in Chats, AttachCancelled(c) PROVE Targets'
    <2>1. attach[c].target \in Threads
      BY <1>3 DEF AttachCancelled, Targets, Command
    <2>2. PICK a : Command(a) /\ attach' = [attach EXCEPT ![c] = a]
      BY <1>3, <2>1 DEF AttachCancelled, AttachDiscover, Command
    <2> QED BY <2>2, TargetsSet
  <1>4. Command(Idle)
    BY DEF Command, Idle
  <1>5. ASSUME NEW c \in Chats, AttachNoOwner(c) \/ AttachNoFollow(c) \/ AttachDone(c)
        PROVE  Targets'
    <2>1. attach' = [attach EXCEPT ![c] = Idle]
      BY <1>5 DEF AttachNoOwner, AttachNoFollow, AttachDone
    <2> QED BY <1>4, <2>1, TargetsSet
  <1>6. ASSUME NEW c \in Chats, AttachBind(c) PROVE Targets'
    <2>1. attach' = [attach EXCEPT ![c].at = "publish"]
      BY <1>6 DEF AttachBind
    <2>2. "publish" \notin {"cancel", "discover"}
      OBVIOUS
    <2> QED BY <2>1, <2>2, TargetsAt
  <1>7. ASSUME NEW c \in Chats, AttachFollow(c) PROVE Targets'
    <2>1. attach' = [attach EXCEPT ![c].at = "followed"]
      BY <1>7 DEF AttachFollow
    <2>2. "followed" \notin {"cancel", "discover"}
      OBVIOUS
    <2> QED BY <2>1, <2>2, TargetsAt
  <1>8. ASSUME NEW c \in Chats, PublishOk(c) \/ PublishFailed(c) PROVE Targets'
    <2>1. \/ attach' = [attach EXCEPT ![c].at = "follow"]
          \/ UNCHANGED attach
      BY <1>8 DEF PublishOk, PublishFailed, PublishEnd
    <2> QED BY <2>1, <1>1, TargetsAt
  <1>9. ASSUME NEW c \in Chats, Publishing(c) PROVE Targets'
    <2>1. CASE PublishBegin(c) \/ PublishImages(c) \/ PublishNotUpdated(c)
      BY <1>1, <2>1 DEF PublishBegin, PublishImages, PublishNotUpdated, commands
    <2> QED BY <1>8, <1>9, <2>1 DEF Publishing
  <1>10. ASSUME NEW c \in Chats, Flushing(c) \/ Detaching(c) PROVE Targets'
    BY <1>1, <1>10 DEF Flushing, FlushWake, FlushCancelled, Detaching, DetachCancelled,
                       DetachDone, commands
  <1>11. ASSUME NEW c \in Chats, Attaching(c) PROVE Targets'
    BY <1>3, <1>5, <1>6, <1>7, <1>11 DEF Attaching
  <1>12. ASSUME NEW c \in Chats, User(c) PROVE Targets'
    <2>1. CASE DetachBegin(c) \/ \E op \in {"select", "latest", "refresh"} : View(c, op)
      BY <1>1, <2>1 DEF DetachBegin, View, commands
    <2> QED BY <1>2, <1>12, <2>1 DEF User
  <1>13. CASE Projecting
    BY <1>1, <1>13 DEF Projecting, ChangeRead, ChangeDone, RefreshBegin, RefreshRead,
                       RefreshDone, commands
  <1>14. CASE Desktop
    BY <1>1, <1>14 DEF Desktop, DesktopChange, ChildFinishes, SendSnapshot, commands
  <1>15. ASSUME NEW r \in late, LateRequest(r) PROVE Targets'
    BY <1>1, <1>15 DEF LateRequest, commands
  <1> QED BY <1>9, <1>10, <1>11, <1>12, <1>13, <1>14, <1>15 DEF Next

-----------------------------------------------------------------------------
(* Every step *)

\* What Desktop does: a change, a sub-agent that finishes, a snapshot.
LEMMA DesktopStep == ASSUME Inv, Desktop PROVE Inv' /\ NotOlder
  <1>1. PICK t \in Threads : \/ \E public \in BOOLEAN : DesktopChange(t, public)
                             \/ ChildFinishes(t) \/ SendSnapshot(t)
    BY DEF Desktop
  <1>2. \A u \in Threads : desk[u] \in [pub : Nat, kid : 0..1]
    BY DEF Inv, DeskInv
  <1>3. ASSUME desk' = desk PROVE DeskMoves
    BY <1>2, <1>3 DEF Inv, DeskInv, DeskMoves
  <1>4. ASSUME NEW d \in [pub : Nat, kid : 0..1], desk[t].kid <= d.kid,
               desk' = [desk EXCEPT ![t] = d]
        PROVE  DeskMoves
    <2>1. desk' \in [Threads -> [pub : Nat, kid : 0..1]]
      BY <1>4 DEF Inv, DeskInv
    <2>2. \A u \in Threads : desk'[u] = IF u = t THEN d ELSE desk[u]
      BY <1>4 DEF Inv, DeskInv
    <2>3. \A u \in Threads : desk[u].kid <= desk'[u].kid
      BY <1>2, <1>4, <2>2
    <2> QED BY <2>1, <2>3 DEF DeskMoves
  <1>5. ASSUME NEW public \in BOOLEAN, DesktopChange(t, public) PROVE Inv' /\ NotOlder
    <2>1. DeskMoves
      <3>1. CASE public
        <4> DEFINE d == [pub |-> desk[t].pub + 1, kid |-> desk[t].kid]
        <4>1. d \in [pub : Nat, kid : 0..1] /\ d.kid = desk[t].kid /\ desk[t].kid \in 0..1
          BY <1>2
        <4>2. [desk[t] EXCEPT !.pub = @ + 1] = d
          BY <1>2
        <4>3. desk' = [desk EXCEPT ![t].pub = @ + 1]
          BY <1>5, <3>1 DEF DesktopChange
        <4>4. desk' = [desk EXCEPT ![t] = [desk[t] EXCEPT !.pub = @ + 1]]
          BY <4>3 DEF Inv, DeskInv
        <4> HIDE DEF d
        <4>5. desk' = [desk EXCEPT ![t] = d]
          BY <4>2, <4>4
        <4>6. desk[t].kid <= d.kid
          BY <4>1
        <4> QED BY <1>4, <4>1, <4>5, <4>6
      <3>2. CASE ~public
        BY <1>3, <1>5, <3>2 DEF DesktopChange
      <3> QED BY <3>1, <3>2
    <2>2. CASE t \in follow
      BY <1>5, <2>1, <2>2, OnStateChangeStep DEF DesktopChange
    <2>3. CASE t \notin follow
      BY <1>5, <2>1, <2>3, DeskStep DEF DesktopChange
    <2> QED BY <2>2, <2>3
  <1>6. ASSUME ChildFinishes(t) PROVE Inv' /\ NotOlder
    <2> DEFINE d == [pub |-> desk[t].pub, kid |-> 1]
    <2>1. d \in [pub : Nat, kid : 0..1] /\ desk[t].kid <= d.kid
      BY <1>2
    <2>2. [desk[t] EXCEPT !.kid = 1] = d
      BY <1>2
    <2>3. desk' = [desk EXCEPT ![t].kid = 1]
      BY <1>6 DEF ChildFinishes
    <2>4. desk' = [desk EXCEPT ![t] = [desk[t] EXCEPT !.kid = 1]]
      BY <2>3 DEF Inv, DeskInv
    <2> HIDE DEF d
    <2>5. desk' = [desk EXCEPT ![t] = d]
      BY <2>2, <2>4
    <2>6. DeskMoves
      BY <1>4, <2>1, <2>5
    <2> QED BY <1>6, <2>6, DeskStep DEF ChildFinishes
  <1>7. ASSUME SendSnapshot(t) PROVE Inv' /\ NotOlder
    <2>1. DeskMoves
      BY <1>3, <1>7 DEF SendSnapshot
    <2> QED BY <1>7, <2>1, OnStateChangeStep DEF SendSnapshot
  <1> QED BY <1>1, <1>5, <1>6, <1>7

\* Every step keeps the invariant and never puts an older projection in place.
LEMMA Step == ASSUME Inv, Targets, [Next]_vars PROVE Inv' /\ NotOlder
  <1>1. CASE UNCHANGED vars
    BY <1>1, Frame DEF vars, desktop
  <1>2. ASSUME NEW c \in Chats, Publishing(c) PROVE Inv' /\ NotOlder
    BY <1>2, Frame DEF Publishing, PublishBegin, PublishImages, PublishOk, PublishNotUpdated,
                       PublishFailed, PublishEnd, desktop
  <1>3. ASSUME NEW c \in Chats, Flushing(c) PROVE Inv' /\ NotOlder
    BY <1>3, Frame DEF Flushing, FlushWake, FlushCancelled, desktop
  <1>4. ASSUME NEW c \in Chats, Attaching(c) PROVE Inv' /\ NotOlder
    <2>1. CASE AttachBind(c)
      <3>1. attach[c].target \in Threads
        BY <2>1 DEF AttachBind, Targets, Command
      <3> QED BY <2>1, <3>1, AttachBindInv
    <2>2. CASE \/ AttachCancelled(c) \/ AttachNoOwner(c) \/ AttachFollow(c)
               \/ AttachNoFollow(c) \/ AttachDone(c)
      BY <2>2, Frame DEF AttachCancelled, AttachNoOwner, AttachFollow, AttachNoFollow,
                         AttachDone, desktop
    <2> QED BY <1>4, <2>1, <2>2 DEF Attaching
  <1>5. ASSUME NEW c \in Chats, Detaching(c) PROVE Inv' /\ NotOlder
    <2>1. CASE DetachCancelled(c)
      BY <2>1, Frame DEF DetachCancelled
    <2> QED BY <1>5, <2>1, DetachDoneInv DEF Detaching
  <1>6. ASSUME NEW c \in Chats, User(c) PROVE Inv' /\ NotOlder
    BY <1>6, Frame DEF User, AttachBegin, DetachBegin, View, desktop
  <1>7. CASE Projecting
    BY <1>7, ChangeReadInv, ChangeDoneInv, RefreshBeginInv, RefreshReadInv, RefreshDoneInv
       DEF Projecting
  <1>8. ASSUME NEW r \in late, LateRequest(r) PROVE Inv' /\ NotOlder
    BY <1>8, Frame DEF LateRequest, desktop
  <1> QED BY <1>1, <1>2, <1>3, <1>4, <1>5, <1>6, <1>7, <1>8, DesktopStep DEF Next

\* Whatever chats, threads and commands there are: a projection gives way to
\* newer ones only, and never forgets that a sub-agent has finished.
THEOREM NeverOlderTheorem == Spec => ProjectionNeverOlder
  <1>1. Init => Inv /\ Targets
    <2>1. Init => Targets
      BY DEF Init, Targets, Command, Idle
    <2> QED BY <2>1, InitInv
  <1>2. Inv /\ Targets /\ [Next]_vars => Inv' /\ Targets' /\ NotOlder
    <2>1. Targets /\ UNCHANGED vars => Targets'
      BY DEF Targets, Command, vars, commands
    <2> QED BY <2>1, Step, TargetsStep
  <1> QED BY <1>1, <1>2, PTL DEF Spec, ProjectionNeverOlder, NotOlder

-----------------------------------------------------------------------------
(* Desktop broadcasts what is bound.                                       *)
(*                                                                         *)
(* A chat that is binding itself to a thread is in the queue of            *)
(* publishers, so the invariant ties the two together: an attach() has one *)
(* job, and only while it publishes; from then to its end the chat is      *)
(* bound to its target.                                                    *)

IsJob(j) ==
  j = [owner |-> j.owner, slot |-> j.slot, state |-> j.state, replace |-> j.replace,
       reuse |-> j.reuse, card |-> j.card, view |-> j.view, at |-> j.at]

\* The queue q of a chat whose attach() is in the phase `at`.
Line(q, at) ==
  /\ q \in Seq(Range(q))
  /\ \A n \in DOMAIN q :
       /\ IsJob(q[n])
       /\ q[n].owner = "attach" =>
            at = "publish" /\ \A m \in DOMAIN q : q[m].owner = "attach" => m = n
QueueInv ==
  /\ queue = [c \in Chats |-> queue[c]]
  /\ \A c \in Chats : Line(queue[c], attach[c].at)

\* A chat bound to b whose attach() is a and whose detach() is in the phase `at`.
Phase(a, at, b) ==
  /\ a.at \in {"publish", "follow", "followed"} =>
       a.target \in Threads /\ b \in {a.target, NoThread} /\ (~Overlap => b = a.target)
  /\ ~Overlap /\ a.at = "discover" => a.previous = b
  /\ Overlap \/ a.at = "idle" \/ at = "idle"
PhaseInv ==
  /\ bindings = [c \in Chats |-> bindings[c]] /\ detach = [c \in Chats |-> detach[c]]
  /\ \A c \in Chats : Phase(attach[c], detach[c].at, bindings[c])

\* Followed, or about to be, or exempted.
Heard(c) == \/ bindings[c] \in follow \cup {NoThread} \/ c \in stranded
            \/ attach[c].at \in {"publish", "follow"}
HeardInv == \A c \in Chats : Heard(c)

\* Followed for a chat, or about to be left.
Needed(t) ==
  \/ t \in BoundThreads
  \/ \E c \in Chats : attach[c].at \in {"publish", "follow", "followed"}
                      /\ attach[c].previous = t
BudgetInv == budget \in [changes : Nat, ops : Nat, faults : Nat]
NeededInv ==
  /\ follow \subseteq Threads
  /\ budget.faults = 0 /\ ~Overlap => \A t \in follow : Needed(t)

FollowInv == QueueInv /\ PhaseInv /\ HeardInv /\ BudgetInv /\ NeededInv

\* A sequence over any set is one over what it holds.
LEMMA OverRange == ASSUME NEW S, NEW q \in Seq(S) PROVE q \in Seq(Range(q)) /\ Range(q) \subseteq S
  <1>1. DOMAIN q = 1..Len(q) /\ \A n \in 1..Len(q) : q[n] \in S
    BY ElementOfSeq, LenProperties
  <1>2. Range(q) \subseteq S /\ \A n \in 1..Len(q) : q[n] \in Range(q)
    BY <1>1 DEF Range
  <1> QED BY <1>1, <1>2, SeqOfRange DEF Range

\* What makes a sequence a line.
LEMMA LineFrom ==
  ASSUME NEW at, NEW S, NEW r \in Seq(S),
         \A n \in 1..Len(r) : IsJob(r[n]),
         \A n \in 1..Len(r) : r[n].owner = "attach" =>
           at = "publish" /\ \A m \in 1..Len(r) : r[m].owner = "attach" => m = n
  PROVE  Line(r, at)
  <1>1. r \in Seq(Range(r)) /\ DOMAIN r = 1..Len(r)
    BY OverRange, LenProperties
  <1> QED BY <1>1 DEF Line

\* The parts of a line.
LEMMA LineParts ==
  ASSUME NEW q, NEW at, Line(q, at)
  PROVE  /\ q \in Seq(Range(q)) /\ DOMAIN q = 1..Len(q) /\ Len(q) \in Nat
         /\ \A n \in 1..Len(q) : IsJob(q[n])
         /\ \A n \in 1..Len(q) : q[n].owner = "attach" =>
              at = "publish" /\ \A m \in 1..Len(q) : q[m].owner = "attach" => m = n
  BY LenProperties DEF Line

\* A job joins: one that is not attach()'s, or attach()'s first.
LEMMA LineAppend ==
  ASSUME NEW q, NEW at, Line(q, at), NEW j, IsJob(j), NEW at2,
         \/ at2 = at /\ j.owner # "attach"
         \/ at # "publish" /\ at2 = "publish"
  PROVE  Line(Append(q, j), at2)
  <1> DEFINE S == Range(q) \cup {j}
             r == Append(q, j)
  <1>1. q \in Seq(Range(q)) /\ Len(q) \in Nat
    BY LineParts
  <1>2. q \in Seq(S) /\ j \in S
    BY <1>1, SeqMonotonic
  <1>3. /\ r \in Seq(S) /\ Len(r) = Len(q) + 1
        /\ \A n \in 1..Len(q) : r[n] = q[n]
        /\ r[Len(r)] = j
    BY <1>2, AppendProperties
  <1> HIDE DEF S, r
  <1>4. \A n \in 1..Len(r) : n \in 1..Len(q) \/ n = Len(r)
    BY <1>1, <1>3
  <1>5. \A n \in 1..Len(r) : IsJob(r[n])
    BY <1>3, <1>4, LineParts
  <1>6. r = Append(q, j)
    BY DEF r
  <1>7. CASE at2 = at /\ j.owner # "attach"
    <2>1. \A n \in 1..Len(r) : r[n].owner = "attach" =>
            n \in 1..Len(q) /\ q[n].owner = "attach"
      BY <1>3, <1>4, <1>7
    <2>2. \A n \in 1..Len(r) : r[n].owner = "attach" =>
            at2 = "publish" /\ \A m \in 1..Len(r) : r[m].owner = "attach" => m = n
      BY <1>7, <2>1, LineParts
    <2> QED BY <1>3, <1>5, <1>6, <2>2, LineFrom
  <1>8. CASE at # "publish" /\ at2 = "publish"
    <2>1. \A n \in 1..Len(r) : r[n].owner = "attach" => n = Len(r)
      BY <1>3, <1>4, <1>8, LineParts
    <2>2. \A n \in 1..Len(r) : r[n].owner = "attach" =>
            at2 = "publish" /\ \A m \in 1..Len(r) : r[m].owner = "attach" => m = n
      BY <1>8, <2>1
    <2> QED BY <1>3, <1>5, <1>6, <2>2, LineFrom
  <1> QED BY <1>7, <1>8

\* The publisher that holds the lock goes on.
LEMMA LineHead ==
  ASSUME NEW q, NEW at, Line(q, at), q # <<>>, NEW j, IsJob(j), j.owner = q[1].owner
  PROVE  Line([q EXCEPT ![1] = j], at)
  <1> DEFINE S == Range(q) \cup {j}
             r == [q EXCEPT ![1] = j]
  <1>1. q \in Seq(Range(q)) /\ Len(q) \in Nat /\ DOMAIN q = 1..Len(q)
    BY LineParts
  <1>2. q \in Seq(S) /\ j \in S /\ 1 \in 1..Len(q)
    BY <1>1, SeqMonotonic, EmptySeq
  <1>3. r \in Seq(S) /\ Len(r) = Len(q)
    BY <1>2, ExceptSeq
  <1>4. r[1] = j /\ \A n \in 1..Len(q) : n # 1 => r[n] = q[n]
    BY <1>1, <1>2
  <1> HIDE DEF S, r
  <1>5. \A n \in 1..Len(r) : IsJob(r[n])
    BY <1>3, <1>4, LineParts
  <1>6. \A n \in 1..Len(r) : r[n].owner = q[n].owner
    BY <1>3, <1>4
  <1>7. \A n \in 1..Len(r) : r[n].owner = "attach" =>
            at = "publish" /\ \A m \in 1..Len(r) : r[m].owner = "attach" => m = n
    BY <1>3, <1>6, LineParts
  <1>8. Line(r, at)
    BY <1>3, <1>5, <1>7, LineFrom
  <1> QED BY <1>8 DEF r

\* The publisher that holds the lock leaves.
LEMMA LineTail ==
  ASSUME NEW q, NEW at, Line(q, at), q # <<>>
  PROVE  /\ Line(Tail(q), at)
         /\ q[1].owner = "attach" => at = "publish" /\ \A at2 : Line(Tail(q), at2)
  <1> DEFINE r == Tail(q)
  <1>1. q \in Seq(Range(q)) /\ Len(q) \in Nat
    BY LineParts
  <1>2. Len(q) # 0
    BY <1>1, EmptySeq
  <1>3. r \in Seq(Range(q)) /\ Len(r) = Len(q) - 1
        /\ \A n \in 1..Len(r) : r[n] = q[n + 1]
    BY <1>1, HeadTailProperties
  <1> HIDE DEF r
  <1>4. \A n \in 1..Len(r) : n + 1 \in 1..Len(q) /\ n + 1 # 1
    BY <1>1, <1>3
  <1>5. \A n \in 1..Len(r) : IsJob(r[n])
    BY <1>3, <1>4, LineParts
  <1>6. \A n \in 1..Len(r) : r[n].owner = "attach" => at = "publish"
    BY <1>3, <1>4, LineParts
  <1>7. ASSUME NEW n \in 1..Len(r), NEW m \in 1..Len(r), r[n].owner = "attach",
               r[m].owner = "attach"
        PROVE  m = n
    <2>1. m + 1 = n + 1
      BY <1>3, <1>4, <1>7, LineParts
    <2> QED BY <2>1
  <1>8. Line(r, at)
    BY <1>3, <1>5, <1>6, <1>7, LineFrom
  <1>9. ASSUME q[1].owner = "attach" PROVE at = "publish" /\ \A at2 : Line(r, at2)
    <2>1. 1 \in 1..Len(q)
      BY <1>1, <1>2
    <2>2. at = "publish" /\ \A m \in 1..Len(q) : q[m].owner = "attach" => m = 1
      BY <1>9, <2>1, LineParts
    <2>3. \A n \in 1..Len(r) : r[n].owner # "attach"
      BY <1>3, <1>4, <2>2
    <2>4. \A at2 : Line(r, at2)
      BY <1>3, <1>5, <2>3, LineFrom
    <2> QED BY <2>2, <2>4
  <1> QED BY <1>8, <1>9 DEF r

\* What is left of a sequence when one element leaves it.
LEMMA Removed ==
  ASSUME NEW S, NEW q \in Seq(S), NEW n \in DOMAIN q
  PROVE  /\ RemoveAt(q, n) \in Seq(S) /\ Len(RemoveAt(q, n)) = Len(q) - 1
         /\ \A m \in 1..Len(RemoveAt(q, n)) :
              /\ (IF m < n THEN m ELSE m + 1) \in 1..Len(q)
              /\ RemoveAt(q, n)[m] = q[IF m < n THEN m ELSE m + 1]
  <1> DEFINE r == RemoveAt(q, n)
             x == SubSeq(q, 1, n - 1)
             y == SubSeq(q, n + 1, Len(q))
             from(m) == IF m < n THEN m ELSE m + 1
  <1>1. Len(q) \in Nat /\ n \in 1..Len(q)
    BY LenProperties
  <1>2. x \in Seq(S) /\ Len(x) = n - 1 /\ \A m \in 1..Len(x) : x[m] = q[m]
    <2>1. 1 \in 1..Len(q) + 1 /\ n - 1 \in 0..Len(q)
      BY <1>1
    <2>2. \A m \in 1..Len(q) : q[m] \in S
      BY <1>1, ElementOfSeq
    <2> QED BY <1>1, <2>1, <2>2, SubSeqProperties
  <1>3. y \in Seq(S) /\ Len(y) = Len(q) - n /\ \A m \in 1..Len(y) : y[m] = q[n + m]
    <2>1. n + 1 \in 1..Len(q) + 1
      BY <1>1
    <2>2. \A m \in 1..Len(q) : q[m] \in S
      BY <1>1, ElementOfSeq
    <2> QED BY <1>1, <2>1, <2>2, SubSeqProperties
  <1>4. r = x \o y
    BY DEF RemoveAt
  <1> HIDE DEF x, y, r
  <1>5. r \in Seq(S) /\ Len(r) = Len(x) + Len(y)
        /\ \A m \in 1..Len(x) + Len(y) : r[m] = IF m <= Len(x) THEN x[m] ELSE y[m - Len(x)]
    BY <1>2, <1>3, <1>4, ConcatProperties
  <1>6. Len(r) = Len(q) - 1 /\ Len(x) = n - 1 /\ Len(y) = Len(q) - n
    BY <1>1, <1>2, <1>3, <1>5
  <1>7. ASSUME NEW m \in 1..Len(r) PROVE from(m) \in 1..Len(q) /\ r[m] = q[from(m)]
    <2>1. CASE m < n
      <3>1. m \in 1..Len(x) /\ m <= Len(x) /\ m \in 1..Len(x) + Len(y)
        BY <1>1, <1>2, <1>3, <1>5, <2>1
      <3> QED BY <1>1, <1>2, <1>5, <1>6, <2>1, <3>1
    <2>2. CASE m >= n
      <3>1. m - Len(x) \in 1..Len(y) /\ ~(m <= Len(x)) /\ m \in 1..Len(x) + Len(y)
            /\ n + (m - Len(x)) = m + 1
        BY <1>1, <1>6, <2>2
      <3>2. r[m] = q[m + 1]
        BY <1>3, <1>5, <3>1
      <3> QED BY <1>1, <1>6, <2>2, <3>2
    <2> QED BY <1>1, <1>6, <2>1, <2>2
  <1> QED BY <1>5, <1>6, <1>7 DEF r

\* A job leaves.
LEMMA LineRemove ==
  ASSUME NEW q, NEW at, Line(q, at), NEW n \in DOMAIN q
  PROVE  Line(RemoveAt(q, n), at)
  <1> DEFINE r == RemoveAt(q, n)
             from(m) == IF m < n THEN m ELSE m + 1
  <1>1. q \in Seq(Range(q)) /\ Len(q) \in Nat /\ n \in 1..Len(q)
    BY LineParts
  <1>2. /\ r \in Seq(Range(q)) /\ Len(r) = Len(q) - 1
        /\ \A m \in 1..Len(r) : from(m) \in 1..Len(q) /\ r[m] = q[from(m)]
    BY <1>1, Removed
  <1>3. \A m, k \in 1..Len(r) : from(m) = from(k) => m = k
    BY <1>1, <1>2
  <1> HIDE DEF from, r
  <1>4. \A m \in 1..Len(r) : IsJob(r[m])
    BY <1>2, LineParts
  <1>5. \A m \in 1..Len(r) : r[m].owner = "attach" =>
            at = "publish" /\ \A k \in 1..Len(r) : r[k].owner = "attach" => k = m
    BY <1>2, <1>3, LineParts
  <1>6. Line(r, at)
    BY <1>2, <1>4, <1>5, LineFrom
  <1> QED BY <1>6 DEF r

\* attach() goes on while it has no job.
LEMMA LineAt ==
  ASSUME NEW q, NEW at, Line(q, at), at # "publish", NEW at2 PROVE Line(q, at2)
  BY DEF Line

-----------------------------------------------------------------------------
(* The queues of publishers *)

\* A queue that stays, while no attach() stops publishing.
LEMMA QueueStays ==
  ASSUME QueueInv, UNCHANGED queue,
         \A c \in Chats : attach[c].at = "publish" => attach'[c].at = "publish"
  PROVE  QueueInv'
  <1>1. ASSUME NEW c \in Chats PROVE Line(queue[c], attach'[c].at)
    <2>1. Line(queue[c], attach[c].at)
      BY DEF QueueInv
    <2>2. CASE attach[c].at = "publish"
      BY <2>1, <2>2
    <2>3. CASE attach[c].at # "publish"
      BY <2>1, <2>3, LineAt
    <2> QED BY <2>2, <2>3
  <1> QED BY <1>1 DEF QueueInv

\* One chat's queue changes.
LEMMA QueueOne ==
  ASSUME QueueInv, NEW c \in Chats, NEW q, queue' = [queue EXCEPT ![c] = q],
         Line(q, attach'[c].at), \A d \in Chats \ {c} : attach'[d] = attach[d]
  PROVE  QueueInv'
  <1>1. queue' = [d \in Chats |-> IF d = c THEN q ELSE queue[d]]
    BY DEF QueueInv
  <1>2. queue' = [d \in Chats |-> queue'[d]]
    BY <1>1
  <1>3. ASSUME NEW d \in Chats PROVE Line(queue'[d], attach'[d].at)
    <2>1. CASE d = c
      BY <1>1, <2>1
    <2>2. CASE d # c
      BY <1>1, <2>2 DEF QueueInv
    <2> QED BY <2>1, <2>2
  <1> QED BY <1>2, <1>3 DEF QueueInv

\* A command of one chat is replaced, or goes on to another phase.
LEMMA AttachIs ==
  ASSUME Targets, NEW c \in Chats, NEW a, attach' = [attach EXCEPT ![c] = a]
  PROVE  attach'[c] = a /\ \A d \in Chats \ {c} : attach'[d] = attach[d]
  BY DEF Targets
LEMMA AttachAt ==
  ASSUME Targets, NEW c \in Chats, NEW at, attach' = [attach EXCEPT ![c].at = at]
  PROVE  /\ attach'[c].at = at /\ attach'[c].target = attach[c].target
         /\ attach'[c].previous = attach[c].previous /\ attach'[c].reuse = attach[c].reuse
         /\ \A d \in Chats \ {c} : attach'[d] = attach[d]
  <1>1. attach'[c] = [attach[c] EXCEPT !.at = at]
        /\ \A d \in Chats \ {c} : attach'[d] = attach[d]
    BY DEF Targets
  <1>2. Command(attach[c])
    BY DEF Targets
  <1> HIDE DEF Targets
  <1> QED BY <1>1, <1>2 DEF Command

\* The lock's holder goes on to its next call.
LEMMA HeadOn ==
  ASSUME QueueInv, NEW c \in Chats, queue[c] # <<>>, NEW j,
         queue' = [queue EXCEPT ![c][1] = j],
         IsJob(queue[c][1]) => IsJob(j) /\ j.owner = queue[c][1].owner, UNCHANGED attach
  PROVE  QueueInv'
  <1> DEFINE q == [queue[c] EXCEPT ![1] = j]
  <1>1. Line(queue[c], attach[c].at)
    BY DEF QueueInv
  <1>2. IsJob(queue[c][1])
    <2>1. 1 \in 1..Len(queue[c])
      BY <1>1, LineParts, EmptySeq
    <2> QED BY <1>1, <2>1, LineParts
  <1>3. queue' = [queue EXCEPT ![c] = q]
    BY DEF QueueInv
  <1>4. Line(q, attach[c].at)
    BY <1>1, <1>2, LineHead
  <1> HIDE DEF q
  <1> QED BY <1>3, <1>4, QueueOne

\* A job that is not attach()'s joins.
LEMMA Joins ==
  ASSUME QueueInv, NEW c \in Chats, NEW owner, owner # "attach", NEW slot, NEW s, NEW replace,
         NEW reuse, queue' = Enqueued(c, Job(owner, slot, s, replace, reuse)), UNCHANGED attach
  PROVE  QueueInv'
  <1> DEFINE j == Job(owner, slot, s, replace, reuse)
             q == Append(queue[c], j)
  <1>1. IsJob(j) /\ j.owner # "attach"
    BY DEF IsJob, Job
  <1> HIDE DEF j
  <1>2. Line(queue[c], attach[c].at)
    BY DEF QueueInv
  <1>3. Line(q, attach[c].at)
    BY <1>1, <1>2, LineAppend
  <1>4. queue' = [queue EXCEPT ![c] = q]
    BY DEF Enqueued, QueueInv, j
  <1> HIDE DEF q
  <1> QED BY <1>3, <1>4, QueueOne

\* The publisher that holds the lock is done, and its attach() goes on.
LEMMA EndQueue ==
  ASSUME Targets, QueueInv, NEW c \in Chats, queue[c] # <<>>, PublishEnd(c)
  PROVE  /\ QueueInv'
         /\ \/ UNCHANGED attach
            \/ attach[c].at = "publish" /\ attach' = [attach EXCEPT ![c].at = "follow"]
  <1> DEFINE q == Tail(queue[c])
  <1>1. Line(queue[c], attach[c].at)
    BY DEF QueueInv
  <1>2. queue' = [queue EXCEPT ![c] = q]
    BY DEF PublishEnd, QueueInv
  <1>3. Line(q, attach[c].at)
        /\ (queue[c][1].owner = "attach" => attach[c].at = "publish" /\ \A at : Line(q, at))
    BY <1>1, LineTail
  <1> HIDE DEF q
  <1>4. CASE queue[c][1].owner = "attach"
    <2>1. attach' = [attach EXCEPT ![c].at = "follow"]
      BY <1>4 DEF PublishEnd
    <2>2. \A d \in Chats \ {c} : attach'[d] = attach[d]
      BY <2>1, AttachAt
    <2>3. Line(q, attach'[c].at)
      BY <1>3, <1>4
    <2> QED BY <1>2, <1>3, <1>4, <2>1, <2>2, <2>3, QueueOne
  <1>5. CASE queue[c][1].owner # "attach"
    <2>1. UNCHANGED attach
      BY <1>5 DEF PublishEnd
    <2> QED BY <1>2, <1>3, <2>1, QueueOne
  <1> QED BY <1>4, <1>5

\* A cancelled flush task takes its job back.
LEMMA CancelledQueue ==
  ASSUME QueueInv, NEW c \in Chats, NEW i, FlushCancelled(c, i) PROVE QueueInv'
  <1> DEFINE mine == {n \in DOMAIN queue[c] : queue[c][n].owner = "flush"
                                              /\ queue[c][n].slot = i}
             n0 == CHOOSE n \in mine : TRUE
             q == IF mine = {} THEN queue[c] ELSE RemoveAt(queue[c], n0)
  <1>1. queue' = [queue EXCEPT ![c] = q] /\ UNCHANGED attach
    BY DEF FlushCancelled, QueueInv, commands
  <1>2. Line(queue[c], attach[c].at)
    BY DEF QueueInv
  <1>3. mine # {} => n0 \in DOMAIN queue[c]
    OBVIOUS
  <1> HIDE DEF mine, n0
  <1>4. Line(q, attach[c].at)
    BY <1>2, <1>3, LineRemove
  <1> HIDE DEF q
  <1> QED BY <1>1, <1>4, QueueOne

\* attach() binds and queues its one job.
LEMMA BindQueue ==
  ASSUME Targets, QueueInv, NEW c \in Chats, AttachBind(c) PROVE QueueInv'
  <1> DEFINE j == Job("attach", 0, states'[attach[c].target], TRUE, attach[c].reuse)
             q == Append(queue[c], j)
  <1>1. IsJob(j)
    BY DEF IsJob, Job
  <1>2. queue' = [queue EXCEPT ![c] = q]
    BY DEF AttachBind, Enqueued, QueueInv
  <1> HIDE DEF j
  <1>3. attach' = [attach EXCEPT ![c].at = "publish"] /\ attach[c].at = "discover"
    BY DEF AttachBind
  <1>4. attach'[c].at = "publish" /\ \A d \in Chats \ {c} : attach'[d] = attach[d]
    BY <1>3, AttachAt
  <1>5. Line(queue[c], attach[c].at)
    BY DEF QueueInv
  <1>6. Line(q, "publish")
    BY <1>1, <1>3, <1>5, LineAppend
  <1> HIDE DEF q
  <1> QED BY <1>2, <1>4, <1>6, QueueOne

\* What publishers do to their queue.
LEMMA PublishQueue ==
  ASSUME Targets, QueueInv, NEW c \in Chats, Publishing(c)
  PROVE  /\ QueueInv'
         /\ \/ UNCHANGED attach
            \/ attach[c].at = "publish" /\ attach' = [attach EXCEPT ![c].at = "follow"]
  <1>1. CASE PublishBegin(c)
    <2> DEFINE on == [queue[c][1] EXCEPT !.at = "image"]
               j == [on EXCEPT !.view = views[c]]
    <2>1. queue[c] # <<>> /\ UNCHANGED attach
          /\ queue' = [queue EXCEPT ![c][1] =
                         [queue[c][1] EXCEPT !.at = "image", !.view = views[c]]]
      BY <1>1 DEF PublishBegin, commands, QueueInv
    <2>2. [queue[c][1] EXCEPT !.at = "image", !.view = views[c]] = j
      OBVIOUS
    <2>3. IsJob(queue[c][1]) => IsJob(on) /\ on.owner = queue[c][1].owner
      BY DEF IsJob
    <2> HIDE DEF on
    <2>4. IsJob(on) => IsJob(j) /\ j.owner = on.owner
      BY DEF IsJob
    <2> HIDE DEF j
    <2> QED BY <2>1, <2>2, <2>3, <2>4, HeadOn
  <1>2. ASSUME NEW cs, queue[c] # <<>>, PublishCall(c, cs), UNCHANGED attach PROVE QueueInv'
    <2>1. PICK call, card :
             queue' = [queue EXCEPT ![c][1] = [queue[c][1] EXCEPT !.at = call, !.card = card]]
      BY <1>2 DEF PublishCall
    <2> DEFINE on == [queue[c][1] EXCEPT !.at = call]
               j == [on EXCEPT !.card = card]
    <2>2. [queue[c][1] EXCEPT !.at = call, !.card = card] = j
      OBVIOUS
    <2>3. IsJob(queue[c][1]) => IsJob(on) /\ on.owner = queue[c][1].owner
      BY DEF IsJob
    <2> HIDE DEF on
    <2>4. IsJob(on) => IsJob(j) /\ j.owner = on.owner
      BY DEF IsJob
    <2> HIDE DEF j
    <2> QED BY <1>2, <2>1, <2>2, <2>3, <2>4, HeadOn
  <1>3. CASE PublishImages(c) \/ PublishNotUpdated(c)
    BY <1>2, <1>3 DEF PublishImages, PublishNotUpdated, commands
  <1>4. CASE PublishOk(c) \/ PublishFailed(c)
    BY <1>4, EndQueue DEF PublishOk, PublishFailed
  <1> QED BY <1>1, <1>3, <1>4 DEF Publishing, PublishBegin, PublishImages, PublishNotUpdated,
                              commands

\* No step breaks a queue.
LEMMA QueueStep == ASSUME Targets, QueueInv, Next PROVE QueueInv'
  <1>1. CASE UNCHANGED <<queue, attach>>
    BY <1>1, QueueStays
  <1>2. ASSUME NEW c \in Chats, Flushing(c) PROVE QueueInv'
    <2>1. ASSUME NEW i, FlushWake(c, i) PROVE QueueInv'
      <3>1. UNCHANGED attach
        BY <2>1 DEF FlushWake, commands
      <3>2. CASE UNCHANGED queue
        BY <1>1, <3>1, <3>2
      <3>3. CASE queue' = Enqueued(c, Job("flush", i, pending[c], FALSE, 0))
        BY <3>1, <3>3, Joins
      <3> QED BY <2>1, <3>2, <3>3 DEF FlushWake
    <2> QED BY <1>2, <2>1, CancelledQueue DEF Flushing
  \* attach() leaves a phase that is not "publish", and the queue alone.
  <1>3. ASSUME NEW c \in Chats, UNCHANGED queue, attach[c].at # "publish",
               NEW a, attach' = [attach EXCEPT ![c] = a]
        PROVE  QueueInv'
    <2>1. \A d \in Chats : attach[d].at = "publish" => attach'[d].at = "publish"
      BY <1>3, AttachIs
    <2> QED BY <1>3, <2>1, QueueStays
  <1>4. ASSUME NEW c \in Chats, Attaching(c) PROVE QueueInv'
    <2>1. CASE AttachBind(c)
      BY <2>1, BindQueue
    <2>2. CASE AttachFollow(c)
      <3>1. attach' = [attach EXCEPT ![c].at = "followed"] /\ UNCHANGED queue
            /\ attach[c].at = "follow"
        BY <2>2 DEF AttachFollow
      <3>2. \A d \in Chats : attach[d].at = "publish" => attach'[d].at = "publish"
        BY <3>1, AttachAt
      <3> QED BY <3>1, <3>2, QueueStays
    <2>3. CASE \/ AttachCancelled(c) \/ AttachNoOwner(c) \/ AttachNoFollow(c) \/ AttachDone(c)
      <3>1. /\ \E a : attach' = [attach EXCEPT ![c] = a]
            /\ UNCHANGED queue /\ attach[c].at # "publish"
        BY <2>3 DEF AttachCancelled, AttachDiscover, AttachNoOwner, AttachNoFollow, AttachDone
      <3> QED BY <1>3, <3>1
    <2> QED BY <1>4, <2>1, <2>2, <2>3 DEF Attaching
  <1>5. ASSUME NEW c \in Chats, User(c) PROVE QueueInv'
    <2>1. ASSUME NEW t, NEW reuse, AttachBegin(c, t, reuse) PROVE QueueInv'
      <3>1. /\ \E a : attach' = [attach EXCEPT ![c] = a]
            /\ UNCHANGED queue /\ attach[c].at # "publish"
        BY <2>1 DEF AttachBegin, AttachDiscover
      <3> QED BY <1>3, <3>1
    <2>2. CASE DetachBegin(c)
      BY <1>1, <2>2 DEF DetachBegin
    <2>3. ASSUME NEW op, View(c, op) PROVE QueueInv'
      <3>1. PICK reuse : queue' = Enqueued(c, Job("user", 0, states[bindings[c]], FALSE, reuse))
        BY <2>3 DEF View
      <3>2. UNCHANGED attach
        BY <2>3 DEF View, commands
      <3> QED BY <3>1, <3>2, Joins
    <2> QED BY <1>5, <2>1, <2>2, <2>3 DEF User
  <1>6. ASSUME NEW c \in Chats, Detaching(c) PROVE QueueInv'
    BY <1>1, <1>6 DEF Detaching, DetachCancelled, DetachDone
  <1>7. CASE Projecting
    BY <1>1, <1>7 DEF Projecting, ChangeRead, ChangeDone, RefreshBegin, RefreshRead,
                      RefreshDone, commands
  <1>8. CASE Desktop
    BY <1>1, <1>8 DEF Desktop, DesktopChange, ChildFinishes, SendSnapshot, commands
  <1>9. ASSUME NEW r \in late, LateRequest(r) PROVE QueueInv'
    BY <1>1, <1>9 DEF LateRequest, commands
  <1> QED BY <1>2, <1>4, <1>5, <1>6, <1>7, <1>8, <1>9, PublishQueue DEF Next

-----------------------------------------------------------------------------
(* Bindings and what is followed *)

LinkInv == PhaseInv /\ HeardInv /\ NeededInv

\* What is counted: a fault is remembered.
Counting == BudgetInv' /\ (budget'.faults = 0 => budget.faults = 0)
LEMMA Spending ==
  ASSUME BudgetInv, NEW what \in {"changes", "ops"}, NEW max, Spend(what, max)
  PROVE  Counting
  BY DEF BudgetInv, Counting, Spend
LEMMA Faulting ==
  ASSUME BudgetInv, NEW kind, Fault(kind) PROVE Counting /\ budget'.faults # 0
  BY DEF BudgetInv, Counting, Fault, Spend
LEMMA Thrift == ASSUME BudgetInv, UNCHANGED budget PROVE Counting
  BY DEF BudgetInv, Counting

\* Nothing that is bound, followed or commanded changes.
LEMMA LinkStays ==
  ASSUME LinkInv, Counting, UNCHANGED <<bindings, follow, stranded, attach, detach>>
  PROVE  LinkInv'
  <1>1. PhaseInv'
    BY DEF LinkInv, PhaseInv, Phase
  <1>2. HeardInv'
    BY DEF LinkInv, HeardInv, Heard
  <1>3. NeededInv'
    BY DEF LinkInv, NeededInv, Needed, BoundThreads, Counting
  <1> QED BY <1>1, <1>2, <1>3 DEF LinkInv

\* attach() of chat c goes on from one phase to another.
Onward(c) ==
  /\ UNCHANGED <<bindings, follow, stranded, detach>>
  /\ \A d \in Chats \ {c} : attach'[d] = attach[d]
LEMMA LinkOnward ==
  ASSUME LinkInv, Counting, NEW c \in Chats, Onward(c),
         Phase(attach'[c], detach[c].at, bindings[c]),
         attach[c].at \in {"publish", "follow"} => attach'[c].at \in {"publish", "follow"},
         attach[c].at \in {"publish", "follow", "followed"} =>
           attach'[c].at \in {"publish", "follow", "followed"}
           /\ attach'[c].previous = attach[c].previous
  PROVE  LinkInv'
  <1>1. PhaseInv'
    <2>1. ASSUME NEW d \in Chats PROVE Phase(attach'[d], detach'[d].at, bindings'[d])
      <3>1. CASE d = c
        BY <3>1 DEF Onward
      <3>2. CASE d # c
        BY <3>2 DEF Onward, LinkInv, PhaseInv
      <3> QED BY <3>1, <3>2
    <2> QED BY <2>1 DEF Onward, LinkInv, PhaseInv
  <1>2. HeardInv'
    BY DEF Onward, LinkInv, HeardInv, Heard
  <1>3. NeededInv'
    <2>1. ASSUME NEW t, Needed(t) PROVE Needed(t)'
      <3>1. CASE t \in BoundThreads
        BY <3>1 DEF Onward, Needed, BoundThreads
      <3>2. CASE t \notin BoundThreads
        <4>1. PICK d \in Chats : attach[d].at \in {"publish", "follow", "followed"}
                                 /\ attach[d].previous = t
          BY <2>1, <3>2 DEF Needed
        <4>2. attach'[d].at \in {"publish", "follow", "followed"} /\ attach'[d].previous = t
          BY <4>1 DEF Onward
        <4> QED BY <4>2 DEF Needed
      <3> QED BY <3>1, <3>2
    <2> QED BY <2>1 DEF Onward, LinkInv, NeededInv, Counting
  <1> QED BY <1>1, <1>2, <1>3 DEF LinkInv

\* attach() begins, or goes on when the flush task is gone.
LEMMA DiscoverLink ==
  ASSUME Targets, LinkInv, Counting, NEW c \in Chats,
         UNCHANGED <<bindings, follow, stranded, detach>>,
         attach[c].at \in {"idle", "cancel"},
         Overlap \/ detach[c].at = "idle",
         \/ \E t, reuse : AttachDiscover(c, t, reuse)
         \/ \E a : a.at = "cancel" /\ attach' = [attach EXCEPT ![c] = a]
  PROVE  LinkInv'
  <1>1. PICK a : /\ attach' = [attach EXCEPT ![c] = a]
                 /\ \/ a.at = "discover" /\ a.previous = bindings[c]
                    \/ a.at = "cancel"
    BY DEF AttachDiscover
  <1>2. attach'[c] = a /\ \A d \in Chats \ {c} : attach'[d] = attach[d]
    BY <1>1, AttachIs
  <1>3. Phase(attach'[c], detach[c].at, bindings[c])
    BY <1>1, <1>2 DEF Phase
  <1>4. Onward(c)
    BY <1>2 DEF Onward
  <1> QED BY <1>3, <1>4, LinkOnward

\* A chat that is not idle, or is free to overlap.
LEMMA PhaseAt ==
  ASSUME LinkInv, NEW c \in Chats PROVE Phase(attach[c], detach[c].at, bindings[c])
  BY DEF LinkInv, PhaseInv

\* The publisher of attach() is done.
LEMMA EndLink ==
  ASSUME Targets, LinkInv, Counting, NEW c \in Chats, attach[c].at = "publish",
         attach' = [attach EXCEPT ![c].at = "follow"],
         UNCHANGED <<bindings, follow, stranded, detach>>
  PROVE  LinkInv'
  <1>1. /\ attach'[c].at = "follow" /\ attach'[c].target = attach[c].target
        /\ attach'[c].previous = attach[c].previous
        /\ \A d \in Chats \ {c} : attach'[d] = attach[d]
    BY AttachAt
  <1>2. Phase(attach'[c], detach[c].at, bindings[c])
    BY <1>1, PhaseAt DEF Phase
  <1>3. Onward(c)
    BY <1>1 DEF Onward
  <1> QED BY <1>1, <1>2, <1>3, LinkOnward

\* No owner answered.
LEMMA NoOwnerLink ==
  ASSUME Targets, LinkInv, BudgetInv, NEW c \in Chats, AttachNoOwner(c) PROVE LinkInv'
  <1>1. attach' = [attach EXCEPT ![c] = Idle] /\ attach[c].at = "discover"
        /\ UNCHANGED <<bindings, follow, stranded, detach>>
    BY DEF AttachNoOwner, binding, desktop
  <1>2. attach'[c] = Idle /\ \A d \in Chats \ {c} : attach'[d] = attach[d]
    BY <1>1, AttachIs
  <1>3. Phase(Idle, detach[c].at, bindings[c])
    BY DEF Phase, Idle
  <1>4. Onward(c)
    BY <1>1, <1>2 DEF Onward
  <1>5. Counting
    BY Faulting DEF AttachNoOwner
  <1> QED BY <1>1, <1>2, <1>3, <1>4, <1>5, LinkOnward

\* The binding made in advance.
LEMMA BindLink ==
  ASSUME Targets, LinkInv, BudgetInv, NEW c \in Chats, AttachBind(c) PROVE LinkInv'
  <1> DEFINE t == attach[c].target
  <1>1. /\ attach' = [attach EXCEPT ![c].at = "publish"] /\ attach[c].at = "discover"
        /\ bindings' = [bindings EXCEPT ![c] = t] /\ stranded' = stranded \ {c}
        /\ UNCHANGED <<follow, detach, budget>>
    BY DEF AttachBind, desktop
  <1>2. t \in Threads
    BY <1>1 DEF Targets, Command
  <1>3. /\ attach'[c].at = "publish" /\ attach'[c].target = t
        /\ attach'[c].previous = attach[c].previous
        /\ \A d \in Chats \ {c} : attach'[d] = attach[d]
    BY <1>1, AttachAt
  <1>4. bindings' = [d \in Chats |-> IF d = c THEN t ELSE bindings[d]]
    BY <1>1 DEF LinkInv, PhaseInv
  <1>5. Phase(attach[c], detach[c].at, bindings[c])
    BY PhaseAt
  <1> HIDE DEF t
  <1>6. bindings' = [d \in Chats |-> bindings'[d]] /\ bindings'[c] = t
        /\ \A d \in Chats \ {c} : bindings'[d] = bindings[d]
    BY <1>4
  <1>7. PhaseInv'
    <2>1. ASSUME NEW d \in Chats PROVE Phase(attach'[d], detach'[d].at, bindings'[d])
      <3>1. CASE d = c
        BY <1>1, <1>2, <1>3, <1>5, <1>6, <3>1 DEF Phase
      <3>2. CASE d # c
        BY <1>1, <1>3, <1>6, <3>2 DEF LinkInv, PhaseInv
      <3> QED BY <3>1, <3>2
    <2> QED BY <1>1, <1>6, <2>1 DEF LinkInv, PhaseInv
  <1>8. HeardInv'
    <2>1. ASSUME NEW d \in Chats PROVE Heard(d)'
      <3>1. CASE d = c
        BY <1>3, <3>1 DEF Heard
      <3>2. CASE d # c
        BY <1>1, <1>3, <1>6, <3>2 DEF Heard, LinkInv, HeardInv
      <3> QED BY <3>1, <3>2
    <2> QED BY <2>1 DEF HeardInv
  <1>9. NeededInv'
    <2>1. SUFFICES ASSUME ~Overlap, NEW u, Needed(u) PROVE Needed(u)'
      BY <1>1 DEF LinkInv, NeededInv
    <2>2. CASE \E d \in Chats : attach[d].at \in {"publish", "follow", "followed"}
                                /\ attach[d].previous = u
      <3>1. PICK d \in Chats : attach[d].at \in {"publish", "follow", "followed"}
                               /\ attach[d].previous = u
        BY <2>2
      <3>2. d # c
        BY <1>1, <3>1
      <3> QED BY <1>3, <3>1, <3>2 DEF Needed
    <2>3. CASE u \in BoundThreads
      <3>1. PICK d \in Chats : bindings[d] = u /\ u # NoThread
        BY <2>3 DEF BoundThreads, Range, LinkInv, PhaseInv
      <3>2. CASE d = c
        <4>1. attach'[c].previous = u
          BY <1>1, <1>3, <1>5, <2>1, <3>1, <3>2 DEF Phase
        <4> QED BY <1>3, <4>1 DEF Needed
      <3>3. CASE d # c
        <4>1. bindings'[d] = u
          BY <1>6, <3>1, <3>3
        <4>2. u \in BoundThreads'
          BY <1>4, <3>1, <4>1 DEF BoundThreads, Range
        <4> QED BY <4>2 DEF Needed
      <3> QED BY <3>2, <3>3
    <2> QED BY <2>1, <2>2, <2>3 DEF Needed
  <1> QED BY <1>7, <1>8, <1>9 DEF LinkInv

\* The previous thread is left when nobody needs it.
LEMMA DoneLink ==
  ASSUME Targets, LinkInv, BudgetInv, NEW c \in Chats, AttachDone(c) PROVE LinkInv'
  <1> DEFINE prev == attach[c].previous
  <1>1. /\ attach' = [attach EXCEPT ![c] = Idle] /\ attach[c].at = "followed"
        /\ follow' = IF prev # attach[c].target /\ Unused(prev, bindings)
                       THEN follow \ {prev} ELSE follow
        /\ UNCHANGED <<bindings, stranded, detach, budget>>
    BY DEF AttachDone
  <1>2. attach'[c] = Idle /\ Idle.at = "idle" /\ \A d \in Chats \ {c} : attach'[d] = attach[d]
    BY <1>1, AttachIs DEF Idle
  <1>3. bindings = [d \in Chats |-> bindings[d]]
    BY DEF LinkInv, PhaseInv
  <1>4. Phase(attach[c], detach[c].at, bindings[c])
    BY PhaseAt
  <1> HIDE DEF prev
  <1>5. PhaseInv'
    <2>1. ASSUME NEW d \in Chats PROVE Phase(attach'[d], detach'[d].at, bindings'[d])
      <3>1. CASE d = c
        BY <1>2, <3>1 DEF Phase
      <3>2. CASE d # c
        BY <1>1, <1>2, <3>2 DEF LinkInv, PhaseInv
      <3> QED BY <3>1, <3>2
    <2> QED BY <1>1, <2>1 DEF LinkInv, PhaseInv
  <1>6. HeardInv'
    <2>1. ASSUME NEW d \in Chats PROVE Heard(d)'
      <3>1. bindings[d] \in Range(bindings)
        BY <1>3 DEF Range
      <3>2. bindings[d] \in follow => bindings[d] \in follow'
        BY <1>1, <3>1 DEF Unused
      <3>3. Heard(d) /\ bindings'[d] = bindings[d] /\ stranded' = stranded
        BY <1>1 DEF LinkInv, HeardInv
      <3>4. attach[d].at \in {"publish", "follow"} => attach'[d].at = attach[d].at
        BY <1>1, <1>2
      <3> QED BY <3>2, <3>3, <3>4 DEF Heard
    <2> QED BY <2>1 DEF HeardInv
  <1>7. NeededInv'
    <2>1. SUFFICES ASSUME ~Overlap, NEW u \in follow', Needed(u) PROVE Needed(u)'
      BY <1>1 DEF LinkInv, NeededInv
    <2>2. CASE u \in BoundThreads
      BY <1>1, <2>2 DEF Needed, BoundThreads
    <2>3. CASE \E d \in Chats : attach[d].at \in {"publish", "follow", "followed"}
                                /\ attach[d].previous = u
      <3>1. PICK d \in Chats : attach[d].at \in {"publish", "follow", "followed"}
                               /\ attach[d].previous = u
        BY <2>3
      <3>2. CASE d # c
        BY <1>2, <3>1, <3>2 DEF Needed
      <3>3. CASE d = c
        <4>1. u = prev /\ attach[c].target \in Threads /\ bindings[c] = attach[c].target
          BY <1>1, <1>4, <2>1, <3>1, <3>3 DEF Phase, prev
        <4>2. attach[c].target \in BoundThreads
          BY <1>3, <4>1, ConstantsAssumption DEF BoundThreads, Range
        <4>3. CASE u = attach[c].target
          BY <1>1, <4>2, <4>3 DEF Needed, BoundThreads
        <4>4. CASE u # attach[c].target
          <5>1. ~Unused(u, bindings)
            BY <1>1, <2>1, <4>1, <4>4
          <5>2. u = NoThread \/ u \in BoundThreads
            BY <5>1 DEF Unused, BoundThreads
          <5>3. CASE u \in BoundThreads
            BY <1>1, <5>3 DEF Needed, BoundThreads
          <5>4. u # NoThread
            BY <1>1, <2>1, ConstantsAssumption DEF LinkInv, NeededInv
          <5> QED BY <5>2, <5>3, <5>4
        <4> QED BY <4>3, <4>4
      <3> QED BY <3>2, <3>3
    <2> QED BY <2>1, <2>2, <2>3 DEF Needed
  <1> QED BY <1>5, <1>6, <1>7 DEF LinkInv

\* follow() is broadcast.
LEMMA FollowLink ==
  ASSUME Targets, LinkInv, BudgetInv, NEW c \in Chats, AttachFollow(c) PROVE LinkInv'
  <1> DEFINE t == attach[c].target
  <1>1. /\ attach' = [attach EXCEPT ![c].at = "followed"] /\ attach[c].at = "follow"
        /\ follow' = follow \cup {t} /\ stranded' = stranded \ Bound(t)
        /\ UNCHANGED <<bindings, detach, budget>>
    BY DEF AttachFollow
  <1>2. /\ attach'[c].at = "followed" /\ attach'[c].target = t
        /\ attach'[c].previous = attach[c].previous
        /\ \A d \in Chats \ {c} : attach'[d] = attach[d]
    BY <1>1, AttachAt
  <1>3. Phase(attach[c], detach[c].at, bindings[c])
    BY PhaseAt
  <1>4. t \in Threads /\ bindings[c] \in {t, NoThread} /\ (~Overlap => bindings[c] = t)
    BY <1>1, <1>3 DEF Phase
  <1>5. bindings = [d \in Chats |-> bindings[d]]
    BY DEF LinkInv, PhaseInv
  <1>6. PhaseInv'
    <2>1. ASSUME NEW d \in Chats PROVE Phase(attach'[d], detach'[d].at, bindings'[d])
      <3>1. CASE d = c
        BY <1>1, <1>2, <1>3, <3>1 DEF Phase
      <3>2. CASE d # c
        BY <1>1, <1>2, <3>2 DEF LinkInv, PhaseInv
      <3> QED BY <3>1, <3>2
    <2> QED BY <1>1, <2>1 DEF LinkInv, PhaseInv
  <1> HIDE DEF t
  <1>7. HeardInv'
    <2>1. ASSUME NEW d \in Chats PROVE Heard(d)'
      <3>1. CASE d = c
        BY <1>1, <1>4, <3>1 DEF Heard
      <3>2. CASE d # c
        <4>1. Heard(d) /\ bindings'[d] = bindings[d] /\ attach'[d] = attach[d]
          BY <1>1, <1>2, <3>2 DEF LinkInv, HeardInv
        <4>2. d \in Bound(t) => bindings[d] \in follow'
          BY <1>1 DEF Bound
        <4> QED BY <1>1, <4>1, <4>2 DEF Heard
      <3> QED BY <3>1, <3>2
    <2> QED BY <2>1 DEF HeardInv
  <1>8. NeededInv'
    <2>1. follow' \subseteq Threads
      BY <1>1, <1>4 DEF LinkInv, NeededInv
    <2>2. ASSUME ~Overlap, NEW u, Needed(u) \/ u = t PROVE Needed(u)'
      <3>1. CASE u = t
        <4>1. u \in BoundThreads
          BY <1>4, <1>5, <2>2, <3>1, ConstantsAssumption DEF BoundThreads, Range
        <4> QED BY <1>1, <4>1 DEF Needed, BoundThreads
      <3>2. CASE u \in BoundThreads
        BY <1>1, <3>2 DEF Needed, BoundThreads
      <3>3. CASE \E d \in Chats : attach[d].at \in {"publish", "follow", "followed"}
                                  /\ attach[d].previous = u
        <4>1. PICK d \in Chats : attach[d].at \in {"publish", "follow", "followed"}
                                 /\ attach[d].previous = u
          BY <3>3
        <4>2. attach'[d].at \in {"publish", "follow", "followed"} /\ attach'[d].previous = u
          BY <1>2, <4>1
        <4> QED BY <4>2 DEF Needed
      <3> QED BY <2>2, <3>1, <3>2, <3>3 DEF Needed
    <2> QED BY <1>1, <2>1, <2>2 DEF LinkInv, NeededInv
  <1> QED BY <1>6, <1>7, <1>8 DEF LinkInv

\* follow() fails: back to the binding there was, followed or exempted.
LEMMA NoFollowLink ==
  ASSUME Targets, LinkInv, BudgetInv, NEW c \in Chats, AttachNoFollow(c) PROVE LinkInv'
  <1> DEFINE prev == attach[c].previous
  <1>1. /\ attach' = [attach EXCEPT ![c] = Idle] /\ attach[c].at = "follow"
        /\ bindings' = [bindings EXCEPT ![c] = prev]
        /\ stranded' = IF prev \in follow \cup {NoThread} THEN stranded ELSE stranded \cup {c}
        /\ UNCHANGED <<follow, detach>>
    BY DEF AttachNoFollow, desktop
  <1> HIDE DEF prev
  <1>2. attach'[c] = Idle /\ Idle.at = "idle" /\ \A d \in Chats \ {c} : attach'[d] = attach[d]
    BY <1>1, AttachIs DEF Idle
  <1>3. bindings' = [d \in Chats |-> IF d = c THEN prev ELSE bindings[d]]
    BY <1>1 DEF LinkInv, PhaseInv
  <1>4. bindings' = [d \in Chats |-> bindings'[d]] /\ bindings'[c] = prev
        /\ \A d \in Chats \ {c} : bindings'[d] = bindings[d]
    BY <1>3
  <1>5. PhaseInv'
    <2>1. ASSUME NEW d \in Chats PROVE Phase(attach'[d], detach'[d].at, bindings'[d])
      <3>1. CASE d = c
        BY <1>2, <3>1 DEF Phase
      <3>2. CASE d # c
        BY <1>1, <1>2, <1>4, <3>2 DEF LinkInv, PhaseInv
      <3> QED BY <3>1, <3>2
    <2> QED BY <1>1, <1>4, <2>1 DEF LinkInv, PhaseInv
  <1>6. HeardInv'
    <2>1. ASSUME NEW d \in Chats PROVE Heard(d)'
      <3>1. CASE d = c
        BY <1>1, <1>4, <3>1 DEF Heard
      <3>2. CASE d # c
        BY <1>1, <1>2, <1>4, <3>2 DEF Heard, LinkInv, HeardInv
      <3> QED BY <3>1, <3>2
    <2> QED BY <2>1 DEF HeardInv
  <1>7. NeededInv'
    <2>1. budget'.faults # 0
      BY Faulting DEF AttachNoFollow
    <2> QED BY <1>1, <2>1 DEF LinkInv, NeededInv
  <1> QED BY <1>5, <1>6, <1>7 DEF LinkInv

\* A chat leaves its thread, and unfollows it when nobody needs it.
LEMMA UnbindLink ==
  ASSUME LinkInv, Counting, NEW c \in Chats, Unbind(c), UNCHANGED attach,
         Overlap \/ attach[c].at = "idle"
  PROVE  LinkInv'
  <1> DEFINE t == bindings[c]
  <1>1. /\ bindings' = [bindings EXCEPT ![c] = NoThread] /\ stranded' = stranded \ {c}
        /\ follow' = IF Unused(t, bindings') THEN follow \ {t} ELSE follow
        /\ \E a : detach' = [detach EXCEPT ![c] = a]
    BY DEF Unbind
  <1>2. bindings' = [d \in Chats |-> IF d = c THEN NoThread ELSE bindings[d]]
    BY <1>1 DEF LinkInv, PhaseInv
  <1>3. bindings' = [d \in Chats |-> bindings'[d]] /\ bindings'[c] = NoThread
        /\ \A d \in Chats \ {c} : bindings'[d] = bindings[d]
    BY <1>2
  <1>4. detach' = [d \in Chats |-> detach'[d]] /\ \A d \in Chats \ {c} : detach'[d] = detach[d]
    BY <1>1 DEF LinkInv, PhaseInv
  <1>5. Phase(attach[c], detach[c].at, bindings[c])
    BY PhaseAt
  <1> HIDE DEF t
  <1>6. PhaseInv'
    <2>1. ASSUME NEW d \in Chats PROVE Phase(attach'[d], detach'[d].at, bindings'[d])
      <3>1. CASE d = c
        BY <1>3, <1>5, <3>1 DEF Phase
      <3>2. CASE d # c
        BY <1>3, <1>4, <3>2 DEF LinkInv, PhaseInv
      <3> QED BY <3>1, <3>2
    <2> QED BY <1>3, <1>4, <2>1 DEF PhaseInv
  <1>7. HeardInv'
    <2>1. ASSUME NEW d \in Chats PROVE Heard(d)'
      <3>1. CASE d = c
        BY <1>3, <3>1 DEF Heard
      <3>2. CASE d # c
        <4>1. bindings[d] \in Range(bindings')
          BY <1>2, <1>3, <3>2 DEF Range
        <4>2. bindings[d] \in follow => bindings[d] \in follow'
          BY <1>1, <4>1 DEF Unused
        <4> QED BY <1>1, <1>3, <3>2, <4>2 DEF Heard, LinkInv, HeardInv
      <3> QED BY <3>1, <3>2
    <2> QED BY <2>1 DEF HeardInv
  <1>8. NeededInv'
    <2>1. SUFFICES ASSUME ~Overlap, NEW u \in follow', Needed(u) PROVE Needed(u)'
      BY <1>1 DEF LinkInv, NeededInv, Counting
    <2>2. CASE \E d \in Chats : attach[d].at \in {"publish", "follow", "followed"}
                                /\ attach[d].previous = u
      BY <2>2 DEF Needed
    <2>3. CASE u \in BoundThreads
      <3>1. PICK d \in Chats : bindings[d] = u /\ u # NoThread
        BY <2>3 DEF BoundThreads, Range, LinkInv, PhaseInv
      <3>2. CASE d # c
        <4>1. u \in Range(bindings')
          BY <1>2, <1>3, <3>1, <3>2 DEF Range
        <4> QED BY <3>1, <4>1 DEF Needed, BoundThreads
      <3>3. CASE d = c
        <4>1. u = t
          BY <3>1, <3>3 DEF t
        <4>2. ~Unused(u, bindings')
          BY <1>1, <2>1, <4>1
        <4> QED BY <3>1, <4>2 DEF Unused, Needed, BoundThreads
      <3> QED BY <3>2, <3>3
    <2> QED BY <2>1, <2>2, <2>3 DEF Needed
  <1> QED BY <1>6, <1>7, <1>8 DEF LinkInv

\* detach() waits for the flush task, or is done.
LEMMA DetachLink ==
  ASSUME LinkInv, Counting, NEW c \in Chats, UNCHANGED <<bindings, follow, stranded, attach>>,
         NEW a, detach' = [detach EXCEPT ![c] = a],
         Overlap \/ attach[c].at = "idle" \/ a.at = "idle"
  PROVE  LinkInv'
  <1>1. /\ detach' = [d \in Chats |-> detach'[d]] /\ detach'[c] = a
        /\ \A d \in Chats \ {c} : detach'[d] = detach[d]
    BY DEF LinkInv, PhaseInv
  <1>2. Phase(attach[c], a.at, bindings[c])
    BY PhaseAt DEF Phase
  <1>3. PhaseInv'
    <2>1. ASSUME NEW d \in Chats PROVE Phase(attach'[d], detach'[d].at, bindings'[d])
      <3>1. CASE d = c
        BY <1>1, <1>2, <3>1
      <3>2. CASE d # c
        BY <1>1, <3>2 DEF LinkInv, PhaseInv
      <3> QED BY <3>1, <3>2
    <2> QED BY <1>1, <2>1 DEF LinkInv, PhaseInv
  <1>4. HeardInv'
    BY DEF LinkInv, HeardInv, Heard
  <1>5. NeededInv'
    BY DEF LinkInv, NeededInv, Needed, BoundThreads, Counting
  <1> QED BY <1>3, <1>4, <1>5 DEF LinkInv

\* Every step of a command keeps what is bound and what is followed together.
LEMMA AttachingLink ==
  ASSUME Targets, LinkInv, BudgetInv, NEW c \in Chats, Attaching(c)
  PROVE  Counting /\ LinkInv'
  <1>1. CASE AttachCancelled(c)
    <2>1. /\ attach[c].at = "cancel" /\ UNCHANGED <<bindings, follow, stranded, detach, budget>>
          /\ \E t, reuse : AttachDiscover(c, t, reuse)
      BY <1>1 DEF AttachCancelled, desktop, binding
    <2>2. Overlap \/ detach[c].at = "idle"
      BY <2>1, PhaseAt DEF Phase
    <2> QED BY <2>1, <2>2, Thrift, DiscoverLink
  <1>2. CASE AttachNoOwner(c) \/ AttachNoFollow(c)
    BY <1>2, Faulting, NoOwnerLink, NoFollowLink DEF AttachNoOwner, AttachNoFollow
  <1>3. CASE AttachBind(c) \/ AttachFollow(c) \/ AttachDone(c)
    BY <1>3, Thrift, BindLink, FollowLink, DoneLink DEF AttachBind, AttachFollow, AttachDone
  <1> QED BY <1>1, <1>2, <1>3 DEF Attaching

LEMMA UserLink ==
  ASSUME Targets, LinkInv, BudgetInv, NEW c \in Chats, User(c)
  PROVE  Counting /\ LinkInv'
  <1>1. ASSUME NEW t, NEW reuse, AttachBegin(c, t, reuse) PROVE Counting /\ LinkInv'
    <2>1. Counting
      BY <1>1, Spending DEF AttachBegin
    <2>2. /\ UNCHANGED <<bindings, follow, stranded, detach>> /\ attach[c].at = "idle"
          /\ Overlap \/ detach[c].at = "idle"
      BY <1>1 DEF AttachBegin, May, Free, desktop, binding
    <2>3. \/ \E u, r : AttachDiscover(c, u, r)
          \/ \E a : a.at = "cancel" /\ attach' = [attach EXCEPT ![c] = a]
      BY <1>1 DEF AttachBegin
    <2> QED BY <2>1, <2>2, <2>3, DiscoverLink
  <1>2. CASE DetachBegin(c)
    <2>1. Counting
      BY <1>2, Spending DEF DetachBegin
    <2>2. UNCHANGED attach /\ (Overlap \/ attach[c].at = "idle")
      BY <1>2 DEF DetachBegin, May, Free
    <2>3. CASE Waits(c)
      <3>1. /\ UNCHANGED <<bindings, follow, stranded>>
            /\ \E a : detach' = [detach EXCEPT ![c] = a]
        BY <1>2, <2>3 DEF DetachBegin, binding
      <3> QED BY <2>1, <2>2, <3>1, DetachLink
    <2>4. CASE ~Waits(c)
      <3>1. Unbind(c)
        BY <1>2, <2>4 DEF DetachBegin
      <3> QED BY <2>1, <2>2, <3>1, UnbindLink
    <2> QED BY <2>3, <2>4
  <1>3. ASSUME NEW op, View(c, op) PROVE Counting /\ LinkInv'
    <2>1. Counting
      BY <1>3, Spending DEF View
    <2>2. UNCHANGED <<bindings, follow, stranded, attach, detach>>
      BY <1>3 DEF View, desktop, commands
    <2> QED BY <2>1, <2>2, LinkStays
  <1> QED BY <1>1, <1>2, <1>3 DEF User

LEMMA DetachingLink ==
  ASSUME Targets, LinkInv, BudgetInv, NEW c \in Chats, Detaching(c)
  PROVE  Counting /\ LinkInv'
  <1>1. CASE DetachCancelled(c)
    <2>1. detach[c].at = "cancel" /\ Unbind(c) /\ UNCHANGED <<attach, budget>>
      BY <1>1 DEF DetachCancelled
    <2>2. Overlap \/ attach[c].at = "idle"
      BY <2>1, PhaseAt DEF Phase
    <2> QED BY <2>1, <2>2, Thrift, UnbindLink
  <1>2. CASE DetachDone(c)
    <2>1. /\ UNCHANGED <<bindings, follow, stranded, attach, budget>>
          /\ detach' = [detach EXCEPT ![c] = Idle]
      BY <1>2 DEF DetachDone, desktop, binding
    <2>2. Idle.at = "idle"
      BY DEF Idle
    <2> QED BY <2>1, <2>2, Thrift, DetachLink
  <1> QED BY <1>1, <1>2 DEF Detaching

LEMMA PublishingLink ==
  ASSUME Targets, QueueInv, LinkInv, BudgetInv, NEW c \in Chats, Publishing(c)
  PROVE  Counting /\ LinkInv'
  <1>1. Counting
    <2>1. CASE UNCHANGED budget
      BY <2>1, Thrift
    <2>2. CASE \E kind : Fault(kind)
      BY <2>2, Faulting
    <2> QED BY <2>1, <2>2 DEF Publishing, PublishBegin, PublishImages, PublishOk,
                              PublishNotUpdated, PublishFailed
  <1>2. UNCHANGED <<bindings, follow, stranded, detach>>
    BY DEF Publishing, PublishBegin, PublishImages, PublishOk, PublishNotUpdated, PublishFailed,
           PublishEnd, desktop, binding, commands
  <1> QED BY <1>1, <1>2, PublishQueue, LinkStays, EndLink

LEMMA LinkStep ==
  ASSUME Targets, QueueInv, LinkInv, BudgetInv, Next PROVE Counting /\ LinkInv'
  <1>1. CASE UNCHANGED <<bindings, follow, stranded, attach, detach, budget>>
    BY <1>1, Thrift, LinkStays
  <1>2. ASSUME NEW c \in Chats, Flushing(c) PROVE Counting /\ LinkInv'
    BY <1>1, <1>2 DEF Flushing, FlushWake, FlushCancelled, desktop, binding, commands
  <1>3. CASE Projecting
    <2>1. UNCHANGED <<bindings, follow, stranded, attach, detach, budget>>
      BY <1>3 DEF Projecting, ChangeRead, ChangeDone, RefreshBegin, RefreshRead, RefreshDone,
                  desktop, binding, commands
    <2> QED BY <1>1, <2>1
  <1>4. CASE Desktop
    <2>1. Counting
      BY <1>4, Spending, Thrift DEF Desktop, DesktopChange, ChildFinishes, SendSnapshot
    <2>2. UNCHANGED <<bindings, follow, stranded, attach, detach>>
      BY <1>4 DEF Desktop, DesktopChange, ChildFinishes, SendSnapshot, binding, commands
    <2> QED BY <2>1, <2>2, LinkStays
  <1>5. ASSUME NEW r \in late, LateRequest(r) PROVE Counting /\ LinkInv'
    BY <1>1, <1>5 DEF LateRequest, desktop, binding, commands
  <1>6. ASSUME NEW c \in Chats,
               Publishing(c) \/ Flushing(c) \/ Attaching(c) \/ Detaching(c) \/ User(c)
        PROVE  Counting /\ LinkInv'
    BY <1>2, <1>6, PublishingLink, AttachingLink, DetachingLink, UserLink
  <1> QED BY <1>3, <1>4, <1>5, <1>6 DEF Next

\* start() has followed what is bound, and no command runs.
LEMMA InitFollow == Init => Targets /\ FollowInv
  <1> SUFFICES ASSUME Init PROVE Targets /\ FollowInv
      OBVIOUS
  <1>1. attach = [c \in Chats |-> Idle] /\ Idle.at = "idle"
    BY DEF Init, Idle
  <1>2. Targets
    BY <1>1 DEF Targets, Command, Idle
  <1>3. QueueInv
    <2>1. Line(<<>>, "idle")
      <3>1. <<>> \in Seq(Range(<<>>)) /\ DOMAIN <<>> = {}
        BY EmptySeq
      <3> QED BY <3>1 DEF Line
    <2>2. queue = [c \in Chats |-> <<>>]
      BY DEF Init
    <2> QED BY <1>1, <2>1, <2>2 DEF QueueInv
  <1>4. PhaseInv
    BY <1>1 DEF Init, PhaseInv, Phase
  <1>5. bindings = [c \in Chats |-> bindings[c]] /\ follow = BoundThreads
        /\ bindings = [c \in Chats |-> IF c \in Residents THEN Home ELSE NoThread]
    BY DEF Init
  <1>6. HeardInv
    BY <1>5 DEF HeardInv, Heard, BoundThreads, Range
  <1>7. NeededInv
    BY <1>5, ConstantsAssumption DEF NeededInv, Needed, BoundThreads, Range
  <1>8. BudgetInv
    BY DEF Init, BudgetInv
  <1> QED BY <1>2, <1>3, <1>4, <1>6, <1>7, <1>8 DEF FollowInv

\* Whatever chats, threads, commands and failures there are: once no command
\* runs, Desktop broadcasts the thread of every bound chat, but of one whose
\* follow() failed after another chat had left the thread it falls back to; and
\* no other thread, as long as nothing failed and no chat overlaps commands.
THEOREM FollowsBoundTheorem == Spec => []FollowsBound
  <1>1. Targets /\ FollowInv /\ [Next]_vars => Targets' /\ FollowInv'
    <2> SUFFICES ASSUME Targets, FollowInv, [Next]_vars PROVE Targets' /\ FollowInv'
        OBVIOUS
    <2>1. CASE Next
      BY <2>1, TargetsStep, QueueStep, LinkStep DEF FollowInv, LinkInv, Counting
    <2>2. CASE UNCHANGED vars
      <3>1. UNCHANGED <<bindings, follow, stranded, attach, detach, queue, budget>>
        BY <2>2 DEF vars, desktop, binding, commands
      <3>2. Targets'
        BY <3>1 DEF Targets, Command
      <3>3. QueueInv'
        BY <3>1, QueueStays DEF FollowInv
      <3>4. Counting /\ LinkInv'
        BY <3>1, Thrift, LinkStays DEF FollowInv, LinkInv
      <3> QED BY <3>2, <3>3, <3>4 DEF FollowInv, LinkInv, Counting
    <2> QED BY <2>1, <2>2
  <1>2. Targets /\ FollowInv => FollowsBound
    <2> SUFFICES ASSUME FollowInv, \A c \in Chats : Free(c)
                 PROVE  /\ \A c \in Chats \ stranded :
                             bindings[c] # NoThread => bindings[c] \in follow
                        /\ budget.faults = 0 /\ ~Overlap => follow \subseteq BoundThreads
        BY DEF FollowsBound
    <2>1. \A c \in Chats : attach[c].at = "idle"
      BY DEF Free
    <2>2. \A c \in Chats \ stranded : bindings[c] # NoThread => bindings[c] \in follow
      BY <2>1 DEF FollowInv, HeardInv, Heard
    <2>3. budget.faults = 0 /\ ~Overlap => follow \subseteq BoundThreads
      BY <2>1 DEF FollowInv, NeededInv, Needed
    <2> QED BY <2>2, <2>3
  <1> QED BY <1>1, <1>2, InitFollow, PTL DEF Spec

-----------------------------------------------------------------------------
(* Cards at rest show what there is.                                       *)
(*                                                                         *)
(* QuietCardCurrent speaks of the moment when nothing runs.  CardInv says  *)
(* at every other moment who will bring the card up to date: the newest    *)
(* projection on its way to a watched chat, be it pending, in the queue or *)
(* shown, is the current one, or its thread is dirty and a handler still   *)
(* has to hand the current one over (PromiseInv); and the projection of a  *)
(* thread is what Desktop has, or Desktop owes a snapshot (FreshInv).      *)
(* LocalInv is what a chat's task, queue and cards promise each other, so  *)
(* that what is on its way arrives: a pending state has a task to take it, *)
(* only the head of the queue has a call in flight, for the active card,   *)
(* and Lark has shown a card's last sequence when no call is in flight.    *)

\* No update passes chat c by: it has not crossed one, and no command of it is
\* between cancelling the pending one and binding.
Watched(c) == /\ c \notin crossed
              /\ attach[c].at \notin {"cancel", "discover"}
              /\ detach[c].at = "idle"

Views == {"latest", "old"}
Shown == [state : Projected, view : Views]
Sheets == [seq : Nat, lark : Nat, content : Shown]
Slots == 1..MaxFlushes
ShapeInv ==
  /\ flush \in [Chats -> [Slots -> [at : {"sleep", "publish", "done"}, cancelled : BOOLEAN]]]
  /\ task \in [Chats -> {0} \cup Slots]
  /\ pending \in [Chats -> Projected]
  /\ views \in [Chats -> Views]
  /\ cards \in [Chats -> Seq(Sheets)]
  /\ active \in [Chats -> Nat]

Live(c, i) == flush[c][i].at # "done"
Runs(c, i) == Live(c, i) /\ ~flush[c][i].cancelled
TaskOK(c) ==
  /\ task[c] # 0 => Runs(c, task[c])
  /\ pending[c] # NoState => \E i \in Slots : Runs(c, i)
  /\ Watched(c) => \A i \in Slots : Live(c, i) => Runs(c, i)

JobOK(c, j) ==
  /\ j.owner \in {"flush", "user", "attach"} /\ j.state \in Projected /\ j.view \in Views
  /\ j.reuse \in 0..Len(cards[c])
  /\ j.owner = "flush" => j.slot \in Slots /\ flush[c][j.slot].at = "publish"
  /\ j.owner = "user" => Free(c)
HeadOK(c, j) ==
  /\ j.at \in {"wait", "image", "reuse", "update", "post"}
  /\ j.at \in {"reuse", "update"} => j.card \in 1..Len(cards[c])
  /\ j.at = "update" /\ Watched(c) => j.card = active[c]
  /\ j.at = "post" => j.card = 0
JobsOK(c) ==
  /\ \A n \in 1..Len(queue[c]) :
       /\ JobOK(c, queue[c][n])
       /\ IF n = 1 THEN HeadOK(c, queue[c][n]) ELSE queue[c][n].at = "wait"
  /\ \A n, m \in 1..Len(queue[c]) :
       queue[c][n].owner = "flush" /\ queue[c][m].owner = "flush"
         /\ queue[c][n].slot = queue[c][m].slot => n = m

CardsOK(c) ==
  /\ active[c] \in 0..Len(cards[c]) /\ attach[c].reuse \in 0..Len(cards[c])
  /\ Watched(c) /\ queue[c] = <<>> /\ active[c] # 0 =>
       cards[c][active[c]].lark = cards[c][active[c]].seq

\* A chat bound to nothing waits for nothing.
UnboundOK(c) ==
  /\ c \notin crossed /\ bindings[c] = NoThread =>
       /\ \A i \in Slots : ~Live(c, i)
       /\ queue[c] = <<>> /\ pending[c] = NoState
       /\ detach[c].at = "idle" => active[c] = 0
  /\ detach[c].at = "unfollow" => bindings[c] = NoThread

\* The last publisher has the chosen view, or will take it.
ViewOK(c) ==
  Watched(c) /\ bindings[c] # NoThread =>
    IF queue[c] # <<>>
      THEN queue[c][Len(queue[c])].at # "wait" => queue[c][Len(queue[c])].view = views[c]
      ELSE active[c] # 0 /\ cards[c][active[c]].content.view = views[c]

Local(c) == TaskOK(c) /\ JobsOK(c) /\ CardsOK(c) /\ UnboundOK(c) /\ ViewOK(c)
LocalInv == \A c \in Chats : Local(c)

\* No request still in flight is newer than what was counted.
LateOK(r) ==
  /\ r.chat \in Chats /\ r.card \in 0..Len(cards[r.chat])
  /\ r.seq \in Nat /\ r.content \in Shown
  /\ r.card # 0 => r.seq <= cards[r.chat][r.card].seq
LateInv == \A r \in late : LateOK(r)

\* The newest projection on its way to chat c, or shown there.
Newest(c) == IF pending[c] # NoState THEN pending[c]
             ELSE IF queue[c] # <<>> THEN queue[c][Len(queue[c])].state
             ELSE cards[c][active[c]].content.state
Alike(s1, s2) == s1.thread = s2.thread /\ PublicKey(s1) = PublicKey(s2)
Brought(t) == t \in dirty /\ \E h \in changes : h.state = states[t]
Promise(c) ==
  Watched(c) /\ bindings[c] # NoThread =>
    \/ states[bindings[c]] = NoState
    \/ Alike(Newest(c), states[bindings[c]])
    \/ Brought(bindings[c])
PromiseInv == \A c \in Chats : Promise(c)

\* Chat c is bound to thread t and has followed it.
Settled(c, t) == bindings[c] = t /\ attach[c].at \notin {"publish", "follow"}
Fresh(t) == t \in snap \/ (states[t] # NoState /\ states[t].pub = desk[t].pub)
FreshInv ==
  /\ \A t \in Threads : (\E c \in Chats : Settled(c, t)) => Fresh(t)
  /\ \A c, d \in Chats : detach[d].at = "unfollow" =>
       detach[d].target # NoThread /\ ~Settled(c, detach[d].target)

CardInv == /\ ShapeInv /\ LocalInv /\ LateInv /\ PromiseInv /\ FreshInv
           /\ stranded = {}

\* Nothing chat d has is touched, but it may have crossed an update.
Same(d) ==
  /\ flush'[d] = flush[d] /\ task'[d] = task[d] /\ pending'[d] = pending[d]
  /\ queue'[d] = queue[d] /\ cards'[d] = cards[d] /\ active'[d] = active[d]
  /\ views'[d] = views[d] /\ bindings'[d] = bindings[d]
  /\ attach'[d] = attach[d] /\ detach'[d] = detach[d]
  /\ d \in crossed => d \in crossed'
LEMMA SameLocal == ASSUME NEW d \in Chats, Local(d), Same(d) PROVE Local(d)'
  <1>1. Watched(d)' => Watched(d)
    BY DEF Same, Watched
  <1>2. TaskOK(d)'
    BY <1>1 DEF Same, Local, TaskOK, Runs, Live
  <1>3. JobsOK(d)'
    BY <1>1 DEF Same, Local, JobsOK, JobOK, HeadOK, Free
  <1>4. CardsOK(d)'
    BY <1>1 DEF Same, Local, CardsOK
  <1>5. UnboundOK(d)' /\ ViewOK(d)'
    BY <1>1 DEF Same, Local, UnboundOK, ViewOK, Live
  <1> QED BY <1>2, <1>3, <1>4, <1>5 DEF Local
LEMMA SamePromise ==
  ASSUME NEW d \in Chats, Promise(d), Same(d), UNCHANGED <<states, dirty, changes>>
  PROVE  Promise(d)'
  BY DEF Same, Promise, Watched, Newest, Alike, Brought, PublicKey

\* One chat does something, and the projections stay.
LEMMA OneChat ==
  ASSUME NEW c \in Chats, LocalInv, PromiseInv, \A d \in Chats \ {c} : Same(d),
         UNCHANGED <<states, dirty, changes>>, Local(c)', Promise(c)'
  PROVE  LocalInv' /\ PromiseInv'
  <1>1. ASSUME NEW d \in Chats PROVE Local(d)' /\ Promise(d)'
    <2>1. CASE d = c
      BY <2>1
    <2>2. CASE d # c
      BY <2>2, SameLocal, SamePromise DEF LocalInv, PromiseInv
    <2> QED BY <2>1, <2>2
  <1> QED BY <1>1 DEF LocalInv, PromiseInv

\* The promise to chat c is kept while its newest projection stays.
LEMMA StillPromised ==
  ASSUME NEW c \in Chats, Promise(c), UNCHANGED <<states, dirty, changes>>,
         bindings'[c] = bindings[c], Watched(c)' => Watched(c),
         Watched(c) /\ bindings[c] # NoThread => Newest(c)' = Newest(c)
  PROVE  Promise(c)'
  BY DEF Promise, Alike, Brought, PublicKey

\* Cards are sequences of sheets.
LEMMA CardParts ==
  ASSUME ShapeInv, NEW c \in Chats
  PROVE  /\ cards[c] \in Seq(Sheets) /\ Len(cards[c]) \in Nat
         /\ DOMAIN cards[c] = 1..Len(cards[c])
         /\ \A k \in 1..Len(cards[c]) : cards[c][k] \in Sheets /\ cards[c][k].seq \in Nat
  <1>1. cards[c] \in Seq(Sheets)
    BY DEF ShapeInv
  <1>2. \A k \in 1..Len(cards[c]) : cards[c][k] \in Sheets
    BY <1>1, ElementOfSeq
  <1> QED BY <1>1, <1>2, LenProperties DEF Sheets

\* Sequences only grow, and cards only become more.
CardsGrow ==
  \A c \in Chats : /\ Len(cards[c]) <= Len(cards'[c])
                   /\ \A k \in 1..Len(cards[c]) : cards[c][k].seq <= cards'[c][k].seq
LEMMA LateGrows ==
  ASSUME ShapeInv, ShapeInv', LateInv, late' \subseteq late, CardsGrow PROVE LateInv'
  <1>1. ASSUME NEW r \in late PROVE LateOK(r)'
    <2> DEFINE c == r.chat
    <2>1. /\ c \in Chats /\ r.card \in 0..Len(cards[c]) /\ r.content \in Shown
          /\ r.seq \in Nat /\ (r.card # 0 => r.seq <= cards[c][r.card].seq)
      BY DEF LateInv, LateOK
    <2>2. Len(cards[c]) <= Len(cards'[c])
          /\ \A k \in 1..Len(cards[c]) : cards[c][k].seq <= cards'[c][k].seq
      BY <2>1 DEF CardsGrow
    <2>3. Len(cards[c]) \in Nat /\ \A k \in 1..Len(cards[c]) : cards[c][k].seq \in Nat
      BY <2>1, CardParts
    <2>4. Len(cards'[c]) \in Nat /\ \A k \in 1..Len(cards'[c]) : cards'[c][k].seq \in Nat
      <3>1. cards'[c] \in Seq(Sheets)
        BY <2>1 DEF ShapeInv
      <3>2. \A k \in 1..Len(cards'[c]) : cards'[c][k] \in Sheets
        BY <3>1, ElementOfSeq
      <3> QED BY <3>1, <3>2, LenProperties DEF Sheets
    <2> HIDE DEF c
    <2>5. r.card \in 0..Len(cards'[c])
      BY <2>1, <2>2, <2>3, <2>4
    <2>6. ASSUME r.card # 0 PROVE r.seq <= cards'[c][r.card].seq
      <3>1. r.card \in 1..Len(cards[c]) /\ r.card \in 1..Len(cards'[c])
        BY <2>1, <2>3, <2>4, <2>5, <2>6
      <3>2. PICK old, new : old = cards[c][r.card].seq /\ new = cards'[c][r.card].seq
        OBVIOUS
      <3>3. r.seq <= old
        BY <2>1, <2>6, <3>2
      <3>4. old <= new
        BY <2>2, <3>1, <3>2
      <3>5. r.seq \in Nat /\ old \in Nat /\ new \in Nat
        BY <2>1, <2>3, <2>4, <3>1, <3>2
      <3>6. r.seq <= new
        BY <3>3, <3>4, <3>5
      <3> QED BY <3>2, <3>6
    <2> QED BY <2>1, <2>5, <2>6 DEF LateOK, c
  <1> QED BY <1>1 DEF LateInv
LEMMA CardsStay ==
  ASSUME ShapeInv, UNCHANGED cards PROVE CardsGrow
  BY CardParts DEF CardsGrow

-----------------------------------------------------------------------------
(* The projection of a thread is what Desktop has *)

\* Nothing that FreshInv speaks of changes.
LEMMA FreshStays ==
  ASSUME FreshInv, UNCHANGED <<snap, bindings>>,
         \A t \in Threads : /\ states'[t] # NoState <=> states[t] # NoState
                            /\ states'[t].pub = states[t].pub
                            /\ desk'[t].pub = desk[t].pub,
         \A c, d \in Chats : detach'[d].at = "unfollow" =>
           detach[d].at = "unfollow" /\ detach'[d].target = detach[d].target,
         \A c \in Chats : attach[c].at \in {"publish", "follow"}
                          => attach'[c].at \in {"publish", "follow"}
  PROVE  FreshInv'
  <1>1. \A t : \A c \in Chats : Settled(c, t)' => Settled(c, t)
    BY DEF Settled
  <1>2. \A t \in Threads : Fresh(t) => Fresh(t)'
    BY DEF Fresh
  <1>3. \A t \in Threads : (\E c \in Chats : Settled(c, t)') => Fresh(t)'
    BY <1>1, <1>2 DEF FreshInv
  <1>4. \A c, d \in Chats : detach'[d].at = "unfollow" =>
          detach'[d].target # NoThread /\ ~Settled(c, detach[d].target)'
    BY <1>1 DEF FreshInv
  <1> QED BY <1>3, <1>4 DEF FreshInv

\* A settled chat hears of what its thread does.
LEMMA Hears ==
  ASSUME FollowInv, stranded = {}, NEW c \in Chats, NEW t \in Threads, Settled(c, t)
  PROVE  t \in follow
  BY ConstantsAssumption DEF FollowInv, HeardInv, Heard, Settled

\* A projection made from a change or a snapshot is what Desktop has.
LEMMA ChangeFresh ==
  ASSUME Inv, FollowInv, FreshInv, stranded = {}, NEW t \in Threads, NEW snapshot \in BOOLEAN,
         OnStateChange(t, snapshot), UNCHANGED <<bindings, attach, detach>>,
         snap' = IF snapshot THEN snap \ {t} ELSE snap,
         desk' \in [Threads -> [pub : Nat, kid : 0..1]],
         \A u \in Threads \ {t} : desk'[u] = desk[u],
         snapshot => desk' = desk
  PROVE  FreshInv'
  <1>1. \A u : \A c \in Chats : Settled(c, u)' <=> Settled(c, u)
    BY DEF Settled
  <1>2. ASSUME NEW u \in Threads, NEW c \in Chats, Settled(c, u) PROVE Fresh(u)'
    <2>1. Fresh(u)
      BY <1>2 DEF FreshInv
    <2>2. CASE u # t
      <3>1. states'[u] = states[u]
        BY <2>2 DEF OnStateChange, projection, Inv, StatesInv
      <3> QED BY <2>1, <2>2, <3>1 DEF Fresh
    <2>3. CASE u = t
      <3>1. Bound(t) # {}
        BY <1>2, <2>3 DEF Settled, Bound
      <3>2. PICK pub : /\ states' = [states EXCEPT ![t] = [thread |-> t, rev |-> built[t] + 1,
                            made |-> "raw", pub |-> pub,
                            kid |-> IF snapshot THEN 0 ELSE states[t].kid]]
                       /\ pub = IF snapshot \/ states[t].pub = desk[t].pub THEN desk'[t].pub
                                ELSE IF desk'[t].pub # desk[t].pub THEN Partial
                                ELSE states[t].pub
        BY <3>1 DEF OnStateChange
      <3>3. states'[t].thread = t /\ states'[t].pub = pub
        BY <3>2 DEF Inv, StatesInv
      <3>4. states'[t] # NoState
        BY <3>3, ConstantsAssumption DEF NoState
      <3>5. snapshot \/ t \in snap \/ states[t].pub = desk[t].pub
        BY <2>1, <2>3 DEF Fresh
      <3> QED BY <2>3, <3>2, <3>3, <3>4, <3>5 DEF Fresh
    <2> QED BY <2>2, <2>3
  <1>3. \A u \in Threads : (\E c \in Chats : Settled(c, u)') => Fresh(u)'
    BY <1>1, <1>2
  <1> QED BY <1>1, <1>3 DEF FreshInv

\* What Desktop does.
LEMMA DesktopFresh ==
  ASSUME Inv, FollowInv, FreshInv, stranded = {}, Desktop PROVE FreshInv'
  <1>1. PICK t \in Threads : \/ \E public \in BOOLEAN : DesktopChange(t, public)
                             \/ ChildFinishes(t) \/ SendSnapshot(t)
    BY DEF Desktop
  <1>2. UNCHANGED <<bindings, attach, detach>>
    BY <1>1 DEF DesktopChange, ChildFinishes, SendSnapshot, binding, commands
  <1>3. Inv'
    BY DesktopStep
  <1>4. desk' \in [Threads -> [pub : Nat, kid : 0..1]]
    BY <1>3 DEF Inv, DeskInv
  <1>5. \A u \in Threads \ {t} : desk'[u] = desk[u]
    BY <1>1 DEF DesktopChange, ChildFinishes, SendSnapshot, Inv, DeskInv
  <1>6. ASSUME NEW public \in BOOLEAN, DesktopChange(t, public) PROVE FreshInv'
    <2>1. UNCHANGED snap
      BY <1>6 DEF DesktopChange
    <2>2. CASE t \in follow
      BY <1>2, <1>4, <1>5, <1>6, <2>1, <2>2, ChangeFresh DEF DesktopChange
    <2>3. CASE t \notin follow
      <3>1. UNCHANGED states
        BY <1>6, <2>3 DEF DesktopChange, projection
      <3>2. \A c \in Chats : ~Settled(c, t)
        BY <2>3, Hears
      <3>3. \A u : \A c \in Chats : Settled(c, u)' <=> Settled(c, u)
        BY <1>2 DEF Settled
      <3>4. \A u \in Threads \ {t} : Fresh(u) => Fresh(u)'
        BY <1>5, <2>1, <3>1 DEF Fresh
      <3> QED BY <1>2, <3>2, <3>3, <3>4 DEF FreshInv
    <2> QED BY <2>2, <2>3
  <1>7. ASSUME ChildFinishes(t) PROVE FreshInv'
    <2>1. UNCHANGED <<snap, states>>
      BY <1>7 DEF ChildFinishes, projection
    <2>2. \A u \in Threads : desk'[u].pub = desk[u].pub
      BY <1>7 DEF ChildFinishes, Inv, DeskInv
    <2> QED BY <1>2, <2>1, <2>2, FreshStays
  <1>8. ASSUME SendSnapshot(t) PROVE FreshInv'
    BY <1>2, <1>4, <1>5, <1>8, ChangeFresh DEF SendSnapshot
  <1> QED BY <1>1, <1>6, <1>7, <1>8

\* A call that fails is one the code does not give up after.
LEMMA Allowed ==
  ASSUME BudgetInv, ~GivenUp', NEW kind, Fault(kind) PROVE kind \in {"refuse", "lost"}
  BY DEF BudgetInv, GivenUp, Fault, Spend

\* A chat binds itself; it makes a projection only where there is none.
LEMMA BindFresh ==
  ASSUME Inv, Targets, FollowInv, FreshInv, NEW c \in Chats, AttachBind(c) PROVE FreshInv'
  <1> DEFINE t == attach[c].target
  <1>1. /\ attach' = [attach EXCEPT ![c].at = "publish"]
        /\ bindings' = [bindings EXCEPT ![c] = t]
        /\ UNCHANGED <<snap, desk, detach>>
    BY DEF AttachBind, desktop
  <1>2. attach'[c].at = "publish" /\ \A d \in Chats \ {c} : attach'[d] = attach[d]
    BY <1>1, AttachAt
  <1>3. \A d \in Chats \ {c} : bindings'[d] = bindings[d]
    BY <1>1 DEF FollowInv, PhaseInv
  <1>4. ASSUME NEW u, NEW d \in Chats, Settled(d, u)' PROVE Settled(d, u)
    BY <1>2, <1>3, <1>4 DEF Settled
  <1>5. \A u \in Threads : states[u] # NoState => states'[u] = states[u]
    BY DEF AttachBind, Inv, StatesInv
  <1>6. \A u \in Threads : Fresh(u) => Fresh(u)'
    BY <1>1, <1>5 DEF Fresh
  <1>7. \A u \in Threads : (\E d \in Chats : Settled(d, u)') => Fresh(u)'
    BY <1>4, <1>6 DEF FreshInv
  <1>8. \A b, d \in Chats : detach'[d].at = "unfollow" =>
          detach'[d].target # NoThread /\ ~Settled(b, detach[d].target)'
    BY <1>1, <1>4 DEF FreshInv
  <1> QED BY <1>1, <1>7, <1>8 DEF FreshInv

\* Desktop owes a snapshot to a chat that has just followed, and nobody is
\* about to drop the projection of its thread.
LEMMA FollowFresh ==
  ASSUME Inv, Targets, FollowInv, FreshInv, ~Overlap, NEW c \in Chats, AttachFollow(c)
  PROVE  FreshInv'
  <1> DEFINE t == attach[c].target
  <1>1. /\ attach' = [attach EXCEPT ![c].at = "followed"] /\ attach[c].at = "follow"
        /\ snap' = snap \cup {t}
        /\ \A other \in Chats : detach[other].at # "unfollow"
        /\ UNCHANGED <<desk, detach, bindings, states>>
    BY DEF AttachFollow, projection
  <1>2. \A d \in Chats \ {c} : attach'[d] = attach[d]
    BY <1>1, AttachAt
  <1>3. bindings[c] = t
    BY <1>1 DEF FollowInv, PhaseInv, Phase
  <1>4. ASSUME NEW u, NEW d \in Chats, Settled(d, u)' PROVE u = t \/ Settled(d, u)
    BY <1>1, <1>2, <1>3, <1>4 DEF Settled
  <1>5. \A u \in Threads : Fresh(u) => Fresh(u)'
    BY <1>1 DEF Fresh
  <1>6. Fresh(t)'
    BY <1>1 DEF Fresh
  <1>7. \A u \in Threads : (\E d \in Chats : Settled(d, u)') => Fresh(u)'
    <2> TAKE u \in Threads
    <2> HAVE \E d \in Chats : Settled(d, u)'
    <2>1. CASE u = t
      BY <1>1, <2>1 DEF Fresh
    <2>2. CASE u # t
      BY <1>4, <1>5, <2>2 DEF FreshInv
    <2> QED BY <2>1, <2>2
  <1> QED BY <1>1, <1>7 DEF FreshInv

\* Every step of attach().
LEMMA AttachingFresh ==
  ASSUME Inv, Targets, FollowInv, FreshInv, ~Overlap, ~GivenUp', NEW c \in Chats, Attaching(c)
  PROVE  FreshInv'
  <1>1. ~AttachNoOwner(c) /\ ~AttachNoFollow(c)
    BY Allowed DEF AttachNoOwner, AttachNoFollow, FollowInv
  <1>2. CASE AttachCancelled(c) \/ AttachDone(c)
    <2>1. /\ UNCHANGED <<snap, bindings, states, desk, detach>>
          /\ attach[c].at \notin {"publish", "follow"}
          /\ \E a : attach' = [attach EXCEPT ![c] = a]
      BY <1>2 DEF AttachCancelled, AttachDone, AttachDiscover, desktop, projection, binding
    <2>2. \A d \in Chats \ {c} : attach'[d] = attach[d]
      BY <2>1, AttachIs
    <2> QED BY <2>1, <2>2, FreshStays
  <1> QED BY <1>1, <1>2, BindFresh, FollowFresh DEF Attaching

\* A chat leaves its thread; nobody is bound to one that is unfollowed.
LEMMA UnbindFresh ==
  ASSUME FollowInv, FreshInv, NEW c \in Chats, Unbind(c),
         UNCHANGED <<desk, snap, states, attach>>
  PROVE  FreshInv'
  <1> DEFINE t == bindings[c]
  <1>1. /\ bindings' = [bindings EXCEPT ![c] = NoThread]
        /\ \/ Unused(t, bindings')
              /\ detach' = [detach EXCEPT ![c] = [Idle EXCEPT !.at = "unfollow", !.target = t]]
           \/ detach' = [detach EXCEPT ![c] = Idle]
    BY DEF Unbind
  <1> HIDE DEF t
  <1>2. bindings'[c] = NoThread /\ \A d \in Chats \ {c} : bindings'[d] = bindings[d]
    BY <1>1 DEF FollowInv, PhaseInv
  <1>3. \A d \in Chats \ {c} : detach'[d] = detach[d]
    BY <1>1 DEF FollowInv, PhaseInv
  <1>4. detach'[c].at = "unfollow" => detach'[c].target = t /\ Unused(t, bindings')
    <2>1. CASE detach' = [detach EXCEPT ![c] = Idle]
      BY <2>1 DEF Idle, FollowInv, PhaseInv
    <2>2. CASE /\ Unused(t, bindings')
               /\ detach' = [detach EXCEPT ![c] = [Idle EXCEPT !.at = "unfollow", !.target = t]]
      BY <2>2 DEF Idle, FollowInv, PhaseInv
    <2> QED BY <1>1, <2>1, <2>2
  <1>5. ASSUME NEW u, NEW d \in Chats, u # NoThread, Settled(d, u)' PROVE Settled(d, u)
    BY <1>2, <1>5 DEF Settled
  <1>6. \A u \in Threads : Fresh(u) => Fresh(u)'
    BY DEF Fresh
  <1>7. \A u \in Threads : (\E d \in Chats : Settled(d, u)') => Fresh(u)'
    BY <1>5, <1>6, ConstantsAssumption DEF FreshInv
  <1>8. ASSUME NEW b \in Chats, NEW d \in Chats, detach'[d].at = "unfollow",
               NEW u, u = detach'[d].target, Settled(b, u)'
        PROVE  FALSE
    <2>1. CASE d = c
      <3>1. Unused(u, bindings') /\ bindings'[b] = u
        BY <1>4, <1>8, <2>1 DEF Settled
      <3>2. DOMAIN bindings' = Chats
        BY <1>1 DEF FollowInv, PhaseInv
      <3> QED BY <3>1, <3>2 DEF Unused, Range
    <2>2. CASE d # c
      <3>1. detach[d].at = "unfollow" /\ u = detach[d].target
        BY <1>3, <1>8, <2>2
      <3>2. CASE b = c
        BY <1>2, <1>8, <3>1, <3>2 DEF Settled, FreshInv
      <3>3. CASE b # c
        BY <1>2, <1>8, <3>1, <3>3 DEF Settled, FreshInv
      <3> QED BY <3>2, <3>3
    <2> QED BY <2>1, <2>2
  <1>9. \A d \in Chats : detach'[d].at = "unfollow" => detach'[d].target # NoThread
    BY <1>3, <1>4 DEF FreshInv, Unused
  <1> QED BY <1>7, <1>8, <1>9 DEF FreshInv

\* The projection of a thread nobody is settled on is dropped.
LEMMA DropFresh ==
  ASSUME Inv, FollowInv, FreshInv, NEW c \in Chats, DetachDone(c) PROVE FreshInv'
  <1> DEFINE t == detach[c].target
  <1>1. /\ detach[c].at = "unfollow" /\ detach' = [detach EXCEPT ![c] = Idle]
        /\ states' = [states EXCEPT ![t] = NoState]
        /\ UNCHANGED <<desk, snap, bindings, attach>>
    BY DEF DetachDone, desktop, binding
  <1>2. /\ detach'[c].at = "idle" /\ \A d \in Chats \ {c} : detach'[d] = detach[d]
    BY <1>1 DEF Idle, FollowInv, PhaseInv
  <1>3. \A u : \A d \in Chats : Settled(d, u)' <=> Settled(d, u)
    BY <1>1 DEF Settled
  <1>4. \A d \in Chats : ~Settled(d, t)
    BY <1>1 DEF FreshInv
  <1>5. \A u \in Threads : u # t => states'[u] = states[u]
    BY <1>1 DEF Inv, StatesInv
  <1>6. \A u \in Threads : u # t /\ Fresh(u) => Fresh(u)'
    BY <1>1, <1>5 DEF Fresh
  <1>7. \A u \in Threads : (\E d \in Chats : Settled(d, u)') => Fresh(u)'
    BY <1>3, <1>4, <1>6 DEF FreshInv
  <1>8. \A b, d \in Chats : detach'[d].at = "unfollow" =>
          detach'[d].target # NoThread /\ ~Settled(b, detach[d].target)'
    BY <1>2, <1>3 DEF FreshInv
  <1> QED BY <1>7, <1>8 DEF FreshInv

LEMMA UserFresh ==
  ASSUME Targets, FollowInv, FreshInv, NEW c \in Chats, User(c) PROVE FreshInv'
  <1>1. UNCHANGED <<snap, states, desk>>
    BY DEF User, AttachBegin, DetachBegin, View, desktop, projection
  <1>2. ASSUME NEW t, NEW reuse, AttachBegin(c, t, reuse) PROVE FreshInv'
    <2>1. /\ UNCHANGED <<bindings, detach>> /\ attach[c].at = "idle"
          /\ \E a : attach' = [attach EXCEPT ![c] = a]
      BY <1>2 DEF AttachBegin, AttachDiscover, binding
    <2>2. \A d \in Chats \ {c} : attach'[d] = attach[d]
      BY <2>1, AttachIs
    <2> QED BY <1>1, <2>1, <2>2, FreshStays
  <1>3. CASE DetachBegin(c)
    <2>1. CASE Waits(c)
      <3>1. /\ UNCHANGED <<bindings, attach>>
            /\ detach' = [detach EXCEPT ![c] = [Idle EXCEPT !.at = "cancel", !.slot = task[c]]]
        BY <1>3, <2>1 DEF DetachBegin, binding
      <3>2. detach'[c].at = "cancel" /\ \A d \in Chats \ {c} : detach'[d] = detach[d]
        BY <3>1 DEF Idle, FollowInv, PhaseInv
      <3> QED BY <1>1, <3>1, <3>2, FreshStays
    <2>2. CASE ~Waits(c)
      BY <1>1, <1>3, <2>2, UnbindFresh DEF DetachBegin
    <2> QED BY <2>1, <2>2
  <1>4. ASSUME NEW op, View(c, op) PROVE FreshInv'
    <2>1. UNCHANGED <<bindings, attach, detach>>
      BY <1>4 DEF View, commands
    <2> QED BY <1>1, <2>1, FreshStays
  <1> QED BY <1>2, <1>3, <1>4 DEF User

\* A finished lookup keeps what the projection says of Desktop.
LEMMA ProjectingFresh ==
  ASSUME Inv, FreshInv, Projecting PROVE FreshInv'
  <1>1. UNCHANGED <<desk, snap, bindings, attach, detach>>
    BY DEF Projecting, ChangeRead, ChangeDone, RefreshBegin, RefreshRead, RefreshDone, desktop,
           binding, commands
  <1>2. ASSUME UNCHANGED states PROVE FreshInv'
    BY <1>1, <1>2, FreshStays
  <1>3. ASSUME NEW h, Vouched(h), Current(h.state), NEW made, NEW kid,
               states' = [states EXCEPT ![h.state.thread] =
                            [h.state EXCEPT !.made = made, !.kid = kid]]
        PROVE  FreshInv'
    <2> DEFINE t == h.state.thread
               s == [h.state EXCEPT !.made = made, !.kid = kid]
    <2>1. h.state \in Projected /\ t \in Threads
      BY <1>3 DEF Vouched
    <2>2. s.thread = t /\ s.pub = h.state.pub /\ h.state.thread = t
      BY <2>1 DEF Projected
    <2>3. states[t] = h.state
      BY <1>3 DEF Current
    <2> HIDE DEF s, t
    <2>4. s # NoState /\ h.state # NoState
      BY <2>1, <2>2, ConstantsAssumption DEF NoState
    <2>5. states' = [states EXCEPT ![t] = s]
      BY <1>3 DEF s, t
    <2>6. states'[t] = s /\ \A u \in Threads \ {t} : states'[u] = states[u]
      BY <2>1, <2>5 DEF Inv, StatesInv
    <2> QED BY <1>1, <2>2, <2>3, <2>4, <2>6, FreshStays
  <1>4. ASSUME NEW h \in changes, ChangeDone(h) PROVE FreshInv'
    <2>1. Vouched(h)
      BY DEF Inv, ChangesInv
    <2> QED BY <1>2, <1>3, <1>4, <2>1 DEF ChangeDone
  <1>5. CASE RefreshDone
    <2>1. Vouched(refresh)
      BY <1>5 DEF Inv, RefreshInv, RefreshDone
    <2> QED BY <1>2, <1>3, <1>5, <2>1 DEF RefreshDone
  <1>6. CASE (\E h \in changes : ChangeRead(h)) \/ (\E t \in Threads : RefreshBegin(t))
             \/ RefreshRead
    BY <1>2, <1>6 DEF ChangeRead, RefreshBegin, RefreshRead
  <1> QED BY <1>4, <1>5, <1>6 DEF Projecting

\* Every step.
LEMMA FreshStep ==
  ASSUME Inv, Targets, FollowInv, FreshInv, stranded = {}, ~Overlap, ~GivenUp', Next
  PROVE  FreshInv'
  <1>1. ASSUME UNCHANGED <<desk, snap, states, bindings, detach, attach>> PROVE FreshInv'
    BY <1>1, FreshStays
  <1>2. ASSUME NEW c \in Chats, Publishing(c) PROVE FreshInv'
    <2>1. UNCHANGED <<desk, snap, states, bindings, detach>>
      BY <1>2 DEF Publishing, PublishBegin, PublishImages, PublishOk, PublishNotUpdated,
                  PublishFailed, PublishEnd, desktop, projection, binding, commands
    <2>2. \/ UNCHANGED attach
          \/ attach[c].at = "publish" /\ attach' = [attach EXCEPT ![c].at = "follow"]
      BY <1>2, PublishQueue DEF FollowInv
    <2>3. CASE attach[c].at = "publish" /\ attach' = [attach EXCEPT ![c].at = "follow"]
      <3>1. attach'[c].at = "follow" /\ \A d \in Chats \ {c} : attach'[d] = attach[d]
        BY <2>3, AttachAt
      <3>2. \A d \in Chats : attach[d].at \in {"publish", "follow"}
                             => attach'[d].at \in {"publish", "follow"}
        BY <3>1
      <3> QED BY <2>1, <3>2, FreshStays
    <2> QED BY <1>1, <2>1, <2>2, <2>3
  <1>3. ASSUME NEW c \in Chats, Flushing(c) PROVE FreshInv'
    BY <1>1, <1>3 DEF Flushing, FlushWake, FlushCancelled, desktop, projection, binding, commands
  <1>4. ASSUME NEW c \in Chats, Detaching(c) PROVE FreshInv'
    <2>1. CASE DetachCancelled(c)
      BY <2>1, UnbindFresh DEF DetachCancelled, projection
    <2> QED BY <1>4, <2>1, DropFresh DEF Detaching
  <1>5. ASSUME NEW r \in late, LateRequest(r) PROVE FreshInv'
    BY <1>1, <1>5 DEF LateRequest, desktop, projection, binding, commands
  <1> QED BY <1>2, <1>3, <1>4, <1>5, AttachingFresh, UserFresh, ProjectingFresh, DesktopFresh
          DEF Next

-----------------------------------------------------------------------------
(* Lark's cards *)

\* Lark shows cs once request r has arrived.
Arrived(r, cs) ==
  LET c == r.chat
  IN  /\ cs \in [Chats -> Seq(Sheets)]
      /\ \A d \in Chats \ {c} : cs[d] = cards[d]
      /\ Len(cs[c]) = IF r.card = 0 THEN Len(cards[c]) + 1 ELSE Len(cards[c])
      /\ \A k \in 1..Len(cards[c]) : /\ cs[c][k].seq = cards[c][k].seq
                                     /\ k # r.card => cs[c][k] = cards[c][k]
      /\ r.card = 0 =>
           cs[c][Len(cards[c]) + 1] = [seq |-> 0, lark |-> 0, content |-> r.content]
      /\ r.card # 0 =>
           IF r.seq > cards[c][r.card].lark
             THEN cs[c][r.card].lark = r.seq /\ cs[c][r.card].content = r.content
             ELSE cs = cards
LEMMA AppliedCards ==
  ASSUME ShapeInv, NEW r, LateOK(r), NEW cs, cs = Applied(r) PROVE Arrived(r, cs)
  <1> DEFINE c == r.chat
  <1>1. /\ c \in Chats /\ r.card \in 0..Len(cards[c]) /\ r.content \in Shown /\ r.seq \in Nat
    BY DEF LateOK
  <1>2. /\ cards[c] \in Seq(Sheets) /\ Len(cards[c]) \in Nat
        /\ DOMAIN cards[c] = 1..Len(cards[c])
        /\ \A k \in 1..Len(cards[c]) : cards[c][k] \in Sheets
    BY <1>1, CardParts
  <1>3. cards \in [Chats -> Seq(Sheets)]
    BY DEF ShapeInv
  <1>4. CASE r.card = 0
    <2> DEFINE new == [seq |-> 0, lark |-> 0, content |-> r.content]
               s == Append(cards[c], new)
    <2>1. cs = [cards EXCEPT ![c] = s]
      BY <1>3, <1>4 DEF Applied
    <2>2. new \in Sheets
      BY <1>1 DEF Sheets
    <2> HIDE DEF new
    <2>3. /\ s \in Seq(Sheets) /\ Len(s) = Len(cards[c]) + 1
          /\ \A k \in 1..Len(cards[c]) : s[k] = cards[c][k]
          /\ s[Len(cards[c]) + 1] = new
      BY <1>2, <2>2, AppendProperties
    <2> HIDE DEF s
    <2>4. cs \in [Chats -> Seq(Sheets)] /\ cs[c] = s /\ \A d \in Chats \ {c} : cs[d] = cards[d]
      BY <1>1, <1>3, <2>1, <2>3
    <2> QED BY <1>4, <2>3, <2>4 DEF new, Arrived
  <1>5. CASE r.card # 0 /\ r.seq > cards[c][r.card].lark
    <2> DEFINE old == cards[c][r.card]
               new == [old EXCEPT !.lark = r.seq, !.content = r.content]
               s == [cards[c] EXCEPT ![r.card] = new]
    <2>1. r.card \in 1..Len(cards[c])
      BY <1>1, <1>2, <1>5
    <2>2. cs = [cards EXCEPT ![c] = s]
      BY <1>1, <1>3, <1>5 DEF Applied
    <2>3. old \in Sheets
      BY <1>2, <2>1
    <2>4. new \in Sheets /\ new.seq = old.seq /\ new.lark = r.seq /\ new.content = r.content
      BY <1>1, <2>3 DEF Sheets
    <2> HIDE DEF new
    <2>5. /\ s \in Seq(Sheets) /\ Len(s) = Len(cards[c])
          /\ s[r.card] = new /\ \A k \in 1..Len(cards[c]) : k # r.card => s[k] = cards[c][k]
      BY <1>2, <2>1, <2>4, ExceptSeq
    <2> HIDE DEF s
    <2>6. cs \in [Chats -> Seq(Sheets)] /\ cs[c] = s /\ \A d \in Chats \ {c} : cs[d] = cards[d]
      BY <1>1, <1>3, <2>2, <2>5
    <2> QED BY <1>5, <2>4, <2>5, <2>6 DEF Arrived
  <1>6. CASE r.card # 0 /\ ~(r.seq > cards[c][r.card].lark)
    <2>1. cs = cards
      BY <1>6 DEF Applied
    <2> QED BY <1>3, <1>6, <2>1 DEF Arrived
  <1> QED BY <1>4, <1>5, <1>6

\* A card's sequence is counted up.
CountedUp(cs, c, x) ==
  /\ x \in [Chats -> Seq(Sheets)]
  /\ \A d \in Chats \ {c} : x[d] = cs[d]
  /\ Len(x[c]) = Len(cs[c])
  /\ \A k \in 1..Len(cs[c]) : cs[c][k].seq <= x[c][k].seq
LEMMA Counted ==
  ASSUME NEW cs \in [Chats -> Seq(Sheets)], NEW c \in Chats, NEW card \in 1..Len(cs[c]),
         NEW x, x = [cs EXCEPT ![c][card].seq = NextSequence(@)]
  PROVE  CountedUp(cs, c, x)
  <1> DEFINE old == cs[c][card]
             new == [old EXCEPT !.seq = NextSequence(@)]
             s == [cs[c] EXCEPT ![card] = new]
  <1>1. cs[c] \in Seq(Sheets) /\ \A k \in 1..Len(cs[c]) : cs[c][k] \in Sheets
    <2>1. cs[c] \in Seq(Sheets)
      OBVIOUS
    <2> QED BY <2>1, ElementOfSeq
  <1>2. old \in Sheets
    BY <1>1
  <1>3. new \in Sheets /\ new.seq = old.seq + 1
    BY <1>2 DEF Sheets, NextSequence
  <1>4. x = [cs EXCEPT ![c] = s]
    OBVIOUS
  <1> HIDE DEF new
  <1>5. /\ s \in Seq(Sheets) /\ Len(s) = Len(cs[c])
        /\ s[card] = new /\ \A k \in 1..Len(cs[c]) : k # card => s[k] = cs[c][k]
    BY <1>1, <1>3, ExceptSeq
  <1> HIDE DEF s
  <1>6. x \in [Chats -> Seq(Sheets)] /\ x[c] = s /\ \A d \in Chats \ {c} : x[d] = cs[d]
    BY <1>4, <1>5
  <1>7. \A k \in 1..Len(cs[c]) : cs[c][k].seq \in Nat
    BY <1>1 DEF Sheets
  <1>8. ASSUME NEW k \in 1..Len(cs[c]) PROVE cs[c][k].seq <= s[k].seq
    <2>1. PICK m : m = cs[c][k].seq
      OBVIOUS
    <2>2. m \in Nat
      BY <1>7, <2>1
    <2>3. s[k].seq = m \/ s[k].seq = m + 1
      <3>1. CASE k = card
        BY <1>3, <1>5, <2>1, <3>1
      <3>2. CASE k # card
        BY <1>5, <2>1, <3>2
      <3> QED BY <3>1, <3>2
    <2> QED BY <2>1, <2>2, <2>3
  <1> QED BY <1>5, <1>6, <1>8 DEF CountedUp

-----------------------------------------------------------------------------
(* Publishing *)

\* The queue of a chat.
LEMMA QueueParts ==
  ASSUME QueueInv, NEW c \in Chats
  PROVE  /\ queue[c] \in Seq(Range(queue[c])) /\ Len(queue[c]) \in Nat
         /\ DOMAIN queue[c] = 1..Len(queue[c])
         /\ queue[c] = <<>> <=> Len(queue[c]) = 0
         /\ \A n \in 1..Len(queue[c]) : IsJob(queue[c][n])
  <1>1. Line(queue[c], attach[c].at)
    BY DEF QueueInv
  <1>2. queue[c] \in Seq(Range(queue[c]))
    BY <1>1, LineParts
  <1> QED BY <1>1, <1>2, LineParts, EmptySeq

\* The lock's holder.
LEMMA Holder ==
  ASSUME QueueInv, LocalInv, NEW c \in Chats, queue[c] # <<>>
  PROVE  /\ 1 \in 1..Len(queue[c]) /\ IsJob(queue[c][1])
         /\ JobOK(c, queue[c][1]) /\ HeadOK(c, queue[c][1])
  <1>1. 1 \in 1..Len(queue[c]) /\ IsJob(queue[c][1])
    BY QueueParts
  <1> QED BY <1>1 DEF LocalInv, Local, JobsOK

\* Its call in flight.
LEMMA RequestOK ==
  ASSUME ShapeInv, QueueInv, LocalInv, NEW c \in Chats, queue[c] # <<>>,
         queue[c][1].at \in {"reuse", "update", "post"}, NEW r, r = Request(c, queue[c][1])
  PROVE  /\ LateOK(r) /\ r.chat = c /\ r.card = queue[c][1].card
         /\ r.content = [state |-> queue[c][1].state, view |-> queue[c][1].view]
         /\ IF r.card = 0 THEN queue[c][1].at = "post"
            ELSE /\ r.card \in 1..Len(cards[c]) /\ queue[c][1].at \in {"reuse", "update"}
                 /\ r.seq = cards[c][r.card].seq
  <1> DEFINE job == queue[c][1]
  <1>1. JobOK(c, job) /\ HeadOK(c, job)
    BY Holder
  <1>2. Len(cards[c]) \in Nat /\ \A k \in 1..Len(cards[c]) : cards[c][k].seq \in Nat
    BY CardParts
  <1> HIDE DEF job
  <1>3. job.at \in {"reuse", "update", "post"} /\ r = Request(c, job)
    BY DEF job
  <1>4. /\ r.chat = c /\ r.card = job.card
        /\ r.content = [state |-> job.state, view |-> job.view]
        /\ r.seq = IF job.card = 0 THEN 0 ELSE cards[c][job.card].seq
    BY <1>3 DEF Request, Content
  <1>5. r.content \in Shown
    BY <1>1, <1>4 DEF JobOK, Shown
  <1>6. IF r.card = 0 THEN job.at = "post"
        ELSE r.card \in 1..Len(cards[c]) /\ job.at \in {"reuse", "update"}
    BY <1>1, <1>2, <1>3, <1>4 DEF HeadOK
  <1>7. LateOK(r)
    BY <1>2, <1>4, <1>5, <1>6 DEF LateOK
  <1> QED BY <1>4, <1>6, <1>7 DEF job

\* The lock's holder goes on to another call.
LEMMA HeadStep ==
  ASSUME ShapeInv, QueueInv, LocalInv, PromiseInv, LateInv,
         NEW c \in Chats, queue[c] # <<>>, NEW j, queue' = [queue EXCEPT ![c][1] = j],
         j.owner = queue[c][1].owner, j.slot = queue[c][1].slot,
         j.state = queue[c][1].state, j.reuse = queue[c][1].reuse, j.at # "wait",
         j.view = IF queue[c][1].at = "wait" THEN views[c] ELSE queue[c][1].view,
         HeadOK(c, j)', NEW cs, cards' = cs, cs \in [Chats -> Seq(Sheets)],
         \A d \in Chats \ {c} : cs[d] = cards[d], Len(cs[c]) = Len(cards[c]), CardsGrow,
         UNCHANGED <<flushing, active, late, projection, binding, commands>>
  PROVE  ShapeInv' /\ LocalInv' /\ PromiseInv' /\ LateInv'
  <1> DEFINE job == queue[c][1]
  <1>1. /\ UNCHANGED <<flush, task, pending, active, views, bindings, attach, detach, crossed,
                       states, dirty, changes>>
    BY DEF flushing, projection, binding, commands
  <1>2. ShapeInv'
    BY <1>1 DEF ShapeInv
  <1>3. LateInv'
    BY <1>2, LateGrows
  <1>4. /\ queue'[c] = [queue[c] EXCEPT ![1] = j] /\ \A d \in Chats \ {c} : queue'[d] = queue[d]
    BY DEF QueueInv
  <1>5. /\ DOMAIN queue'[c] = 1..Len(queue[c]) /\ queue'[c][1] = j
        /\ \A n \in 1..Len(queue[c]) : n # 1 => queue'[c][n] = queue[c][n]
    BY <1>4, Holder, QueueParts
  <1>6. Len(queue'[c]) = Len(queue[c]) /\ queue'[c] # <<>>
    <2>1. queue[c] \in Seq(Range(queue[c])) /\ 1 \in 1..Len(queue[c])
      BY QueueParts, Holder
    <2>2. queue[c] \in Seq(Range(queue[c]) \cup {j})
      BY <2>1, SeqMonotonic
    <2>3. Len(queue'[c]) = Len(queue[c]) /\ queue'[c] \in Seq(Range(queue[c]) \cup {j})
      BY <1>4, <2>1, <2>2, ExceptSeq
    <2> QED BY <2>1, <2>3, EmptySeq
  <1>7. \A d \in Chats \ {c} : Same(d)
    BY <1>1, <1>4 DEF Same
  <1>8. Watched(c)' <=> Watched(c)
    BY <1>1 DEF Watched
  <1>9. Local(c)
    BY DEF LocalInv
  <1>10. TaskOK(c)'
    BY <1>1, <1>8, <1>9 DEF Local, TaskOK, Runs, Live
  <1>11. JobsOK(c)'
    <2>1. views[c] \in Views /\ JobOK(c, job)
      BY Holder DEF ShapeInv
    <2>2. JobOK(c, j)'
      BY <1>1, <2>1 DEF JobOK, Free
    <2>3. \A n \in 1..Len(queue[c]) : n # 1 => JobOK(c, queue[c][n])' /\ queue[c][n].at = "wait"
      BY <1>1, <1>5, <1>9 DEF Local, JobsOK, JobOK, Free
    <2>4. \A n \in 1..Len(queue'[c]) :
            /\ JobOK(c, queue[c][n])'
            /\ IF n = 1 THEN HeadOK(c, queue[c][n])' ELSE queue'[c][n].at = "wait"
      BY <1>5, <1>6, <2>2, <2>3
    <2>5. \A n \in 1..Len(queue[c]) : queue'[c][n].owner = queue[c][n].owner
                                      /\ queue'[c][n].slot = queue[c][n].slot
      BY <1>5
    <2>6. \A n, m \in 1..Len(queue'[c]) :
            queue'[c][n].owner = "flush" /\ queue'[c][m].owner = "flush"
              /\ queue'[c][n].slot = queue'[c][m].slot => n = m
      BY <1>6, <1>9, <2>5 DEF Local, JobsOK
    <2> QED BY <2>4, <2>6 DEF JobsOK
  <1>12. CardsOK(c)'
    BY <1>1, <1>6, <1>9 DEF Local, CardsOK
  <1>13. UnboundOK(c)'
    BY <1>1, <1>9 DEF Local, UnboundOK, Live
  <1>14. ViewOK(c)'
    <2>1. CASE Len(queue[c]) = 1
      <3>1. queue'[c][Len(queue'[c])] = j /\ queue[c][Len(queue[c])] = job
        BY <1>5, <1>6, <2>1
      <3> QED BY <1>1, <1>6, <1>8, <1>9, <3>1 DEF Local, ViewOK
    <2>2. CASE Len(queue[c]) # 1
      <3>1. queue'[c][Len(queue'[c])] = queue[c][Len(queue[c])]
        BY <1>5, <1>6, <2>2, QueueParts, Holder
      <3> QED BY <1>1, <1>6, <1>8, <1>9, <3>1 DEF Local, ViewOK
    <2> QED BY <2>1, <2>2
  <1>15. Local(c)'
    BY <1>10, <1>11, <1>12, <1>13, <1>14 DEF Local
  <1>16. Promise(c)'
    <2>1. queue'[c][Len(queue'[c])].state = queue[c][Len(queue[c])].state
      BY <1>5, <1>6, QueueParts, Holder
    <2>2. Newest(c)' = Newest(c)
      BY <1>1, <1>6, <2>1 DEF Newest
    <2> QED BY <1>1, <1>8, <2>2, StillPromised DEF PromiseInv
  <1> QED BY <1>1, <1>2, <1>3, <1>7, <1>15, <1>16, OneChat

\* The lock is obtained: the view is read.
LEMMA BeginLocal ==
  ASSUME ShapeInv, QueueInv, LocalInv, PromiseInv, LateInv, NEW c \in Chats, PublishBegin(c)
  PROVE  ShapeInv' /\ LocalInv' /\ PromiseInv' /\ LateInv'
  <1>1. /\ queue[c] # <<>> /\ queue[c][1].at = "wait"
        /\ queue' = [queue EXCEPT ![c][1] =
                       [queue[c][1] EXCEPT !.at = "image", !.view = views[c]]]
        /\ UNCHANGED <<cards, active, late, flushing, projection, binding, commands>>
    BY DEF PublishBegin, lark, QueueInv
  <1>2. PICK j : j = [queue[c][1] EXCEPT !.at = "image", !.view = views[c]]
    OBVIOUS
  <1>3. IsJob(queue[c][1])
    BY <1>1, Holder
  <1>4. /\ j.owner = queue[c][1].owner /\ j.slot = queue[c][1].slot
        /\ j.state = queue[c][1].state /\ j.reuse = queue[c][1].reuse
        /\ j.at = "image" /\ j.view = views[c]
    BY <1>2, <1>3 DEF IsJob
  <1>5. HeadOK(c, j)'
    BY <1>4 DEF HeadOK
  <1>6. PICK cs : cs = cards
    OBVIOUS
  <1>7. cs \in [Chats -> Seq(Sheets)] /\ cards' = cs
    BY <1>1, <1>6 DEF ShapeInv
  <1>8. CardsGrow
    BY <1>1, CardsStay
  <1>9. queue' = [queue EXCEPT ![c][1] = j]
    BY <1>1, <1>2
  <1> QED BY <1>1, <1>4, <1>5, <1>6, <1>7, <1>8, <1>9, HeadStep

\* The next call, after Lark shows cs.
LEMMA CallLocal ==
  ASSUME ShapeInv, QueueInv, LocalInv, PromiseInv, LateInv, NEW c \in Chats, queue[c] # <<>>,
         queue[c][1].at # "wait", NEW cs \in [Chats -> Seq(Sheets)],
         \A d \in Chats \ {c} : cs[d] = cards[d], Len(cs[c]) = Len(cards[c]),
         \A k \in 1..Len(cards[c]) : cs[c][k].seq = cards[c][k].seq,
         PublishCall(c, cs),
         UNCHANGED <<flushing, active, late, projection, binding, commands>>
  PROVE  ShapeInv' /\ LocalInv' /\ PromiseInv' /\ LateInv'
  <1> DEFINE job == queue[c][1]
             named == IF job.at = "image" /\ job.reuse # 0 THEN "reuse"
                      ELSE IF job.at \in {"image", "reuse"} /\ ~job.replace /\ active[c] # 0
                        THEN "update" ELSE "post"
  <1>1. PICK call : call = named
    OBVIOUS
  <1>2. PICK card : card = CASE call = "reuse" -> job.reuse [] call = "update" -> active[c]
                             [] call = "post" -> 0
    OBVIOUS
  <1>3. /\ queue' = [queue EXCEPT ![c][1] = [job EXCEPT !.at = call, !.card = card]]
        /\ cards' = IF card = 0 THEN cs ELSE [cs EXCEPT ![c][card].seq = NextSequence(@)]
    BY <1>1, <1>2 DEF PublishCall
  <1>4. /\ call \in {"reuse", "update", "post"}
        /\ call = "reuse" => job.reuse # 0 /\ card = job.reuse
        /\ call = "update" => active[c] # 0 /\ card = active[c]
        /\ call = "post" => card = 0
    BY <1>1, <1>2
  <1>5. JobOK(c, job) /\ IsJob(job) /\ Local(c)
    BY Holder DEF LocalInv
  <1> HIDE DEF job, named
  <1>6. Len(cards[c]) \in Nat /\ job.reuse \in 0..Len(cards[c]) /\ active[c] \in 0..Len(cards[c])
    BY <1>5, CardParts DEF JobOK, Local, CardsOK
  <1>7. card = 0 \/ card \in 1..Len(cs[c])
    BY <1>4, <1>6
  <1>8. PICK x : x = cards'
    OBVIOUS
  <1>9. /\ x \in [Chats -> Seq(Sheets)] /\ Len(x[c]) = Len(cards[c])
        /\ \A d \in Chats \ {c} : x[d] = cards[d]
        /\ \A k \in 1..Len(cards[c]) : cards[c][k].seq <= x[c][k].seq
    <2>1. \A k \in 1..Len(cards[c]) : cards[c][k].seq \in Nat
      BY CardParts
    <2>2. CASE card = 0
      BY <1>3, <1>8, <2>1, <2>2
    <2>3. CASE card \in 1..Len(cs[c])
      <3>1. x = [cs EXCEPT ![c][card].seq = NextSequence(@)]
        BY <1>3, <1>8, <2>3
      <3>2. CountedUp(cs, c, x)
        BY <2>3, <3>1, Counted
      <3> QED BY <3>2 DEF CountedUp
    <2> QED BY <1>7, <2>2, <2>3
  <1>10. CardsGrow
    <2>1. \A d \in Chats : Len(cards[d]) \in Nat
                           /\ \A k \in 1..Len(cards[d]) : cards[d][k].seq \in Nat
      BY CardParts
    <2>2. \A d \in Chats \ {c} : cards'[d] = cards[d]
      BY <1>8, <1>9
    <2>3. \A d \in Chats \ {c} :
            /\ Len(cards[d]) <= Len(cards'[d])
            /\ \A k \in 1..Len(cards[d]) : cards[d][k].seq <= cards'[d][k].seq
      BY <2>1, <2>2
    <2>4. /\ Len(cards[c]) <= Len(cards'[c])
          /\ \A k \in 1..Len(cards[c]) : cards[c][k].seq <= cards'[c][k].seq
      BY <1>8, <1>9, <2>1
    <2> QED BY <2>3, <2>4 DEF CardsGrow
  <1>11. PICK j : j = [job EXCEPT !.at = call, !.card = card]
    OBVIOUS
  <1>12. /\ j.owner = job.owner /\ j.slot = job.slot /\ j.state = job.state
         /\ j.reuse = job.reuse /\ j.view = job.view /\ j.at = call /\ j.card = card
    BY <1>5, <1>11 DEF IsJob
  <1>13. HeadOK(c, j)'
    <2>1. UNCHANGED <<active, crossed, attach, detach>>
      BY DEF binding, commands
    <2>2. cards'[c] = x[c]
      BY <1>8
    <2>3. j.at \in {"reuse", "update"} => j.card \in 1..Len(cards'[c])
      BY <1>4, <1>6, <1>9, <1>12, <2>2
    <2> QED BY <1>4, <1>12, <2>1, <2>3 DEF HeadOK, Watched
  <1>14. queue' = [queue EXCEPT ![c][1] = j] /\ j.at # "wait"
    BY <1>3, <1>4, <1>11, <1>12
  <1>15. j.view = IF job.at = "wait" THEN views[c] ELSE job.view
    BY <1>12 DEF job
  <1>16. /\ j.owner = queue[c][1].owner /\ j.slot = queue[c][1].slot
         /\ j.state = queue[c][1].state /\ j.reuse = queue[c][1].reuse
         /\ j.view = IF queue[c][1].at = "wait" THEN views[c] ELSE queue[c][1].view
    BY <1>12, <1>15 DEF job
  <1>17. cards' = x
    BY <1>8
  <1> QED BY <1>9, <1>10, <1>13, <1>14, <1>16, <1>17, HeadStep

\* The first call, or the next one after an update that did not succeed.
LEMMA CallsLocal ==
  ASSUME ShapeInv, QueueInv, LocalInv, PromiseInv, LateInv, NEW c \in Chats,
         PublishImages(c) \/ PublishNotUpdated(c)
  PROVE  ShapeInv' /\ LocalInv' /\ PromiseInv' /\ LateInv'
  <1>1. /\ queue[c] # <<>> /\ queue[c][1].at # "wait"
        /\ UNCHANGED <<flushing, active, late, projection, binding, commands>>
    BY DEF PublishImages, PublishNotUpdated
  <1>2. CASE PublishCall(c, cards)
    <2>1. cards \in [Chats -> Seq(Sheets)]
      BY DEF ShapeInv
    <2> QED BY <1>1, <1>2, <2>1, CallLocal
  <1>3. CASE PublishNotUpdated(c) /\ PublishCall(c, Applied(Request(c, queue[c][1])))
    <2>1. PICK r : r = Request(c, queue[c][1])
      OBVIOUS
    <2>2. PICK cs : cs = Applied(r)
      OBVIOUS
    <2>3. queue[c][1].at \in {"reuse", "update"}
      BY <1>3 DEF PublishNotUpdated
    <2>4. LateOK(r) /\ r.chat = c /\ r.card # 0
      BY <1>1, <2>1, <2>3, RequestOK
    <2>5. /\ cs \in [Chats -> Seq(Sheets)] /\ \A d \in Chats \ {c} : cs[d] = cards[d]
          /\ Len(cs[c]) = IF r.card = 0 THEN Len(cards[c]) + 1 ELSE Len(cards[c])
          /\ \A k \in 1..Len(cards[c]) : cs[c][k].seq = cards[c][k].seq
      <3>1. Arrived(r, cs)
        BY <2>2, <2>4, AppliedCards
      <3> QED BY <2>4, <3>1 DEF Arrived
    <2>6. PublishCall(c, cs)
      BY <1>3, <2>1, <2>2
    <2> QED BY <1>1, <2>4, <2>5, <2>6, CallLocal
  <1> QED BY <1>2, <1>3 DEF PublishImages, PublishNotUpdated

\* The lock's holder leaves the queue.
LEMMA Shorter ==
  ASSUME QueueInv, NEW c \in Chats, queue[c] # <<>>, queue' = [queue EXCEPT ![c] = Tail(@)]
  PROVE  /\ Len(queue'[c]) = Len(queue[c]) - 1 /\ Len(queue'[c]) \in Nat
         /\ queue'[c] = <<>> <=> Len(queue[c]) = 1
         /\ \A n \in 1..Len(queue'[c]) : /\ n + 1 \in 1..Len(queue[c])
                                         /\ queue'[c][n] = queue[c][n + 1]
         /\ \A d \in Chats \ {c} : queue'[d] = queue[d]
  <1>1. queue'[c] = Tail(queue[c]) /\ \A d \in Chats \ {c} : queue'[d] = queue[d]
    BY DEF QueueInv
  <1>2. queue[c] \in Seq(Range(queue[c])) /\ Len(queue[c]) \in Nat /\ Len(queue[c]) # 0
    BY QueueParts
  <1>3. /\ queue'[c] \in Seq(Range(queue[c])) /\ Len(queue'[c]) = Len(queue[c]) - 1
        /\ \A n \in 1..Len(queue'[c]) : queue'[c][n] = queue[c][n + 1]
    <2> DEFINE q == queue[c]
               r == Tail(q)
    <2>1. q \in Seq(Range(q)) /\ q # <<>>
      BY <1>2
    <2> HIDE DEF q
    <2>2. r \in Seq(Range(q)) /\ Len(r) = Len(q) - 1 /\ \A n \in 1..Len(r) : r[n] = q[n + 1]
      BY <2>1, HeadTailProperties
    <2> HIDE DEF r
    <2>3. queue'[c] = r
      BY <1>1 DEF q, r
    <2> QED BY <2>2, <2>3 DEF q
  <1>4. queue'[c] = <<>> <=> Len(queue'[c]) = 0
    BY <1>3, EmptySeq
  <1> QED BY <1>1, <1>2, <1>3, <1>4

\* A job joins the queue.
LEMMA Longer ==
  ASSUME QueueInv, NEW c \in Chats, NEW j, queue' = Enqueued(c, j)
  PROVE  /\ Len(queue'[c]) = Len(queue[c]) + 1 /\ Len(queue[c]) \in Nat /\ queue'[c] # <<>>
         /\ \A n \in 1..Len(queue[c]) : queue'[c][n] = queue[c][n]
         /\ queue'[c][Len(queue'[c])] = j
         /\ \A d \in Chats \ {c} : queue'[d] = queue[d]
  <1>1. queue'[c] = Append(queue[c], j) /\ \A d \in Chats \ {c} : queue'[d] = queue[d]
    BY DEF QueueInv, Enqueued
  <1>2. queue[c] \in Seq(Range(queue[c]) \cup {j}) /\ Len(queue[c]) \in Nat
    BY QueueParts, SeqMonotonic
  <1>3. /\ queue'[c] \in Seq(Range(queue[c]) \cup {j}) /\ Len(queue'[c]) = Len(queue[c]) + 1
        /\ \A n \in 1..Len(queue[c]) : queue'[c][n] = queue[c][n]
        /\ queue'[c][Len(queue[c]) + 1] = j
    BY <1>1, <1>2, AppendProperties
  <1>4. queue'[c] # <<>>
    BY <1>2, <1>3, EmptySeq
  <1> QED BY <1>1, <1>2, <1>3, <1>4

\* The flush task whose job is done goes on, and no other.
LEMMA FlushGoesOn ==
  ASSUME ShapeInv, NEW c \in Chats, TaskOK(c), Watched(c)' => Watched(c),
         NEW i \in Slots, flush[c][i].at = "publish", FlushPublished(c, i)
  PROVE  /\ flush' \in [Chats -> [Slots -> [at : {"sleep", "publish", "done"},
                                            cancelled : BOOLEAN]]]
         /\ task' \in [Chats -> {0} \cup Slots] /\ UNCHANGED pending
         /\ \A d \in Chats \ {c} : flush'[d] = flush[d] /\ task'[d] = task[d]
         /\ \A k \in Slots \ {i} : flush'[c][k] = flush[c][k]
         /\ TaskOK(c)'
  <1> DEFINE Records == [at : {"sleep", "publish", "done"}, cancelled : BOOLEAN]
             old == flush[c][i]
  <1>1. /\ flush \in [Chats -> [Slots -> Records]] /\ task \in [Chats -> {0} \cup Slots]
        /\ old \in Records
    BY DEF ShapeInv
  <1>2. CASE pending[c] # NoState
    <2> DEFINE new == [old EXCEPT !.at = "sleep"]
    <2>1. flush' = [flush EXCEPT ![c][i].at = "sleep"] /\ UNCHANGED <<task, pending>>
      BY <1>2 DEF FlushPublished
    <2>2. new \in Records /\ new.at = "sleep" /\ new.cancelled = old.cancelled
      BY <1>1
    <2>3. flush' = [flush EXCEPT ![c] = [flush[c] EXCEPT ![i] = new]]
      BY <1>1, <2>1
    <2> HIDE DEF new
    <2>4. /\ flush' \in [Chats -> [Slots -> Records]]
          /\ \A d \in Chats \ {c} : flush'[d] = flush[d]
          /\ \A k \in Slots \ {i} : flush'[c][k] = flush[c][k]
          /\ flush'[c][i] = new
      BY <1>1, <2>2, <2>3
    <2>5. \A k \in Slots : (Live(c, k)' <=> Live(c, k)) /\ (Runs(c, k)' <=> Runs(c, k))
      BY <2>2, <2>4 DEF Live, Runs
    <2>6. TaskOK(c)'
      BY <1>1, <2>1, <2>5 DEF TaskOK
    <2> QED BY <1>1, <2>1, <2>4, <2>6
  <1>3. CASE pending[c] = NoState
    <2>1. /\ flush' = [flush EXCEPT ![c] = [flush[c] EXCEPT ![i] = Done]]
          /\ task' = [task EXCEPT ![c] = 0] /\ UNCHANGED pending
      BY <1>1, <1>3 DEF FlushPublished
    <2>2. Done \in Records /\ Done.at = "done"
      BY DEF Done
    <2>3. /\ flush' \in [Chats -> [Slots -> Records]]
          /\ \A d \in Chats \ {c} : flush'[d] = flush[d]
          /\ \A k \in Slots \ {i} : flush'[c][k] = flush[c][k]
          /\ flush'[c][i] = Done
      BY <1>1, <2>1, <2>2
    <2>4. \A k \in Slots : /\ Live(c, k)' => Live(c, k) /\ k # i
                           /\ k # i => (Runs(c, k)' <=> Runs(c, k))
      BY <2>2, <2>3 DEF Live, Runs
    <2>5. /\ task' \in [Chats -> {0} \cup Slots] /\ task'[c] = 0
          /\ \A d \in Chats \ {c} : task'[d] = task[d]
      BY <1>1, <2>1
    <2>6. TaskOK(c)'
      BY <1>3, <2>1, <2>4, <2>5 DEF TaskOK
    <2> QED BY <2>1, <2>3, <2>5, <2>6
  <1> QED BY <1>2, <1>3

\* The call in flight succeeds.
LEMMA OkLocal ==
  ASSUME Targets, ShapeInv, QueueInv, LocalInv, PromiseInv, LateInv, NEW c \in Chats, PublishOk(c)
  PROVE  ShapeInv' /\ LocalInv' /\ PromiseInv' /\ LateInv'
  <1> DEFINE job == queue[c][1]
  <1>1. PICK r : r = Request(c, job)
    OBVIOUS
  <1>2. PICK cs : cs = Applied(r)
    OBVIOUS
  <1>3. /\ queue[c] # <<>> /\ job.at \in {"reuse", "update", "post"}
        /\ job.card # 0 => r.seq > cards[c][job.card].lark
        /\ cards' = cs /\ PublishEnd(c)
        /\ active' = CASE job.at = "reuse" -> [active EXCEPT ![c] = job.card]
                       [] job.at = "update" -> active
                       [] job.at = "post" -> [active EXCEPT ![c] = Len(cards[c]) + 1]
    BY <1>1, <1>2 DEF PublishOk
  <1>4. /\ LateOK(r) /\ r.chat = c /\ r.card = job.card
        /\ r.content = [state |-> job.state, view |-> job.view]
        /\ IF r.card = 0 THEN job.at = "post"
           ELSE /\ r.card \in 1..Len(cards[c]) /\ job.at \in {"reuse", "update"}
                /\ r.seq = cards[c][r.card].seq
    BY <1>1, <1>3, RequestOK
  <1>5. Arrived(r, cs)
    BY <1>2, <1>4, AppliedCards
  <1>6. /\ IsJob(job) /\ JobOK(c, job) /\ HeadOK(c, job) /\ Local(c) /\ Promise(c)
        /\ Len(cards[c]) \in Nat /\ Len(queue[c]) \in Nat /\ 1 \in 1..Len(queue[c])
    BY <1>3, Holder, CardParts, QueueParts DEF LocalInv, PromiseInv
  <1> HIDE DEF job
  <1>7. /\ queue' = [queue EXCEPT ![c] = Tail(@)]
        /\ IF job.owner = "flush" THEN FlushPublished(c, job.slot) ELSE UNCHANGED flushing
        /\ IF job.owner = "attach" THEN attach' = [attach EXCEPT ![c].at = "follow"]
                                   ELSE UNCHANGED attach
        /\ UNCHANGED <<late, detach, bindings, views, crossed, states, dirty, changes>>
    BY <1>3 DEF PublishEnd, projection, binding, job
  <1>8. /\ Len(queue'[c]) = Len(queue[c]) - 1 /\ Len(queue'[c]) \in Nat
        /\ queue'[c] = <<>> <=> Len(queue[c]) = 1
        /\ \A n \in 1..Len(queue'[c]) : /\ n + 1 \in 1..Len(queue[c])
                                        /\ queue'[c][n] = queue[c][n + 1]
        /\ \A d \in Chats \ {c} : queue'[d] = queue[d]
    BY <1>3, <1>7, Shorter
  \* The new card, or the one that was updated, is the active one.
  <1>9. /\ cs \in [Chats -> Seq(Sheets)] /\ \A d \in Chats \ {c} : cs[d] = cards[d]
        /\ Len(cs[c]) \in Nat /\ Len(cards[c]) <= Len(cs[c])
        /\ \A k \in 1..Len(cards[c]) : cs[c][k].seq = cards[c][k].seq
    BY <1>4, <1>5, <1>6 DEF Arrived
  <1>10. PICK a : a = active'[c]
    OBVIOUS
  <1>11. /\ active' \in [Chats -> Nat] /\ a \in 0..Len(cs[c])
         /\ \A d \in Chats \ {c} : active'[d] = active[d]
         /\ job.at = "post" => a = Len(cards[c]) + 1
         /\ job.at = "reuse" => a = r.card
         /\ job.at = "update" => a = active[c]
    <2>1. active \in [Chats -> Nat] /\ active[c] \in 0..Len(cards[c])
      BY <1>6 DEF ShapeInv, Local, CardsOK
    <2>2. CASE job.at = "post"
      <3>1. active' = [active EXCEPT ![c] = Len(cards[c]) + 1] /\ r.card = 0
        BY <1>3, <1>4, <2>2
      <3>2. Len(cs[c]) = Len(cards[c]) + 1
        BY <1>4, <1>5, <3>1 DEF Arrived
      <3> QED BY <1>6, <1>10, <2>1, <2>2, <3>1, <3>2
    <2>3. CASE job.at = "reuse"
      <3>1. active' = [active EXCEPT ![c] = r.card] /\ r.card \in 1..Len(cards[c])
        BY <1>3, <1>4, <2>3
      <3> QED BY <1>6, <1>9, <1>10, <2>1, <2>3, <3>1
    <2>4. CASE job.at = "update"
      <3>1. active' = active
        BY <1>3, <2>4
      <3> QED BY <1>6, <1>9, <1>10, <2>1, <2>4, <3>1
    <2> QED BY <1>3, <2>2, <2>3, <2>4
  \* attach() goes on if the job was its own.
  <1>12. /\ attach'[c].reuse = attach[c].reuse
         /\ attach'[c].at = IF job.owner = "attach" THEN "follow" ELSE attach[c].at
         /\ \A d \in Chats \ {c} : attach'[d] = attach[d]
         /\ job.owner = "attach" => attach[c].at = "publish"
    <2>1. CASE job.owner = "attach"
      <3>1. attach[c].at = "publish"
        BY <1>6, <2>1 DEF QueueInv, Line, job
      <3> QED BY <1>7, <2>1, <3>1, AttachAt
    <2>2. CASE job.owner # "attach"
      BY <1>7, <2>2
    <2> QED BY <2>1, <2>2
  <1>13. (Watched(c)' <=> Watched(c)) /\ (job.owner # "attach" => (Free(c)' <=> Free(c)))
    BY <1>7, <1>12 DEF Watched, Free
  <1>14. Watched(c) => /\ a # 0 /\ cs[c][a].lark = cs[c][a].seq
                       /\ cs[c][a].content = [state |-> job.state, view |-> job.view]
    <2> SUFFICES ASSUME Watched(c) PROVE /\ a # 0 /\ cs[c][a].lark = cs[c][a].seq
                       /\ cs[c][a].content = [state |-> job.state, view |-> job.view]
      OBVIOUS
    <2>1. CASE r.card = 0
      <3>1. job.at = "post" /\ a = Len(cards[c]) + 1
        BY <1>4, <1>11, <2>1
      <3>2. cs[c][a] = [seq |-> 0, lark |-> 0, content |-> r.content]
        BY <1>4, <1>5, <2>1, <3>1 DEF Arrived
      <3> QED BY <1>4, <1>6, <3>1, <3>2
    <2>2. CASE r.card # 0
      <3>1. a = r.card
        BY <1>4, <1>6, <1>11, <2>2 DEF HeadOK
      <3>2. r.seq > cards[c][r.card].lark /\ r.card \in 1..Len(cards[c])
            /\ r.seq = cards[c][r.card].seq
        BY <1>3, <1>4, <2>2
      <3>3. cs[c][a].lark = r.seq /\ cs[c][a].content = r.content
        BY <1>4, <1>5, <2>2, <3>1, <3>2 DEF Arrived
      <3> QED BY <1>4, <1>9, <2>2, <3>1, <3>2, <3>3
    <2> QED BY <2>1, <2>2
  <1>15. /\ flush' \in [Chats -> [Slots -> [at : {"sleep", "publish", "done"},
                                            cancelled : BOOLEAN]]]
         /\ task' \in [Chats -> {0} \cup Slots] /\ UNCHANGED pending
         /\ \A d \in Chats \ {c} : flush'[d] = flush[d] /\ task'[d] = task[d]
         /\ \A k \in Slots : k # job.slot \/ job.owner # "flush" => flush'[c][k] = flush[c][k]
         /\ TaskOK(c)'
    <2>1. CASE job.owner = "flush"
      <3>1. job.slot \in Slots /\ flush[c][job.slot].at = "publish"
        BY <1>6, <2>1 DEF JobOK
      <3>2. FlushPublished(c, job.slot)
        BY <1>7, <2>1
      <3> QED BY <1>6, <1>13, <2>1, <3>1, <3>2, FlushGoesOn DEF Local
    <2>2. CASE job.owner # "flush"
      <3>1. UNCHANGED <<flush, task, pending>>
        BY <1>7, <2>2 DEF flushing
      <3>2. TaskOK(c)'
        BY <1>6, <1>13, <3>1 DEF Local, TaskOK, Runs, Live
      <3> QED BY <2>2, <3>1, <3>2 DEF ShapeInv
    <2> QED BY <2>1, <2>2
  <1>16. ShapeInv'
    BY <1>3, <1>7, <1>9, <1>11, <1>15 DEF ShapeInv
  <1>17. \A d \in Chats \ {c} : Same(d)
    BY <1>3, <1>7, <1>8, <1>9, <1>11, <1>12, <1>15 DEF Same
  <1>18. CardsGrow
    <2>1. ASSUME NEW d \in Chats
          PROVE  /\ Len(cards[d]) <= Len(cards'[d])
                 /\ \A k \in 1..Len(cards[d]) : cards[d][k].seq <= cards'[d][k].seq
      <3>1. Len(cards[d]) \in Nat /\ \A k \in 1..Len(cards[d]) : cards[d][k].seq \in Nat
        BY CardParts
      <3>2. CASE d = c
        BY <1>3, <1>9, <3>1, <3>2
      <3>3. CASE d # c
        BY <1>3, <1>9, <3>1, <3>3
      <3> QED BY <3>2, <3>3
    <2> QED BY <2>1 DEF CardsGrow
  <1>19. LateInv'
    BY <1>7, <1>16, <1>18, LateGrows
  <1>20. JobsOK(c)'
    <2>1. \A n \in 1..Len(queue[c]) : JobOK(c, queue[c][n]) /\ (n # 1 => queue[c][n].at = "wait")
      BY <1>6 DEF Local, JobsOK
    <2>2. \A n, m \in 1..Len(queue[c]) :
            queue[c][n].owner = "flush" /\ queue[c][m].owner = "flush"
              /\ queue[c][n].slot = queue[c][m].slot => n = m
      BY <1>6 DEF Local, JobsOK
    <2>3. ASSUME NEW n \in 1..Len(queue'[c]) PROVE JobOK(c, queue[c][n])'
      <3>1. n + 1 \in 1..Len(queue[c]) /\ n + 1 # 1
        BY <1>8
      <3>2. PICK j : j = queue[c][n + 1]
        OBVIOUS
      <3>3. JobOK(c, j) /\ queue'[c][n] = j
        BY <1>8, <2>1, <3>1, <3>2
      <3>4. j.reuse \in 0..Len(cs[c])
        BY <1>6, <1>9, <3>3 DEF JobOK
      <3>5. ASSUME j.owner = "flush" PROVE flush'[c][j.slot] = flush[c][j.slot] /\ j.slot \in Slots
        <4>1. j.slot # job.slot \/ job.owner # "flush"
          BY <1>6, <2>2, <3>1, <3>2, <3>5 DEF job
        <4> QED BY <1>15, <3>3, <3>5, <4>1 DEF JobOK
      <3>6. ASSUME j.owner = "user" PROVE Free(c)'
        BY <1>12, <1>13, <3>3, <3>6 DEF JobOK, Free
      <3> QED BY <1>3, <3>3, <3>4, <3>5, <3>6 DEF JobOK
    <2>4. \A n \in 1..Len(queue'[c]) : queue'[c][n].at = "wait"
      BY <1>8, <2>1
    <2>5. \A n \in 1..Len(queue'[c]) : queue'[c][n].at = "wait" => HeadOK(c, queue[c][n])'
      BY DEF HeadOK
    <2>6. \A n, m \in 1..Len(queue'[c]) :
            queue'[c][n].owner = "flush" /\ queue'[c][m].owner = "flush"
              /\ queue'[c][n].slot = queue'[c][m].slot => n = m
      <3> TAKE n, m \in 1..Len(queue'[c])
      <3> HAVE queue'[c][n].owner = "flush" /\ queue'[c][m].owner = "flush"
               /\ queue'[c][n].slot = queue'[c][m].slot
      <3>1. n + 1 = m + 1
        BY <1>8, <2>2
      <3> QED BY <3>1
    <2> QED BY <2>3, <2>4, <2>5, <2>6 DEF JobsOK
  <1>21. CardsOK(c)'
    BY <1>3, <1>6, <1>9, <1>10, <1>11, <1>12, <1>13, <1>14 DEF Local, CardsOK
  <1>22. UnboundOK(c)'
    BY <1>3, <1>6, <1>7 DEF Local, UnboundOK
  \* Either another publisher is last, or what it has shown is the newest.
  <1>23. /\ Len(queue[c]) # 1 => queue'[c][Len(queue'[c])] = queue[c][Len(queue[c])]
         /\ Len(queue[c]) = 1 => queue[c][Len(queue[c])] = job /\ job.at # "wait"
    <2>1. ASSUME Len(queue[c]) # 1 PROVE queue'[c][Len(queue'[c])] = queue[c][Len(queue[c])]
      <3>1. Len(queue'[c]) \in 1..Len(queue'[c]) /\ Len(queue'[c]) + 1 = Len(queue[c])
        BY <1>6, <1>8, <2>1
      <3> QED BY <1>8, <3>1
    <2>2. job.at # "wait"
      BY <1>3
    <2> QED BY <2>1, <2>2 DEF job
  <1>24. ViewOK(c)'
    <2>1. CASE Len(queue[c]) = 1
      BY <1>3, <1>6, <1>7, <1>8, <1>10, <1>13, <1>14, <1>23, <2>1 DEF Local, ViewOK
    <2>2. CASE Len(queue[c]) # 1
      BY <1>3, <1>6, <1>7, <1>8, <1>13, <1>23, <2>2 DEF Local, ViewOK
    <2> QED BY <2>1, <2>2
  <1>25. Promise(c)'
    <2>1. Watched(c) => Newest(c)' = Newest(c)
      <3>1. CASE Len(queue[c]) = 1
        BY <1>3, <1>8, <1>10, <1>14, <1>15, <1>23, <3>1 DEF Newest
      <3>2. CASE Len(queue[c]) # 1
        BY <1>3, <1>8, <1>15, <1>23, <3>2 DEF Newest
      <3> QED BY <3>1, <3>2
    <2> QED BY <1>6, <1>7, <1>13, <2>1, StillPromised
  <1>26. Local(c)'
    BY <1>15, <1>20, <1>21, <1>22, <1>24 DEF Local
  <1> QED BY <1>7, <1>16, <1>17, <1>19, <1>25, <1>26, OneChat

\* A publisher joins the queue.
LEMMA Joined ==
  ASSUME QueueInv, NEW c \in Chats, JobsOK(c), NEW j, queue' = Enqueued(c, j), j.at = "wait",
         JobOK(c, j)', NEW q, q = queue[c], \A n \in 1..Len(q) : JobOK(c, q[n])',
         \A n \in 1..Len(q) : HeadOK(c, q[n]) => HeadOK(c, q[n])',
         j.owner = "flush" => \A n \in 1..Len(q) : q[n].owner = "flush" => q[n].slot # j.slot
  PROVE  JobsOK(c)'
  <1>1. /\ Len(queue'[c]) = Len(q) + 1 /\ Len(q) \in Nat
        /\ \A n \in 1..Len(q) : queue'[c][n] = q[n]
        /\ queue'[c][Len(queue'[c])] = j
    BY Longer
  <1>2. \A n \in 1..Len(queue'[c]) : \/ n = Len(queue'[c]) /\ queue'[c][n] = j
                                     \/ n \in 1..Len(q) /\ queue'[c][n] = q[n] /\ n # Len(queue'[c])
    BY <1>1
  <1>3. HeadOK(c, j)'
    BY DEF HeadOK
  <1>4. ASSUME NEW n \in 1..Len(queue'[c])
        PROVE  /\ JobOK(c, queue[c][n])'
               /\ IF n = 1 THEN HeadOK(c, queue[c][n])' ELSE queue'[c][n].at = "wait"
    <2>1. PICK x : x = queue'[c][n]
      OBVIOUS
    <2>2. CASE x = j
      <3>1. JobOK(c, x)' /\ HeadOK(c, x)' /\ x.at = "wait"
        BY <1>3, <2>2
      <3> QED BY <2>1, <3>1 DEF JobOK, HeadOK
    <2>3. CASE n \in 1..Len(q) /\ x = q[n]
      <3>1. IF n = 1 THEN HeadOK(c, q[n]) ELSE q[n].at = "wait"
        BY <2>3 DEF JobsOK
      <3>2. PICK y : y = q[n]
        OBVIOUS
      <3>3. JobOK(c, y)' /\ (IF n = 1 THEN HeadOK(c, y)' ELSE y.at = "wait")
        BY <2>3, <3>1, <3>2
      <3> QED BY <2>1, <2>3, <3>2, <3>3 DEF JobOK, HeadOK
    <2> QED BY <1>2, <2>1, <2>2, <2>3
  <1>5. \A n, m \in 1..Len(q) : q[n].owner = "flush" /\ q[m].owner = "flush"
                                  /\ q[n].slot = q[m].slot => n = m
    BY DEF JobsOK
  <1>6. \A n, m \in 1..Len(queue'[c]) :
          queue'[c][n].owner = "flush" /\ queue'[c][m].owner = "flush"
            /\ queue'[c][n].slot = queue'[c][m].slot => n = m
    <2> SUFFICES ASSUME NEW n \in 1..Len(queue'[c]), NEW m \in 1..Len(queue'[c]),
                        queue'[c][n].owner = "flush", queue'[c][m].owner = "flush",
                        queue'[c][n].slot = queue'[c][m].slot
                 PROVE  n = m
      OBVIOUS
    <2>1. CASE n = Len(queue'[c]) /\ m = Len(queue'[c])
      BY <2>1
    <2>2. CASE n = Len(queue'[c]) /\ m # Len(queue'[c])
      <3>1. queue'[c][n] = j /\ m \in 1..Len(q) /\ queue'[c][m] = q[m]
        BY <1>2, <2>2
      <3> QED BY <3>1
    <2>3. CASE n # Len(queue'[c]) /\ m = Len(queue'[c])
      <3>1. queue'[c][m] = j /\ n \in 1..Len(q) /\ queue'[c][n] = q[n]
        BY <1>2, <2>3
      <3> QED BY <3>1
    <2>4. CASE n # Len(queue'[c]) /\ m # Len(queue'[c])
      <3>1. /\ n \in 1..Len(q) /\ queue'[c][n] = q[n]
            /\ m \in 1..Len(q) /\ queue'[c][m] = q[m]
        BY <1>2, <2>4
      <3> QED BY <1>5, <3>1
    <2> QED BY <2>1, <2>2, <2>3, <2>4
  <1> QED BY <1>4, <1>6 DEF JobsOK

\* One task's record changes.
LEMMA FlushSet ==
  ASSUME ShapeInv, NEW c \in Chats, NEW i \in Slots,
         NEW f \in [at : {"sleep", "publish", "done"}, cancelled : BOOLEAN],
         flush' = [flush EXCEPT ![c][i] = f]
  PROVE  /\ flush' \in [Chats -> [Slots -> [at : {"sleep", "publish", "done"},
                                            cancelled : BOOLEAN]]]
         /\ \A d \in Chats \ {c} : flush'[d] = flush[d]
         /\ \A k \in Slots \ {i} : flush'[c][k] = flush[c][k]
         /\ flush'[c][i] = f
  <1> DEFINE Records == [at : {"sleep", "publish", "done"}, cancelled : BOOLEAN]
             new == [flush[c] EXCEPT ![i] = f]
  <1>1. flush \in [Chats -> [Slots -> Records]]
    BY DEF ShapeInv
  <1>2. flush' = [flush EXCEPT ![c] = new]
    BY <1>1
  <1>3. new \in [Slots -> Records] /\ new[i] = f /\ \A k \in Slots \ {i} : new[k] = flush[c][k]
    BY <1>1
  <1> HIDE DEF new
  <1>4. /\ flush' \in [Chats -> [Slots -> Records]] /\ flush'[c] = new
        /\ \A d \in Chats \ {c} : flush'[d] = flush[d]
    BY <1>1, <1>2, <1>3
  <1> QED BY <1>3, <1>4

\* A flush task takes what is pending to the queue, or finds nothing and ends.
LEMMA WakeLocal ==
  ASSUME ShapeInv, QueueInv, LocalInv, PromiseInv, LateInv, NEW c \in Chats, NEW i \in Slots,
         FlushWake(c, i)
  PROVE  ShapeInv' /\ LocalInv' /\ PromiseInv' /\ LateInv'
  <1> DEFINE Records == [at : {"sleep", "publish", "done"}, cancelled : BOOLEAN]
  <1>1. /\ flush[c][i] = [at |-> "sleep", cancelled |-> FALSE]
        /\ UNCHANGED <<cards, late, active, states, dirty, changes, bindings, views, crossed,
                       attach, detach>>
    BY DEF FlushWake, lark, projection, binding, commands
  <1>2. Local(c) /\ Promise(c)
    BY DEF LocalInv, PromiseInv
  <1>3. /\ flush \in [Chats -> [Slots -> Records]] /\ task \in [Chats -> {0} \cup Slots]
        /\ pending \in [Chats -> Projected]
    BY DEF ShapeInv
  <1>4. (Watched(c)' <=> Watched(c)) /\ (Free(c)' <=> Free(c))
    BY <1>1 DEF Watched, Free
  <1>5. CardsGrow
    BY <1>1, CardsStay
  <1>6. NoState \in Projected
    BY DEF NoState, Projected, Partial
  <1>7. Runs(c, i)
    BY <1>1 DEF Runs, Live
  <1>8. \A x : HeadOK(c, x) => HeadOK(c, x)'
    BY <1>1, <1>4 DEF HeadOK
  <1>9. CASE pending[c] # NoState
    <2>1. PICK j : j = Job("flush", i, pending[c], FALSE, 0)
      OBVIOUS
    <2> DEFINE f == [flush[c][i] EXCEPT !.at = "publish"]
    <2>2. /\ queue' = Enqueued(c, j) /\ pending' = [pending EXCEPT ![c] = NoState]
          /\ flush' = [flush EXCEPT ![c][i].at = "publish"] /\ UNCHANGED task
      BY <1>9, <2>1 DEF FlushWake
    <2>3. flush' = [flush EXCEPT ![c][i] = f]
      BY <1>3, <2>2
    <2>4. f \in Records /\ f.at = "publish" /\ f.cancelled = flush[c][i].cancelled
      BY <1>3
    <2> HIDE DEF f
    <2>5. /\ flush' \in [Chats -> [Slots -> Records]]
          /\ \A d \in Chats \ {c} : flush'[d] = flush[d]
          /\ \A k \in Slots \ {i} : flush'[c][k] = flush[c][k]
          /\ flush'[c][i] = f
      <3>1. f \in [at : {"sleep", "publish", "done"}, cancelled : BOOLEAN]
        BY <2>4
      <3> QED BY <2>3, <3>1, FlushSet
    <2>6. /\ pending' \in [Chats -> Projected] /\ pending'[c] = NoState
          /\ \A d \in Chats \ {c} : pending'[d] = pending[d]
      BY <1>3, <1>6, <2>2
    <2>7. ShapeInv'
      BY <1>1, <2>2, <2>5, <2>6 DEF ShapeInv
    <2>8. /\ Len(queue'[c]) = Len(queue[c]) + 1 /\ Len(queue[c]) \in Nat /\ queue'[c] # <<>>
          /\ queue'[c][Len(queue'[c])] = j
          /\ \A d \in Chats \ {c} : queue'[d] = queue[d]
      BY <2>2, Longer
    <2>9. \A d \in Chats \ {c} : Same(d)
      BY <1>1, <2>2, <2>5, <2>6, <2>8 DEF Same
    <2>10. \A k \in Slots : (Live(c, k)' <=> Live(c, k)) /\ (Runs(c, k)' <=> Runs(c, k))
      <3>1. flush[c][i].at = "sleep" /\ flush'[c][i].at = "publish"
        BY <1>1, <2>4, <2>5
      <3>2. flush'[c][i].cancelled = flush[c][i].cancelled
        BY <2>4, <2>5, Zenon
      <3>3. \A k \in Slots : flush'[c][k].cancelled = flush[c][k].cancelled
        BY <2>5, <3>2, Zenon
      <3>4. \A k \in Slots : flush'[c][k].at = "done" <=> flush[c][k].at = "done"
        BY <2>5, <3>1
      <3> QED BY <3>3, <3>4, Zenon DEF Live, Runs
    <2>11. TaskOK(c)'
      BY <1>2, <1>3, <1>4, <2>2, <2>6, <2>10 DEF Local, TaskOK
    <2>12. /\ j.owner = "flush" /\ j.slot = i /\ j.state = pending[c] /\ j.at = "wait"
           /\ j.view = "latest" /\ j.reuse = 0
      BY <2>1 DEF Job
    <2>13. JobOK(c, j)'
      <3>1. Len(cards[c]) \in Nat
        BY CardParts
      <3> QED BY <1>1, <1>3, <2>4, <2>5, <2>12, <3>1 DEF JobOK, Views
    <2>14. PICK q : q = queue[c]
      OBVIOUS
    <2>15. \A n \in 1..Len(q) : JobOK(c, q[n])
      BY <1>2, <2>14 DEF Local, JobsOK
    <2>16. \A x : JobOK(c, x) => JobOK(c, x)'
      BY <1>1, <1>4, <2>5 DEF JobOK
    <2>17. \A n \in 1..Len(q) : q[n].owner = "flush" => q[n].slot # j.slot
      BY <1>1, <2>12, <2>15 DEF JobOK
    <2>18. JobsOK(c)
      BY <1>2 DEF Local
    <2>19. JobsOK(c)'
      BY <1>8, <2>2, <2>12, <2>13, <2>14, <2>15, <2>16, <2>17, <2>18, Joined
    <2>20. CardsOK(c)'
      BY <1>1, <1>2, <2>8 DEF Local, CardsOK
    <2>21. UnboundOK(c)'
      BY <1>1, <1>2, <1>7 DEF Local, UnboundOK, Runs
    <2>22. ViewOK(c)'
      BY <2>8, <2>12 DEF ViewOK
    <2>23. Local(c)'
      BY <2>11, <2>19, <2>20, <2>21, <2>22 DEF Local
    <2>24. Newest(c)' = Newest(c)
      BY <1>9, <2>6, <2>8, <2>12 DEF Newest
    <2>25. Promise(c)'
      BY <1>1, <1>2, <1>4, <2>24, StillPromised
    <2>26. LateInv'
      BY <1>1, <1>5, <2>7, LateGrows
    <2> QED BY <1>1, <2>7, <2>9, <2>23, <2>25, <2>26, OneChat
  <1>10. CASE pending[c] = NoState
    <2>1. /\ flush' = [flush EXCEPT ![c][i] = Done] /\ task' = [task EXCEPT ![c] = 0]
          /\ UNCHANGED <<queue, pending>>
      BY <1>10 DEF FlushWake
    <2>2. Done \in Records /\ Done.at = "done"
      BY DEF Done
    <2>3. /\ flush' \in [Chats -> [Slots -> Records]]
          /\ \A d \in Chats \ {c} : flush'[d] = flush[d]
          /\ \A k \in Slots \ {i} : flush'[c][k] = flush[c][k]
          /\ flush'[c][i] = Done
      BY <2>1, <2>2, FlushSet
    <2>4. /\ task' \in [Chats -> {0} \cup Slots] /\ task'[c] = 0
          /\ \A d \in Chats \ {c} : task'[d] = task[d]
      BY <1>3, <2>1
    <2>5. ShapeInv'
      BY <1>1, <2>1, <2>3, <2>4 DEF ShapeInv
    <2>6. \A d \in Chats \ {c} : Same(d)
      BY <1>1, <2>1, <2>3, <2>4 DEF Same
    <2>7. \A k \in Slots : /\ Live(c, k)' => Live(c, k) /\ k # i
                           /\ k # i => (Runs(c, k)' <=> Runs(c, k))
      BY <2>2, <2>3 DEF Live, Runs
    <2>8. TaskOK(c)'
      BY <1>2, <1>4, <1>10, <2>1, <2>4, <2>7 DEF Local, TaskOK
    <2>9. \A x : JobOK(c, x) => JobOK(c, x)'
      BY <1>1, <1>4, <2>3 DEF JobOK
    <2>10. JobsOK(c)'
      BY <1>2, <1>8, <2>1, <2>9 DEF Local, JobsOK, JobOK, HeadOK
    <2>11. CardsOK(c)' /\ UnboundOK(c)' /\ ViewOK(c)'
      BY <1>1, <1>2, <1>4, <1>7, <2>1 DEF Local, CardsOK, UnboundOK, ViewOK, Runs
    <2>12. Local(c)'
      BY <2>8, <2>10, <2>11 DEF Local
    <2>13. Newest(c)' = Newest(c)
      BY <1>1, <2>1 DEF Newest
    <2>14. Promise(c)'
      BY <1>1, <1>2, <1>4, <2>13, StillPromised
    <2>15. LateInv'
      BY <1>1, <1>5, <2>5, LateGrows
    <2> QED BY <1>1, <2>5, <2>6, <2>12, <2>14, <2>15, OneChat
  <1> QED BY <1>9, <1>10

\* A cancelled flush task is gone, and with it its job; no watched chat has one.
LEMMA CancelledLocal ==
  ASSUME ShapeInv, QueueInv, LocalInv, PromiseInv, LateInv, NEW c \in Chats, NEW i \in Slots,
         FlushCancelled(c, i)
  PROVE  ShapeInv' /\ LocalInv' /\ PromiseInv' /\ LateInv'
  <1> DEFINE Records == [at : {"sleep", "publish", "done"}, cancelled : BOOLEAN]
             mine == {n \in DOMAIN queue[c] : queue[c][n].owner = "flush"
                                              /\ queue[c][n].slot = i}
             n0 == CHOOSE n \in mine : TRUE
  <1>1. /\ Live(c, i) /\ ~Runs(c, i)
        /\ flush' = [flush EXCEPT ![c][i] = Done] /\ task' = [task EXCEPT ![c] = 0]
        /\ queue' = [queue EXCEPT ![c] = IF mine = {} THEN queue[c] ELSE RemoveAt(queue[c], n0)]
        /\ late' = IF 1 \in mine /\ queue[c][1].at \in {"update", "post"}
                     THEN late \cup {Request(c, queue[c][1])} ELSE late
        /\ UNCHANGED <<cards, active, states, dirty, changes, bindings, views, crossed, pending,
                       attach, detach>>
    BY DEF FlushCancelled, projection, binding, commands, Live, Runs, QueueInv
  <1>2. Local(c) /\ Promise(c) /\ ~Watched(c) /\ ~Watched(c)'
    BY <1>1 DEF LocalInv, PromiseInv, Local, TaskOK, Watched
  <1>3. task \in [Chats -> {0} \cup Slots] /\ Done \in Records /\ Done.at = "done"
    BY DEF ShapeInv, Done
  <1>4. /\ flush' \in [Chats -> [Slots -> Records]]
        /\ \A d \in Chats \ {c} : flush'[d] = flush[d]
        /\ \A k \in Slots \ {i} : flush'[c][k] = flush[c][k]
        /\ flush'[c][i] = Done
    BY <1>1, <1>3, FlushSet
  <1>5. /\ task' \in [Chats -> {0} \cup Slots] /\ task'[c] = 0
        /\ \A d \in Chats \ {c} : task'[d] = task[d]
    BY <1>1, <1>3
  <1>6. ShapeInv'
    BY <1>1, <1>4, <1>5 DEF ShapeInv
  <1>7. \A d \in Chats \ {c} : queue'[d] = queue[d]
    BY <1>1 DEF QueueInv
  <1>8. \A d \in Chats \ {c} : Same(d)
    BY <1>1, <1>4, <1>5, <1>7 DEF Same
  <1>9. \A k \in Slots : Runs(c, k) => Runs(c, k)'
    <2>1. \A k \in Slots : Runs(c, k) => k # i
      BY <1>1
    <2> QED BY <1>4, <2>1 DEF Live, Runs
  <1>10. TaskOK(c)'
    BY <1>2, <1>1, <1>5, <1>9 DEF Local, TaskOK
  \* Every job that is left was there before, and is not task i's.
  <1>11. /\ \A n, m \in 1..Len(queue[c]) :
              queue[c][n].owner = "flush" /\ queue[c][m].owner = "flush"
                /\ queue[c][n].slot = queue[c][m].slot => n = m
         /\ \A n \in 1..Len(queue[c]) :
              /\ JobOK(c, queue[c][n])
              /\ IF n = 1 THEN HeadOK(c, queue[c][n]) ELSE queue[c][n].at = "wait"
         /\ DOMAIN queue[c] = 1..Len(queue[c]) /\ Len(queue[c]) \in Nat
    BY <1>2, QueueParts DEF Local, JobsOK
  <1>12. PICK from : /\ \A n \in 1..Len(queue'[c]) :
                          /\ from[n] \in 1..Len(queue[c]) /\ from[n] \notin mine
                          /\ queue'[c][n] = queue[c][from[n]]
                          /\ n # 1 => from[n] # 1
                     /\ \A n, m \in 1..Len(queue'[c]) : from[n] = from[m] => n = m
    <2>1. CASE mine = {}
      <3>1. queue'[c] = queue[c]
        BY <1>1, <2>1 DEF QueueInv
      <3> DEFINE id == [n \in 1..Len(queue[c]) |-> n]
      <3>2. \A n \in 1..Len(queue[c]) : id[n] = n
        OBVIOUS
      <3> HIDE DEF id, mine
      <3> QED BY <2>1, <3>1, <3>2
    <2>2. CASE mine # {}
      <3>1. n0 \in mine /\ n0 \in 1..Len(queue[c])
        BY <1>11, <2>2
      <3>2. \A n \in mine : n = n0
        BY <1>11, <3>1
      <3>3. queue'[c] = RemoveAt(queue[c], n0)
        BY <1>1, <2>2 DEF QueueInv
      <3> HIDE DEF mine, n0
      <3>4. /\ Len(queue'[c]) = Len(queue[c]) - 1
            /\ \A m \in 1..Len(queue'[c]) :
                 /\ (IF m < n0 THEN m ELSE m + 1) \in 1..Len(queue[c])
                 /\ queue'[c][m] = queue[c][IF m < n0 THEN m ELSE m + 1]
        <4>1. queue[c] \in Seq(Range(queue[c])) /\ n0 \in DOMAIN queue[c]
          BY <1>11, <3>1, QueueParts
        <4> QED BY <3>3, <4>1, Removed
      <3> DEFINE f == [m \in 1..Len(queue'[c]) |-> IF m < n0 THEN m ELSE m + 1]
      <3>5. \A m \in 1..Len(queue'[c]) : f[m] = IF m < n0 THEN m ELSE m + 1
        OBVIOUS
      <3> HIDE DEF f
      <3>6. \A m \in 1..Len(queue'[c]) : /\ f[m] \in 1..Len(queue[c]) /\ f[m] # n0
                                         /\ queue'[c][m] = queue[c][f[m]]
                                         /\ m # 1 => f[m] # 1
        BY <1>11, <3>1, <3>4, <3>5
      <3>7. \A m, k \in 1..Len(queue'[c]) : f[m] = f[k] => m = k
        BY <1>11, <3>1, <3>4, <3>5
      <3>8. \A m \in 1..Len(queue'[c]) : f[m] \notin mine
        BY <3>2, <3>6
      <3> QED BY <3>6, <3>7, <3>8
    <2> QED BY <2>1, <2>2
  <1>13. \A k \in 1..Len(queue[c]) : k \notin mine =>
           queue[c][k].owner # "flush" \/ queue[c][k].slot # i
    BY <1>11
  <1>14. 1 \in mine => queue[c] # <<>>
    BY <1>11, QueueParts
  <1> HIDE DEF mine, n0
  <1>15. JobsOK(c)'
    <2>1. ASSUME NEW n \in 1..Len(queue'[c])
          PROVE  /\ JobOK(c, queue[c][n])'
                 /\ IF n = 1 THEN HeadOK(c, queue[c][n])' ELSE queue'[c][n].at = "wait"
      <3>1. PICK j : j = queue'[c][n]
        OBVIOUS
      <3>2. /\ from[n] \in 1..Len(queue[c]) /\ from[n] \notin mine
            /\ j = queue[c][from[n]] /\ (n # 1 => from[n] # 1)
        BY <1>12, <3>1
      <3>3. JobOK(c, j) /\ (HeadOK(c, j) \/ j.at = "wait") /\ (n # 1 => j.at = "wait")
        BY <1>11, <3>2
      <3>4. j.owner # "flush" \/ j.slot # i
        BY <1>13, <3>2
      <3>5. JobOK(c, j)'
        BY <1>1, <1>4, <3>3, <3>4 DEF JobOK, Free
      <3>6. HeadOK(c, j)'
        BY <1>1, <1>2, <3>3 DEF HeadOK
      <3> QED BY <3>1, <3>3, <3>5, <3>6 DEF JobOK, HeadOK
    <2>2. \A n, m \in 1..Len(queue'[c]) :
            queue'[c][n].owner = "flush" /\ queue'[c][m].owner = "flush"
              /\ queue'[c][n].slot = queue'[c][m].slot => n = m
      <3> TAKE n, m \in 1..Len(queue'[c])
      <3> HAVE queue'[c][n].owner = "flush" /\ queue'[c][m].owner = "flush"
               /\ queue'[c][n].slot = queue'[c][m].slot
      <3>1. /\ from[n] \in 1..Len(queue[c]) /\ queue'[c][n] = queue[c][from[n]]
            /\ from[m] \in 1..Len(queue[c]) /\ queue'[c][m] = queue[c][from[m]]
        BY <1>12
      <3>2. from[n] = from[m]
        BY <1>11, <3>1
      <3> QED BY <1>12, <3>2
    <2> QED BY <2>1, <2>2 DEF JobsOK
  <1>16. CardsOK(c)' /\ ViewOK(c)'
    BY <1>1, <1>2 DEF Local, CardsOK, ViewOK
  <1>17. UnboundOK(c)'
    BY <1>1, <1>2 DEF Local, UnboundOK
  <1>18. Local(c)'
    BY <1>10, <1>15, <1>16, <1>17 DEF Local
  <1>19. Promise(c)'
    BY <1>2 DEF Promise
  <1>20. LateInv'
    <2>1. CardsGrow
      BY <1>1, CardsStay
    <2>2. \A r : LateOK(r) => LateOK(r)'
      BY <1>1 DEF LateOK
    <2>3. CASE late' = late
      BY <1>6, <2>1, <2>3, LateGrows
    <2>4. CASE /\ 1 \in mine /\ queue[c][1].at \in {"update", "post"}
               /\ late' = late \cup {Request(c, queue[c][1])}
      <3>1. PICK r : r = Request(c, queue[c][1])
        OBVIOUS
      <3>2. queue[c] # <<>> /\ queue[c][1].at \in {"reuse", "update", "post"}
        BY <1>14, <2>4
      <3>3. LateOK(r)
        BY <3>1, <3>2, RequestOK
      <3>4. late' = late \cup {r}
        BY <2>4, <3>1
      <3> QED BY <2>2, <3>3, <3>4 DEF LateInv
    <2> QED BY <1>1, <2>3, <2>4
  <1> QED BY <1>1, <1>6, <1>8, <1>18, <1>19, <1>20, OneChat

\* A request whose caller was cancelled arrives, too late for a card at rest.
LEMMA LateLocal ==
  ASSUME ShapeInv, LocalInv, PromiseInv, LateInv, NEW r \in late, LateRequest(r)
  PROVE  ShapeInv' /\ LocalInv' /\ PromiseInv' /\ LateInv'
  <1> DEFINE c == r.chat
  <1>1. LateOK(r) /\ c \in Chats
    BY DEF LateInv, LateOK
  <1>2. /\ late' \subseteq late /\ cards' \in {cards, Applied(r)}
        /\ UNCHANGED <<active, states, dirty, changes, flush, task, pending, bindings, views,
                       crossed, attach, detach, queue>>
    BY DEF LateRequest, projection, flushing, binding, commands
  <1>3. PICK cs : cs = cards'
    OBVIOUS
  <1>4. /\ cs \in [Chats -> Seq(Sheets)] /\ \A d \in Chats \ {c} : cs[d] = cards[d]
        /\ Len(cards[c]) <= Len(cs[c])
        /\ \A k \in 1..Len(cards[c]) :
             /\ cs[c][k].seq = cards[c][k].seq
             /\ cards[c][k].lark = cards[c][k].seq => cs[c][k] = cards[c][k]
    <2>1. Len(cards[c]) \in Nat
      BY <1>1, CardParts
    <2>2. CASE cs = cards
      BY <2>1, <2>2 DEF ShapeInv
    <2>3. CASE cs = Applied(r)
      <3>1. Arrived(r, cs)
        BY <1>1, <2>3, AppliedCards
      <3>2. /\ cs \in [Chats -> Seq(Sheets)] /\ \A d \in Chats \ {c} : cs[d] = cards[d]
            /\ Len(cards[c]) <= Len(cs[c])
        BY <2>1, <3>1 DEF Arrived
      <3>3. ASSUME NEW k \in 1..Len(cards[c])
            PROVE  /\ cs[c][k].seq = cards[c][k].seq
                   /\ cards[c][k].lark = cards[c][k].seq => cs[c][k] = cards[c][k]
        <4>1. CASE k # r.card
          BY <3>1, <4>1 DEF Arrived
        <4>2. CASE k = r.card
          <5>1. r.card # 0 /\ r.seq \in Nat /\ r.seq <= cards[c][k].seq
                /\ cards[c][k].seq \in Nat
            BY <1>1, <2>1, <4>2, CardParts DEF LateOK
          <5>2. cards[c][k].lark = cards[c][k].seq => ~(r.seq > cards[c][r.card].lark)
            BY <4>2, <5>1
          <5> QED BY <3>1, <4>2, <5>1, <5>2 DEF Arrived
        <4> QED BY <4>1, <4>2
      <3> QED BY <3>2, <3>3
    <2> QED BY <1>2, <1>3, <2>2, <2>3
  <1>5. Local(c) /\ Promise(c)
    BY <1>1 DEF LocalInv, PromiseInv
  <1> HIDE DEF c
  <1>6. ShapeInv'
    BY <1>2, <1>3, <1>4 DEF ShapeInv
  <1>7. \A d \in Chats \ {c} : Same(d)
    BY <1>2, <1>3, <1>4 DEF Same
  <1>8. (Watched(c)' <=> Watched(c)) /\ (Free(c)' <=> Free(c))
    BY <1>2 DEF Watched, Free
  <1>9. Len(cards[c]) \in Nat /\ Len(cs[c]) \in Nat
    <2>1. cs[c] \in Seq(Sheets)
      BY <1>1, <1>4
    <2> QED BY <1>1, <2>1, CardParts, LenProperties
  <1>10. CardsGrow
    <2>1. ASSUME NEW d \in Chats
          PROVE  /\ Len(cards[d]) <= Len(cards'[d])
                 /\ \A k \in 1..Len(cards[d]) : cards[d][k].seq <= cards'[d][k].seq
      <3>1. Len(cards[d]) \in Nat /\ \A k \in 1..Len(cards[d]) : cards[d][k].seq \in Nat
        BY CardParts
      <3>2. CASE d = c
        BY <1>3, <1>4, <3>1, <3>2
      <3>3. CASE d # c
        BY <1>3, <1>4, <3>1, <3>3
      <3> QED BY <3>2, <3>3
    <2> QED BY <2>1 DEF CardsGrow
  <1>11. LateInv'
    BY <1>2, <1>6, <1>10, LateGrows
  \* The active card of a watched chat at rest has its last sequence.
  <1>12. Watched(c) /\ queue[c] = <<>> /\ active[c] # 0 => cs[c][active[c]] = cards[c][active[c]]
    BY <1>4, <1>5, <1>9 DEF Local, CardsOK
  <1>13. \A x : (JobOK(c, x) => JobOK(c, x)') /\ (HeadOK(c, x) => HeadOK(c, x)')
    BY <1>2, <1>3, <1>4, <1>8, <1>9 DEF JobOK, HeadOK
  <1>14. JobsOK(c)'
    <2>1. PICK q : q = queue[c]
      OBVIOUS
    <2>2. \A n \in 1..Len(q) : /\ JobOK(c, q[n])'
                               /\ IF n = 1 THEN HeadOK(c, q[n])' ELSE q[n].at = "wait"
      BY <1>5, <1>13, <2>1 DEF Local, JobsOK
    <2>3. queue'[c] = q
      BY <1>2, <2>1
    <2> QED BY <1>5, <2>1, <2>2, <2>3 DEF Local, JobsOK, JobOK, HeadOK
  <1>15. TaskOK(c)' /\ CardsOK(c)' /\ UnboundOK(c)' /\ ViewOK(c)'
    <2>1. TaskOK(c)' /\ UnboundOK(c)'
      BY <1>2, <1>5, <1>8 DEF Local, TaskOK, UnboundOK, Runs, Live
    <2>2. CardsOK(c)'
      BY <1>2, <1>3, <1>4, <1>5, <1>8, <1>9, <1>12 DEF Local, CardsOK
    <2>3. ViewOK(c)'
      BY <1>2, <1>3, <1>5, <1>8, <1>12 DEF Local, ViewOK
    <2> QED BY <2>1, <2>2, <2>3
  <1>16. Local(c)'
    BY <1>14, <1>15 DEF Local
  <1>17. Promise(c)'
    <2>1. Watched(c) /\ bindings[c] # NoThread => Newest(c)' = Newest(c)
      BY <1>2, <1>3, <1>5, <1>12 DEF Newest, Local, ViewOK
    <2> QED BY <1>1, <1>2, <1>5, <1>8, <2>1, StillPromised
  <1> QED BY <1>1, <1>2, <1>6, <1>7, <1>11, <1>16, <1>17, OneChat

-----------------------------------------------------------------------------
(* The handlers of broadcasts and the refresh loop *)

Bindings == \A c \in Chats : bindings[c] \in Threads \cup {NoThread}
LEMMA BindingsHold == ASSUME FollowInv, stranded = {} PROVE Bindings
  BY DEF FollowInv, PhaseInv, Phase, HeardInv, Heard, NeededInv, Bindings

\* The chats do nothing.
LEMMA ChatsStay ==
  ASSUME ShapeInv, LocalInv, LateInv, UNCHANGED <<flushing, lark, binding, commands, queue>>,
         PromiseInv'
  PROVE  ShapeInv' /\ LocalInv' /\ PromiseInv' /\ LateInv'
  <1>1. UNCHANGED <<flush, task, pending, cards, late, active, bindings, views, crossed, attach,
                    detach, queue>>
    BY DEF flushing, lark, binding, commands
  <1>2. ShapeInv'
    BY <1>1 DEF ShapeInv
  <1>3. \A d \in Chats : Same(d)
    BY <1>1 DEF Same
  <1>4. LocalInv'
    BY <1>3, SameLocal DEF LocalInv
  <1>5. LateInv'
    BY <1>1, <1>2, CardsStay, LateGrows
  <1> QED BY <1>2, <1>4, <1>5

\* What a chat is promised stays while its newest projection does and those of
\* its thread look the same.
LEMMA PromiseKept ==
  ASSUME PromiseInv, UNCHANGED <<flushing, lark, binding, commands, queue>>,
         \A c \in Chats : \A u : u = bindings[c] /\ u # NoThread =>
               \/ states'[u] = states[u] /\ (Brought(u) => Brought(u)')
               \/ Brought(u)'
               \/ Alike(states[u], states'[u]) /\ states[u] # NoState /\ ~Brought(u)
  PROVE  PromiseInv'
  <1>1. UNCHANGED <<pending, cards, active, bindings, crossed, attach, detach, queue>>
    BY DEF flushing, lark, binding, commands
  <1>2. ASSUME NEW c \in Chats PROVE Promise(c)'
    <2>1. PICK u : u = bindings[c]
      OBVIOUS
    <2>2. Promise(c) /\ (Watched(c)' <=> Watched(c)) /\ Newest(c)' = Newest(c)
      BY <1>1 DEF PromiseInv, Watched, Newest
    <2>3. \/ u = NoThread
          \/ states'[u] = states[u] /\ (Brought(u) => Brought(u)')
          \/ Brought(u)'
          \/ Alike(states[u], states'[u]) /\ states[u] # NoState /\ ~Brought(u)
      BY <2>1
    <2>4. ASSUME Watched(c), u # NoThread
          PROVE  states'[u] = NoState \/ Alike(Newest(c), states'[u]) \/ Brought(u)'
      <3>1. states[u] = NoState \/ Alike(Newest(c), states[u]) \/ Brought(u)
        BY <2>1, <2>2, <2>4 DEF Promise
      <3>2. Alike(Newest(c), states[u]) /\ Alike(states[u], states'[u])
            => Alike(Newest(c), states'[u])
        BY DEF Alike
      <3> QED BY <2>3, <2>4, <3>1, <3>2
    <2>5. bindings'[c] = u
      BY <1>1, <2>1
    <2>6. Alike(Newest(c), states'[u]) => Alike(Newest(c), states[u])'
      BY <2>2 DEF Alike, PublicKey
    <2>7. Watched(c)' /\ u # NoThread =>
            states'[u] = NoState \/ Alike(Newest(c), states[u])' \/ Brought(u)'
      BY <2>2, <2>4, <2>6
    <2> QED BY <2>5, <2>7 DEF Promise, Alike, Brought, PublicKey
  <1> QED BY <1>2 DEF PromiseInv

\* Reading the file of a sub-agent.
LEMMA ReadsLocal ==
  ASSUME Inv, ShapeInv, LocalInv, PromiseInv, LateInv,
         \/ \E h \in changes : ChangeRead(h)
         \/ \E t \in Threads : RefreshBegin(t)
         \/ RefreshRead
  PROVE  ShapeInv' /\ LocalInv' /\ PromiseInv' /\ LateInv'
  <1>1. UNCHANGED <<flushing, lark, binding, commands, queue, states, dirty>>
    BY DEF ChangeRead, RefreshBegin, RefreshRead
  <1>2. \A g \in changes : \E x \in changes' : x.state = g.state
    <2>1. CASE UNCHANGED changes
      BY <2>1
    <2>2. ASSUME NEW h \in changes, ChangeRead(h)
          PROVE  \A g \in changes : \E x \in changes' : x.state = g.state
      <3>1. changes' = (changes \ {h}) \cup {LookupRead(h)}
        BY <2>2 DEF ChangeRead
      <3>2. LookupRead(h).state = h.state
        BY DEF LookupRead, Inv, ChangesInv, Vouched
      <3>3. LookupRead(h) \in changes'
        BY <3>1
      <3> HIDE DEF LookupRead
      <3> QED BY <3>1, <3>2, <3>3
    <2> QED BY <2>1, <2>2 DEF RefreshBegin, RefreshRead
  <1>3. \A u : Brought(u) => Brought(u)'
    BY <1>1, <1>2 DEF Brought
  <1>4. PromiseInv'
    BY <1>1, <1>3, PromiseKept
  <1> QED BY <1>1, <1>4, ChatsStay

\* A queue that stays is sound while its jobs are.
LEMMA SameJobs ==
  ASSUME NEW c \in Chats, JobsOK(c), queue'[c] = queue[c],
         \A j : (JobOK(c, j) => JobOK(c, j)') /\ (HeadOK(c, j) => HeadOK(c, j)')
  PROVE  JobsOK(c)'
  <1>1. PICK q : q = queue[c]
    OBVIOUS
  <1>2. \A n \in 1..Len(q) : /\ JobOK(c, q[n])'
                             /\ IF n = 1 THEN HeadOK(c, q[n])' ELSE q[n].at = "wait"
    BY <1>1 DEF JobsOK
  <1>3. queue'[c] = q
    BY <1>1
  <1> QED BY <1>1, <1>2, <1>3 DEF JobsOK, JobOK, HeadOK

\* The chats of thread t are to show the new projection s.
LEMMA Scheduled ==
  ASSUME Inv, ShapeInv, QueueInv, LocalInv, PromiseInv, LateInv, Bindings, NEW t \in Threads,
         NEW s \in Projected, s # NoState, states' = [states EXCEPT ![t] = s],
         ScheduleCardPublish(Bound(t), s), UNCHANGED <<lark, queue, binding, commands>>,
         \A u \in Threads \ {t} : Brought(u) => Brought(u)'
  PROVE  ShapeInv' /\ LocalInv' /\ PromiseInv' /\ LateInv'
  <1> DEFINE Records == [at : {"sleep", "publish", "done"}, cancelled : BOOLEAN]
             slot(c) == CHOOSE i \in FreeSlots(c) : TRUE
             fresh == [at |-> "sleep", cancelled |-> FALSE]
  <1>1. UNCHANGED <<cards, late, active, bindings, views, crossed, attach, detach, queue>>
    BY DEF lark, binding, commands
  <1>2. /\ flush \in [Chats -> [Slots -> Records]] /\ task \in [Chats -> {0} \cup Slots]
        /\ pending \in [Chats -> Projected]
    BY DEF ShapeInv
  <1>3. /\ \A c \in Bound(t) : task[c] = 0 => FreeSlots(c) # {}
        /\ pending' = [c \in Chats |-> IF c \in Bound(t) THEN s ELSE pending[c]]
        /\ flush' = [c \in Chats |-> IF c \in Bound(t) /\ task[c] = 0
                       THEN [flush[c] EXCEPT ![slot(c)] = fresh] ELSE flush[c]]
        /\ task' = [c \in Chats |-> IF c \in Bound(t) /\ task[c] = 0 THEN slot(c) ELSE task[c]]
    BY DEF ScheduleCardPublish
  <1>4. \A c \in Bound(t) : c \in Chats /\ bindings[c] = t
    BY DEF Bound
  <1>5. fresh \in Records /\ fresh.at = "sleep" /\ fresh.cancelled = FALSE
    OBVIOUS
  <1>6. \A c \in Bound(t) : task[c] = 0 =>
          slot(c) \in FreeSlots(c) /\ slot(c) \in Slots /\ flush[c][slot(c)].at = "done"
    BY <1>3 DEF FreeSlots, Slots
  <1> HIDE DEF slot, fresh
  <1>7. \A c \in Chats : flush'[c] \in [Slots -> Records] /\ task'[c] \in {0} \cup Slots
                         /\ pending'[c] \in Projected
    BY <1>2, <1>3, <1>5, <1>6
  <1>8. ShapeInv'
    <2>1. flush' \in [Chats -> [Slots -> Records]]
      BY <1>3, <1>7
    <2>2. task' \in [Chats -> {0} \cup Slots] /\ pending' \in [Chats -> Projected]
      BY <1>3, <1>7
    <2> QED BY <1>1, <2>1, <2>2 DEF ShapeInv
  <1>9. \A d \in Chats \ Bound(t) : Same(d)
    BY <1>1, <1>3 DEF Same
  <1>10. \A d \in Chats : (Watched(d)' <=> Watched(d)) /\ (Free(d)' <=> Free(d))
    BY <1>1 DEF Watched, Free
  \* A chat of the thread.
  <1>11. ASSUME NEW c \in Bound(t) PROVE Local(c)' /\ Promise(c)'
    <2>1. c \in Chats /\ bindings[c] = t /\ t # NoThread /\ Local(c)
      BY <1>4, ConstantsAssumption DEF LocalInv
    <2>2. pending'[c] = s
      BY <1>3, <2>1
    <2>3. ASSUME task[c] = 0 PROVE TaskOK(c)' /\ \A j : JobOK(c, j) => JobOK(c, j)'
      <3>1. PICK i : i = slot(c)
        OBVIOUS
      <3>2. /\ i \in Slots /\ flush[c][i].at = "done" /\ task'[c] = i
            /\ flush'[c] = [flush[c] EXCEPT ![i] = fresh]
        BY <1>3, <1>6, <2>1, <2>3, <3>1
      <3>3. flush'[c][i] = fresh /\ \A k \in Slots \ {i} : flush'[c][k] = flush[c][k]
        BY <1>2, <2>1, <3>2
      <3>4. Runs(c, i)'
        BY <1>5, <3>3 DEF Runs, Live
      <3>5. \A k \in Slots \ {i} : (Live(c, k)' <=> Live(c, k)) /\ (Runs(c, k)' <=> Runs(c, k))
        BY <3>3 DEF Runs, Live
      <3>6. TaskOK(c)
        BY <2>1 DEF Local
      <3>7. /\ (task'[c] # 0 => Runs(c, i)') /\ \E k \in Slots : Runs(c, k)'
            /\ Watched(c)' => \A k \in Slots : Live(c, k)' => Runs(c, k)'
        BY <1>10, <2>1, <3>2, <3>4, <3>5, <3>6 DEF TaskOK
      <3>8. TaskOK(c)'
        BY <3>2, <3>7 DEF TaskOK, Runs, Live
      <3>9. \A j : JobOK(c, j) => JobOK(c, j)'
        BY <1>1, <3>2, <3>3 DEF JobOK, Free
      <3> QED BY <3>8, <3>9
    <2>4. ASSUME task[c] # 0 PROVE TaskOK(c)' /\ \A j : JobOK(c, j) => JobOK(c, j)'
      <3>1. UNCHANGED <<flush[c], task[c]>>
        BY <1>3, <2>1, <2>4
      <3>2. TaskOK(c)'
        BY <1>2, <1>10, <2>1, <2>4, <3>1 DEF Local, TaskOK, Runs, Live
      <3>3. \A j : JobOK(c, j) => JobOK(c, j)'
        BY <1>1, <3>1 DEF JobOK, Free
      <3> QED BY <3>2, <3>3
    <2>5. TaskOK(c)' /\ \A j : JobOK(c, j) => JobOK(c, j)'
      BY <2>3, <2>4
    <2>6. \A j : HeadOK(c, j) => HeadOK(c, j)'
      BY <1>1, <1>10, <2>1 DEF HeadOK
    <2>7. JobsOK(c)'
      BY <1>1, <2>1, <2>5, <2>6, SameJobs DEF Local
    <2>8. CardsOK(c)' /\ UnboundOK(c)' /\ ViewOK(c)'
      BY <1>1, <1>10, <2>1 DEF Local, CardsOK, UnboundOK, ViewOK
    <2>9. Local(c)'
      BY <2>5, <2>7, <2>8 DEF Local
    <2>10. Newest(c)' = s
      BY <2>2 DEF Newest
    <2>11. states'[t] = s
      BY DEF Inv, StatesInv
    <2>12. Promise(c)'
      BY <1>1, <2>1, <2>10, <2>11 DEF Promise, Alike, PublicKey
    <2> QED BY <2>9, <2>12
  \* A chat of another one.
  <1>12. ASSUME NEW d \in Chats \ Bound(t) PROVE Local(d)' /\ Promise(d)'
    <2>1. Same(d) /\ Local(d) /\ Promise(d)
      BY <1>9 DEF LocalInv, PromiseInv
    <2>2. Local(d)'
      BY <2>1, SameLocal
    <2>3. PICK u : u = bindings[d]
      OBVIOUS
    <2>4. u = NoThread \/ (u \in Threads \ {t} /\ states'[u] = states[u])
      BY <2>3 DEF Bindings, Bound, Inv, StatesInv
    <2>5. Newest(d)' = Newest(d) /\ (Watched(d)' <=> Watched(d)) /\ bindings'[d] = u
      BY <1>10, <2>1, <2>3 DEF Same, Newest
    <2>6. CASE u = NoThread
      BY <2>2, <2>5, <2>6 DEF Promise
    <2>7. CASE u \in Threads \ {t} /\ states'[u] = states[u]
      <3>1. Watched(d) => states[u] = NoState \/ Alike(Newest(d), states[u]) \/ Brought(u)'
        BY <2>1, <2>3, <2>7, ConstantsAssumption DEF Promise
      <3>2. Alike(Newest(d), states[u]) => Alike(Newest(d), states[u])'
        BY <2>5, <2>7 DEF Alike, PublicKey
      <3> QED BY <2>2, <2>5, <2>7, <3>1, <3>2 DEF Promise, Brought, Alike, PublicKey
    <2> QED BY <2>2, <2>4, <2>6, <2>7
  <1>13. LateInv'
    BY <1>1, <1>8, CardsStay, LateGrows
  <1>14. LocalInv' /\ PromiseInv'
    BY <1>11, <1>12 DEF LocalInv, PromiseInv
  <1> QED BY <1>8, <1>13, <1>14

\* A handler that had its lookup: give way, or put the projection in place.
LEMMA ChangeDoneLocal ==
  ASSUME Inv, ShapeInv, QueueInv, LocalInv, PromiseInv, LateInv, Bindings,
         NEW h \in changes, ChangeDone(h)
  PROVE  ShapeInv' /\ LocalInv' /\ PromiseInv' /\ LateInv'
  <1> DEFINE t == h.state.thread
             s == [h.state EXCEPT !.made = "enriched", !.kid = h.read]
  <1>1. h.state \in Projected /\ t \in Threads /\ h.read \in 0..1
    BY DEF Inv, ChangesInv, Vouched, ChangeDone, Unread
  <1>2. /\ s \in Projected /\ s.thread = t /\ s.pub = h.state.pub /\ s.kid = h.read
        /\ s # NoState /\ h.state # NoState
    <2>1. /\ s \in Projected /\ s.thread = t /\ s.pub = h.state.pub /\ s.kid = h.read
      BY <1>1 DEF Projected
    <2>2. NoState.thread = NoThread /\ t # NoThread
      BY <1>1, ConstantsAssumption DEF NoState
    <2> QED BY <2>1, <2>2
  <1>3. changes' = changes \ {h} /\ UNCHANGED <<lark, queue, binding, commands>>
    BY DEF ChangeDone
  <1>4. IF Current(h.state)
          THEN /\ states' = [states EXCEPT ![t] = s]
               /\ dirty' = dirty \ {t}
               /\ IF t \in dirty \/ h.read # h.state.kid
                    THEN ScheduleCardPublish(Bound(t), s) ELSE UNCHANGED flushing
          ELSE UNCHANGED <<states, dirty, flushing>>
    BY DEF ChangeDone
  <1>5. Current(h.state) <=> states[t] = h.state
    BY DEF Current
  <1>6. \A u \in Threads : states[u] = h.state => u = t
    BY <1>2 DEF Inv, StatesInv
  <1> HIDE DEF s
  <1>7. states'[t] = IF Current(h.state) THEN s ELSE states[t]
    BY <1>1, <1>4 DEF Inv, StatesInv
  <1>8. \A u \in Threads \ {t} : states'[u] = states[u]
    BY <1>1, <1>4 DEF Inv, StatesInv
  <1>9. \A u \in Threads \ {t} : Brought(u) => Brought(u)'
    BY <1>3, <1>4, <1>6, <1>8, ConstantsAssumption DEF Brought
  <1>10. CASE Current(h.state) /\ (t \in dirty \/ h.read # h.state.kid)
    BY <1>1, <1>2, <1>3, <1>4, <1>9, <1>10, Scheduled
  <1>11. CASE Current(h.state) /\ t \notin dirty /\ h.read = h.state.kid
    <2>1. UNCHANGED flushing /\ states[t] = h.state /\ states'[t] = s
      BY <1>4, <1>5, <1>7, <1>11
    <2>2. Alike(states[t], states'[t]) /\ states[t] # NoState /\ ~Brought(t)
      BY <1>2, <1>11, <2>1 DEF Alike, PublicKey, Brought
    <2>3. PromiseInv'
      BY <1>3, <1>8, <1>9, <2>1, <2>2, PromiseKept DEF Bindings
    <2> QED BY <1>3, <2>1, <2>3, ChatsStay
  <1>12. CASE ~Current(h.state)
    <2>1. UNCHANGED <<states, dirty, flushing>>
      BY <1>4, <1>12
    <2>2. Brought(t) => Brought(t)'
      BY <1>3, <1>5, <1>12, <2>1 DEF Brought
    <2>3. PromiseInv'
      BY <1>3, <1>8, <1>9, <2>1, <2>2, PromiseKept DEF Bindings
    <2> QED BY <1>3, <2>1, <2>3, ChatsStay
  <1> QED BY <1>10, <1>11, <1>12

\* The refresh loop found the sub-agent finished, or not.
LEMMA RefreshDoneLocal ==
  ASSUME Inv, ShapeInv, QueueInv, LocalInv, PromiseInv, LateInv, Bindings, RefreshDone
  PROVE  ShapeInv' /\ LocalInv' /\ PromiseInv' /\ LateInv'
  <1> DEFINE t == refresh.state.thread
             s == [refresh.state EXCEPT !.made = "refreshed", !.kid = refresh.read]
  <1>1. refresh.state \in Projected /\ t \in Threads /\ refresh.read \in 0..1
    BY DEF Inv, RefreshInv, Vouched, RefreshDone, Unread
  <1>2. s \in Projected /\ s.thread = t /\ s # NoState
    <2>1. s \in Projected /\ s.thread = t
      BY <1>1 DEF Projected
    <2>2. NoState.thread = NoThread /\ t # NoThread
      BY <1>1, ConstantsAssumption DEF NoState
    <2> QED BY <2>1, <2>2
  <1>3. UNCHANGED <<lark, queue, binding, commands, dirty, changes>>
    BY DEF RefreshDone
  <1>4. \/ states' = [states EXCEPT ![t] = s] /\ ScheduleCardPublish(Bound(t), s)
        \/ UNCHANGED <<states, flushing>>
    BY DEF RefreshDone
  <1> HIDE DEF s
  <1>5. CASE states' = [states EXCEPT ![t] = s] /\ ScheduleCardPublish(Bound(t), s)
    <2>1. \A u \in Threads \ {t} : states'[u] = states[u]
      BY <1>1, <1>5 DEF Inv, StatesInv
    <2>2. \A u \in Threads \ {t} : Brought(u) => Brought(u)'
      BY <1>3, <2>1 DEF Brought
    <2> QED BY <1>1, <1>2, <1>3, <1>5, <2>2, Scheduled
  <1>6. CASE UNCHANGED <<states, flushing>>
    <2>1. \A u : Brought(u) => Brought(u)'
      BY <1>3, <1>6 DEF Brought
    <2>2. PromiseInv'
      BY <1>3, <1>6, <2>1, PromiseKept
    <2> QED BY <1>3, <1>6, <2>2, ChatsStay
  <1> QED BY <1>4, <1>5, <1>6

\* A change or a snapshot: its handler keeps the promise unless all looks the same.
LEMMA DesktopLocal ==
  ASSUME Inv, ShapeInv, LocalInv, PromiseInv, LateInv, Bindings, Desktop
  PROVE  ShapeInv' /\ LocalInv' /\ PromiseInv' /\ LateInv'
  <1>1. PICK t \in Threads : \/ \E public \in BOOLEAN : DesktopChange(t, public)
                             \/ ChildFinishes(t) \/ SendSnapshot(t)
    BY DEF Desktop
  <1>2. /\ UNCHANGED <<flushing, lark, binding, commands, queue>>
        /\ UNCHANGED projection \/ \E snapshot \in BOOLEAN : OnStateChange(t, snapshot)
    BY <1>1 DEF DesktopChange, ChildFinishes, SendSnapshot
  <1>3. CASE UNCHANGED projection
    <2>1. UNCHANGED states /\ \A u : Brought(u) => Brought(u)'
      BY <1>3 DEF projection, Brought
    <2>2. PromiseInv'
      BY <1>2, <2>1, PromiseKept
    <2> QED BY <1>2, <2>2, ChatsStay
  <1>4. CASE ~UNCHANGED projection
    <2> PICK snapshot \in BOOLEAN : OnStateChange(t, snapshot)
      BY <1>2, <1>4
    <2> DEFINE prev == states[t]
               pub == IF snapshot \/ prev.pub = desk[t].pub THEN desk'[t].pub
                      ELSE IF desk'[t].pub # desk[t].pub THEN Partial ELSE prev.pub
               new == [thread |-> t, rev |-> built[t] + 1, made |-> "raw", pub |-> pub,
                       kid |-> IF snapshot THEN 0 ELSE prev.kid]
    <2> PICK raw : raw = new
      OBVIOUS
    <2>1.   /\ raw.thread = t
            /\ dirty' = IF PublicKey(states[t]) # PublicKey(raw) \/ states[t] = NoState
                          THEN dirty \cup {t} ELSE dirty
            /\ states' = [states EXCEPT ![t] = raw]
            /\ changes' = changes \cup {[state |-> raw, read |-> Unread]}
      <3>1. Bound(t) # {}
        BY <1>4 DEF OnStateChange
      <3>2. raw.thread = t
        OBVIOUS
      <3> QED BY <3>1, <3>2 DEF OnStateChange
    <2> HIDE DEF prev, pub, new
    <2>2. states'[t] = raw /\ \A u \in Threads \ {t} : states'[u] = states[u]
      BY <2>1 DEF Inv, StatesInv
    <2>3. \A u \in Threads \ {t} : Brought(u) => Brought(u)'
      BY <2>1, <2>2 DEF Brought
    <2>4. t \in dirty' => Brought(t)'
      <3>1. [state |-> raw, read |-> Unread] \in changes'
        BY <2>1
      <3>2. [state |-> raw, read |-> Unread].state = raw
        OBVIOUS
      <3> QED BY <2>2, <3>1, <3>2 DEF Brought
    <2>5. t \notin dirty' => Alike(states[t], states'[t]) /\ states[t] # NoState /\ ~Brought(t)
      <3>1. raw.thread = t /\ (states[t] # NoState => states[t].thread = t)
        BY <2>1 DEF Inv, StatesInv
      <3> QED BY <2>1, <2>2, <3>1 DEF Alike, Brought
    <2>6. PromiseInv'
      BY <1>2, <2>2, <2>3, <2>4, <2>5, PromiseKept DEF Bindings
    <2> QED BY <1>2, <2>6, ChatsStay
  <1> QED BY <1>3, <1>4

-----------------------------------------------------------------------------
(* attach() and detach() *)

\* A command of one chat goes on, and the chat is watched no longer than before.
LEMMA CommandOn ==
  ASSUME ShapeInv, LocalInv, PromiseInv, LateInv, NEW c \in Chats,
         UNCHANGED <<flushing, lark, projection, bindings, views, crossed, queue>>,
         \A d \in Chats \ {c} : attach'[d] = attach[d] /\ detach'[d] = detach[d],
         Watched(c)' => Watched(c),
         Free(c) => Free(c)' \/ \A n \in 1..Len(queue[c]) : queue[c][n].owner # "user",
         attach'[c].reuse \in 0..Len(cards[c]),
         detach'[c].at = "unfollow" => detach[c].at = "unfollow",
         detach'[c].at = "idle" => detach[c].at = "idle"
  PROVE  ShapeInv' /\ LocalInv' /\ PromiseInv' /\ LateInv'
  <1>1. UNCHANGED <<flush, task, pending, cards, late, active, states, dirty, changes>>
    BY DEF flushing, lark, projection
  <1>2. ShapeInv'
    BY <1>1 DEF ShapeInv
  <1>3. \A d \in Chats \ {c} : Same(d)
    BY <1>1 DEF Same
  <1>4. Local(c) /\ Promise(c)
    BY DEF LocalInv, PromiseInv
  <1>5. TaskOK(c)' /\ CardsOK(c)' /\ UnboundOK(c)' /\ ViewOK(c)'
    BY <1>1, <1>4 DEF Local, TaskOK, CardsOK, UnboundOK, ViewOK, Runs, Live
  <1>6. JobsOK(c)'
    BY <1>1, <1>4 DEF Local, JobsOK, JobOK, HeadOK
  <1>7. Local(c)'
    BY <1>5, <1>6 DEF Local
  <1>8. Promise(c)'
    BY <1>1, <1>4, StillPromised DEF Newest
  <1>9. LateInv'
    BY <1>1, <1>2, CardsStay, LateGrows
  <1> QED BY <1>1, <1>2, <1>3, <1>7, <1>8, <1>9, OneChat

\* attach() has waited for the cancelled flush, or has followed and ends.
LEMMA AttachOnLocal ==
  ASSUME Targets, ShapeInv, QueueInv, LocalInv, PromiseInv, LateInv, NEW c \in Chats,
         AttachCancelled(c) \/ AttachFollow(c) \/ AttachDone(c)
  PROVE  ShapeInv' /\ LocalInv' /\ PromiseInv' /\ LateInv'
  <1>1. UNCHANGED <<flushing, lark, projection, bindings, views, crossed, queue, detach>>
    BY DEF AttachCancelled, AttachFollow, AttachDone, binding
  <1>2. attach[c].reuse \in 0..Len(cards[c])
    BY DEF LocalInv, Local, CardsOK
  <1>3. /\ \A d \in Chats \ {c} : attach'[d] = attach[d]
        /\ attach'[c].reuse \in {attach[c].reuse, 0}
        /\ attach[c].at # "idle"
        /\ attach[c].at = "cancel" => attach'[c].at = "discover"
    <2>1. CASE AttachCancelled(c)
      <3> DEFINE a == [at |-> "discover", target |-> attach[c].target, slot |-> 0,
                       previous |-> bindings[c], reuse |-> attach[c].reuse]
      <3>1. attach' = [attach EXCEPT ![c] = a] /\ attach[c].at = "cancel"
        BY <2>1 DEF AttachCancelled, AttachDiscover
      <3>2. a.at = "discover" /\ a.reuse = attach[c].reuse
        OBVIOUS
      <3> HIDE DEF a
      <3> QED BY <3>1, <3>2, AttachIs
    <2>2. CASE AttachFollow(c)
      BY <2>2, AttachAt DEF AttachFollow
    <2>3. CASE AttachDone(c)
      <3>1. attach' = [attach EXCEPT ![c] = Idle] /\ attach[c].at = "followed"
        BY <2>3 DEF AttachDone
      <3>2. Idle.reuse = 0
        BY DEF Idle
      <3> QED BY <3>1, <3>2, AttachIs
    <2> QED BY <2>1, <2>2, <2>3
  <1>4. attach'[c].reuse \in 0..Len(cards[c])
    BY <1>2, <1>3, CardParts
  <1>5. Watched(c)' => Watched(c)
    <2>1. attach[c].at # "discover"
      BY DEF AttachCancelled, AttachFollow, AttachDone
    <2> QED BY <1>1, <1>3, <2>1 DEF Watched
  <1> QED BY <1>1, <1>3, <1>4, <1>5, CommandOn DEF Free

\* One chat does something and no card changes; the projection of another
\* chat's thread stays, is dropped, or passes the chat by.
LEMMA ChatStep ==
  ASSUME ShapeInv, ShapeInv', LocalInv, PromiseInv, LateInv, Bindings, NEW c \in Chats,
         UNCHANGED <<cards, late, dirty, changes>>, \A d \in Chats \ {c} : Same(d),
         \A d \in Chats \ {c} : \A u \in Threads : u = bindings[d] =>
           states'[u] \in {states[u], NoState} \/ d \in crossed',
         Local(c)', Promise(c)'
  PROVE  ShapeInv' /\ LocalInv' /\ PromiseInv' /\ LateInv'
  <1>1. ASSUME NEW d \in Chats \ {c} PROVE Local(d)' /\ Promise(d)'
    <2>1. Same(d) /\ Local(d) /\ Promise(d)
      BY DEF LocalInv, PromiseInv
    <2>2. Local(d)'
      BY <2>1, SameLocal
    <2>3. PICK u : u = bindings[d]
      OBVIOUS
    <2>4. Newest(d)' = Newest(d) /\ (Watched(d)' => Watched(d)) /\ bindings'[d] = u
      BY <2>1, <2>3 DEF Same, Newest, Watched
    <2>5. u = NoThread \/ states'[u] = states[u] \/ states'[u] = NoState \/ d \in crossed'
      BY <2>3 DEF Bindings
    <2>6. CASE u = NoThread \/ states'[u] = NoState \/ d \in crossed'
      BY <2>2, <2>4, <2>6 DEF Promise, Watched
    <2>7. CASE states'[u] = states[u] /\ u # NoThread
      <3>1. Watched(d) => states[u] = NoState \/ Alike(Newest(d), states[u]) \/ Brought(u)
        BY <2>1, <2>3, <2>7 DEF Promise
      <3>2. (Alike(Newest(d), states[u]) => Alike(Newest(d), states[u])')
            /\ (Brought(u) => Brought(u)')
        BY <2>4, <2>7 DEF Alike, PublicKey, Brought
      <3> QED BY <2>2, <2>4, <2>7, <3>1, <3>2 DEF Promise, Brought, Alike, PublicKey
    <2> QED BY <2>5, <2>6, <2>7
  <1>2. LocalInv' /\ PromiseInv'
    BY <1>1 DEF LocalInv, PromiseInv
  <1>3. LateInv'
    BY CardsStay, LateGrows
  <1> QED BY <1>2, <1>3

\* Of a chat none of whose tasks is live nothing is pending, nor in the queue of
\* one whose command is not free and does not publish.
LEMMA Drained ==
  ASSUME QueueInv, NEW c \in Chats, Local(c), \A i \in Slots : ~Live(c, i)
  PROVE  /\ pending[c] = NoState
         /\ attach[c].at # "publish" /\ (\A n \in 1..Len(queue[c]) : queue[c][n].owner # "user")
              => queue[c] = <<>>
  <1>1. pending[c] = NoState
    BY DEF Local, TaskOK, Runs
  <1>2. \A n \in 1..Len(queue[c]) : queue[c][n].owner # "flush"
    BY DEF Local, JobsOK, JobOK, Live
  <1>3. \A n \in 1..Len(queue[c]) : queue[c][n].owner = "attach" => attach[c].at = "publish"
    BY QueueParts DEF QueueInv, Line
  <1>4. \A n \in 1..Len(queue[c]) : queue[c][n].owner \in {"flush", "user", "attach"}
    BY DEF Local, JobsOK, JobOK
  <1>5. ASSUME attach[c].at # "publish", \A n \in 1..Len(queue[c]) : queue[c][n].owner # "user"
        PROVE  queue[c] = <<>>
    <2>1. \A n \in 1..Len(queue[c]) : FALSE
      BY <1>2, <1>3, <1>4, <1>5
    <2>2. Len(queue[c]) \in Nat /\ (queue[c] = <<>> <=> Len(queue[c]) = 0)
      BY QueueParts
    <2>3. 1 \notin 1..Len(queue[c])
      BY <2>1
    <2> QED BY <2>2, <2>3
  <1> QED BY <1>1, <1>5

\* The binding is made: either no task of the chat is live, or it has crossed.
LEMMA BindLocal ==
  ASSUME Inv, Targets, FollowInv, ShapeInv, LocalInv, PromiseInv, LateInv, Bindings, ~Overlap,
         NEW c \in Chats, AttachBind(c)
  PROVE  ShapeInv' /\ LocalInv' /\ PromiseInv' /\ LateInv'
  <1> DEFINE t == attach[c].target
  <1>1. /\ attach[c].at = "discover" /\ bindings' = [bindings EXCEPT ![c] = t]
        /\ views' = [views EXCEPT ![c] = "latest"]
        /\ crossed' = Crossed(c) \cup (Reseeded(t) \ {c})
        /\ queue' = Enqueued(c, Job("attach", 0, states'[t], TRUE, attach[c].reuse))
        /\ attach' = [attach EXCEPT ![c].at = "publish"]
        /\ UNCHANGED <<cards, late, active, dirty, changes, flush, task, pending, detach>>
    BY DEF AttachBind, lark, flushing
  <1>2. t \in Threads /\ t # NoThread /\ Command(attach[c])
    BY <1>1, ConstantsAssumption DEF Targets, Command
  <1>3. Inv'
    BY <1>2, AttachBindInv
  <1>4. states'[t] \in Projected
    BY <1>2, <1>3 DEF Inv, StatesInv
  <1>5. \A u \in Threads : states'[u] = states[u] \/ (u = t /\ states[t] = NoState)
    BY DEF AttachBind, Inv, StatesInv
  <1> HIDE DEF t
  <1>6. /\ attach'[c].at = "publish" /\ attach'[c].reuse = attach[c].reuse
        /\ \A d \in Chats \ {c} : attach'[d] = attach[d]
    BY <1>1, AttachAt
  <1>7. bindings'[c] = t /\ \A d \in Chats \ {c} : bindings'[d] = bindings[d]
    BY <1>1 DEF FollowInv, PhaseInv
  <1>8. detach[c].at = "idle"
    BY <1>1 DEF FollowInv, PhaseInv, Phase
  <1>9. ShapeInv'
    BY <1>1 DEF ShapeInv, Views
  <1>10. views'[c] = "latest" /\ \A d \in Chats \ {c} : views'[d] = views[d]
    BY <1>1 DEF ShapeInv
  <1>11. Local(c) /\ Promise(c) /\ QueueInv /\ attach[c].at # "publish"
    BY <1>1 DEF LocalInv, PromiseInv, FollowInv
  <1>12. PICK j : j = Job("attach", 0, states'[t], TRUE, attach[c].reuse)
    OBVIOUS
  <1>13. queue' = Enqueued(c, j)
    BY <1>1, <1>12
  <1>14. /\ Len(queue'[c]) = Len(queue[c]) + 1 /\ Len(queue[c]) \in Nat /\ queue'[c] # <<>>
         /\ queue'[c][Len(queue'[c])] = j
         /\ \A d \in Chats \ {c} : queue'[d] = queue[d]
    BY <1>11, <1>13, Longer
  <1>15. /\ j.owner = "attach" /\ j.state = states'[t] /\ j.view = "latest" /\ j.at = "wait"
         /\ j.reuse = attach[c].reuse
    BY <1>12 DEF Job
  <1>16. \A d \in Chats \ {c} : Same(d)
    BY <1>1, <1>6, <1>7, <1>10, <1>14 DEF Same, Crossed
  <1>17. \A n \in 1..Len(queue[c]) : queue[c][n].owner # "user"
    BY <1>1, <1>11 DEF Local, JobsOK, JobOK, Free
  <1>18. Watched(c)' => /\ \A i \in Slots : ~Live(c, i)
                        /\ pending[c] = NoState /\ queue[c] = <<>>
    <2>1. Watched(c)' => \A i \in Slots : ~Live(c, i)
      BY <1>1 DEF Watched, Crossed, Live, Slots
    <2> QED BY <1>11, <1>17, <2>1, Drained
  <1>19. TaskOK(c)'
    BY <1>1, <1>11, <1>18 DEF Local, TaskOK, Runs, Live
  <1>20. JobsOK(c)'
    <2>1. PICK q : q = queue[c]
      OBVIOUS
    <2>2. JobOK(c, j)'
      BY <1>1, <1>4, <1>11, <1>15 DEF JobOK, Views, Local, CardsOK
    <2>3. \A n \in 1..Len(q) : JobOK(c, q[n])'
      BY <1>1, <1>11, <1>17, <2>1 DEF Local, JobsOK, JobOK
    <2>4. \A n \in 1..Len(q) : HeadOK(c, q[n]) => HeadOK(c, q[n])'
      <3>1. Watched(c)' => \A n \in 1..Len(q) : FALSE
        BY <1>18, <2>1, QueueParts, <1>11
      <3> QED BY <1>1, <3>1 DEF HeadOK
    <2> QED BY <1>11, <1>13, <1>15, <2>1, <2>2, <2>3, <2>4, Joined DEF Local
  <1>21. CardsOK(c)' /\ UnboundOK(c)' /\ ViewOK(c)'
    BY <1>1, <1>2, <1>6, <1>7, <1>8, <1>11, <1>14, <1>15 DEF Local, CardsOK, UnboundOK, ViewOK
  <1>22. Local(c)'
    BY <1>19, <1>20, <1>21 DEF Local
  <1>23. Promise(c)'
    <2>1. Watched(c)' => Newest(c)' = states'[t]
      BY <1>1, <1>14, <1>15, <1>18 DEF Newest
    <2> QED BY <1>7, <2>1 DEF Promise, Alike, PublicKey
  <1>24. \A d \in Chats \ {c} : \A u \in Threads : u = bindings[d] =>
           states'[u] \in {states[u], NoState} \/ d \in crossed'
    BY <1>1, <1>5 DEF Reseeded, Bound
  <1> QED BY <1>1, <1>9, <1>16, <1>22, <1>23, <1>24, ChatStep

\* Every step of attach().
LEMMA AttachingLocal ==
  ASSUME Inv, Targets, FollowInv, ShapeInv, LocalInv, PromiseInv, LateInv, Bindings, ~Overlap,
         ~GivenUp', NEW c \in Chats, Attaching(c)
  PROVE  ShapeInv' /\ LocalInv' /\ PromiseInv' /\ LateInv'
  <1>1. ~AttachNoOwner(c) /\ ~AttachNoFollow(c)
    BY Allowed DEF AttachNoOwner, AttachNoFollow, FollowInv
  <1> QED BY <1>1, BindLocal, AttachOnLocal DEF Attaching, FollowInv

\* The registered task of chat c is cancelled, and nothing is pending.
LEMMA FlushCut ==
  ASSUME ShapeInv, NEW c \in Chats, CancelCardFlush(c)
  PROVE  /\ flush' \in [Chats -> [Slots -> [at : {"sleep", "publish", "done"},
                                            cancelled : BOOLEAN]]]
         /\ task' \in [Chats -> {0} \cup Slots] /\ pending' \in [Chats -> Projected]
         /\ task'[c] = 0 /\ pending'[c] = NoState
         /\ \A i \in Slots : flush'[c][i].at = flush[c][i].at
         /\ \A d \in Chats \ {c} : /\ flush'[d] = flush[d] /\ task'[d] = task[d]
                                   /\ pending'[d] = pending[d]
  <1> DEFINE Records == [at : {"sleep", "publish", "done"}, cancelled : BOOLEAN]
             cut(i) == IF i = task[c] THEN [flush[c][i] EXCEPT !.cancelled = TRUE]
                       ELSE flush[c][i]
             new == [i \in 1..MaxFlushes |-> cut(i)]
  <1>1. /\ flush \in [Chats -> [Slots -> Records]] /\ task \in [Chats -> {0} \cup Slots]
        /\ pending \in [Chats -> Projected]
    BY DEF ShapeInv
  <1>2. /\ pending' = [pending EXCEPT ![c] = NoState] /\ task' = [task EXCEPT ![c] = 0]
        /\ flush' = [flush EXCEPT ![c] = new]
    BY DEF CancelCardFlush
  <1>3. NoState \in Projected
    BY DEF NoState, Projected, Partial
  <1>4. ASSUME NEW i \in Slots PROVE cut(i) \in Records /\ cut(i).at = flush[c][i].at
    <2> DEFINE old == flush[c][i]
               off == [old EXCEPT !.cancelled = TRUE]
    <2>1. old \in Records
      BY <1>1
    <2> HIDE DEF old
    <2>2. off \in Records /\ off.at = old.at
      BY <2>1
    <2>3. cut(i) = off \/ cut(i) = old
      BY DEF old
    <2> HIDE DEF off, cut
    <2>4. cut(i) \in Records /\ cut(i).at = old.at
      BY <2>1, <2>2, <2>3
    <2> QED BY <2>4 DEF old
  <1> HIDE DEF cut
  <1>5. new \in [Slots -> Records] /\ \A i \in Slots : new[i].at = flush[c][i].at
    BY <1>4 DEF Slots
  <1> HIDE DEF new
  <1>6. flush' \in [Chats -> [Slots -> Records]] /\ flush'[c] = new
        /\ \A d \in Chats \ {c} : flush'[d] = flush[d]
    BY <1>1, <1>2, <1>5
  <1> QED BY <1>1, <1>2, <1>3, <1>5, <1>6

\* A chat with a command under way, whose jobs are all flush tasks'.
LEMMA CommandJobs ==
  ASSUME NEW c \in Chats, JobsOK(c), UNCHANGED <<queue, cards>>,
         \A n \in 1..Len(queue[c]) : queue[c][n].owner # "user",
         \A i \in Slots : flush'[c][i].at = flush[c][i].at,
         Watched(c)' => queue[c] = <<>>
  PROVE  JobsOK(c)'
  <1>1. PICK q : q = queue[c]
    OBVIOUS
  <1>2. \A n \in 1..Len(q) : JobOK(c, q[n]) => JobOK(c, q[n])'
    BY <1>1 DEF JobOK
  <1>3. \A n \in 1..Len(q) : HeadOK(c, q[n]) => HeadOK(c, q[n])'
    <2>1. q = <<>> => \A n \in 1..Len(q) : FALSE
      BY EmptySeq
    <2> QED BY <1>1, <2>1 DEF HeadOK
  <1>4. \A n \in 1..Len(q) : /\ JobOK(c, q[n])'
                             /\ IF n = 1 THEN HeadOK(c, q[n])' ELSE q[n].at = "wait"
    BY <1>1, <1>2, <1>3 DEF JobsOK
  <1>5. queue'[c] = q
    BY <1>1
  <1> QED BY <1>1, <1>4, <1>5 DEF JobsOK, JobOK, HeadOK

\* A command of a chat that cancels the flush: the chat is not watched.
LEMMA CutLocal ==
  ASSUME ShapeInv, LocalInv, PromiseInv, LateInv, Bindings, NEW c \in Chats,
         CancelCardFlush(c), UNCHANGED <<lark, projection, binding, queue>>,
         \A n \in 1..Len(queue[c]) : queue[c][n].owner # "user",
         \A d \in Chats \ {c} : attach'[d] = attach[d] /\ detach'[d] = detach[d],
         attach'[c].reuse \in 0..Len(cards[c]), ~Watched(c)',
         detach'[c].at \in {"idle", "cancel"}, detach[c].at = "idle",
         bindings[c] = NoThread => detach'[c].at = "idle"
  PROVE  ShapeInv' /\ LocalInv' /\ PromiseInv' /\ LateInv'
  <1>1. UNCHANGED <<cards, late, active, states, dirty, changes, bindings, views, crossed>>
    BY DEF lark, projection, binding
  <1>2. /\ task'[c] = 0 /\ pending'[c] = NoState
        /\ \A i \in Slots : flush'[c][i].at = flush[c][i].at
        /\ \A d \in Chats \ {c} : /\ flush'[d] = flush[d] /\ task'[d] = task[d]
                                   /\ pending'[d] = pending[d]
    BY FlushCut
  <1>3. ShapeInv'
    BY <1>1, FlushCut DEF ShapeInv
  <1>4. \A d \in Chats \ {c} : Same(d)
    BY <1>1, <1>2 DEF Same
  <1>5. Local(c)
    BY DEF LocalInv
  <1>6. TaskOK(c)'
    BY <1>2 DEF TaskOK
  <1>7. JobsOK(c)'
    BY <1>1, <1>2, <1>5, CommandJobs DEF Local
  <1>8. CardsOK(c)' /\ UnboundOK(c)' /\ ViewOK(c)'
    BY <1>1, <1>2, <1>5 DEF Local, CardsOK, UnboundOK, ViewOK, Live
  <1>9. Local(c)' /\ Promise(c)'
    BY <1>6, <1>7, <1>8 DEF Local, Promise
  <1> QED BY <1>1, <1>3, <1>4, <1>9, ChatStep

\* The commands a chat may give, one at a time.
LEMMA Alone ==
  ASSUME ~Overlap, QueueInv, NEW c \in Chats, NEW op, May(c, op)
  PROVE  Free(c) /\ \A n \in 1..Len(queue[c]) : queue[c][n].owner = "flush"
  BY QueueParts DEF May

LEMMA AttachBeginLocal ==
  ASSUME Targets, FollowInv, ShapeInv, LocalInv, PromiseInv, LateInv, Bindings, ~Overlap,
         NEW c \in Chats, NEW t \in Threads, NEW reuse \in {0} \cup DOMAIN cards[c],
         AttachBegin(c, t, reuse)
  PROVE  ShapeInv' /\ LocalInv' /\ PromiseInv' /\ LateInv'
  <1>1. Free(c) /\ \A n \in 1..Len(queue[c]) : queue[c][n].owner = "flush"
    BY Alone DEF AttachBegin, FollowInv
  <1>2. CancelCardFlush(c) /\ UNCHANGED <<lark, projection, binding, queue, detach>>
    BY DEF AttachBegin
  <1>3. /\ attach'[c].at \in {"cancel", "discover"} /\ attach'[c].reuse = reuse
        /\ \A d \in Chats \ {c} : attach'[d] = attach[d]
    <2> DEFINE a == [at |-> "cancel", target |-> t, slot |-> task[c],
                     previous |-> NoThread, reuse |-> reuse]
               b == [at |-> "discover", target |-> t, slot |-> 0,
                     previous |-> bindings[c], reuse |-> reuse]
    <2>1. attach' = [attach EXCEPT ![c] = a] \/ attach' = [attach EXCEPT ![c] = b]
      BY DEF AttachBegin, AttachDiscover
    <2>2. a.at = "cancel" /\ b.at = "discover" /\ a.reuse = reuse /\ b.reuse = reuse
      OBVIOUS
    <2> HIDE DEF a, b
    <2> QED BY <2>1, <2>2, AttachIs
  <1>4. reuse \in 0..Len(cards[c])
    BY CardParts
  <1>5. ~Watched(c)'
    BY <1>3 DEF Watched
  <1> QED BY <1>1, <1>2, <1>3, <1>4, <1>5, CutLocal DEF Free

\* A chat is bound to nothing: either no task of it is live, or it has crossed.
LEMMA UnbindLocal ==
  ASSUME FollowInv, ShapeInv, LocalInv, PromiseInv, LateInv, Bindings, NEW c \in Chats, Unbind(c),
         attach[c].at = "idle", detach[c].at \in {"idle", "cancel"},
         \A n \in 1..Len(queue[c]) : queue[c][n].owner # "user",
         ShapeInv', UNCHANGED <<cards, late, projection, attach, queue>>,
         \A d \in Chats \ {c} : /\ flush'[d] = flush[d] /\ task'[d] = task[d]
                                /\ pending'[d] = pending[d],
         \A i \in Slots : flush'[c][i].at = flush[c][i].at,
         task'[c] = 0 \/ UNCHANGED <<flush, task>>, pending'[c] = NoState \/ UNCHANGED flushing
  PROVE  ShapeInv' /\ LocalInv' /\ PromiseInv' /\ LateInv'
  <1> DEFINE t == bindings[c]
  <1>1. /\ bindings' = [bindings EXCEPT ![c] = NoThread]
        /\ views' = [views EXCEPT ![c] = "latest"] /\ crossed' = Crossed(c)
        /\ \/ detach' = [detach EXCEPT ![c] = [Idle EXCEPT !.at = "unfollow", !.target = t]]
                /\ UNCHANGED active
           \/ detach' = [detach EXCEPT ![c] = Idle] /\ active' = [active EXCEPT ![c] = 0]
    BY DEF Unbind
  <1> HIDE DEF t
  <1>2. bindings'[c] = NoThread /\ \A d \in Chats \ {c} : bindings'[d] = bindings[d]
    BY <1>1 DEF FollowInv, PhaseInv
  <1>3. views'[c] = "latest" /\ \A d \in Chats \ {c} : views'[d] = views[d]
    BY <1>1 DEF ShapeInv
  <1>4. /\ \A d \in Chats \ {c} : detach'[d] = detach[d] /\ active'[d] = active[d]
        /\ \/ detach'[c].at = "unfollow" /\ active'[c] = active[c]
           \/ detach'[c].at = "idle" /\ active'[c] = 0
    <2>1. detach = [d \in Chats |-> detach[d]] /\ active \in [Chats -> Nat]
      BY DEF FollowInv, PhaseInv, ShapeInv
    <2>2. CASE detach' = [detach EXCEPT ![c] = [Idle EXCEPT !.at = "unfollow", !.target = t]]
               /\ UNCHANGED active
      <3> DEFINE a == [Idle EXCEPT !.at = "unfollow", !.target = t]
      <3>1. a.at = "unfollow"
        BY DEF Idle
      <3>2. detach' = [detach EXCEPT ![c] = a]
        BY <2>2
      <3> HIDE DEF a
      <3> QED BY <2>1, <2>2, <3>1, <3>2
    <2>3. CASE detach' = [detach EXCEPT ![c] = Idle] /\ active' = [active EXCEPT ![c] = 0]
      <3>1. Idle.at = "idle"
        BY DEF Idle
      <3> QED BY <2>1, <2>3, <3>1
    <2> QED BY <1>1, <2>2, <2>3
  <1>5. UNCHANGED <<states, dirty, changes>>
    BY DEF projection
  <1>6. \A d \in Chats \ {c} : Same(d)
    BY <1>1, <1>2, <1>3, <1>4 DEF Same, Crossed
  <1>7. Local(c) /\ QueueInv
    BY DEF LocalInv, FollowInv
  <1>8. c \notin crossed' => /\ \A i \in Slots : ~Live(c, i)
                             /\ pending[c] = NoState /\ queue[c] = <<>>
    <2>1. c \notin crossed' => \A i \in Slots : ~Live(c, i)
      BY <1>1 DEF Crossed, Live, Slots
    <2> QED BY <1>7, <2>1, Drained
  <1>9. c \notin crossed' => (\A i \in Slots : ~Live(c, i)') /\ pending'[c] = NoState
    BY <1>8 DEF Live, flushing
  <1>10. TaskOK(c)'
    <2>1. Watched(c)' => \A i \in Slots : ~Live(c, i)'
      BY <1>9 DEF Watched
    <2>2. CASE pending'[c] = NoState
      BY <1>7, <2>1, <2>2 DEF Local, TaskOK, Runs, Live
    <2>3. CASE UNCHANGED flushing
      <3>1. UNCHANGED <<flush, task, pending>>
        BY <2>3 DEF flushing
      <3> QED BY <1>7, <2>1, <3>1 DEF Local, TaskOK, Runs, Live
    <2> QED BY <2>2, <2>3
  <1>11. JobsOK(c)'
    BY <1>7, <1>8, CommandJobs DEF Local, Watched
  <1>12. CardsOK(c)'
    <2>1. active'[c] \in 0..Len(cards[c]) /\ attach'[c].reuse \in 0..Len(cards[c])
      BY <1>4, <1>7, CardParts DEF Local, CardsOK
    <2>2. Watched(c)' => active'[c] = 0
      BY <1>4 DEF Watched
    <2> QED BY <2>1, <2>2 DEF CardsOK
  <1>13. UnboundOK(c)'
    BY <1>2, <1>4, <1>8, <1>9 DEF UnboundOK
  <1>14. Local(c)' /\ Promise(c)'
    BY <1>2, <1>10, <1>11, <1>12, <1>13 DEF Local, ViewOK, Promise
  <1> QED BY <1>5, <1>6, <1>14, ChatStep

LEMMA DetachBeginLocal ==
  ASSUME Targets, FollowInv, ShapeInv, LocalInv, PromiseInv, LateInv, Bindings, ~Overlap,
         NEW c \in Chats, DetachBegin(c)
  PROVE  ShapeInv' /\ LocalInv' /\ PromiseInv' /\ LateInv'
  <1>1. Free(c) /\ \A n \in 1..Len(queue[c]) : queue[c][n].owner = "flush"
    BY Alone DEF DetachBegin, FollowInv
  <1>2. CancelCardFlush(c) /\ bindings[c] # NoThread
        /\ UNCHANGED <<cards, late, projection, attach, queue>>
    BY DEF DetachBegin
  <1>3. CASE Waits(c)
    <2> DEFINE a == [Idle EXCEPT !.at = "cancel", !.slot = task[c]]
    <2>1. detach' = [detach EXCEPT ![c] = a] /\ UNCHANGED <<lark, binding>>
      BY <1>2, <1>3 DEF DetachBegin, lark
    <2>2. a.at = "cancel"
      BY DEF Idle
    <2> HIDE DEF a
    <2>3. detach'[c].at = "cancel" /\ \A d \in Chats \ {c} : detach'[d] = detach[d]
      BY <2>1, <2>2 DEF FollowInv, PhaseInv
    <2>4. ~Watched(c)' /\ attach'[c].reuse \in 0..Len(cards[c])
      BY <1>2, <2>3 DEF Watched, LocalInv, Local, CardsOK
    <2> QED BY <1>1, <1>2, <2>1, <2>3, <2>4, CutLocal DEF Free
  <1>4. CASE ~Waits(c)
    <2>1. Unbind(c)
      BY <1>4 DEF DetachBegin
    <2>2. views' \in [Chats -> Views] /\ active' \in [Chats -> Nat]
      BY <2>1 DEF Unbind, ShapeInv, Views
    <2>3. ShapeInv'
      BY <1>2, <2>2, FlushCut DEF ShapeInv
    <2> QED BY <1>1, <1>2, <2>1, <2>3, FlushCut, UnbindLocal DEF Free
  <1> QED BY <1>3, <1>4

LEMMA DetachCancelledLocal ==
  ASSUME FollowInv, ShapeInv, LocalInv, PromiseInv, LateInv, Bindings, ~Overlap,
         NEW c \in Chats, DetachCancelled(c)
  PROVE  ShapeInv' /\ LocalInv' /\ PromiseInv' /\ LateInv'
  <1>1. /\ Unbind(c) /\ detach[c].at = "cancel"
        /\ UNCHANGED <<cards, late, projection, attach, queue, flushing>>
    BY DEF DetachCancelled
  <1>2. UNCHANGED <<flush, task, pending>>
    BY <1>1 DEF flushing
  <1>3. attach[c].at = "idle"
    BY <1>1 DEF FollowInv, PhaseInv, Phase
  <1>4. \A n \in 1..Len(queue[c]) : queue[c][n].owner # "user"
    BY <1>1 DEF LocalInv, Local, JobsOK, JobOK, Free
  <1>5. Unbind(c)
    BY DEF DetachCancelled
  <1>6. views' \in [Chats -> Views] /\ active' \in [Chats -> Nat]
    BY <1>5 DEF Unbind, ShapeInv, Views
  <1>7. ShapeInv'
    BY <1>1, <1>2, <1>6 DEF ShapeInv
  <1> QED BY <1>1, <1>2, <1>3, <1>4, <1>7, UnbindLocal

\* The projection is dropped, and the chat's card with it.
LEMMA DetachDoneLocal ==
  ASSUME Inv, FollowInv, ShapeInv, LocalInv, PromiseInv, LateInv, Bindings,
         NEW c \in Chats, DetachDone(c)
  PROVE  ShapeInv' /\ LocalInv' /\ PromiseInv' /\ LateInv'
  <1> DEFINE t == detach[c].target
  <1>1. /\ detach[c].at = "unfollow" /\ states' = [states EXCEPT ![t] = NoState]
        /\ active' = [active EXCEPT ![c] = 0] /\ detach' = [detach EXCEPT ![c] = Idle]
        /\ UNCHANGED <<cards, late, dirty, changes, flush, task, pending, bindings, views, crossed,
                       attach, queue>>
    BY DEF DetachDone, flushing, binding
  <1> HIDE DEF t
  <1>2. Idle.at = "idle"
    BY DEF Idle
  <1>3. detach'[c].at = "idle" /\ \A d \in Chats \ {c} : detach'[d] = detach[d]
    BY <1>1, <1>2 DEF FollowInv, PhaseInv
  <1>4. active' \in [Chats -> Nat] /\ active'[c] = 0
        /\ \A d \in Chats \ {c} : active'[d] = active[d]
    BY <1>1 DEF ShapeInv
  <1>5. ShapeInv'
    BY <1>1, <1>4 DEF ShapeInv
  <1>6. \A d \in Chats \ {c} : Same(d)
    BY <1>1, <1>3, <1>4 DEF Same
  <1>7. \A u \in Threads : states'[u] \in {states[u], NoState}
    BY <1>1 DEF Inv, StatesInv
  <1>8. Local(c) /\ bindings[c] = NoThread
    BY <1>1 DEF LocalInv, Local, UnboundOK
  <1>9. c \notin crossed => /\ \A i \in Slots : ~Live(c, i)
                            /\ pending[c] = NoState /\ queue[c] = <<>>
    BY <1>8 DEF Local, UnboundOK
  <1>10. TaskOK(c)'
    BY <1>1, <1>8, <1>9 DEF Local, TaskOK, Runs, Live, Watched
  <1>11. \A n \in 1..Len(queue[c]) : queue[c][n].owner # "user"
    BY <1>1, <1>8 DEF Local, JobsOK, JobOK, Free
  <1>12. JobsOK(c)'
    BY <1>1, <1>8, <1>9, <1>11, CommandJobs DEF Local, Watched
  <1>13. CardsOK(c)' /\ UnboundOK(c)' /\ ViewOK(c)'
    BY <1>1, <1>3, <1>4, <1>8, <1>9, CardParts DEF Local, CardsOK, UnboundOK, ViewOK, Live
  <1>14. Local(c)' /\ Promise(c)'
    BY <1>1, <1>8, <1>10, <1>12, <1>13 DEF Local, Promise
  <1> QED BY <1>1, <1>5, <1>6, <1>7, <1>14, ChatStep

\* A click publishes the projection of this moment.
LEMMA ViewLocal ==
  ASSUME Inv, FollowInv, ShapeInv, LocalInv, PromiseInv, LateInv, Bindings, ~Overlap,
         NEW c \in Chats, NEW op \in {"select", "latest", "refresh"}, View(c, op)
  PROVE  ShapeInv' /\ LocalInv' /\ PromiseInv' /\ LateInv'
  <1> DEFINE t == bindings[c]
  <1>1. /\ Free(c) /\ t # NoThread /\ states[t] # NoState
        /\ UNCHANGED <<cards, late, active, states, dirty, changes, flush, task, pending, bindings,
                       crossed, attach, detach>>
    BY Alone DEF View, FollowInv, lark, projection, flushing, commands
  <1>2. views' \in {[views EXCEPT ![c] = "old"], [views EXCEPT ![c] = "latest"], views}
    BY DEF View
  <1>3. views' \in [Chats -> Views] /\ \A d \in Chats \ {c} : views'[d] = views[d]
    BY <1>2 DEF ShapeInv, Views
  <1>4. PICK reuse \in {0} \cup DOMAIN cards[c] :
          queue' = Enqueued(c, Job("user", 0, states[t], FALSE, reuse))
    BY DEF View
  <1>5. reuse \in 0..Len(cards[c])
    BY CardParts
  <1>6. states[t] \in Projected /\ t \in Threads
    BY <1>1 DEF Bindings, Inv, StatesInv
  <1> HIDE DEF t
  <1>7. PICK j : j = Job("user", 0, states[t], FALSE, reuse)
    OBVIOUS
  <1>8. /\ j.owner = "user" /\ j.state = states[t] /\ j.view = "latest" /\ j.at = "wait"
        /\ j.reuse = reuse
    BY <1>7 DEF Job
  <1>9. queue' = Enqueued(c, j)
    BY <1>4, <1>7
  <1>10. Local(c) /\ Promise(c) /\ QueueInv
    BY DEF LocalInv, PromiseInv, FollowInv
  <1>11. /\ Len(queue'[c]) = Len(queue[c]) + 1 /\ Len(queue[c]) \in Nat /\ queue'[c] # <<>>
         /\ queue'[c][Len(queue'[c])] = j
         /\ \A d \in Chats \ {c} : queue'[d] = queue[d]
    BY <1>9, <1>10, Longer
  <1>12. ShapeInv'
    BY <1>1, <1>3 DEF ShapeInv
  <1>13. \A d \in Chats \ {c} : Same(d)
    BY <1>1, <1>3, <1>11 DEF Same
  <1>14. JobsOK(c)'
    <2>1. PICK q : q = queue[c]
      OBVIOUS
    <2>2. JobOK(c, j)'
      BY <1>1, <1>5, <1>6, <1>8 DEF JobOK, Views, Free
    <2>3. \A x : (JobOK(c, x) => JobOK(c, x)') /\ (HeadOK(c, x) => HeadOK(c, x)')
      BY <1>1 DEF JobOK, HeadOK, Free, Watched
    <2>4. \A n \in 1..Len(q) : JobOK(c, q[n])'
      BY <1>10, <2>1, <2>3 DEF Local, JobsOK
    <2> QED BY <1>8, <1>9, <1>10, <2>1, <2>2, <2>3, <2>4, Joined DEF Local
  <1>15. TaskOK(c)' /\ CardsOK(c)' /\ UnboundOK(c)' /\ ViewOK(c)'
    BY <1>1, <1>8, <1>10, <1>11
       DEF Local, TaskOK, CardsOK, UnboundOK, ViewOK, Runs, Live, Watched, Free, t
  <1>16. Local(c)'
    BY <1>14, <1>15 DEF Local
  <1>17. Promise(c)'
    <2>1. CASE pending[c] # NoState
      BY <1>1, <1>10, <2>1, StillPromised DEF Newest, Watched
    <2>2. CASE pending[c] = NoState
      <3>1. Newest(c)' = states[t]
        BY <1>1, <1>8, <1>11, <2>2 DEF Newest
      <3> QED BY <1>1, <3>1 DEF Promise, Alike, PublicKey, t
    <2> QED BY <2>1, <2>2
  <1> QED BY <1>1, <1>12, <1>13, <1>16, <1>17, ChatStep

LEMMA UserLocal ==
  ASSUME Inv, Targets, FollowInv, ShapeInv, LocalInv, PromiseInv, LateInv, Bindings, ~Overlap,
         NEW c \in Chats, User(c)
  PROVE  ShapeInv' /\ LocalInv' /\ PromiseInv' /\ LateInv'
  BY AttachBeginLocal, DetachBeginLocal, ViewLocal DEF User

\* Every step after which nothing has been given up.
LEMMA CardStep ==
  ASSUME Inv, Targets, FollowInv, CardInv, ~Overlap, ~GivenUp', Next PROVE CardInv'
  <1>1. /\ ShapeInv /\ LocalInv /\ PromiseInv /\ LateInv /\ FreshInv /\ stranded = {}
        /\ QueueInv /\ BudgetInv /\ Bindings
    BY BindingsHold DEF CardInv, FollowInv
  <1>2. FreshInv'
    BY <1>1, FreshStep
  <1>3. stranded' = {}
    <2>1. \A c \in Chats : ~AttachNoFollow(c)
      BY <1>1, Allowed DEF AttachNoFollow
    <2>2. ASSUME NEW c \in Chats, Unbind(c) \/ AttachBind(c) \/ AttachFollow(c)
          PROVE  stranded' \subseteq stranded
      BY <2>2 DEF Unbind, AttachBind, AttachFollow
    <2>3. ASSUME NEW c \in Chats, AttachCancelled(c) \/ AttachNoOwner(c) \/ AttachDone(c)
          PROVE  UNCHANGED stranded
      BY <2>3 DEF AttachCancelled, AttachNoOwner, AttachDone, binding
    <2>4. ASSUME NEW c \in Chats, Attaching(c) PROVE stranded' \subseteq stranded
      BY <2>1, <2>2, <2>3, <2>4 DEF Attaching
    <2>5. ASSUME NEW c \in Chats, Publishing(c) \/ Flushing(c) PROVE UNCHANGED stranded
      BY <2>5 DEF Publishing, PublishBegin, PublishImages, PublishOk, PublishNotUpdated,
                  PublishFailed, PublishEnd, Flushing, FlushWake, FlushCancelled, binding
    <2>6. ASSUME NEW c \in Chats, Detaching(c) \/ User(c) PROVE stranded' \subseteq stranded
      <3>1. Unbind(c) \/ UNCHANGED stranded
        BY <2>6 DEF Detaching, DetachCancelled, DetachDone, User, AttachBegin, DetachBegin, View,
                    binding
      <3> QED BY <2>2, <3>1
    <2>7. CASE Projecting \/ Desktop \/ \E r \in late : LateRequest(r)
      BY <1>1, <2>7
         DEF Projecting, ChangeRead, ChangeDone, RefreshBegin, RefreshRead, RefreshDone,
             Desktop, DesktopChange, ChildFinishes, SendSnapshot, LateRequest, binding
    <2>8. CASE \E c \in Chats : \/ Publishing(c) \/ Flushing(c) \/ Attaching(c)
                                \/ Detaching(c) \/ User(c)
      BY <1>1, <2>4, <2>5, <2>6, <2>8
    <2> QED BY <2>7, <2>8 DEF Next
  <1>4. ShapeInv' /\ LocalInv' /\ PromiseInv' /\ LateInv'
    <2>1. ASSUME NEW c \in Chats, Publishing(c)
          PROVE  ShapeInv' /\ LocalInv' /\ PromiseInv' /\ LateInv'
      <3>1. ~PublishFailed(c)
        BY <1>1, Allowed DEF PublishFailed
      <3> QED BY <1>1, <2>1, <3>1, BeginLocal, CallsLocal, OkLocal DEF Publishing
    <2>2. ASSUME NEW c \in Chats, Flushing(c)
          PROVE  ShapeInv' /\ LocalInv' /\ PromiseInv' /\ LateInv'
      BY <1>1, <2>2, WakeLocal, CancelledLocal DEF Flushing, Slots
    <2>3. ASSUME NEW c \in Chats, Attaching(c) \/ User(c)
          PROVE  ShapeInv' /\ LocalInv' /\ PromiseInv' /\ LateInv'
      BY <1>1, <2>3, AttachingLocal, UserLocal
    <2>4. ASSUME NEW c \in Chats, Detaching(c)
          PROVE  ShapeInv' /\ LocalInv' /\ PromiseInv' /\ LateInv'
      BY <1>1, <2>4, DetachCancelledLocal, DetachDoneLocal DEF Detaching
    <2>5. CASE Projecting
      BY <1>1, <2>5, ReadsLocal, ChangeDoneLocal, RefreshDoneLocal DEF Projecting
    <2>6. CASE Desktop
      BY <1>1, <2>6, DesktopLocal
    <2>7. CASE \E r \in late : LateRequest(r)
      BY <1>1, <2>7, LateLocal
    <2> QED BY <2>1, <2>2, <2>3, <2>4, <2>5, <2>6, <2>7 DEF Next
  <1> QED BY <1>2, <1>3, <1>4 DEF CardInv

\* The bound chats show the restored projection.
LEMMA InitCards == ASSUME Init PROVE CardInv
  <1> DEFINE seed == [thread |-> Home, rev |-> 1, made |-> "seed", pub |-> 1, kid |-> 0]
             sheet == [seq |-> 0, lark |-> 0, content |-> [state |-> seed, view |-> "latest"]]
  <1>1. /\ bindings = [c \in Chats |-> IF c \in Residents THEN Home ELSE NoThread]
        /\ cards = [c \in Chats |-> IF c \in Residents THEN << sheet >> ELSE <<>>]
        /\ active = [c \in Chats |-> Len(cards[c])]
        /\ states = [t \in Threads |-> IF t \in BoundThreads THEN seed ELSE NoState]
        /\ desk = [t \in Threads |-> [pub |-> 1, kid |-> 0]]
        /\ views = [c \in Chats |-> "latest"] /\ late = {} /\ stranded = {}
        /\ pending = [c \in Chats |-> NoState] /\ task = [c \in Chats |-> 0]
        /\ flush = [c \in Chats |-> [i \in 1..MaxFlushes |-> Done]]
        /\ queue = [c \in Chats |-> <<>>]
        /\ attach = [c \in Chats |-> Idle] /\ detach = [c \in Chats |-> Idle]
    BY DEF Init
  <1>2. Idle.at = "idle" /\ Idle.reuse = 0 /\ Done.at = "done"
        /\ Done \in [at : {"sleep", "publish", "done"}, cancelled : BOOLEAN]
    BY DEF Idle, Done
  <1>3. seed \in Projected /\ NoState \in Projected /\ Home \in Threads /\ Home # NoThread
    BY ConstantsAssumption DEF Projected, NoState, Partial
  <1>4. sheet \in Sheets
    BY <1>3 DEF Sheets, Shown, Views
  <1>5. seed.thread = Home /\ seed.pub = 1 /\ seed.kid = 0 /\ seed # NoState
    <2>1. NoState.thread = NoThread /\ seed.thread = Home
      BY DEF NoState
    <2> QED BY <1>3, <2>1
  <1>6. sheet.seq = 0 /\ sheet.lark = 0 /\ sheet.content.state = seed
        /\ sheet.content.view = "latest"
    OBVIOUS
  <1> HIDE DEF sheet, seed
  <1>7. << sheet >> \in Seq(Sheets) /\ Len(<< sheet >>) = 1 /\ << sheet >>[1] = sheet
        /\ <<>> \in Seq(Sheets) /\ Len(<<>>) = 0
    BY <1>4, EmptySeq
  <1>8. \A c \in Chats : /\ cards[c] \in Seq(Sheets)
                         /\ c \in Residents => cards[c] = << sheet >> /\ active[c] = 1
                         /\ c \notin Residents => active[c] = 0
                         /\ active[c] = Len(cards[c]) /\ active[c] \in Nat
    BY <1>1, <1>7
  <1>9. ShapeInv
    <2>1. cards \in [Chats -> Seq(Sheets)] /\ active \in [Chats -> Nat]
      BY <1>1, <1>8
    <2>2. /\ flush \in [Chats -> [Slots -> [at : {"sleep", "publish", "done"},
                                            cancelled : BOOLEAN]]]
      BY <1>1, <1>2 DEF Slots
    <2> QED BY <1>1, <1>3, <2>1, <2>2 DEF ShapeInv, Views
  <1>10. \A t \in Threads : \A c \in Chats : bindings[c] = t => t = Home /\ c \in Residents
    BY <1>1, ConstantsAssumption
  <1>11. \A c \in Chats : bindings[c] # NoThread => states[Home] = seed
    BY <1>1, <1>3 DEF BoundThreads, Range
  <1>12. ASSUME NEW c \in Chats PROVE Local(c)
    <2>1. TaskOK(c)
      BY <1>1, <1>2 DEF TaskOK, Live, Slots
    <2>2. JobsOK(c)
      <3>1. queue[c] = <<>> /\ \A n \in 1..Len(queue[c]) : FALSE
        BY <1>1, <1>7
      <3> QED BY <3>1 DEF JobsOK
    <2>3. CardsOK(c)
      BY <1>1, <1>2, <1>6, <1>7, <1>8 DEF CardsOK
    <2>4. UnboundOK(c)
      BY <1>1, <1>2, <1>3, <1>8 DEF UnboundOK, Live, Slots
    <2>5. ViewOK(c)
      BY <1>1, <1>6, <1>7, <1>8 DEF ViewOK
    <2> QED BY <2>1, <2>2, <2>3, <2>4, <2>5 DEF Local
  <1>13. ASSUME NEW c \in Chats PROVE Promise(c)
    <2>1. CASE bindings[c] = NoThread
      BY <2>1 DEF Promise
    <2>2. CASE bindings[c] # NoThread
      <3>1. bindings[c] = Home /\ c \in Residents /\ states[Home] = seed
        BY <1>1, <1>11, <2>2
      <3>2. Newest(c) = seed
        BY <1>1, <1>6, <1>7, <1>8, <3>1 DEF Newest
      <3> QED BY <3>1, <3>2 DEF Promise, Alike
    <2> QED BY <2>1, <2>2
  <1>14. FreshInv
    <2>1. ASSUME NEW t \in Threads, NEW c \in Chats, Settled(c, t) PROVE Fresh(t)
      <3>1. t = Home /\ states[t] = seed
        BY <1>3, <1>10, <1>11, <2>1 DEF Settled
      <3>2. desk[t].pub = 1
        BY <1>1
      <3> QED BY <1>5, <3>1, <3>2 DEF Fresh
    <2>2. \A d \in Chats : detach[d].at # "unfollow"
      BY <1>1, <1>2
    <2> QED BY <2>1, <2>2 DEF FreshInv
  <1> QED BY <1>1, <1>9, <1>12, <1>13, <1>14 DEF CardInv, LocalInv, PromiseInv, LateInv

\* At rest nobody has to bring anything any more: it has been shown.
LEMMA RestCurrent ==
  ASSUME Inv, FollowInv, CardInv, Quiet, NEW c \in Chats \ crossed PROVE CardCurrent(c)
  <1> DEFINE t == bindings[c]
             shown == cards[c][active[c]].content
  <1>1. /\ c \in Chats /\ Free(c) /\ queue[c] = <<>> /\ changes = {} /\ snap = {}
        /\ \A i \in Slots : ~Live(c, i)
    BY DEF Quiet, Live, Slots
  <1>2. Watched(c) /\ Local(c) /\ Promise(c) /\ Bindings
    BY <1>1, BindingsHold DEF Watched, Free, CardInv, LocalInv, PromiseInv
  <1>3. pending[c] = NoState
    BY <1>1, <1>2 DEF Local, TaskOK, Runs
  <1>4. CASE t = NoThread
    BY <1>1, <1>2, <1>4 DEF Local, UnboundOK, Free, CardCurrent
  <1>5. CASE t # NoThread
    <2>1. active[c] # 0 /\ shown.view = views[c] /\ Newest(c) = shown.state
      BY <1>1, <1>2, <1>3, <1>5 DEF Local, ViewOK, Newest
    <2>2. t \in Threads /\ t \in BoundThreads
      <3>1. DOMAIN bindings = Chats
        BY DEF FollowInv, PhaseInv
      <3> QED BY <1>1, <1>2, <1>5, <3>1 DEF Bindings, BoundThreads, Range
    <2>3. Settled(c, t)
      BY <1>1 DEF Settled, Free
    <2>4. states[t] # NoState /\ states[t].pub = desk[t].pub
      BY <1>1, <2>2, <2>3 DEF CardInv, FreshInv, Fresh
    <2>5. states[t].kid = desk[t].kid /\ states[t].thread = t
      BY <2>2, <2>4 DEF Quiet, Inv, StatesInv
    <2>6. Alike(shown.state, states[t])
      BY <1>1, <1>2, <1>5, <2>1, <2>4 DEF Promise, Brought
    <2> QED BY <1>5, <2>1, <2>4, <2>5, <2>6 DEF Alike, PublicKey, CardCurrent
  <1> QED BY <1>4, <1>5

\* Whatever chats, threads, changes, clicks and failures there are, and in
\* whatever order the tasks run: when the bridge comes to rest, the card of
\* every chat no update has passed by shows what its thread is, in the chosen
\* view, and a detached chat has none; as long as no call has failed that the
\* code gives an update up after, and a chat gives one command at a time.
THEOREM QuietCardCurrentTheorem == ~Overlap => (Spec => []QuietCardCurrent)
  <1> SUFFICES ASSUME ~Overlap PROVE Spec => []QuietCardCurrent
    OBVIOUS
  <1> DEFINE IInv == Inv /\ Targets /\ FollowInv /\ (~GivenUp => CardInv)
  <1>1. Init => IInv
    BY InitInv, InitFollow, InitCards
  <1>2. IInv /\ [Next]_vars => IInv'
    <2> SUFFICES ASSUME IInv, [Next]_vars PROVE IInv'
      OBVIOUS
    <2>1. CASE Next
      <3>1. Inv' /\ Targets'
        BY <2>1, Step, TargetsStep
      <3>2. QueueInv' /\ Counting /\ LinkInv'
        BY <2>1, QueueStep, LinkStep DEF FollowInv, LinkInv
      <3>3. FollowInv'
        BY <3>2 DEF FollowInv, LinkInv, Counting
      <3>4. ~GivenUp' => ~GivenUp
        BY <3>2 DEF GivenUp, Counting, FollowInv, BudgetInv
      <3>5. ~GivenUp' => CardInv'
        BY <2>1, <3>4, CardStep
      <3> QED BY <3>1, <3>3, <3>5
    <2>2. CASE UNCHANGED vars
      <3>1. /\ UNCHANGED <<desktop, lark, flushing, binding, commands, queue, projection, budget>>
            /\ UNCHANGED <<desk, snap, states, bindings, detach, attach, stranded, dirty, changes,
                           follow>>
        BY <2>2 DEF vars, desktop, binding, commands, projection
      <3>2. Inv'
        BY <3>1, Frame
      <3>3. Targets'
        BY <3>1 DEF Targets, Command
      <3>4. QueueInv'
        BY <3>1, QueueStays DEF FollowInv
      <3>5. Counting /\ LinkInv'
        BY <3>1, Thrift, LinkStays DEF FollowInv, LinkInv
      <3>6. FollowInv'
        BY <3>4, <3>5 DEF FollowInv, LinkInv, Counting
      <3>7. ASSUME ~GivenUp' PROVE CardInv'
        <4>1. CardInv
          BY <3>1, <3>7 DEF GivenUp
        <4>2. FreshInv'
          BY <3>1, <4>1, FreshStays DEF CardInv
        <4>3. PromiseInv'
          BY <3>1, <4>1, PromiseKept DEF CardInv, Brought
        <4> QED BY <3>1, <4>1, <4>2, <4>3, ChatsStay DEF CardInv
      <3> QED BY <3>2, <3>3, <3>6, <3>7
    <2> QED BY <2>1, <2>2
  <1>3. IInv => QuietCardCurrent
    BY RestCurrent DEF QuietCardCurrent
  <1> HIDE DEF IInv
  <1> QED BY <1>1, <1>2, <1>3, PTL DEF Spec

=============================================================================
