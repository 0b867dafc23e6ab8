------------------------------ MODULE DesktopCards ------------------------------
(***************************************************************************)
(* One updatable Lark card per chat, showing the Codex Desktop thread the  *)
(* chat is bound to: the card half of DesktopBridgeManager                 *)
(* (lark_client/desktop_bridge.py) and the CardService calls it makes.     *)
(*                                                                         *)
(* Everything runs on one event loop, so an action is a stretch between    *)
(* two awaits.  The tasks that interleave are the handlers of Desktop's    *)
(* broadcasts, the sub-agent refresh loop, one flush task per chat, and    *)
(* the handlers of what users click.  They share _bindings, _states and    *)
(* the dirty set, and queue for the lock of a chat to publish.             *)
(*                                                                         *)
(* What a projection says is abstracted to a version (pub) of the thread's *)
(* public state and a flag (kid) for whether the sub-agent of its latest   *)
(* turn is shown as finished.  A projection is an object: rev and made     *)
(* tell apart what the code compares with `is`.  How long a task sleeps is *)
(* left open, and with it `immediate`.                                     *)
(***************************************************************************)
EXTENDS Integers, FiniteSets, SequencesExt

CONSTANTS
  Chats,         \* Lark chats
  Threads,       \* Codex Desktop threads
  Home,          \* the thread some chats are bound to at first
  Residents,     \* those chats
  UserOps,       \* what users of this instance do
  Overlap,       \* whether a chat gives a command while another one runs
  FaultKinds,    \* which calls may fail
  MaxChanges,    \* bound on the changes Desktop makes
  MaxOps,        \* bound on what users do
  MaxFaults,     \* bound on failing calls
  MaxFlushes     \* bound on the flush tasks of a chat alive at once

NoThread == "no thread"

ASSUME ConstantsAssumption ==
  /\ NoThread \notin Threads
  /\ Home \in Threads /\ Residents \subseteq Chats
  /\ UserOps \subseteq {"attach", "switch", "detach", "select", "latest", "refresh"}
  /\ FaultKinds \subseteq {"owner", "follow", "refuse", "lost", "post"}
  /\ Overlap \in BOOLEAN
  /\ {MaxChanges, MaxOps, MaxFaults} \subseteq Nat
  /\ MaxFlushes \in Nat \ {0}

Partial == 0              \* a projection that misses some of the public state
Pubs == 0..(MaxChanges + 1)
Unread == 2               \* the sub-agent's file has not been read yet

Projections == [thread : Threads \cup {NoThread}, rev : Nat, pub : Pubs, kid : 0..1,
                made : {"none", "seed", "raw", "enriched", "refreshed"}]
NoState == [thread |-> NoThread, rev |-> 0, made |-> "none", pub |-> Partial, kid |-> 0]
NoLookup == [state |-> NoState, read |-> Unread]
Done == [at |-> "done", cancelled |-> FALSE]
Commands == [at : {"idle", "cancel", "discover", "publish", "follow", "followed", "unfollow"},
             target : Threads \cup {NoThread}, previous : Threads \cup {NoThread},
             slot : Nat, reuse : Nat]
Idle == [at |-> "idle", target |-> NoThread, previous |-> NoThread, slot |-> 0, reuse |-> 0]

VARIABLES
  desk,      \* Desktop: the public version and sub-agent of each thread
  follow,    \* Desktop: threads whose changes it broadcasts to the bridge
  snap,      \* Desktop: threads whose snapshot it still owes
  cards,     \* Lark: the cards of a chat, with the bridge's CardState.sequence
  late,      \* requests in flight whose caller was cancelled
  bindings,  \* _bindings
  saved,     \* the bindings file
  views,     \* _turn_views
  crossed,   \* history: chats an update of their thread may have missed
  stranded,  \* history: chats put back to a thread Desktop no longer broadcasts
  states,    \* _states
  built,     \* how many projections of a thread were built
  dirty,     \* _public_dirty_threads
  changes,   \* _on_state_change: handlers waiting for to_thread
  refresh,   \* _refresh_subagent_states: the lookup it waits for
  pending,   \* _pending_card_states
  flush,     \* the flush tasks of a chat
  task,      \* _card_flush_tasks, 0 when there is none
  queue,     \* publishers of a chat, the head holds its lock
  active,    \* card_service._active_cards, 0 when there is none
  attach,    \* attach() of a chat
  detach,    \* detach() of a chat
  budget     \* changes, operations and faults so far

desktop == <<desk, follow, snap>>
lark == <<cards, late, active>>
projection == <<states, built, dirty, changes, refresh>>
flushing == <<pending, flush, task>>
binding == <<bindings, saved, views, crossed, stranded>>
commands == <<attach, detach>>
vars == <<desktop, lark, projection, flushing, binding, commands, queue, budget>>

Spend(what, max) == budget[what] < max /\ budget' = [budget EXCEPT ![what] = @ + 1]
Fault(kind) == kind \in FaultKinds /\ Spend("faults", MaxFaults)

\* Mutant: the first chat bound to the thread stands for all of them.
Bound_First(t) ==
  IF t \in Range(bindings) THEN {CHOOSE c \in Chats : bindings[c] = t} ELSE {}

Bound(t) == {c \in Chats : bindings[c] = t}
BoundThreads == Range(bindings) \ {NoThread}

-----------------------------------------------------------------------------
(* Flush tasks *)

\* A slot no live task has and no command waits for.
FreeSlots(c) == {i \in 1..MaxFlushes : flush[c][i].at = "done"
                                       /\ i \notin {attach[c].slot, detach[c].slot}}

\* The newest state is pending; a task is created unless one is registered.
ScheduleCardPublish(cs, s) ==
  LET new == {c \in cs : task[c] = 0}
      slot(c) == CHOOSE i \in FreeSlots(c) : TRUE
  IN  /\ \A c \in new : FreeSlots(c) # {}
      /\ pending' = [c \in Chats |-> IF c \in cs THEN s ELSE pending[c]]
      /\ flush' = [c \in Chats |-> IF c \in new
                     THEN [flush[c] EXCEPT ![slot(c)] = [at |-> "sleep", cancelled |-> FALSE]]
                     ELSE flush[c]]
      /\ task' = [c \in Chats |-> IF c \in new THEN slot(c) ELSE task[c]]

\* Forget what is pending and cancel the registered task; the caller then
\* waits for it, unless there is none.
CancelCardFlush(c) ==
  /\ pending' = [pending EXCEPT ![c] = NoState]
  /\ task' = [task EXCEPT ![c] = 0]
  /\ flush' = [flush EXCEPT ![c] = [i \in 1..MaxFlushes |->
                 IF i = task[c] THEN [flush[c][i] EXCEPT !.cancelled = TRUE] ELSE flush[c][i]]]

Enqueued(c, job) == [queue EXCEPT ![c] = Append(@, job)]
Job(owner, slot, s, replace, reuse) ==
  [owner |-> owner, slot |-> slot, state |-> s, replace |-> replace,
   reuse |-> reuse, card |-> 0, view |-> "latest", at |-> "wait"]

\* The loop of flush(): take what is pending and publish it, or finish; the
\* finally clause forgets whatever task is registered for the chat.
FlushWake(c, i) ==
  /\ flush[c][i] = [at |-> "sleep", cancelled |-> FALSE]
  /\ IF pending[c] # NoState
       THEN /\ queue' = Enqueued(c, Job("flush", i, pending[c], FALSE, 0))
            /\ pending' = [pending EXCEPT ![c] = NoState]
            /\ flush' = [flush EXCEPT ![c][i].at = "publish"]
            /\ UNCHANGED task
       ELSE /\ flush' = [flush EXCEPT ![c][i] = Done]
            /\ task' = [task EXCEPT ![c] = 0]
            /\ UNCHANGED <<queue, pending>>
  /\ UNCHANGED <<desktop, lark, projection, binding, commands, budget>>

\* Mutant: what became pending during the publish is left to a next task.
FlushPublished_Once(c, i) ==
  /\ flush' = [flush EXCEPT ![c][i] = Done]
  /\ task' = [task EXCEPT ![c] = 0]
  /\ UNCHANGED pending

\* After a publish: once more when something became pending meanwhile.
FlushPublished(c, i) ==
  /\ IF pending[c] # NoState
       THEN flush' = [flush EXCEPT ![c][i].at = "sleep"] /\ UNCHANGED task
       ELSE flush' = [flush EXCEPT ![c][i] = Done] /\ task' = [task EXCEPT ![c] = 0]
  /\ UNCHANGED pending

\* What a publisher's call in flight does at Lark, card 0 for a new message.
Content(job) == [state |-> job.state, view |-> job.view]
Request(c, job) ==
  [chat |-> c, card |-> job.card, content |-> Content(job),
   seq |-> IF job.card = 0 THEN 0 ELSE cards[c][job.card].seq]

\* CancelledError in flush(): its one job, if any, leaves the queue; a request
\* it had sent goes on in its worker thread.
FlushCancelled(c, i) ==
  LET mine == {n \in DOMAIN queue[c] : queue[c][n].owner = "flush" /\ queue[c][n].slot = i}
      head == queue[c][1]
  IN  /\ flush[c][i].cancelled /\ flush[c][i].at # "done"
      /\ flush' = [flush EXCEPT ![c][i] = Done]
      /\ task' = [task EXCEPT ![c] = 0]
      /\ queue' = [queue EXCEPT ![c] =
                      IF mine = {} THEN @ ELSE RemoveAt(@, CHOOSE n \in mine : TRUE)]
      /\ late' = IF 1 \in mine /\ head.at \in {"update", "post"}
                   THEN late \cup {Request(c, head)} ELSE late
      /\ UNCHANGED <<desktop, cards, active, projection, pending, binding, commands, budget>>

-----------------------------------------------------------------------------
(* Publishing: the head of a chat's queue holds the chat's lock *)

\* Lark: an update shows only with a sequence above the last one's.
Applied(r) ==
  IF r.card = 0
    THEN [cards EXCEPT ![r.chat] = Append(@, [seq |-> 0, lark |-> 0, content |-> r.content])]
    ELSE IF r.seq > cards[r.chat][r.card].lark
      THEN [cards EXCEPT ![r.chat][r.card] = [@ EXCEPT !.lark = r.seq, !.content = r.content]]
      ELSE cards

\* A request whose caller was cancelled arrives at last, or never.
LateRequest(r) ==
  /\ late' = late \ {r}
  /\ cards' \in {cards, Applied(r)}
  /\ UNCHANGED <<desktop, active, projection, flushing, binding, commands, queue, budget>>

\* _turn_views is read when the lock is obtained, before the images are.
PublishBegin(c) ==
  /\ queue[c] # <<>> /\ queue[c][1].at = "wait"
  /\ queue' = [queue EXCEPT ![c][1] = [@ EXCEPT !.at = "image", !.view = views[c]]]
  /\ UNCHANGED <<desktop, lark, projection, flushing, binding, commands, budget>>

NextSequence(n) == n + 1

\* The next call: the clicked card, else the active one, else a new card; cs
\* is what Lark shows by then.  Either update first counts its card's
\* CardState.sequence up.
PublishCall(c, cs) ==
  LET job == queue[c][1]
      call == IF job.at = "image" /\ job.reuse # 0 THEN "reuse"
              ELSE IF job.at \in {"image", "reuse"} /\ ~job.replace /\ active[c] # 0
                THEN "update" ELSE "post"
      card == CASE call = "reuse" -> job.reuse [] call = "update" -> active[c]
                [] call = "post" -> 0
  IN  /\ queue' = [queue EXCEPT ![c][1] = [job EXCEPT !.at = call, !.card = card]]
      /\ cards' = IF card = 0 THEN cs ELSE [cs EXCEPT ![c][card].seq = NextSequence(@)]

PublishImages(c) ==
  /\ queue[c] # <<>> /\ queue[c][1].at = "image"
  /\ PublishCall(c, cards)
  /\ UNCHANGED <<desktop, late, active, projection, flushing, binding, commands, budget>>

\* The publisher returns and releases the lock; its caller goes on.
PublishEnd(c) ==
  LET job == queue[c][1]
  IN  /\ queue' = [queue EXCEPT ![c] = Tail(@)]
      /\ IF job.owner = "flush" THEN FlushPublished(c, job.slot) ELSE UNCHANGED flushing
      /\ IF job.owner = "attach"
           THEN attach' = [attach EXCEPT ![c].at = "follow"] ELSE UNCHANGED attach
      /\ UNCHANGED <<desktop, late, projection, binding, detach>>

\* The call in flight succeeds.  A clicked card and a new one become active;
\* the active card stays what it is, even when detach() cleared it meanwhile.
PublishOk(c) ==
  LET job == queue[c][1]
      r == Request(c, job)
  IN  /\ queue[c] # <<>> /\ job.at \in {"reuse", "update", "post"}
      /\ job.card # 0 => r.seq > cards[c][job.card].lark
      /\ cards' = Applied(r)
      /\ active' = CASE job.at = "reuse" -> [active EXCEPT ![c] = job.card]
                     [] job.at = "update" -> active
                     [] job.at = "post" -> [active EXCEPT ![c] = Len(cards[c]) + 1]
      /\ PublishEnd(c) /\ UNCHANGED budget

\* An update fails, or its answer is lost (the second attempt then comes with
\* a sequence Lark has seen): on to the next call.
PublishNotUpdated(c) ==
  /\ queue[c] # <<>> /\ queue[c][1].at \in {"reuse", "update"}
  /\ \/ Fault("refuse") /\ PublishCall(c, cards)
     \/ Fault("lost") /\ PublishCall(c, Applied(Request(c, queue[c][1])))
  /\ UNCHANGED <<desktop, late, active, projection, flushing, binding, commands>>

\* create_card or send_card fails: _publish_card returns False.
PublishFailed(c) ==
  /\ queue[c] # <<>> /\ queue[c][1].at = "post"
  /\ Fault("post")
  /\ PublishEnd(c)
  /\ UNCHANGED <<cards, active>>

-----------------------------------------------------------------------------
(* Projections: _on_state_change and the sub-agent refresh loop *)

PublicKey(s) == <<s.pub, s.kid>>

\* The first stretch of _on_state_change.  A patch says what changed since the
\* version before it, so applied to any other projection it leaves gaps.
OnStateChange(t, snapshot) ==
  LET prev == states[t]
      pub == IF snapshot \/ prev.pub = desk[t].pub THEN desk'[t].pub
             ELSE IF desk'[t].pub # desk[t].pub THEN Partial ELSE prev.pub
      raw == [thread |-> t, rev |-> built[t] + 1, made |-> "raw", pub |-> pub,
              kid |-> IF snapshot THEN 0 ELSE prev.kid]
  IN  IF Bound(t) = {} THEN UNCHANGED projection
      ELSE /\ built' = [built EXCEPT ![t] = @ + 1]
           /\ dirty' = IF PublicKey(prev) # PublicKey(raw) \/ prev = NoState
                         THEN dirty \cup {t} ELSE dirty
           /\ states' = [states EXCEPT ![t] = raw]
           /\ changes' = changes \cup {[state |-> raw, read |-> Unread]}
           /\ UNCHANGED refresh

\* get_status reads the sub-agent's rollout file in a worker thread.
LookupRead(h) == [h EXCEPT !.read = desk[h.state.thread].kid]

ChangeRead(h) ==
  /\ h.read = Unread
  /\ changes' = (changes \ {h}) \cup {LookupRead(h)}
  /\ UNCHANGED <<desktop, lark, states, built, dirty, refresh, flushing, binding,
                 commands, queue, budget>>

\* Mutant: the projection read is not compared with the current one.
Current_Any(s) == states[s.thread] # NoState

\* `self._states.get(thread_id) is normalized`
Current(s) == states[s.thread] = s

\* The last stretch: give way to a newer projection, else show this one in
\* every bound chat if anything public changed since the last time.
ChangeDone(h) ==
  LET t == h.state.thread
      enriched == [h.state EXCEPT !.made = "enriched", !.kid = h.read]
      public == t \in dirty \/ h.read # h.state.kid
  IN  /\ h.read # Unread
      /\ changes' = changes \ {h}
      /\ IF Current(h.state)
           THEN /\ states' = [states EXCEPT ![t] = enriched]
                /\ dirty' = dirty \ {t}
                /\ IF public THEN ScheduleCardPublish(Bound(t), enriched)
                             ELSE UNCHANGED flushing
           ELSE UNCHANGED <<states, dirty, flushing>>
      /\ UNCHANGED <<desktop, lark, built, refresh, binding, commands, queue, budget>>

RefreshBegin(t) ==
  /\ refresh = NoLookup
  /\ t \in BoundThreads /\ states[t] # NoState /\ states[t].kid = 0
  /\ refresh' = [state |-> states[t], read |-> Unread]
  /\ UNCHANGED <<desktop, lark, states, built, dirty, changes, flushing, binding,
                 commands, queue, budget>>

RefreshRead ==
  /\ refresh # NoLookup /\ refresh.read = Unread
  /\ refresh' = LookupRead(refresh)
  /\ UNCHANGED <<desktop, lark, states, built, dirty, changes, flushing, binding,
                 commands, queue, budget>>

RefreshDone ==
  LET t == refresh.state.thread
      refreshed == [refresh.state EXCEPT !.made = "refreshed", !.kid = refresh.read]
  IN  /\ refresh # NoLookup /\ refresh.read # Unread
      /\ refresh' = NoLookup
      /\ IF Current(refresh.state) /\ refreshed.kid # refresh.state.kid
           THEN /\ states' = [states EXCEPT ![t] = refreshed]
                /\ ScheduleCardPublish(Bound(t), refreshed)
           ELSE UNCHANGED <<states, flushing>>
      /\ UNCHANGED <<desktop, lark, built, dirty, changes, binding, commands, queue, budget>>

-----------------------------------------------------------------------------
(* What users do *)

Free(c) == attach[c].at = "idle" /\ detach[c].at = "idle"
May(c, op) ==
  /\ op \in UserOps
  /\ Overlap \/ (Free(c) /\ \A n \in DOMAIN queue[c] : queue[c][n].owner = "flush")

\* Cancel the flush of chat c: is there a task to wait for?
Waits(c) == task[c] # 0

AttachDiscover(c, t, reuse) ==
  attach' = [attach EXCEPT ![c] = [at |-> "discover", target |-> t, slot |-> 0,
                                   previous |-> bindings[c], reuse |-> reuse]]

\* attach(), up to its first await; the lark handler lets one run per chat.
AttachBegin(c, t, reuse) ==
  /\ May(c, IF bindings[c] = NoThread THEN "attach" ELSE "switch")
  /\ attach[c].at = "idle"
  /\ Spend("ops", MaxOps)
  /\ CancelCardFlush(c)
  /\ IF Waits(c)
       THEN attach' = [attach EXCEPT ![c] = [at |-> "cancel", target |-> t, slot |-> task[c],
                                             previous |-> NoThread, reuse |-> reuse]]
       ELSE AttachDiscover(c, t, reuse)
  /\ UNCHANGED <<desktop, lark, projection, binding, detach, queue>>

AttachCancelled(c) ==
  /\ attach[c].at = "cancel" /\ flush[c][attach[c].slot].at = "done"
  /\ AttachDiscover(c, attach[c].target, attach[c].reuse)
  /\ UNCHANGED <<desktop, lark, projection, flushing, binding, detach, queue, budget>>

\* No owner answers: attach() returns False.
AttachNoOwner(c) ==
  /\ attach[c].at = "discover"
  /\ Fault("owner")
  /\ attach' = [attach EXCEPT ![c] = Idle]
  /\ UNCHANGED <<desktop, lark, projection, flushing, binding, detach, queue>>

\* Chat c leaves its thread, maybe while a flush task publishes it.
Crossed(c) == IF \E i \in 1..MaxFlushes : flush[c][i].at # "done"
                THEN crossed \cup {c} ELSE crossed \ {c}

\* Chats that keep a card while the projection of their thread is made anew:
\* the detach() of another chat has dropped it under them.
Reseeded(t) == IF states[t] = NoState THEN Bound(t) ELSE {}

\* The owner answers: bind in memory, seed the projection from the rollout
\* when there is none, and publish a card.
AttachBind(c) ==
  LET t == attach[c].target
  IN  /\ attach[c].at = "discover"
      /\ bindings' = [bindings EXCEPT ![c] = t]
      /\ views' = [views EXCEPT ![c] = "latest"]
      /\ stranded' = stranded \ {c}
      /\ crossed' = Crossed(c) \cup (Reseeded(t) \ {c})
      /\ IF states[t] # NoState THEN UNCHANGED <<states, built>>
         ELSE \E pub \in {Partial, desk[t].pub} :
                /\ built' = [built EXCEPT ![t] = @ + 1]
                /\ states' = [states EXCEPT ![t] =
                     [thread |-> t, rev |-> built[t] + 1, made |-> "seed", pub |-> pub, kid |-> 0]]
      /\ queue' = Enqueued(c, Job("attach", 0, states'[t], TRUE, attach[c].reuse))
      /\ attach' = [attach EXCEPT ![c].at = "publish"]
      /\ UNCHANGED <<desktop, lark, dirty, changes, refresh, flushing, saved, detach, budget>>

\* follow() is broadcast: Desktop will send changes, and a snapshot first.  The
\* IPC client writes one frame at a time, so an unfollow() called before this
\* has returned by now.
AttachFollow(c) ==
  /\ attach[c].at = "follow"
  /\ \A other \in Chats : detach[other].at # "unfollow"
  /\ follow' = follow \cup {attach[c].target}
  /\ snap' = snap \cup {attach[c].target}
  /\ stranded' = stranded \ Bound(attach[c].target)
  /\ attach' = [attach EXCEPT ![c].at = "followed"]
  /\ UNCHANGED <<desk, lark, projection, flushing, bindings, saved, views, crossed, detach,
                 queue, budget>>

\* Mutant: the binding made in advance stays.
AttachNoFollow_Stays(c) ==
  /\ attach[c].at = "follow"
  /\ Fault("follow")
  /\ attach' = [attach EXCEPT ![c] = Idle]
  /\ UNCHANGED <<desktop, lark, projection, flushing, binding, detach, queue>>

\* follow() fails: back to the binding there was, which another chat may have
\* unfollowed meanwhile.
AttachNoFollow(c) ==
  /\ attach[c].at = "follow"
  /\ Fault("follow")
  /\ bindings' = [bindings EXCEPT ![c] = attach[c].previous]
  /\ stranded' = IF attach[c].previous \in follow \cup {NoThread}
                   THEN stranded ELSE stranded \cup {c}
  /\ attach' = [attach EXCEPT ![c] = Idle]
  /\ UNCHANGED <<desktop, lark, projection, flushing, saved, views, crossed, detach, queue>>

\* A thread no chat is bound to in bs.
Unused(t, bs) == t # NoThread /\ t \notin Range(bs)

\* follow() returned: save, and leave the previous thread if nobody needs it.
AttachDone(c) ==
  LET prev == attach[c].previous
  IN  /\ attach[c].at = "followed"
      /\ saved' = bindings
      /\ follow' = IF prev # attach[c].target /\ Unused(prev, bindings)
                     THEN follow \ {prev} ELSE follow
      /\ attach' = [attach EXCEPT ![c] = Idle]
      /\ UNCHANGED <<desk, snap, lark, projection, flushing, bindings, views, crossed,
                     stranded, detach, queue, budget>>

\* detach() from where the flush task is gone to unfollow() or to its end.
Unbind(c) ==
  LET t == bindings[c]
  IN  /\ bindings' = [bindings EXCEPT ![c] = NoThread]
      /\ saved' = bindings'
      /\ views' = [views EXCEPT ![c] = "latest"]
      /\ stranded' = stranded \ {c}
      /\ crossed' = Crossed(c)
      /\ IF Unused(t, bindings')
           THEN /\ follow' = follow \ {t}
                /\ detach' = [detach EXCEPT ![c] = [Idle EXCEPT !.at = "unfollow", !.target = t]]
                /\ UNCHANGED active
           ELSE /\ active' = [active EXCEPT ![c] = 0]
                /\ detach' = [detach EXCEPT ![c] = Idle]
                /\ UNCHANGED follow

DetachBegin(c) ==
  /\ May(c, "detach") /\ bindings[c] # NoThread
  /\ detach[c].at = "idle"
  /\ Spend("ops", MaxOps)
  /\ CancelCardFlush(c)
  /\ IF Waits(c)
       THEN /\ detach' = [detach EXCEPT ![c] = [Idle EXCEPT !.at = "cancel", !.slot = task[c]]]
            /\ UNCHANGED <<binding, follow, active>>
       ELSE Unbind(c)
  /\ UNCHANGED <<desk, snap, cards, late, projection, attach, queue>>

DetachCancelled(c) ==
  /\ detach[c].at = "cancel" /\ flush[c][detach[c].slot].at = "done"
  /\ Unbind(c)
  /\ UNCHANGED <<desk, snap, cards, late, projection, flushing, attach, queue, budget>>

\* unfollow() returned: drop the projection and the active card.
DetachDone(c) ==
  /\ detach[c].at = "unfollow"
  /\ states' = [states EXCEPT ![detach[c].target] = NoState]
  /\ active' = [active EXCEPT ![c] = 0]
  /\ detach' = [detach EXCEPT ![c] = Idle]
  /\ UNCHANGED <<desktop, cards, late, built, dirty, changes, refresh, flushing, binding,
                 attach, queue, budget>>

\* select_turn (an old turn), _return_to_latest_turn after a message was sent,
\* and refresh_card publish the projection of this moment.
View(c, op) ==
  /\ May(c, op)
  /\ bindings[c] # NoThread /\ states[bindings[c]] # NoState
  /\ op = "latest" => views[c] = "old"
  /\ Spend("ops", MaxOps)
  /\ views' = CASE op = "select" -> [views EXCEPT ![c] = "old"]
                [] op = "latest" -> [views EXCEPT ![c] = "latest"]
                [] op = "refresh" -> views
  /\ \E reuse \in {0} \cup (IF op = "latest" THEN {} ELSE DOMAIN cards[c]) :
       queue' = Enqueued(c, Job("user", 0, states[bindings[c]], FALSE, reuse))
  /\ UNCHANGED <<desktop, lark, projection, flushing, bindings, saved, crossed, stranded,
                 commands>>

-----------------------------------------------------------------------------
(* Codex Desktop *)

\* A change of thread t, public or not, reaches the bridge if Desktop
\* broadcasts it.
DesktopChange(t, public) ==
  /\ Spend("changes", MaxChanges)
  /\ desk' = IF public THEN [desk EXCEPT ![t].pub = @ + 1] ELSE desk
  /\ IF t \in follow THEN OnStateChange(t, FALSE) ELSE UNCHANGED projection
  /\ UNCHANGED <<follow, snap, lark, flushing, binding, commands, queue>>

\* The sub-agent of the latest turn finishes; only its own file says so.
ChildFinishes(t) ==
  /\ desk[t].kid = 0
  /\ Spend("changes", MaxChanges)
  /\ desk' = [desk EXCEPT ![t].kid = 1]
  /\ UNCHANGED <<follow, snap, lark, projection, flushing, binding, commands, queue>>

SendSnapshot(t) ==
  /\ t \in snap /\ snap' = snap \ {t}
  /\ UNCHANGED <<desk, follow>>
  /\ OnStateChange(t, TRUE)
  /\ UNCHANGED <<lark, flushing, binding, commands, queue, budget>>

-----------------------------------------------------------------------------

\* start() has restored the bindings, published a card and followed.
Init ==
  LET seed == [thread |-> Home, rev |-> 1, made |-> "seed", pub |-> 1, kid |-> 0]
  IN  /\ desk = [t \in Threads |-> [pub |-> 1, kid |-> 0]]
      /\ bindings = [c \in Chats |-> IF c \in Residents THEN Home ELSE NoThread]
      /\ saved = bindings
      /\ follow = BoundThreads /\ snap = {}
      /\ cards = [c \in Chats |-> IF c \in Residents
                    THEN << [seq |-> 0, lark |-> 0,
                             content |-> [state |-> seed, view |-> "latest"]] >>
                    ELSE <<>>]
      /\ active = [c \in Chats |-> Len(cards[c])]
      /\ late = {}
      /\ views = [c \in Chats |-> "latest"] /\ crossed = {} /\ stranded = {}
      /\ states = [t \in Threads |-> IF t \in BoundThreads THEN seed ELSE NoState]
      /\ built = [t \in Threads |-> states[t].rev]
      /\ dirty = {} /\ changes = {} /\ refresh = NoLookup
      /\ pending = [c \in Chats |-> NoState]
      /\ flush = [c \in Chats |-> [i \in 1..MaxFlushes |-> Done]]
      /\ task = [c \in Chats |-> 0]
      /\ queue = [c \in Chats |-> <<>>]
      /\ attach = [c \in Chats |-> Idle] /\ detach = [c \in Chats |-> Idle]
      /\ budget = [changes |-> 0, ops |-> 0, faults |-> 0]

Publishing(c) == \/ PublishBegin(c) \/ PublishImages(c) \/ PublishOk(c)
                 \/ PublishNotUpdated(c) \/ PublishFailed(c)
Flushing(c) == \E i \in 1..MaxFlushes : FlushWake(c, i) \/ FlushCancelled(c, i)
Projecting == \/ \E h \in changes : ChangeRead(h) \/ ChangeDone(h)
              \/ \E t \in Threads : RefreshBegin(t)
              \/ RefreshRead \/ RefreshDone
Attaching(c) == \/ AttachCancelled(c) \/ AttachNoOwner(c) \/ AttachBind(c)
                \/ AttachFollow(c) \/ AttachNoFollow(c) \/ AttachDone(c)
Detaching(c) == DetachCancelled(c) \/ DetachDone(c)
User(c) == \/ \E t \in Threads, reuse \in {0} \cup DOMAIN cards[c] : AttachBegin(c, t, reuse)
           \/ DetachBegin(c)
           \/ \E op \in {"select", "latest", "refresh"} : View(c, op)
Desktop == \E t \in Threads : \/ \E public \in BOOLEAN : DesktopChange(t, public)
                              \/ ChildFinishes(t) \/ SendSnapshot(t)

Next == \/ \E c \in Chats : \/ Publishing(c) \/ Flushing(c) \/ Attaching(c)
                            \/ Detaching(c) \/ User(c)
        \/ Projecting \/ Desktop
        \/ \E r \in late : LateRequest(r)

Spec == Init /\ [][Next]_vars

\* The event loop and the worker threads run every task that is ready, calls
\* come back, and Desktop sends the snapshot it owes.
FairSpec ==
  /\ Spec
  /\ \A c \in Chats : /\ WF_vars(Publishing(c)) /\ WF_vars(Attaching(c))
                      /\ WF_vars(Detaching(c))
                      /\ \A i \in 1..MaxFlushes : WF_vars(FlushWake(c, i) \/ FlushCancelled(c, i))
  /\ WF_vars(\E h \in changes : ChangeRead(h) \/ ChangeDone(h))
  /\ \A t \in Threads : WF_vars(RefreshBegin(t))
  /\ WF_vars(RefreshRead \/ RefreshDone)
  /\ WF_vars(\E t \in Threads : SendSnapshot(t))

-----------------------------------------------------------------------------
(* Properties *)

\* Nothing is running or owed.
Quiet ==
  /\ changes = {} /\ refresh = NoLookup /\ snap = {} /\ late = {}
  /\ \A c \in Chats : /\ Free(c) /\ queue[c] = <<>>
                      /\ \A i \in 1..MaxFlushes : flush[c][i].at = "done"
  /\ \A t \in BoundThreads : states[t].kid = desk[t].kid

\* The card of a bound chat shows what its thread is now, in the chosen view;
\* a chat bound to nothing has no card to update.
CardCurrent(c) ==
  LET t == bindings[c]
      shown == cards[c][active[c]].content
  IN  IF t = NoThread THEN active[c] = 0
      ELSE /\ active[c] # 0
           /\ shown.state.thread = t /\ PublicKey(shown.state) = <<desk[t].pub, desk[t].kid>>
           /\ shown.view = views[c]

\* A call has failed after which the code gives the update up.
GivenUp == budget.faults > 0 /\ ~(FaultKinds \subseteq {"refuse", "lost"})

\* When the bridge comes to rest, every bound chat's card shows the public
\* state its thread has: no update is lost between the identity check, the
\* dirty set, the coalescing flush and the lock of the chat. And none comes to
\* a chat after detach(), as tests/test_desktop_bridge.py:1354 has it. There are
\* two exceptions. attach() and detach() cancel the update that is pending and
\* then wait before they change the binding; one scheduled in between shows the
\* thread that was left. And detach() drops the projection of its thread after
\* unfollow(), though another chat may have bound itself to the thread
\* meanwhile; when the next attach() makes it anew from the rollout, what
\* changed in between is in the projection and in no card of that other chat.
QuietCardCurrent == Quiet /\ ~GivenUp => \A c \in Chats \ crossed : CardCurrent(c)

\* Once no command is running, Desktop broadcasts to the bridge the thread of
\* every bound chat: leaving a thread never cuts off another chat that came to
\* it meanwhile. The exception: a chat whose follow() failed is put back to the
\* thread it was bound to, and nobody follows that one again if another chat
\* left it meanwhile. And no other thread is broadcast, as long as nothing has
\* failed and a chat gives one command at a time (when follow() fails, a chat
\* that left the thread meanwhile, and did not unfollow it because of the
\* binding made in advance, leaves it followed for nobody).
FollowsBound ==
  (\A c \in Chats : Free(c)) =>
    /\ \A c \in Chats \ stranded : bindings[c] # NoThread => bindings[c] \in follow
    /\ budget.faults = 0 /\ ~Overlap => follow \subseteq BoundThreads

\* A projection gives way to newer ones only, and a finished sub-agent never
\* runs again in the same projection: a slow file read cannot put an old state
\* over the one a broadcast brought meanwhile.
ProjectionNeverOlder ==
  [][\A t \in Threads :
       states[t] # NoState /\ states'[t] # NoState =>
         \/ states'[t].rev > states[t].rev
         \/ states'[t].rev = states[t].rev /\ states'[t].kid >= states[t].kid]_vars

\* From some time on the cards show the final state of their threads: under
\* fair scheduling the bridge always comes to rest with current cards.
CardsCatchUp == <>[](\A c \in Chats : CardCurrent(c))

=============================================================================
