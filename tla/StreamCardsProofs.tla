--------------------------- MODULE StreamCardsProofs ---------------------------
(***************************************************************************)
(* Proofs about the rolling cards of a CLI session.  The three invariants  *)
(* of the module rest on one inductive invariant, in four parts: where the *)
(* poll task and the handler stand (PlaceInv), who may still number an     *)
(* update of a card and from what on (SeqInv), what may turn a card on     *)
(* (LiveInv), and what the cards that are done with show of the output     *)
(* (ShownInv).                                                             *)
(***************************************************************************)
EXTENDS StreamCards, SequenceTheorems, WellFoundedInduction, TLAPS

Block == [id : Nat, size : {1, BigSize}, ver : Nat]
Shows == [blocks : Seq(Block), busy : BOOLEAN]
Card == [id : Nat, seq : Nat, start : Nat, frozen : BOOLEAN]
LarkCard == [form : {"live", "frozen", "off"}, blocks : Seq(Block), busy : BOOLEAN,
             seq : Nat, sent : BOOLEAN]
Hands == [at : {"none", "update", "offline"}, id : Nat, seq : Nat, start : Nat,
          form : {"none", "off", "button"}]
Strays == [call : {"put", "send"}, id : Nat, seq : Nat, form : {"live", "frozen"}, content : Shows]

Outputs == [blocks : Seq(Block), busy : BOOLEAN, next : Nat, big : Big]
Trackers == [cards : Seq(Card), hash : Shows \cup {<<>>}, ready : BOOLEAN, on : BOOLEAN]
Polls ==
  [at : {"off", "wait", "create", "send", "freeze", "update", "replace", "resend", "notify"},
   blocks : Seq(Block), busy : BOOLEAN, start : Nat, id : Nat,
   why : {"new", "split", "elements"}, notify : BOOLEAN]

TypeOK ==
  /\ output \in Outputs /\ tracker \in Trackers /\ poll \in Polls
  /\ hand \in Hands /\ detached \in Hands
  /\ lark \in Seq(LarkCard) /\ strays \subseteq Strays

\* The poll task runs while there is a tracker, and the handler does not turn a card off then.
\* A call about the open card is under way only if there is one, a new card only if there is none.
PlaceInv ==
  /\ ~tracker.on => tracker = NoTracker /\ poll = Idle
  /\ tracker.on => hand.at = "none" /\ detached.at = "none"
  /\ hand.at # "none" => detached.at = "none"
  /\ poll.at \in {"update", "freeze", "replace", "resend"} => Active # 0
  /\ poll.at \in {"create", "send"} => Active = 0

\* a card that has been created and is being sent
Sending == poll.at \in {"send", "resend"}
Mine == {tracker.cards[i].id : i \in DOMAIN tracker.cards}
Puts(id) == {c \in strays : c.call = "put" /\ c.id = id}

\* Whoever has the card counts on from the last number used, on its way or not.
SeqInv ==
  /\ Mine \subseteq DOMAIN lark
  /\ \A i, j \in DOMAIN tracker.cards : tracker.cards[i].id = tracker.cards[j].id => i = j
  /\ \A id \in Mine : Puts(id) = {}
  /\ Sending => /\ poll.id \in DOMAIN lark \ Mine
                /\ Puts(poll.id) = {} /\ lark[poll.id].seq = 0
  /\ Active # 0 =>
       LET card == tracker.cards[Active]
       IN  /\ lark[card.id].seq <= card.seq
           /\ poll.at \in {"update", "freeze"} => lark[card.id].seq < card.seq
  /\ hand.at = "update" =>
       /\ hand.id \in DOMAIN lark /\ lark[hand.id].seq < hand.seq
       /\ \A c \in Puts(hand.id) : c.seq < hand.seq
  /\ detached.at = "update" =>
       /\ detached.id \in DOMAIN lark /\ lark[detached.id].seq <= detached.seq
       /\ \A c \in Puts(detached.id) : c.seq <= detached.seq
  /\ \A c \in strays : c.id \in DOMAIN lark
  /\ refused = {}

InHand == IF hand.at = "update" THEN {hand.id} ELSE {}
Open == IF Active = 0 THEN {} ELSE {tracker.cards[Active].id}
Coming == IF poll.at = "resend" THEN {poll.id} ELSE {}

\* What is on its way can turn on only a card that is kept or in hand, or comes too late.
LiveInv ==
  /\ \A i \in DOMAIN lark :
       lark[i].sent /\ lark[i].form = "live" => i \in kept \cup InHand \cup Open \cup Coming
  /\ \A c \in strays :
       /\ c.call = "send" => c.id \in kept
       /\ c.call = "put" /\ c.form = "live" =>
            c.id \in kept \cup InHand \/ c.seq <= lark[c.id].seq

\* what all cards but the open one show, or was left out
Done ==
  missed \cup UNION {ToSet(lark[tracker.cards[i].id].blocks) : i \in DOMAIN tracker.cards \ {Active}}

\* out continues an output that was read as blocks: only its last block may have changed
Continues(blocks, out) ==
  /\ First(blocks) <= First(out)
  /\ First(blocks) = First(out) =>
       \A i \in DOMAIN blocks : i \in DOMAIN out /\ (i < Len(blocks) => out[i] = blocks[i])

Covered(blocks, n) == \A i \in 1..n : i < Len(blocks) /\ blocks[i] \in Done
Reading == poll.at \notin {"off", "wait", "notify"}

\* The blocks before the window of the open card are done with, if they are of the output it was
\* made for; so are those before the window of a card that is to come.
ShownInv ==
  /\ past \in 0..First(output.blocks) /\ First(output.blocks) < output.next
  /\ Reading => past <= First(poll.blocks) /\ Continues(poll.blocks, output.blocks)
  /\ Active # 0 =>
       LET card == tracker.cards[Active]
       IN  /\ past = First(output.blocks) => Covered(output.blocks, card.start)
           /\ poll.at \in {"wait", "notify"} /\ tracker.hash # <<>> =>
                ToSet(tracker.hash.blocks) \subseteq ToSet(lark[card.id].blocks) \cup missed
           /\ poll.at = "freeze" /\ poll.why # "elements" =>
                /\ Covered(poll.blocks, card.start)
                /\ poll.start \in card.start..Len(poll.blocks)
           /\ poll.at = "resend" => ToSet(From(card.start)) \subseteq ToSet(lark[poll.id].blocks)
  /\ poll.at = "create" =>
       /\ poll.start = 0 \/ poll.start < Len(poll.blocks)
       /\ poll.why = "split" => Covered(poll.blocks, poll.start)
  /\ poll.at = "send" =>
       /\ Covered(poll.blocks, poll.start)
       /\ ToSet(From(poll.start)) \subseteq ToSet(lark[poll.id].blocks)

IInv == TypeOK /\ PlaceInv /\ SeqInv /\ LiveInv /\ ShownInv

-----------------------------------------------------------------------------
(* Where a window begins and ends. *)

LEMMA Consts ==
  /\ CardBlocks \in Nat /\ CardBlocks > 0 /\ Window \in Nat /\ Window > 0
  /\ BigSize \in Nat /\ SizeLimit \in Nat
  BY ConstantsAssumption DEF ConstantsAssumption

LEMMA SmallestIn ==
  ASSUME NEW S \in SUBSET Nat, S # {}
  PROVE  \E m \in S : \A k \in S : m <= k
<1> DEFINE R == {ss \in Nat \X Nat : ss[1] < ss[2]}
<1>1. IsWellFoundedOn(R, Nat)
  BY NatLessThanWellFounded DEF OpToRel
<1> HIDE DEF R
<1>2. PICK m \in S : \A k \in S : ~(<<k, m>> \in R)
  BY <1>1, WFMin
<1>3. \A k \in S : ~(k < m)
  BY <1>2 DEF R
<1> QED BY <1>3

\* A window that is cut from its head begins where it did or before the last block.
LEMMA TrimmedStart ==
  ASSUME TypeOK, NEW s \in Nat, s <= Len(poll.blocks)
  PROVE  /\ Trimmed(s) \in s..Len(poll.blocks)
         /\ Trimmed(s) = s \/ Trimmed(s) < Len(poll.blocks)
<1> DEFINE n == Len(poll.blocks)
           good == {k \in s..n : k = s \/ k < n}
           ok == {k \in good : Fits(From(k)) \/ k >= n - 1}
           P(k) == (Fits(From(k)) \/ k >= n - 1) /\ \A j \in good : j < k => ~Fits(From(j))
<1>1. n \in Nat
  BY DEF TypeOK, Polls
<1>2. (IF n > s THEN n - 1 ELSE s) \in ok
  BY <1>1
<1>3. PICK m \in ok : \A k \in ok : m <= k
  <2>1. ok \in SUBSET Nat
    BY <1>1
  <2>2. ok # {}
    BY <1>2
  <2> HIDE DEF ok
  <2> QED BY <2>1, <2>2, SmallestIn
<1>4. m \in good /\ P(m)
  <2>1. \A j \in good : j < m => j \notin ok
    <3>1. \A j \in good : j \in Nat
      BY <1>1
    <3>2. m \in Nat
      BY <1>1
    <3> HIDE DEF ok, good
    <3> QED BY <1>3, <3>1, <3>2
  <2> QED BY <2>1
<1>5. Trimmed(s) = CHOOSE k \in good : P(k)
  BY DEF Trimmed
<1>6. Trimmed(s) \in good
  <2> HIDE DEF P, good
  <2> QED BY <1>4, <1>5
<1> QED BY <1>6

\* A card that is frozen for its size holds a block and no more than it has.
LEMMA FreezeCounts ==
  ASSUME NEW blocks \in Seq(Block), blocks # <<>>
  PROVE  FreezeCount(blocks) \in 1..Len(blocks)
<1> DEFINE n == Len(blocks)
           fits == {k \in 1..n : k = 1 \/ Fits(SubSeq(blocks, 1, k))}
           back == {n - k : k \in fits}
           P(k) == /\ k = 1 \/ Fits(SubSeq(blocks, 1, k))
                   /\ \A j \in (k + 1)..n : ~Fits(SubSeq(blocks, 1, j))
<1>1. n \in Nat /\ n > 0
  BY EmptySeq
<1>2. 1 \in fits
  BY <1>1
<1>3. PICK m \in fits : \A k \in fits : k <= m
  <2>1. back \in SUBSET Nat /\ n - 1 \in back
    BY <1>1, <1>2
  <2>2. PICK b \in back : \A k \in back : b <= k
    <3> HIDE DEF back
    <3> QED BY <2>1, SmallestIn
  <2>3. PICK m \in fits : b = n - m
    BY <2>2
  <2>4. ASSUME NEW k \in fits PROVE k <= m
    <3>1. n - k \in back
      OBVIOUS
    <3>2. n - m <= n - k
      <4> HIDE DEF back, fits
      <4> QED BY <2>2, <2>3, <3>1
    <3>3. k \in Nat /\ m \in Nat
      BY <1>1
    <3> HIDE DEF fits
    <3> QED BY <1>1, <3>2, <3>3
  <2> QED BY <2>4
<1>4. P(m)
  <2>1. ASSUME NEW j \in (m + 1)..n, Fits(SubSeq(blocks, 1, j))
        PROVE FALSE
    <3>1. j \in fits /\ m \in Nat /\ j \in Nat /\ j > m
      BY <1>1, <2>1
    <3> HIDE DEF fits
    <3> QED BY <1>3, <3>1
  <2> QED BY <2>1
<1>5. FreezeCount(blocks) = CHOOSE k \in 1..n : P(k)
  BY DEF FreezeCount
<1>6. m \in 1..n
  OBVIOUS
<1> HIDE DEF P, n
<1> QED BY <1>4, <1>5, <1>6 DEF n

\* the part of an output after s and up to e
LEMMA Slice ==
  ASSUME NEW blocks \in Seq(Block), NEW s \in Nat, NEW e \in Nat, e <= Len(blocks)
  PROVE  /\ SubSeq(blocks, s + 1, e) \in Seq(Block)
         /\ SubSeq(blocks, s + 1, e) = <<>> <=> s >= e
         /\ Len(SubSeq(blocks, s + 1, e)) = IF s < e THEN e - s ELSE 0
         /\ ToSet(SubSeq(blocks, s + 1, e)) = {blocks[i] : i \in (s + 1)..e}
<1> DEFINE t == SubSeq(blocks, s + 1, e)
<1>1. /\ t \in Seq(Block) /\ DOMAIN t = 1..Len(t)
      /\ Len(t) = IF s + 1 <= e THEN e - s ELSE 0
      /\ \A i \in 1..Len(t) : t[i] = blocks[s + i]
  BY SubSeqProperties
<1>2. (t = <<>> <=> s >= e) /\ Len(t) = IF s < e THEN e - s ELSE 0
  BY <1>1, EmptySeq
<1>3. ToSet(t) = {t[i] : i \in DOMAIN t}
  BY DEF ToSet
<1> HIDE DEF t
<1>4. ToSet(t) \subseteq {blocks[i] : i \in (s + 1)..e}
  <2> SUFFICES ASSUME NEW i \in 1..Len(t)
               PROVE  t[i] \in {blocks[k] : k \in (s + 1)..e}
    BY <1>1, <1>3
  <2>1. s + i \in (s + 1)..e
    BY <1>1
  <2> QED BY <1>1, <2>1
<1>5. {blocks[i] : i \in (s + 1)..e} \subseteq ToSet(t)
  <2> SUFFICES ASSUME NEW i \in (s + 1)..e
               PROVE  blocks[i] \in ToSet(t)
    OBVIOUS
  <2>1. i - s \in 1..Len(t) /\ s + (i - s) = i
    BY <1>1
  <2> QED BY <1>1, <1>3, <2>1
<1> QED BY <1>1, <1>2, <1>4, <1>5 DEF t

LEMMA FromSlice ==
  ASSUME TypeOK, NEW s \in Nat
  PROVE  /\ From(s) \in Seq(Block)
         /\ From(s) = <<>> <=> s >= Len(poll.blocks)
         /\ ToSet(From(s)) = {poll.blocks[i] : i \in (s + 1)..Len(poll.blocks)}
<1>1. poll.blocks \in Seq(Block) /\ Len(poll.blocks) \in Nat
  BY DEF TypeOK, Polls
<1>2. CASE s < Len(poll.blocks)
  <2>1. From(s) = SubSeq(poll.blocks, s + 1, Len(poll.blocks))
    BY <1>2 DEF From
  <2> DEFINE n == Len(poll.blocks)
  <2>2. n \in Nat /\ n <= Len(poll.blocks)
    BY <1>1
  <2>3. /\ SubSeq(poll.blocks, s + 1, n) \in Seq(Block)
        /\ SubSeq(poll.blocks, s + 1, n) = <<>> <=> s >= n
        /\ ToSet(SubSeq(poll.blocks, s + 1, n)) = {poll.blocks[i] : i \in (s + 1)..n}
    <3> HIDE DEF n
    <3> QED BY <1>1, <2>2, Slice
  <2> QED BY <2>1, <2>3
<1>3. CASE ~(s < Len(poll.blocks))
  <2>1. From(s) = <<>> /\ (s + 1)..Len(poll.blocks) = {}
    BY <1>1, <1>3 DEF From
  <2>2. ToSet(<<>>) = {}
    BY DEF ToSet
  <2> QED BY <1>1, <1>3, <2>1, <2>2
<1> QED BY <1>2, <1>3

LEMMA ActiveCard ==
  ASSUME TypeOK
  PROVE  /\ Active \in 0..Len(tracker.cards)
         /\ Active # 0 => Active = Len(tracker.cards) /\ tracker.cards[Active] \in Card
                          /\ Active \in DOMAIN tracker.cards /\ ~tracker.cards[Active].frozen
         /\ Active = 0 => tracker.cards = <<>> \/ Last(tracker.cards).frozen
<1>1. tracker.cards \in Seq(Card)
  BY DEF TypeOK, Trackers
<1>2. CASE tracker.cards # <<>>
  <2>1. Len(tracker.cards) \in Nat \ {0} /\ Last(tracker.cards) = tracker.cards[Len(tracker.cards)]
        /\ DOMAIN tracker.cards = 1..Len(tracker.cards)
    BY <1>1, <1>2, EmptySeq DEF Last
  <2> QED BY <1>1, <1>2, <2>1 DEF Active
<1>3. CASE tracker.cards = <<>>
  BY <1>1, <1>3 DEF Active
<1> QED BY <1>2, <1>3

-----------------------------------------------------------------------------
(* Lark's side of a call. *)

LEMMA CreatedCard ==
  ASSUME TypeOK, NEW content \in Shows
  PROVE  /\ Created(content) \in Seq(LarkCard)
         /\ DOMAIN Created(content) = DOMAIN lark \cup {Len(lark) + 1}
         /\ Len(lark) + 1 \notin DOMAIN lark /\ Len(lark) + 1 \in Nat
         /\ \A i \in DOMAIN lark : Created(content)[i] = lark[i]
         /\ Created(content)[Len(lark) + 1] =
              [form |-> "live", blocks |-> content.blocks, busy |-> content.busy, seq |-> 0, sent |-> FALSE]
<1> DEFINE card == [form |-> "live", blocks |-> content.blocks, busy |-> content.busy, seq |-> 0, sent |-> FALSE]
<1>1. card \in LarkCard
  BY DEF Shows, LarkCard
<1>2. Created(content) = Append(lark, card)
  BY DEF Created
<1> HIDE DEF card
<1>3. lark \in Seq(LarkCard)
  BY DEF TypeOK
<1>4. /\ Append(lark, card) \in Seq(LarkCard) /\ Len(Append(lark, card)) = Len(lark) + 1
      /\ \A i \in 1..Len(lark) : Append(lark, card)[i] = lark[i]
      /\ Append(lark, card)[Len(lark) + 1] = card
  BY <1>1, <1>3, AppendProperties
<1>5. Len(lark) \in Nat /\ DOMAIN lark = 1..Len(lark) /\ DOMAIN Append(lark, card) = 1..(Len(lark) + 1)
  BY <1>1, <1>3, <1>4
<1> QED BY <1>2, <1>4, <1>5 DEF card

LEMMA PutCard ==
  ASSUME TypeOK, NEW id \in DOMAIN lark, NEW seq \in Nat,
         NEW form \in {"live", "frozen", "off"}, NEW content \in Shows
  PROVE  /\ Put(id, seq, form, content) \in Seq(LarkCard)
         /\ DOMAIN Put(id, seq, form, content) = DOMAIN lark
         /\ \A i \in DOMAIN lark \ {id} : Put(id, seq, form, content)[i] = lark[i]
         /\ Put(id, seq, form, content)[id].sent = lark[id].sent
         /\ lark[id].seq <= Put(id, seq, form, content)[id].seq
         /\ ~Takes(id, seq) => Put(id, seq, form, content) = lark
         /\ Takes(id, seq) => /\ Put(id, seq, form, content)[id].seq = seq
                              /\ Put(id, seq, form, content)[id].form = form
                              /\ Put(id, seq, form, content)[id].blocks = content.blocks
<1>1. lark \in Seq(LarkCard) /\ lark[id] \in LarkCard
  BY DEF TypeOK
<1>2. CASE Takes(id, seq)
  <2> DEFINE card == [lark[id] EXCEPT !.form = form, !.blocks = content.blocks,
                                      !.busy = content.busy, !.seq = seq]
  <2>1. card \in LarkCard /\ card.sent = lark[id].sent /\ card.form = form /\ card.seq = seq
        /\ card.blocks = content.blocks
    BY <1>1 DEF LarkCard, Shows
  <2>2. Put(id, seq, form, content) = [lark EXCEPT ![id] = card]
    BY <1>2 DEF Put
  <2> HIDE DEF card
  <2>3. [lark EXCEPT ![id] = card] \in Seq(LarkCard)
    BY <1>1, <2>1
  <2>4. lark[id].seq <= seq
    BY <1>1, <1>2 DEF Takes, LarkCard
  <2> QED BY <1>1, <1>2, <2>1, <2>2, <2>3, <2>4
<1>3. CASE ~Takes(id, seq)
  <2>1. Put(id, seq, form, content) = lark
    BY <1>3 DEF Put
  <2>2. lark[id].seq <= lark[id].seq
    BY <1>1 DEF LarkCard
  <2> QED BY <1>1, <1>3, <2>1, <2>2
<1> QED BY <1>2, <1>3

LEMMA SentCard ==
  ASSUME TypeOK, NEW id \in DOMAIN lark
  PROVE  LET sent == [lark EXCEPT ![id].sent = TRUE]
         IN  /\ sent \in Seq(LarkCard) /\ DOMAIN sent = DOMAIN lark
             /\ \A i \in DOMAIN lark \ {id} : sent[i] = lark[i]
             /\ sent[id] = [lark[id] EXCEPT !.sent = TRUE]
             /\ \A i \in DOMAIN lark : /\ sent[i].blocks = lark[i].blocks
                                       /\ sent[i].seq = lark[i].seq /\ sent[i].form = lark[i].form
<1>1. lark \in Seq(LarkCard) /\ lark[id] \in LarkCard /\ \A i \in DOMAIN lark : lark[i] \in LarkCard
  BY DEF TypeOK
<1> DEFINE card == [lark[id] EXCEPT !.sent = TRUE]
           sent == [lark EXCEPT ![id].sent = TRUE]
<1>2. card \in LarkCard /\ card.blocks = lark[id].blocks /\ card.seq = lark[id].seq /\ card.form = lark[id].form
  BY <1>1 DEF LarkCard
<1>3. sent = [lark EXCEPT ![id] = card]
  OBVIOUS
<1> HIDE DEF card
<1>4. [lark EXCEPT ![id] = card] \in Seq(LarkCard)
  BY <1>1, <1>2
<1> QED BY <1>1, <1>2, <1>3, <1>4 DEF card

-----------------------------------------------------------------------------
(* What each step does. *)

LEMMA RestPoll == Rest \in Polls /\ Rest.at = "wait" /\ Rest.why = "new"
<1>1. Idle \in Polls
  <2>1. <<>> \in Seq(Block)
    OBVIOUS
  <2> QED BY <2>1 DEF Idle, Polls
<1>2. Idle.why = "new"
  BY DEF Idle
<1> QED BY <1>1, <1>2 DEF Rest, Polls

LEMMA SameActive ==
  ASSUME TypeOK, TypeOK', DOMAIN tracker'.cards = DOMAIN tracker.cards,
         \A i \in DOMAIN tracker.cards : tracker'.cards[i].frozen = tracker.cards[i].frozen
  PROVE  Active' = Active
<1>1. tracker.cards \in Seq(Card) /\ tracker'.cards \in Seq(Card)
  BY DEF TypeOK, Trackers
<1>2. Len(tracker'.cards) = Len(tracker.cards) /\ Len(tracker.cards) \in Nat
      /\ DOMAIN tracker.cards = 1..Len(tracker.cards)
  BY <1>1
<1>3. tracker.cards = <<>> <=> tracker'.cards = <<>>
  BY <1>1, <1>2, EmptySeq
<1>4. tracker.cards # <<>> => Len(tracker.cards) \in DOMAIN tracker.cards
  BY <1>1, <1>2, EmptySeq
<1> QED BY <1>2, <1>3, <1>4 DEF Active, Last

\* The output goes on, or begins anew with a block that has not been there.
LEMMA SessionDoes ==
  ASSUME TypeOK, Session
  PROVE  /\ TypeOK' /\ UNCHANGED <<chat, missed, past, tracker, poll, hand, detached, lark, strays, kept, refused>>
         /\ \/ First(output.blocks)' = output.next /\ output'.next = output.next + 1
            \/ /\ First(output.blocks)' = First(output.blocks) /\ output'.next >= output.next
               /\ Len(output'.blocks) >= Len(output.blocks)
               /\ \A i \in DOMAIN output.blocks :
                     i \in DOMAIN output'.blocks
                     /\ (i < Len(output.blocks) => output'.blocks[i] = output.blocks[i])
<1>1. output \in Outputs /\ output.blocks \in Seq(Block) /\ Len(output.blocks) \in Nat /\ output.next \in Nat
      /\ DOMAIN output.blocks = 1..Len(output.blocks)
  BY DEF TypeOK, Outputs
<1>2. NextBlock \in Block /\ NextBlock.id = output.next
  BY <1>1, Consts DEF NextBlock, Block
<1> DEFINE b == NextBlock
           s == output.blocks
<1>3. CASE Grow
  <2> DEFINE c == Append(s, b)
  <2>1. UNCHANGED <<chat, missed, past>> /\ output' = [output EXCEPT !.blocks = c, !.next = @ + 1, !.busy = TRUE]
    BY <1>3 DEF Grow
  <2>2. /\ c \in Seq(Block) /\ Len(c) = Len(s) + 1
        /\ \A i \in 1..Len(s) : c[i] = s[i]
        /\ c[Len(s) + 1] = b
    BY <1>1, <1>2, AppendProperties
  <2> HIDE DEF c, b
  <2>3. output' \in Outputs /\ output'.blocks = c /\ output'.next = output.next + 1
    <3>1. output.next + 1 \in Nat /\ c \in Seq(Block)
      BY <1>1, <2>2
    <3>2. output' = [blocks |-> c, busy |-> TRUE, next |-> output.next + 1, big |-> output.big]
      BY <1>1, <2>1 DEF Outputs
    <3> QED BY <1>1, <3>1, <3>2 DEF Outputs
  <2>4. First(output.blocks)' = IF s = <<>> THEN output.next ELSE First(output.blocks)
    <3>1. c # <<>>
      BY <1>1, <2>2
    <3>2. s # <<>> => 1 \in 1..Len(s)
      BY <1>1, EmptySeq
    <3>3. s # <<>> => c[1] = s[1]
      BY <2>2, <3>2
    <3>4. s = <<>> => c[1] = b
      BY <1>1, <2>2
    <3> QED BY <1>2, <2>3, <3>1, <3>3, <3>4 DEF First, b
  <2>5. DOMAIN c = 1..(Len(s) + 1)
    BY <2>2
  <2>6. TypeOK'
    BY <2>1, <2>3 DEF TypeOK, chat
  <2> QED BY <1>1, <2>1, <2>2, <2>3, <2>4, <2>5, <2>6 DEF chat
<1>4. CASE Amend
  <2> DEFINE n == Len(s)
             last == [s[n] EXCEPT !.ver = @ + 1]
  <2>1. UNCHANGED <<chat, missed, past>> /\ s # <<>> /\ output' = [output EXCEPT !.blocks = [s EXCEPT ![n] = last]]
    BY <1>4 DEF Amend
  <2>2. n \in DOMAIN s /\ s[n] \in Block
    BY <1>1, <2>1, EmptySeq
  <2>3. last \in Block /\ last.id = s[n].id
    BY <2>2 DEF Block
  <2> HIDE DEF last
  <2>4. /\ [s EXCEPT ![n] = last] \in Seq(Block) /\ Len([s EXCEPT ![n] = last]) = n
        /\ DOMAIN [s EXCEPT ![n] = last] = DOMAIN s
        /\ \A i \in 1..n : i < n => [s EXCEPT ![n] = last][i] = s[i]
        /\ [s EXCEPT ![n] = last][n] = last
    BY <1>1, <2>2, <2>3
  <2>5. output' \in Outputs /\ output'.blocks = [s EXCEPT ![n] = last] /\ output'.next = output.next
    BY <1>1, <2>1, <2>4 DEF Outputs
  <2>6. First(output.blocks)' = First(output.blocks)
    <3>1. [s EXCEPT ![n] = last] # <<>>
      BY <2>2, <2>4, EmptySeq
    <3>2. [s EXCEPT ![n] = last][1].id = s[1].id
      BY <1>1, <2>1, <2>2, <2>3, <2>4, EmptySeq
    <3> QED BY <2>1, <2>5, <3>1, <3>2 DEF First
  <2>7. TypeOK'
    BY <2>1, <2>5 DEF TypeOK, chat
  <2> QED BY <1>1, <2>1, <2>2, <2>4, <2>5, <2>6, <2>7 DEF chat
<1>5. CASE Finish
  <2>1. UNCHANGED <<chat, missed, past>> /\ output' = [output EXCEPT !.busy = FALSE]
    BY <1>5 DEF Finish
  <2>2. output' \in Outputs /\ output'.blocks = s /\ output'.next = output.next
    BY <1>1, <2>1 DEF Outputs
  <2>3. TypeOK'
    BY <2>1, <2>2 DEF TypeOK, chat
  <2> QED BY <1>1, <2>1, <2>2, <2>3 DEF chat
<1>6. CASE StartOver
  <2> DEFINE c == <<b>>
  <2>1. UNCHANGED <<chat, missed, past>> /\ output' = [output EXCEPT !.blocks = c, !.next = @ + 1, !.busy = TRUE]
    BY <1>6 DEF StartOver
  <2>2. c \in Seq(Block) /\ c # <<>> /\ c[1] = b
    BY <1>2
  <2> HIDE DEF b, c
  <2>3. output' \in Outputs /\ output'.blocks = c /\ output'.next = output.next + 1
    <3>1. output.next + 1 \in Nat /\ c \in Seq(Block)
      BY <1>1, <2>2
    <3>2. output' = [blocks |-> c, busy |-> TRUE, next |-> output.next + 1, big |-> output.big]
      BY <1>1, <2>1 DEF Outputs
    <3> QED BY <1>1, <3>1, <3>2 DEF Outputs
  <2>4. TypeOK'
    BY <2>1, <2>3 DEF TypeOK, chat
  <2> QED BY <1>2, <2>1, <2>2, <2>3, <2>4 DEF chat, First, b
<1> QED BY <1>3, <1>4, <1>5, <1>6 DEF Session

\* Without an open card a poll makes one.
LEMMA PollCreates ==
  ASSUME TypeOK, Poll, Active = 0
  PROVE  /\ TypeOK' /\ UNCHANGED <<output, hand, detached, lark, strays, kept, refused, missed>>
         /\ tracker'.on = tracker.on /\ tracker'.cards = tracker.cards
         /\ poll'.at = "create" /\ poll'.why = "new" /\ poll'.blocks = output.blocks
         /\ poll'.start = 0 \/ poll'.start < Len(output.blocks)
         /\ past' = First(output.blocks)
<1> DEFINE n == Len(output.blocks)
           t == [tracker EXCEPT !.ready = Ready(output.busy)]
           p == [Snapshot EXCEPT !.at = "create", !.start = NewStart(n)]
<1>1. /\ output.blocks \in Seq(Block) /\ n \in Nat /\ output.busy \in BOOLEAN /\ tracker \in Trackers
  BY DEF TypeOK, Outputs
<1>2. /\ Snapshot.blocks = output.blocks /\ Snapshot.busy = output.busy
      /\ Snapshot \in Polls
  BY <1>1 DEF Snapshot, Rest, Idle, Polls, Ready, Trackers
<1>3. /\ UNCHANGED <<output, hand, detached, lark, strays, kept, refused>>
      /\ poll' = p /\ tracker' = t /\ past' = First(output.blocks) /\ missed' = missed
  BY <1>2 DEF Poll, Go
<1>4. NewStart(n) \in Nat /\ (NewStart(n) = 0 \/ NewStart(n) < n)
  <2>1. CASE tracker.cards = <<>>
    BY <1>1, <2>1, Consts DEF NewStart, LastWindow
  <2>2. CASE tracker.cards # <<>>
    <3>1. Last(tracker.cards) \in Card
      BY <1>1, <2>2, EmptySeq DEF Trackers, Last
    <3> QED BY <1>1, <2>2, <3>1, Consts DEF NewStart, Card
  <2> QED BY <2>1, <2>2
<1> HIDE DEF n
<1>5. p \in Polls /\ p.at = "create" /\ p.why = "new" /\ p.blocks = output.blocks /\ p.start = NewStart(n)
  <2>1. Snapshot.why = "new"
    BY DEF Snapshot, Rest, Idle
  <2> QED BY <1>2, <1>4, <2>1 DEF Polls
<1>6. t \in Trackers /\ t.cards = tracker.cards /\ t.on = tracker.on
  BY <1>1 DEF Trackers, Ready
<1> HIDE DEF p, t
<1>7. TypeOK'
  BY <1>3, <1>5, <1>6 DEF TypeOK
<1> QED BY <1>3, <1>4, <1>5, <1>6, <1>7 DEF n

\* With an open card it looks at the window of the card, which begins at 0 if the output is shorter.
LEMMA PollLooks ==
  ASSUME TypeOK, Poll, Active # 0
  PROVE  LET old == tracker.cards[Active]
             new == tracker'.cards[Active]
             n == Len(output.blocks)
         IN  /\ TypeOK' /\ UNCHANGED <<output, hand, detached, lark, strays, kept, refused>>
             /\ tracker'.on = tracker.on /\ DOMAIN tracker'.cards = DOMAIN tracker.cards /\ Active' = Active
             /\ \A i \in DOMAIN tracker.cards : tracker'.cards[i].id = tracker.cards[i].id
             /\ new.start = IF n < old.start THEN 0 ELSE old.start
             /\ past' = IF new.start = n THEN past ELSE First(output.blocks)
             /\ missed' = IF First(output.blocks) = past THEN missed
                          ELSE missed \cup {output.blocks[i] : i \in 1..new.start}
             /\ \/ poll'.at \in {"wait", "notify"} /\ new.seq = old.seq /\ tracker'.hash \in {tracker.hash, <<>>}
                \/ poll'.at = "update" /\ poll'.blocks = output.blocks /\ new.seq = old.seq + 1
                \/ /\ poll'.at = "freeze" /\ poll'.why = "split" /\ poll'.blocks = output.blocks
                   /\ new.seq = old.seq + 1
                   /\ new.start < n /\ poll'.start \in new.start..n
<1> DEFINE p == Snapshot
           n == Len(p.blocks)
           a == Active
           old == tracker.cards[a]
           t == [tracker EXCEPT !.ready = Ready(p.busy)]
           again == a > 0 /\ n < tracker.cards[a].start
           u == IF again THEN [t EXCEPT !.cards[a].start = 0, !.hash = <<>>] ELSE t
           s == u.cards[a].start
           slice == IF a = 0 THEN <<>> ELSE SubSeq(p.blocks, s + 1, n)
           content == Content(slice, p.busy)
           c == s + IF Len(slice) > CardBlocks THEN CardBlocks ELSE FreezeCount(slice)
           next == [u EXCEPT !.cards[a].seq = @ + 1]
<1>1. /\ output.blocks \in Seq(Block) /\ Len(output.blocks) \in Nat /\ output.busy \in BOOLEAN
      /\ tracker \in Trackers /\ tracker.cards \in Seq(Card)
  BY DEF TypeOK, Outputs, Trackers
<1>2. a \in DOMAIN tracker.cards /\ a \in Nat /\ a > 0 /\ old \in Card
  BY <1>1, ActiveCard
<1>6. /\ UNCHANGED <<output, hand, detached, lark, strays, kept, refused>>
      /\ past' = IF a > 0 /\ slice = <<>> THEN past ELSE First(p.blocks)
      /\ missed' = IF a = 0 \/ First(p.blocks) = past THEN missed
                   ELSE missed \cup {p.blocks[i] : i \in 1..s}
      /\ \/ a = 0
         \/ /\ Len(slice) > CardBlocks \/ (content # u.hash /\ ~Fits(slice))
            /\ poll' = [p EXCEPT !.at = "freeze", !.why = "split", !.start = c]
            /\ tracker' = next
         \/ poll' = Finally(p) /\ tracker' = u
         \/ poll' = [p EXCEPT !.at = "update"] /\ tracker' = next
  BY DEF Poll, Go
<1>3. /\ p.blocks = output.blocks /\ p.busy = output.busy
      /\ p \in Polls /\ p.why = "new" /\ Rest \in Polls /\ Rest.at = "wait"
  <2>1. Rest \in Polls /\ Rest.at = "wait" /\ Rest.why = "new"
    BY RestPoll
  <2>2. (Ready(output.busy) /\ ~tracker.ready) \in BOOLEAN
    OBVIOUS
  <2> QED BY <1>1, <2>1, <2>2 DEF Snapshot, Polls
<1> HIDE DEF p
<1>n. n = Len(output.blocks) /\ n \in Nat
  BY <1>1, <1>3
<1> HIDE DEF n
<1>4. /\ t \in Trackers /\ t.cards = tracker.cards /\ t.on = tracker.on /\ t.hash = tracker.hash
  BY <1>1, <1>3 DEF Trackers, Ready
<1> HIDE DEF t
<1>5. /\ u \in Trackers /\ u.on = tracker.on /\ u.hash \in {tracker.hash, <<>>}
      /\ s = IF n < old.start THEN 0 ELSE old.start
      /\ s \in Nat /\ s <= n /\ slice = SubSeq(output.blocks, s + 1, n)
      /\ DOMAIN u.cards = DOMAIN tracker.cards /\ u.cards[a].seq = old.seq
      /\ \A i \in DOMAIN tracker.cards : u.cards[i].id = tracker.cards[i].id
                                         /\ u.cards[i].frozen = tracker.cards[i].frozen
  <2>s. slice = SubSeq(output.blocks, s + 1, n)
    BY <1>2, <1>3
  <2> HIDE DEF slice
  <2>1. CASE again
    <3> DEFINE card == [old EXCEPT !.start = 0]
    <3>1. card \in Card /\ card.id = old.id /\ card.frozen = old.frozen /\ card.seq = old.seq /\ card.start = 0
      BY <1>2 DEF Card
    <3>2. u = [[t EXCEPT !.cards = [tracker.cards EXCEPT ![a] = card]] EXCEPT !.hash = <<>>]
      BY <1>4, <2>1
    <3> HIDE DEF card
    <3> DEFINE cards == [tracker.cards EXCEPT ![a] = card]
    <3>3. cards \in Seq(Card) /\ DOMAIN cards = DOMAIN tracker.cards /\ cards[a] = card
          /\ \A i \in DOMAIN tracker.cards \ {a} : cards[i] = tracker.cards[i]
      BY <1>1, <1>2, <3>1
    <3> HIDE DEF cards
    <3>4. u = [cards |-> cards, hash |-> <<>>, ready |-> t.ready, on |-> t.on]
      BY <1>4, <3>2 DEF Trackers, cards
    <3>5. u \in Trackers /\ u.cards = cards /\ u.on = t.on /\ u.hash = <<>>
      <4>1. t.ready \in BOOLEAN /\ t.on \in BOOLEAN
        BY <1>4 DEF Trackers
      <4> HIDE DEF u
      <4>2. u.cards = cards /\ u.on = t.on /\ u.hash = <<>>
        BY <3>4
      <4>3. u \in Trackers
        BY <3>3, <3>4, <4>1 DEF Trackers
      <4> QED BY <4>2, <4>3
    <3> HIDE DEF u
    <3>6. u.cards[a].start = 0 /\ u.cards[a].seq = old.seq
      BY <3>1, <3>3, <3>5
    <3>7. \A i \in DOMAIN tracker.cards : u.cards[i].id = tracker.cards[i].id
                                           /\ u.cards[i].frozen = tracker.cards[i].frozen
      BY <3>1, <3>3, <3>5
    <3>8. n < old.start
      BY <2>1
    <3> QED BY <1>4, <1>n, <2>s, <3>3, <3>5, <3>6, <3>7, <3>8
  <2>2. CASE ~again
    <3>1. u = t
      BY <2>2
    <3>2. old.start \in Nat
      BY <1>2 DEF Card
    <3> HIDE DEF u
    <3> QED BY <1>1, <1>2, <1>4, <1>n, <2>s, <2>2, <3>1, <3>2
  <2> QED BY <2>1, <2>2
<1> HIDE DEF u, slice
<1>7. /\ slice = <<>> <=> s = n
      /\ Len(slice) \in Nat /\ Len(slice) <= n - s /\ slice \in Seq(Block)
  <2>1. slice \in Seq(Block) /\ (slice = <<>> <=> s >= n) /\ Len(slice) = IF s < n THEN n - s ELSE 0
    <3>1. n <= Len(output.blocks) /\ s \in Nat /\ n \in Nat
      BY <1>n, <1>5
    <3> HIDE DEF s
    <3> QED BY <1>1, <1>5, <3>1, Slice
  <2>2. s \in Nat /\ s <= n
    BY <1>5
  <2> HIDE DEF s
  <2> QED BY <1>n, <2>1, <2>2
<1>8. /\ next \in Trackers /\ next.on = tracker.on /\ DOMAIN next.cards = DOMAIN tracker.cards
      /\ next.cards[a].start = s /\ next.cards[a].seq = old.seq + 1
      /\ \A i \in DOMAIN tracker.cards : next.cards[i].id = tracker.cards[i].id
                                         /\ next.cards[i].frozen = tracker.cards[i].frozen
  <2> DEFINE card == [u.cards[a] EXCEPT !.seq = @ + 1]
             cards == [u.cards EXCEPT ![a] = card]
  <2>1. u.cards \in Seq(Card) /\ u.cards[a] \in Card
    BY <1>2, <1>5 DEF Trackers
  <2>2. card \in Card /\ card.id = u.cards[a].id /\ card.frozen = u.cards[a].frozen
        /\ card.start = s /\ card.seq = old.seq + 1
    <3>1. u.cards[a].seq = old.seq /\ u.cards[a].seq \in Nat
      BY <1>5, <2>1 DEF Card
    <3>2. u.cards[a].seq + 1 \in Nat
      BY <3>1
    <3> QED BY <2>1, <3>1, <3>2 DEF Card
  <2>3. next = [u EXCEPT !.cards = cards]
    BY <1>5
  <2> HIDE DEF card
  <2>4. cards \in Seq(Card) /\ DOMAIN cards = DOMAIN u.cards /\ cards[a] = card
        /\ \A i \in DOMAIN u.cards \ {a} : cards[i] = u.cards[i]
    BY <1>2, <1>5, <2>1, <2>2
  <2> HIDE DEF cards
  <2>5. next \in Trackers /\ next.cards = cards /\ next.on = u.on
    BY <1>5, <2>3, <2>4 DEF Trackers
  <2> HIDE DEF next, s
  <2> QED BY <1>2, <1>5, <2>2, <2>4, <2>5
<1> HIDE DEF next
<1>9. TypeOK' /\ tracker' \in {u, next}
      /\ \/ poll'.at \in {"wait", "notify"} /\ tracker' = u
         \/ poll'.at = "update" /\ poll'.blocks = output.blocks /\ tracker' = next
         \/ /\ poll'.at = "freeze" /\ poll'.why = "split" /\ poll'.blocks = output.blocks
            /\ tracker' = next /\ s < n /\ poll'.start \in s..n
  <2>1. CASE poll' = Finally(p) /\ tracker' = u
    <3>1. poll' \in Polls /\ poll'.at \in {"wait", "notify"}
      BY <1>3, <2>1 DEF Finally, Polls
    <3> QED BY <1>5, <1>6, <2>1, <3>1 DEF TypeOK
  <2>2. CASE poll' = [p EXCEPT !.at = "update"] /\ tracker' = next
    <3>1. poll' \in Polls /\ poll'.at = "update" /\ poll'.blocks = output.blocks
      BY <1>3, <2>2 DEF Polls
    <3> QED BY <1>6, <1>8, <2>2, <3>1 DEF TypeOK
  <2>3. CASE /\ Len(slice) > CardBlocks \/ (content # u.hash /\ ~Fits(slice))
             /\ poll' = [p EXCEPT !.at = "freeze", !.why = "split", !.start = c]
             /\ tracker' = next
    <3>1. slice # <<>>
      <4>1. CASE Len(slice) > CardBlocks
        BY <4>1, Consts
      <4>2. CASE ~Fits(slice)
        BY <4>2 DEF Fits
      <4> QED BY <2>3, <4>1, <4>2
    <3>2. FreezeCount(slice) \in 1..Len(slice)
      BY <1>7, <3>1, FreezeCounts
    <3>3. c \in s..n /\ c \in Nat /\ s < n
      <4> HIDE DEF s
      <4>1. s \in Nat /\ s <= n /\ s # n /\ n \in Nat /\ Len(slice) \in Nat /\ Len(slice) <= n - s
        BY <1>n, <1>5, <1>7, <3>1
      <4>2. CASE Len(slice) > CardBlocks
        BY <4>1, <4>2, Consts
      <4>3. CASE ~(Len(slice) > CardBlocks)
        BY <3>2, <4>1, <4>3
      <4> QED BY <4>2, <4>3
    <3> HIDE DEF c, s
    <3>4. poll' \in Polls /\ poll'.at = "freeze" /\ poll'.blocks = output.blocks
          /\ poll'.why = "split" /\ poll'.start = c
      BY <1>3, <2>3, <3>3 DEF Polls
    <3> QED BY <1>6, <1>8, <2>3, <3>3, <3>4 DEF TypeOK
  <2> QED BY <1>2, <1>6, <2>1, <2>2, <2>3
<1>10. /\ tracker'.on = tracker.on /\ DOMAIN tracker'.cards = DOMAIN tracker.cards
       /\ \A i \in DOMAIN tracker.cards : tracker'.cards[i].id = tracker.cards[i].id
                                          /\ tracker'.cards[i].frozen = tracker.cards[i].frozen
       /\ tracker'.cards[a].start = s
  BY <1>5, <1>8, <1>9
<1>11. Active' = Active
  BY <1>9, <1>10, SameActive
<1>12. /\ \/ poll'.at \in {"wait", "notify"} /\ tracker'.cards[a].seq = old.seq
             /\ tracker'.hash \in {tracker.hash, <<>>}
          \/ poll'.at = "update" /\ poll'.blocks = output.blocks /\ tracker'.cards[a].seq = old.seq + 1
          \/ /\ poll'.at = "freeze" /\ poll'.why = "split" /\ poll'.blocks = output.blocks
             /\ tracker'.cards[a].seq = old.seq + 1
             /\ s < n /\ poll'.start \in s..n
  BY <1>5, <1>8, <1>9
<1>13. s = (IF Len(output.blocks) < old.start THEN 0 ELSE old.start)
  BY <1>n, <1>5
<1>14. /\ past' = IF s = Len(output.blocks) THEN past ELSE First(output.blocks)
       /\ missed' = IF First(output.blocks) = past THEN missed
                    ELSE missed \cup {output.blocks[i] : i \in 1..s}
  BY <1>2, <1>3, <1>n, <1>6, <1>7
<1> HIDE DEF s
<1> QED BY <1>n, <1>6, <1>9, <1>10, <1>11, <1>12, <1>13, <1>14

LEMMA FinallyPoll ==
  ASSUME NEW p \in Polls
  PROVE  Finally(p) \in Polls /\ Finally(p).at \in {"wait", "notify"}
  BY RestPoll DEF Finally, Polls

\* A card that was created is to be sent, and what no card shows of the output before it is noted.
LEMMA CreateDoes ==
  ASSUME TypeOK, CreateAnswered, poll.start <= Len(poll.blocks)
  PROVE  /\ TypeOK' /\ UNCHANGED <<output, hand, detached, strays, past, tracker, kept, refused>>
         /\ poll.at = "create"
         /\ \E content \in Shows, start \in Nat :
              /\ content.blocks = From(start)
              /\ \/ /\ lark' \in {lark, Created(content)}
                    /\ poll'.at \in {"wait", "notify"} /\ missed' = missed
                 \/ /\ lark' = Created(content) /\ poll'.at = "send" /\ poll'.id = Len(lark) + 1
                    /\ poll'.blocks = poll.blocks /\ poll'.start = start
                    /\ poll.start <= start /\ (start = poll.start \/ start < Len(poll.blocks))
                    /\ missed \subseteq missed'
                    /\ {poll.blocks[i] : i \in (poll.start + 1)..start} \subseteq missed'
                    /\ poll.why # "split" => Unshown(poll.start) \subseteq missed'
<1> DEFINE start == IF poll.why = "elements" THEN poll.start ELSE Trimmed(poll.start)
           content == Content(From(start), poll.busy)
<1>1. poll \in Polls /\ poll.start \in Nat /\ poll.blocks \in Seq(Block) /\ Len(poll.blocks) \in Nat /\ poll.busy \in BOOLEAN
  BY DEF TypeOK, Polls
<1>2. start \in Nat /\ poll.start <= start /\ (start = poll.start \/ start < Len(poll.blocks))
  <2>1. /\ Trimmed(poll.start) \in poll.start..Len(poll.blocks)
        /\ Trimmed(poll.start) = poll.start \/ Trimmed(poll.start) < Len(poll.blocks)
    BY <1>1, TrimmedStart
  <2> QED BY <1>1, <2>1
<1>3. PICK o \in {"ok", "fail", "lost"} :
        /\ lark' = IF o \in Reached THEN Created(content) ELSE lark
        /\ poll' = IF o = "ok" THEN [poll EXCEPT !.at = "send", !.start = start, !.id = Len(lark) + 1]
                   ELSE Finally(poll)
        /\ missed' = IF o # "ok" THEN missed
                     ELSE missed \cup {poll.blocks[i] : i \in (poll.start + 1)..start}
                                 \cup (IF poll.why = "split" THEN {} ELSE Unshown(poll.start))
  BY DEF CreateAnswered
<1>4. poll.at = "create" /\ UNCHANGED <<output, hand, detached, strays, past, tracker, kept, refused>>
  BY DEF CreateAnswered, lookOn
<1> HIDE DEF start
<1>5. content \in Shows /\ content.blocks = From(start)
  BY <1>1, <1>2, FromSlice DEF Content, Shows
<1> HIDE DEF content
<1>6. Created(content) \in Seq(LarkCard) /\ Len(lark) + 1 \in Nat /\ lark \in Seq(LarkCard)
  BY <1>5, CreatedCard DEF TypeOK
<1>7. Finally(poll) \in Polls /\ Finally(poll).at \in {"wait", "notify"}
  BY <1>1, FinallyPoll
<1>8. CASE o = "ok"
  <2>1. poll' = [poll EXCEPT !.at = "send", !.start = start, !.id = Len(lark) + 1] /\ lark' = Created(content)
    BY <1>3, <1>8 DEF Reached
  <2>2. poll' \in Polls /\ poll'.at = "send" /\ poll'.start = start /\ poll'.id = Len(lark) + 1
        /\ poll'.blocks = poll.blocks
    BY <1>1, <1>2, <1>6, <2>1 DEF Polls
  <2>3. TypeOK'
    BY <1>4, <1>6, <2>1, <2>2 DEF TypeOK
  <2>4. /\ missed \subseteq missed' /\ {poll.blocks[i] : i \in (poll.start + 1)..start} \subseteq missed'
        /\ poll.why # "split" => Unshown(poll.start) \subseteq missed'
    BY <1>3, <1>8
  <2> QED BY <1>2, <1>4, <1>5, <2>1, <2>2, <2>3, <2>4
<1>9. CASE o # "ok"
  <2>1. poll' = Finally(poll) /\ lark' \in {lark, Created(content)} /\ missed' = missed
    BY <1>3, <1>9
  <2>2. TypeOK'
    BY <1>4, <1>6, <1>7, <2>1 DEF TypeOK
  <2> QED BY <1>2, <1>4, <1>5, <1>7, <2>1, <2>2
<1> QED BY <1>8, <1>9

\* A card that is sent becomes the open card.
LEMMA SendDoes ==
  ASSUME TypeOK, SendAnswered, poll.id \in DOMAIN lark
  PROVE  /\ TypeOK' /\ UNCHANGED <<output, hand, detached, strays, past, kept, missed, refused>>
         /\ poll.at = "send" /\ poll'.at \in {"wait", "notify"} /\ tracker'.on = tracker.on
         /\ lark' \in {lark, [lark EXCEPT ![poll.id].sent = TRUE]}
         /\ DOMAIN tracker'.cards = DOMAIN tracker.cards \cup {Active'} /\ Active' \notin DOMAIN tracker.cards
         /\ Active' # 0
         /\ \A i \in DOMAIN tracker.cards : tracker'.cards[i] = tracker.cards[i]
         /\ tracker'.cards[Active'] = [id |-> poll.id, seq |-> 0, start |-> poll.start, frozen |-> FALSE]
         /\ tracker'.hash.blocks = From(poll.start)
<1> DEFINE card == [id |-> poll.id, seq |-> 0, start |-> poll.start, frozen |-> FALSE]
           content == Content(From(poll.start), poll.busy)
           cards == Append(tracker.cards, card)
<1>1. poll \in Polls /\ poll.start \in Nat /\ poll.busy \in BOOLEAN /\ tracker \in Trackers
      /\ tracker.cards \in Seq(Card) /\ Len(tracker.cards) \in Nat
      /\ DOMAIN tracker.cards = 1..Len(tracker.cards)
  BY DEF TypeOK, Polls, Trackers
<1>2. card \in Card
  BY <1>1 DEF Card, Polls
<1>3. content \in Shows /\ content.blocks = From(poll.start)
  BY <1>1, FromSlice DEF Content, Shows
<1>4. /\ poll.at = "send" /\ UNCHANGED <<output, hand, detached, strays, past, kept, missed, refused>>
      /\ tracker' = [tracker EXCEPT !.cards = cards, !.hash = content] /\ poll' = Finally(poll)
      /\ lark' \in {lark, [lark EXCEPT ![poll.id].sent = TRUE]}
  BY DEF SendAnswered, lookOn
<1>c. card.frozen = FALSE
  OBVIOUS
<1> HIDE DEF card, content
<1>5. /\ cards \in Seq(Card) /\ Len(cards) = Len(tracker.cards) + 1
      /\ \A i \in 1..Len(tracker.cards) : cards[i] = tracker.cards[i]
      /\ cards[Len(tracker.cards) + 1] = card
  BY <1>1, <1>2, AppendProperties
<1> HIDE DEF cards
<1>6. tracker' \in Trackers /\ tracker'.cards = cards /\ tracker'.hash = content /\ tracker'.on = tracker.on
  BY <1>1, <1>3, <1>4, <1>5 DEF Trackers
<1>7. poll' \in Polls /\ poll'.at \in {"wait", "notify"}
  BY <1>1, <1>4, FinallyPoll
<1>8. lark' \in Seq(LarkCard)
  BY <1>4, SentCard DEF TypeOK
<1>9. TypeOK'
  BY <1>4, <1>6, <1>7, <1>8 DEF TypeOK
<1>10. Active' = Len(tracker.cards) + 1
  <2>1. tracker'.cards # <<>> /\ Last(tracker'.cards) = card
    BY <1>1, <1>5, <1>6, EmptySeq DEF Last
  <2> QED BY <1>5, <1>6, <1>c, <2>1 DEF Active
<1>11. DOMAIN cards = 1..(Len(tracker.cards) + 1)
  BY <1>5
<1> QED BY <1>1, <1>3, <1>4, <1>5, <1>6, <1>7, <1>9, <1>10, <1>11 DEF card

\* One of the tracker's cards is replaced.
LEMMA CardReplaced ==
  ASSUME TypeOK, NEW a \in DOMAIN tracker.cards, NEW card \in Card
  PROVE  LET cards == [tracker.cards EXCEPT ![a] = card]
         IN  /\ cards \in Seq(Card) /\ DOMAIN cards = DOMAIN tracker.cards /\ cards[a] = card
             /\ \A i \in DOMAIN tracker.cards \ {a} : cards[i] = tracker.cards[i]
             /\ Len(cards) = Len(tracker.cards)
<1>1. tracker.cards \in Seq(Card)
  BY DEF TypeOK, Trackers
<1> QED BY <1>1

\* The open card is frozen with what it holds, or kept as it is if the call fails.
LEMMA FreezeDoes ==
  ASSUME TypeOK, FreezeAnswered, Active # 0, tracker.cards[Active].id \in DOMAIN lark,
         poll.why # "elements" => poll.start <= Len(poll.blocks)
  PROVE  LET card == tracker.cards[Active]
             held == SubSeq(poll.blocks, card.start + 1,
                            IF poll.why = "elements" THEN Len(poll.blocks) ELSE poll.start)
         IN  /\ TypeOK' /\ UNCHANGED <<output, hand, detached, strays, past>>
             /\ poll.at = "freeze" /\ tracker'.on = tracker.on /\ DOMAIN tracker'.cards = DOMAIN tracker.cards
             /\ \A i \in DOMAIN tracker.cards : tracker'.cards[i].id = tracker.cards[i].id
             /\ Active' = 0
             /\ \/ poll'.at \in {"wait", "notify"}
                \/ /\ poll'.at = "create" /\ From(poll.start) # <<>> /\ poll'.blocks = poll.blocks
                   /\ poll'.start = poll.start /\ poll'.why = poll.why
             /\ \E content \in Shows :
                  /\ content.blocks = held
                  /\ \/ /\ lark' = Put(card.id, card.seq, "frozen", content) /\ kept' = kept /\ missed' = missed
                        /\ refused' = IF Takes(card.id, card.seq) THEN refused ELSE refused \cup {card.id}
                     \/ /\ lark' = lark /\ kept' = kept \cup {card.id} /\ missed' = missed \cup ToSet(held)
                        /\ refused' = refused
<1> DEFINE a == Active
           card == tracker.cards[a]
           end == IF poll.why = "elements" THEN Len(poll.blocks) ELSE poll.start
           held == SubSeq(poll.blocks, card.start + 1, end)
           content == Content(held, FALSE)
           frozen == [card EXCEPT !.frozen = TRUE]
           cards == [tracker.cards EXCEPT ![a] = frozen]
<1>1. poll \in Polls /\ poll.start \in Nat /\ poll.blocks \in Seq(Block) /\ Len(poll.blocks) \in Nat /\ tracker \in Trackers
      /\ tracker.cards \in Seq(Card)
  BY DEF TypeOK, Polls, Trackers
<1>2. a \in DOMAIN tracker.cards /\ card \in Card /\ card.start \in Nat /\ card.seq \in Nat
      /\ a = Len(tracker.cards) /\ a # 0
  BY ActiveCard DEF Card
<1>3. held \in Seq(Block)
  <2>1. end \in Nat /\ end <= Len(poll.blocks)
    BY <1>1
  <2> HIDE DEF end
  <2> QED BY <1>1, <1>2, <2>1, Slice
<1>4. PICK o \in {"ok", "fail", "lost"} :
        /\ lark' = IF o \in Reached THEN Put(card.id, card.seq, "frozen", content) ELSE lark
        /\ kept' = IF o = "fail" THEN kept \cup {card.id} ELSE kept
        /\ missed' = IF o = "fail" THEN missed \cup ToSet(held) ELSE missed
        /\ refused' = IF o # "fail" /\ ~Takes(card.id, card.seq) THEN refused \cup {card.id} ELSE refused
  BY DEF FreezeAnswered
<1>5. /\ poll.at = "freeze" /\ UNCHANGED <<output, hand, detached, strays, past>>
      /\ tracker' = [tracker EXCEPT !.cards = cards]
      /\ poll' = IF From(poll.start) = <<>> THEN Finally(poll) ELSE [poll EXCEPT !.at = "create"]
  BY DEF FreezeAnswered, lookOn
<1> HIDE DEF held
<1>6. content \in Shows /\ content.blocks = held
  BY <1>3 DEF Content, Shows
<1>7. frozen \in Card /\ frozen.id = card.id /\ frozen.frozen
  BY <1>2 DEF Card
<1> HIDE DEF content, frozen
<1>8. /\ cards \in Seq(Card) /\ DOMAIN cards = DOMAIN tracker.cards /\ cards[a] = frozen
      /\ \A i \in DOMAIN tracker.cards \ {a} : cards[i] = tracker.cards[i]
      /\ Len(cards) = a
  BY <1>2, <1>7, CardReplaced
<1> HIDE DEF cards
<1>9. tracker' \in Trackers /\ tracker'.cards = cards /\ tracker'.on = tracker.on
  BY <1>1, <1>5, <1>8 DEF Trackers
<1>10. Active' = 0
  <2>1. Last(tracker'.cards) = frozen
    BY <1>8, <1>9 DEF Last
  <2> QED BY <1>7, <2>1 DEF Active
<1>11. /\ poll' \in Polls
       /\ \/ poll'.at \in {"wait", "notify"}
          \/ /\ poll'.at = "create" /\ From(poll.start) # <<>> /\ poll'.blocks = poll.blocks
             /\ poll'.start = poll.start /\ poll'.why = poll.why
  <2>1. CASE From(poll.start) = <<>>
    BY <1>1, <1>5, <2>1, FinallyPoll
  <2>2. CASE From(poll.start) # <<>>
    BY <1>1, <1>5, <2>2 DEF Polls
  <2> QED BY <2>1, <2>2
<1>12. Put(card.id, card.seq, "frozen", content) \in Seq(LarkCard)
  BY <1>2, <1>6, PutCard
<1>13. TypeOK'
  BY <1>4, <1>5, <1>9, <1>11, <1>12 DEF TypeOK
<1>14. \/ /\ lark' = Put(card.id, card.seq, "frozen", content) /\ kept' = kept /\ missed' = missed
          /\ refused' = IF Takes(card.id, card.seq) THEN refused ELSE refused \cup {card.id}
       \/ /\ lark' = lark /\ kept' = kept \cup {card.id} /\ missed' = missed \cup ToSet(held)
          /\ refused' = refused
  BY <1>4 DEF Reached
<1>15. \A i \in DOMAIN tracker.cards : tracker'.cards[i].id = tracker.cards[i].id
  BY <1>7, <1>8, <1>9
<1> QED BY <1>5, <1>6, <1>8, <1>9, <1>10, <1>11, <1>13, <1>14, <1>15 DEF held

\* The open card shows what there is, or is to be replaced.
LEMMA UpdateDoes ==
  ASSUME TypeOK, UpdateAnswered, Active # 0, tracker.cards[Active].id \in DOMAIN lark
  PROVE  LET card == tracker.cards[Active]
         IN  /\ TypeOK' /\ UNCHANGED <<output, hand, detached, strays, past, kept, missed>>
             /\ poll.at = "update" /\ tracker'.on = tracker.on /\ tracker'.cards = tracker.cards
             /\ \E content \in Shows :
                  /\ content.blocks = From(card.start)
                  /\ \/ lark' = lark /\ refused' = refused /\ poll'.at = "replace"
                     \/ /\ lark' = Put(card.id, card.seq, "live", content)
                        /\ refused' = IF Takes(card.id, card.seq) THEN refused ELSE refused \cup {card.id}
                        /\ \/ poll'.at = "replace"
                           \/ poll'.at \in {"wait", "notify"} /\ tracker'.hash = content
             /\ poll'.at = "replace" => poll'.blocks = poll.blocks
<1> DEFINE a == Active
           card == tracker.cards[a]
           content == Content(From(card.start), poll.busy)
<1>1. poll \in Polls /\ poll.busy \in BOOLEAN /\ tracker \in Trackers
  BY DEF TypeOK, Polls
<1>2. a \in DOMAIN tracker.cards /\ card \in Card /\ card.start \in Nat /\ card.seq \in Nat
  BY ActiveCard DEF Card
<1>3. content \in Shows /\ content.blocks = From(card.start)
  BY <1>1, <1>2, FromSlice DEF Content, Shows
<1>4. PICK o \in {"ok", "fail", "lost"} :
        /\ lark' = IF o \in Reached THEN Put(card.id, card.seq, "live", content) ELSE lark
        /\ refused' = IF o # "fail" /\ ~Takes(card.id, card.seq) THEN refused \cup {card.id} ELSE refused
        /\ IF o = "ok"
           THEN poll' = Finally(poll) /\ tracker' = [tracker EXCEPT !.hash = content]
           ELSE poll' = [poll EXCEPT !.at = "replace"] /\ tracker' = tracker
  BY DEF UpdateAnswered, Go
<1>5. poll.at = "update" /\ UNCHANGED <<output, hand, detached, strays, past, kept, missed>>
  BY DEF UpdateAnswered, lookOn
<1> HIDE DEF content
<1>6. Put(card.id, card.seq, "live", content) \in Seq(LarkCard) /\ lark \in Seq(LarkCard)
  BY <1>2, <1>3, PutCard DEF TypeOK
<1>7. CASE o = "ok"
  <2>1. /\ poll' = Finally(poll) /\ tracker' = [tracker EXCEPT !.hash = content]
        /\ lark' = Put(card.id, card.seq, "live", content)
        /\ refused' = IF Takes(card.id, card.seq) THEN refused ELSE refused \cup {card.id}
    BY <1>4, <1>7 DEF Reached
  <2>2. tracker' \in Trackers /\ tracker'.cards = tracker.cards /\ tracker'.on = tracker.on /\ tracker'.hash = content
    BY <1>1, <1>3, <2>1 DEF Trackers
  <2>3. poll' \in Polls /\ poll'.at \in {"wait", "notify"}
    BY <1>1, <2>1, FinallyPoll
  <2>4. TypeOK'
    BY <1>5, <1>6, <2>1, <2>2, <2>3 DEF TypeOK
  <2> QED BY <1>3, <1>5, <2>1, <2>2, <2>3, <2>4
<1>8. CASE o # "ok"
  <2>1. /\ poll' = [poll EXCEPT !.at = "replace"] /\ tracker' = tracker
        /\ \/ lark' = lark /\ refused' = refused
           \/ /\ lark' = Put(card.id, card.seq, "live", content)
              /\ refused' = IF Takes(card.id, card.seq) THEN refused ELSE refused \cup {card.id}
    BY <1>4, <1>8 DEF Reached
  <2>2. poll' \in Polls /\ poll'.at = "replace" /\ poll'.blocks = poll.blocks
    BY <1>1, <2>1 DEF Polls
  <2>3. TypeOK'
    BY <1>5, <1>6, <2>1, <2>2 DEF TypeOK
  <2> QED BY <1>3, <1>5, <2>1, <2>2, <2>3
<1> QED BY <1>7, <1>8

\* A card with too many elements is to be frozen.
LEMMA ElementsDo ==
  ASSUME TypeOK, ElementLimit, Active # 0
  PROVE  /\ TypeOK' /\ UNCHANGED <<output, hand, detached, strays, past, lark, refused, kept, missed>>
         /\ poll.at = "update" /\ poll'.at = "freeze" /\ poll'.why = "elements" /\ poll'.blocks = poll.blocks
         /\ tracker'.on = tracker.on /\ DOMAIN tracker'.cards = DOMAIN tracker.cards /\ Active' = Active
         /\ \A i \in DOMAIN tracker.cards : tracker'.cards[i].id = tracker.cards[i].id
         /\ tracker'.cards[Active].start = tracker.cards[Active].start
         /\ tracker'.cards[Active].seq = tracker.cards[Active].seq + 1
<1> DEFINE a == Active
           next == [tracker.cards[a] EXCEPT !.seq = @ + 1]
           cards == [tracker.cards EXCEPT ![a] = next]
<1>1. poll \in Polls /\ poll.blocks \in Seq(Block) /\ Len(poll.blocks) \in Nat /\ tracker \in Trackers
  BY DEF TypeOK, Polls, Trackers
<1>2. a \in DOMAIN tracker.cards /\ tracker.cards[a] \in Card
  BY ActiveCard
<1>3. next \in Card /\ next.id = tracker.cards[a].id /\ next.frozen = tracker.cards[a].frozen
      /\ next.start = tracker.cards[a].start /\ next.seq = tracker.cards[a].seq + 1
  BY <1>2 DEF Card
<1>4. /\ poll.at = "update" /\ UNCHANGED <<output, hand, detached, strays, past, lark, refused, kept, missed>>
      /\ poll' = [poll EXCEPT !.at = "freeze", !.why = "elements", !.start = LastWindow(Len(poll.blocks))]
      /\ tracker' = [tracker EXCEPT !.cards = cards]
  BY DEF ElementLimit, Go, lookOn
<1> HIDE DEF next
<1>5. /\ cards \in Seq(Card) /\ DOMAIN cards = DOMAIN tracker.cards /\ cards[a] = next
      /\ \A i \in DOMAIN tracker.cards \ {a} : cards[i] = tracker.cards[i]
  BY <1>2, <1>3, CardReplaced
<1> HIDE DEF cards
<1>6. tracker' \in Trackers /\ tracker'.cards = cards /\ tracker'.on = tracker.on
  BY <1>1, <1>4, <1>5 DEF Trackers
<1>7. LastWindow(Len(poll.blocks)) \in Nat
  BY <1>1, Consts DEF LastWindow
<1>8. poll' \in Polls /\ poll'.at = "freeze" /\ poll'.why = "elements" /\ poll'.blocks = poll.blocks
  BY <1>1, <1>4, <1>7 DEF Polls
<1>9. TypeOK'
  BY <1>4, <1>6, <1>8 DEF TypeOK
<1>10. \A i \in DOMAIN tracker.cards : tracker'.cards[i].id = tracker.cards[i].id
                                       /\ tracker'.cards[i].frozen = tracker.cards[i].frozen
  BY <1>3, <1>5, <1>6
<1>11. Active' = Active
  BY <1>5, <1>6, <1>9, <1>10, SameActive
<1> QED BY <1>3, <1>4, <1>5, <1>6, <1>8, <1>9, <1>10, <1>11

\* A card to replace the open one is to be sent, or the change is left out.
LEMMA ReplaceDoes ==
  ASSUME TypeOK, ReplaceAnswered, Active # 0
  PROVE  /\ TypeOK' /\ UNCHANGED <<output, hand, detached, strays, past, kept, refused>>
         /\ poll.at = "replace" /\ tracker'.on = tracker.on /\ tracker'.cards = tracker.cards
         /\ \E content \in Shows :
              /\ content.blocks = From(tracker.cards[Active].start)
              /\ \/ /\ lark' = Created(content) /\ missed' = missed
                    /\ poll'.at = "resend" /\ poll'.id = Len(lark) + 1 /\ poll'.blocks = poll.blocks
                 \/ /\ lark' \in {lark, Created(content)} /\ missed' = missed \cup ToSet(content.blocks)
                    /\ poll'.at \in {"wait", "notify"} /\ tracker'.hash = content
<1> DEFINE card == tracker.cards[Active]
           content == Content(From(card.start), poll.busy)
<1>1. poll \in Polls /\ poll.busy \in BOOLEAN /\ tracker \in Trackers /\ lark \in Seq(LarkCard)
  BY DEF TypeOK, Polls
<1>2. card \in Card /\ card.start \in Nat
  BY ActiveCard DEF Card
<1>3. content \in Shows /\ content.blocks = From(card.start)
  BY <1>1, <1>2, FromSlice DEF Content, Shows
<1>4. PICK o \in {"ok", "fail", "lost"} :
        /\ lark' = IF o \in Reached THEN Created(content) ELSE lark
        /\ IF o = "ok" THEN poll' = [poll EXCEPT !.at = "resend", !.id = Len(lark) + 1] /\ tracker' = tracker
           ELSE poll' = Finally(poll) /\ tracker' = [tracker EXCEPT !.hash = content]
        /\ missed' = IF o = "ok" THEN missed ELSE missed \cup ToSet(content.blocks)
  BY DEF ReplaceAnswered, Go
<1>5. poll.at = "replace" /\ UNCHANGED <<output, hand, detached, strays, past, kept, refused>>
  BY DEF ReplaceAnswered, lookOn
<1> HIDE DEF content
<1>6. Created(content) \in Seq(LarkCard) /\ Len(lark) + 1 \in Nat
  BY <1>1, <1>3, CreatedCard
<1>7. CASE o = "ok"
  <2>1. /\ poll' = [poll EXCEPT !.at = "resend", !.id = Len(lark) + 1] /\ tracker' = tracker
        /\ lark' = Created(content) /\ missed' = missed
    BY <1>4, <1>7 DEF Reached
  <2>2. poll' \in Polls /\ poll'.at = "resend" /\ poll'.id = Len(lark) + 1 /\ poll'.blocks = poll.blocks
    BY <1>1, <1>6, <2>1 DEF Polls
  <2>3. TypeOK'
    BY <1>5, <1>6, <2>1, <2>2 DEF TypeOK
  <2> QED BY <1>3, <1>5, <2>1, <2>2, <2>3
<1>8. CASE o # "ok"
  <2>1. /\ poll' = Finally(poll) /\ tracker' = [tracker EXCEPT !.hash = content]
        /\ lark' \in {lark, Created(content)} /\ missed' = missed \cup ToSet(content.blocks)
    BY <1>4, <1>8
  <2>2. tracker' \in Trackers /\ tracker'.cards = tracker.cards /\ tracker'.on = tracker.on /\ tracker'.hash = content
    BY <1>1, <1>3, <2>1 DEF Trackers
  <2>3. poll' \in Polls /\ poll'.at \in {"wait", "notify"}
    BY <1>1, <2>1, FinallyPoll
  <2>4. TypeOK'
    BY <1>1, <1>5, <1>6, <2>1, <2>2, <2>3 DEF TypeOK
  <2> QED BY <1>3, <1>5, <2>1, <2>2, <2>3, <2>4
<1> QED BY <1>7, <1>8

\* The card that was sent takes the place of the open one, which is kept.
LEMMA ResendDoes ==
  ASSUME TypeOK, ResendAnswered, Active # 0, poll.id \in DOMAIN lark
  PROVE  /\ TypeOK' /\ UNCHANGED <<output, hand, detached, strays, past, missed, refused>>
         /\ poll.at = "resend" /\ poll'.at \in {"wait", "notify"} /\ tracker'.on = tracker.on
         /\ lark' \in {lark, [lark EXCEPT ![poll.id].sent = TRUE]}
         /\ DOMAIN tracker'.cards = DOMAIN tracker.cards /\ Active' = Active
         /\ \A i \in DOMAIN tracker.cards \ {Active} : tracker'.cards[i] = tracker.cards[i]
         /\ tracker'.cards[Active].id = poll.id /\ tracker'.cards[Active].seq = 0
         /\ tracker'.cards[Active].start = tracker.cards[Active].start
         /\ tracker'.hash.blocks = From(tracker.cards[Active].start)
         /\ kept' = kept \cup {tracker.cards[Active].id}
<1> DEFINE a == Active
           card == tracker.cards[a]
           next == [card EXCEPT !.id = poll.id, !.seq = 0]
           cards == [tracker.cards EXCEPT ![a] = next]
           content == Content(From(card.start), poll.busy)
<1>1. poll \in Polls /\ poll.id \in Nat /\ poll.busy \in BOOLEAN /\ tracker \in Trackers /\ tracker.cards \in Seq(Card)
  BY DEF TypeOK, Polls, Trackers
<1>2. a \in DOMAIN tracker.cards /\ card \in Card /\ card.start \in Nat
  BY ActiveCard DEF Card
<1>3. content \in Shows /\ content.blocks = From(card.start)
  BY <1>1, <1>2, FromSlice DEF Content, Shows
<1>4. /\ poll.at = "resend" /\ UNCHANGED <<output, hand, detached, strays, past, missed, refused>>
      /\ lark' \in {lark, [lark EXCEPT ![poll.id].sent = TRUE]}
      /\ poll' = Finally(poll) /\ kept' = kept \cup {card.id}
      /\ tracker' = [tracker EXCEPT !.cards[a].id = poll.id, !.cards[a].seq = 0, !.hash = content]
  BY DEF ResendAnswered, lookOn
<1>5. tracker' = [tracker EXCEPT !.cards = cards, !.hash = content]
  BY <1>1, <1>2, <1>4 DEF Trackers
<1>6. next \in Card /\ next.id = poll.id /\ next.seq = 0 /\ next.start = card.start /\ next.frozen = card.frozen
  BY <1>1, <1>2 DEF Card
<1> HIDE DEF content, next
<1>7. /\ cards \in Seq(Card) /\ DOMAIN cards = DOMAIN tracker.cards /\ cards[a] = next
      /\ \A i \in DOMAIN tracker.cards \ {a} : cards[i] = tracker.cards[i]
  BY <1>2, <1>6, CardReplaced
<1> HIDE DEF cards
<1>8. tracker' \in Trackers /\ tracker'.cards = cards /\ tracker'.on = tracker.on /\ tracker'.hash = content
  BY <1>1, <1>3, <1>5, <1>7 DEF Trackers
<1>9. poll' \in Polls /\ poll'.at \in {"wait", "notify"}
  BY <1>1, <1>4, FinallyPoll
<1>10. lark' \in Seq(LarkCard)
  BY <1>4, SentCard DEF TypeOK
<1>11. TypeOK'
  BY <1>4, <1>8, <1>9, <1>10 DEF TypeOK
<1>12. \A i \in DOMAIN tracker.cards : tracker'.cards[i].frozen = tracker.cards[i].frozen
  BY <1>6, <1>7, <1>8
<1>13. Active' = Active
  BY <1>7, <1>8, <1>11, <1>12, SameActive
<1> QED BY <1>3, <1>4, <1>6, <1>7, <1>8, <1>9, <1>11, <1>13

\* The call the poll task waits for, if any, is about the open card or sends the new one.
LEMMA CutShortCalls ==
  ASSUME TypeOK,
         poll.at \in {"update", "freeze"} => Active # 0,
         poll.at = "freeze" /\ poll.why # "elements" => poll.start <= Len(poll.blocks)
  PROVE  /\ CutShort \subseteq Strays
         /\ \A c \in CutShort :
              \/ /\ poll.at \in {"update", "freeze"} /\ c.call = "put"
                 /\ c.id = tracker.cards[Active].id /\ c.seq = tracker.cards[Active].seq
              \/ Sending /\ c.call = "send" /\ c.id = poll.id
<1>1. poll \in Polls /\ poll.start \in Nat /\ poll.blocks \in Seq(Block) /\ Len(poll.blocks) \in Nat
      /\ poll.id \in Nat /\ poll.busy \in BOOLEAN
  BY DEF TypeOK, Polls
<1>2. CASE poll.at \in {"update", "freeze"}
  <2> DEFINE card == tracker.cards[Active]
             end == IF poll.at = "freeze" /\ poll.why # "elements" THEN poll.start ELSE Len(poll.blocks)
             content == Content(SubSeq(poll.blocks, card.start + 1, end), poll.busy /\ poll.at = "update")
             form == IF poll.at = "update" THEN "live" ELSE "frozen"
             c == [call |-> "put", id |-> card.id, seq |-> card.seq, form |-> form, content |-> content]
  <2>1. card.id \in Nat /\ card.seq \in Nat /\ card.start \in Nat
    BY <1>2, ActiveCard DEF Card
  <2>2. SubSeq(poll.blocks, card.start + 1, end) \in Seq(Block)
    <3>1. end \in Nat /\ end <= Len(poll.blocks)
      BY <1>1, <1>2
    <3> HIDE DEF end, card
    <3> QED BY <1>1, <2>1, <3>1, Slice
  <2>3. content \in Shows
    <3>1. (poll.busy /\ poll.at = "update") \in BOOLEAN
      OBVIOUS
    <3> HIDE DEF end, card
    <3> QED BY <2>2, <3>1 DEF Content, Shows
  <2>4. CutShort = {c}
    BY <1>2 DEF CutShort
  <2>5. form \in {"live", "frozen"}
    OBVIOUS
  <2> HIDE DEF content, form, card
  <2>6. c \in Strays /\ c.call = "put" /\ c.id = card.id /\ c.seq = card.seq
    BY <2>1, <2>3, <2>5 DEF Strays
  <2> HIDE DEF c
  <2> QED BY <1>2, <2>4, <2>6 DEF card
<1>3. CASE poll.at \in {"send", "resend"}
  <2> DEFINE c == [call |-> "send", id |-> poll.id, seq |-> 0, form |-> "live", content |-> Content(<<>>, FALSE)]
  <2>1. CutShort = {c}
    BY <1>3 DEF CutShort
  <2>2. Content(<<>>, FALSE) \in Shows
    BY DEF Content, Shows
  <2>3. c \in Strays /\ c.call = "send" /\ c.id = poll.id
    BY <1>1, <2>2 DEF Strays
  <2> HIDE DEF c
  <2> QED BY <1>3, <2>1, <2>3 DEF Sending
<1>4. CASE poll.at \notin {"update", "freeze", "send", "resend"}
  <2>1. CutShort = {}
    BY <1>4 DEF CutShort
  <2> QED BY <2>1
<1> QED BY <1>2, <1>3, <1>4

\* The tracker goes, and the open card to the handler unless it is kept.
LEMMA StopDoes ==
  ASSUME TypeOK, NEW how \in {"quiet", "off", "button"}, Stop(how), CutShort \subseteq Strays
  PROVE  /\ TypeOK' /\ UNCHANGED <<output, detached, lark, missed, refused, past>>
         /\ tracker.on /\ hand.at = "none" /\ tracker' = NoTracker /\ poll' = Idle
         /\ strays' = strays \cup CutShort
         /\ kept \subseteq kept' /\ (Sending => poll.id \in kept')
         /\ hand'.at = "update" => /\ Active # 0 /\ hand'.id = tracker.cards[Active].id
                                   /\ hand'.seq = tracker.cards[Active].seq + 1
         /\ Active # 0 => tracker.cards[Active].id \in kept' \/ hand'.at = "update"
<1> DEFINE card == IF Active = 0 THEN [id |-> 0] ELSE tracker.cards[Active]
           next == [at |-> "update", id |-> card.id, seq |-> card.seq + 1, start |-> card.start, form |-> how]
           offline == [NoHand EXCEPT !.at = "offline"]
<1>1. /\ UNCHANGED <<output, detached, lark, missed, refused, past>>
      /\ tracker.on /\ hand.at = "none" /\ tracker' = NoTracker /\ poll' = Idle
      /\ strays' = strays \cup CutShort
      /\ hand' = IF how = "button" /\ Active = 0 THEN offline
                 ELSE IF Active = 0 \/ how = "quiet" THEN NoHand ELSE next
      /\ kept' = kept \cup (IF Active # 0 /\ how = "quiet" THEN {card.id} ELSE {})
                      \cup (IF poll.at \in {"send", "resend"} THEN {poll.id} ELSE {})
  BY DEF Stop
<1>2. NoTracker \in Trackers /\ Idle \in Polls
  <2>1. <<>> \in Seq(Block) /\ <<>> \in Seq(Card)
    OBVIOUS
  <2> QED BY <2>1 DEF NoTracker, Trackers, Idle, Polls
<1>3. NoHand \in Hands /\ offline \in Hands /\ NoHand.at = "none" /\ offline.at = "offline"
  BY DEF NoHand, Hands
<1>4. ASSUME Active # 0
      PROVE  card = tracker.cards[Active] /\ card.id \in Nat /\ card.seq \in Nat /\ card.start \in Nat
  BY <1>4, ActiveCard DEF Card
<1> HIDE DEF card, offline
<1>5. Active # 0 /\ how # "quiet" => next \in Hands /\ next.at = "update" /\ next.id = card.id /\ next.seq = card.seq + 1
  BY <1>4 DEF Hands
<1> HIDE DEF next
<1>6. hand' \in Hands
  BY <1>1, <1>3, <1>5
<1>7. TypeOK'
  BY <1>1, <1>2, <1>6 DEF TypeOK
<1>8. hand'.at = "update" => Active # 0 /\ hand' = next /\ how # "quiet"
  BY <1>1, <1>3
<1>9. Active # 0 => card.id \in kept' \/ (hand' = next /\ how # "quiet")
  BY <1>1
<1> QED BY <1>1, <1>4, <1>5, <1>7, <1>8, <1>9 DEF Sending

\* The handler's update ends: it was taken, or the card is kept.
LEMMA HandDoes ==
  ASSUME TypeOK, HandAnswered, hand.id \in DOMAIN lark
  PROVE  /\ TypeOK' /\ UNCHANGED <<output, tracker, poll, strays, missed, past>>
         /\ hand.at = "update" /\ hand'.at \in {"none", "offline"}
         /\ \E content \in Shows :
              \/ /\ lark' = Put(hand.id, hand.seq, "off", content) /\ kept' = kept
                 /\ refused' = IF Takes(hand.id, hand.seq) THEN refused ELSE refused \cup {hand.id}
                 /\ detached' = detached \/ (detached' = hand /\ hand'.at = "none")
              \/ /\ lark' = lark /\ kept' = kept \cup {hand.id} /\ refused' = refused /\ detached' = detached
<1> DEFINE n == Len(output.blocks)
           content == Content(SubSeq(output.blocks, hand.start + 1, n), FALSE)
<1>1. /\ output.blocks \in Seq(Block) /\ n \in Nat /\ hand \in Hands /\ hand.start \in Nat /\ hand.seq \in Nat
      /\ lark \in Seq(LarkCard) /\ detached \in Hands
  BY DEF TypeOK, Outputs, Hands
<1>2. content \in Shows
  <2>1. n <= Len(output.blocks)
    BY <1>1
  <2>2. SubSeq(output.blocks, hand.start + 1, n) \in Seq(Block)
    <3> HIDE DEF n
    <3> QED BY <1>1, <2>1, Slice
  <2> QED BY <2>2 DEF Content, Shows
<1>3. PICK o \in {"ok", "fail", "lost"} :
        /\ lark' = IF o \in Reached THEN Put(hand.id, hand.seq, "off", content) ELSE lark
        /\ refused' = IF o # "fail" /\ ~Takes(hand.id, hand.seq) THEN refused \cup {hand.id} ELSE refused
        /\ kept' = IF o = "fail" THEN kept \cup {hand.id} ELSE kept
        /\ detached' = IF o = "ok" /\ hand.form = "button" THEN hand ELSE detached
        /\ \/ hand' = NoHand /\ (o = "ok" \/ hand.form = "off")
           \/ hand' = [hand EXCEPT !.at = "offline"] /\ o # "ok"
  BY DEF HandAnswered
<1>4. hand.at = "update" /\ UNCHANGED <<output, tracker, poll, strays, missed, past>>
  BY DEF HandAnswered
<1> HIDE DEF content
<1>5. Put(hand.id, hand.seq, "off", content) \in Seq(LarkCard)
  BY <1>1, <1>2, PutCard
<1>6. /\ hand' \in Hands /\ hand'.at \in {"none", "offline"} /\ (o = "ok" => hand'.at = "none")
  BY <1>1, <1>3 DEF NoHand, Hands
<1>7. TypeOK'
  BY <1>1, <1>3, <1>4, <1>5, <1>6 DEF TypeOK
<1>8. \/ /\ lark' = Put(hand.id, hand.seq, "off", content) /\ kept' = kept
         /\ refused' = IF Takes(hand.id, hand.seq) THEN refused ELSE refused \cup {hand.id}
         /\ detached' = detached \/ (detached' = hand /\ hand'.at = "none")
      \/ /\ lark' = lark /\ kept' = kept \cup {hand.id} /\ refused' = refused /\ detached' = detached
  BY <1>3, <1>6 DEF Reached
<1> QED BY <1>2, <1>4, <1>6, <1>7, <1>8

\* A card of its own for a lost connection.
LEMMA OfflineDoes ==
  ASSUME TypeOK, OfflineCard
  PROVE  /\ TypeOK' /\ UNCHANGED <<output, tracker, poll, detached, strays, kept, missed, refused, past>>
         /\ hand.at = "offline" /\ hand'.at = "none"
         /\ DOMAIN lark' = DOMAIN lark \cup {Len(lark) + 1} /\ Len(lark) + 1 \notin DOMAIN lark
         /\ \A i \in DOMAIN lark : lark'[i] = lark[i]
         /\ lark'[Len(lark) + 1].form = "off"
<1> DEFINE card == [form |-> "off", blocks |-> <<>>, busy |-> FALSE, seq |-> 0, sent |-> TRUE]
<1>1. lark \in Seq(LarkCard) /\ Len(lark) \in Nat /\ DOMAIN lark = 1..Len(lark)
  BY DEF TypeOK
<1>2. card \in LarkCard /\ card.form = "off"
  <2>1. <<>> \in Seq(Block)
    OBVIOUS
  <2> QED BY <2>1 DEF LarkCard
<1>3. /\ lark' = Append(lark, card) /\ hand.at = "offline" /\ hand' = NoHand
      /\ UNCHANGED <<output, tracker, poll, detached, strays, kept, missed, refused, past>>
  BY DEF OfflineCard
<1> HIDE DEF card
<1>4. /\ lark' \in Seq(LarkCard) /\ Len(lark') = Len(lark) + 1
      /\ \A i \in 1..Len(lark) : lark'[i] = lark[i]
      /\ lark'[Len(lark) + 1] = card
  BY <1>1, <1>2, <1>3, AppendProperties
<1>5. hand' \in Hands /\ hand'.at = "none"
  BY <1>3 DEF NoHand, Hands
<1>6. TypeOK'
  BY <1>3, <1>4, <1>5 DEF TypeOK
<1>7. DOMAIN lark' = 1..(Len(lark) + 1)
  BY <1>4
<1> QED BY <1>1, <1>2, <1>3, <1>4, <1>5, <1>6, <1>7

\* The card the button turned off is frozen before the chat is attached again.
LEMMA ReconnectDoes ==
  ASSUME TypeOK, Reconnect, detached.id \in DOMAIN lark
  PROVE  /\ TypeOK' /\ UNCHANGED <<output, tracker, poll, hand, strays, kept, missed, past>>
         /\ ~tracker.on /\ hand.at = "none" /\ detached.at = "update" /\ detached'.at = "none"
         /\ \E content \in Shows :
              \/ /\ lark' = Put(detached.id, detached.seq + 1, "frozen", content)
                 /\ refused' = IF Takes(detached.id, detached.seq + 1) THEN refused ELSE refused \cup {detached.id}
              \/ lark' = lark /\ refused' = refused
<1> DEFINE content == Content(<<>>, FALSE)
           seq == detached.seq + 1
<1>1. seq \in Nat /\ lark \in Seq(LarkCard)
  BY DEF TypeOK, Hands
<1>2. content \in Shows
  BY DEF Content, Shows
<1>3. PICK o \in {"ok", "fail", "lost"} :
        /\ lark' = IF o \in Reached THEN Put(detached.id, seq, "frozen", content) ELSE lark
        /\ refused' = IF o # "fail" /\ ~Takes(detached.id, seq) THEN refused \cup {detached.id} ELSE refused
  BY DEF Reconnect
<1>4. /\ ~tracker.on /\ hand.at = "none" /\ detached.at = "update" /\ detached' = NoHand
      /\ UNCHANGED <<output, tracker, poll, hand, strays, kept, missed, past>>
  BY DEF Reconnect
<1> HIDE DEF content
<1>5. Put(detached.id, seq, "frozen", content) \in Seq(LarkCard)
  BY <1>1, <1>2, PutCard
<1>6. detached' \in Hands /\ detached'.at = "none"
  BY <1>4 DEF NoHand, Hands
<1>7. TypeOK'
  BY <1>1, <1>3, <1>4, <1>5, <1>6 DEF TypeOK
<1>8. \/ /\ lark' = Put(detached.id, seq, "frozen", content)
         /\ refused' = IF Takes(detached.id, seq) THEN refused ELSE refused \cup {detached.id}
      \/ lark' = lark /\ refused' = refused
  BY <1>3 DEF Reached
<1> QED BY <1>2, <1>4, <1>6, <1>7, <1>8

LEMMA StartDoes ==
  ASSUME TypeOK, Start
  PROVE  /\ TypeOK' /\ UNCHANGED <<output, hand, lark, strays, kept, refused>>
         /\ ~tracker.on /\ hand.at = "none" /\ detached'.at = "none" /\ past' = 0
         /\ tracker'.on /\ tracker'.cards = <<>> /\ poll'.at = "wait"
<1>1. /\ UNCHANGED <<output, hand, lark, strays, kept, refused>>
      /\ ~tracker.on /\ hand.at = "none" /\ detached' = NoHand /\ past' = 0
      /\ tracker' = NewTracker /\ poll' = Rest
  BY DEF Start
<1>2. NewTracker \in Trackers /\ NewTracker.on /\ NewTracker.cards = <<>>
  <2>1. <<>> \in Seq(Card)
    OBVIOUS
  <2> QED BY <2>1 DEF NewTracker, NoTracker, Trackers
<1>3. detached' \in Hands /\ detached'.at = "none"
  BY <1>1 DEF NoHand, Hands
<1>4. TypeOK'
  BY <1>1, <1>2, <1>3, RestPoll DEF TypeOK
<1> QED BY <1>1, <1>2, <1>3, <1>4, RestPoll

LEMMA NotifyDoes ==
  ASSUME TypeOK, NotifyAnswered
  PROVE  /\ TypeOK' /\ UNCHANGED <<output, tracker, hand, detached, lark, strays, kept, missed, refused, past>>
         /\ poll.at = "notify" /\ poll'.at = "wait"
  BY RestPoll DEF NotifyAnswered, TypeOK

\* A call of a cancelled task ends, whether it reaches Lark or not.
LEMMA StrayDoes ==
  ASSUME TypeOK, StrayEnds, \A c \in strays : c.id \in DOMAIN lark
  PROVE  /\ TypeOK' /\ UNCHANGED <<output, tracker, poll, hand, detached, kept, missed, refused, past>>
         /\ strays' \subseteq strays
         /\ \E c \in strays :
              \/ lark' = lark
              \/ c.call = "send" /\ lark' = [lark EXCEPT ![c.id].sent = TRUE]
              \/ c.call = "put" /\ lark' = Put(c.id, c.seq, c.form, c.content)
<1>1. PICK c \in strays :
        /\ strays' = strays \ {c}
        /\ lark' \in {lark, IF c.call = "send" THEN [lark EXCEPT ![c.id].sent = TRUE]
                            ELSE Put(c.id, c.seq, c.form, c.content)}
  BY DEF StrayEnds
<1>2. UNCHANGED <<output, tracker, poll, hand, detached, kept, missed, refused, past>>
  BY DEF StrayEnds
<1>3. c \in Strays /\ c.id \in DOMAIN lark /\ lark \in Seq(LarkCard)
  BY DEF TypeOK
<1>4. c.call \in {"put", "send"} /\ c.seq \in Nat /\ c.form \in {"live", "frozen", "off"} /\ c.content \in Shows
  BY <1>3 DEF Strays
<1>5. \/ lark' = lark
      \/ c.call = "send" /\ lark' = [lark EXCEPT ![c.id].sent = TRUE]
      \/ c.call = "put" /\ lark' = Put(c.id, c.seq, c.form, c.content)
  BY <1>1, <1>4
<1>6. lark' \in Seq(LarkCard)
  <2>1. [lark EXCEPT ![c.id].sent = TRUE] \in Seq(LarkCard)
    BY <1>3, SentCard
  <2>2. c.call = "put" => c.form \in {"live", "frozen", "off"}
    BY <1>4
  <2>3. CASE c.call = "put" /\ lark' = Put(c.id, c.seq, c.form, c.content)
    BY <1>3, <1>4, <2>3, PutCard
  <2> QED BY <1>3, <1>5, <2>1, <2>3
<1>7. TypeOK'
  BY <1>1, <1>2, <1>6 DEF TypeOK
<1> QED BY <1>1, <1>2, <1>5, <1>7

LEMMA InitType ==
  ASSUME Init
  PROVE  TypeOK
<1>1. PICK b \in Big : output = [blocks |-> <<>>, busy |-> FALSE, next |-> 1, big |-> b]
  BY DEF Init
<1>2. <<>> \in Seq(Block) /\ <<>> \in Seq(Card) /\ <<>> \in Seq(LarkCard)
  OBVIOUS
<1>3. output \in Outputs
  BY <1>1, <1>2 DEF Outputs
<1>4. NoTracker \in Trackers /\ Idle \in Polls /\ NoHand \in Hands
  BY <1>2 DEF NoTracker, Trackers, Idle, Polls, NoHand, Hands
<1> QED BY <1>2, <1>3, <1>4 DEF Init, TypeOK

-----------------------------------------------------------------------------
(* Where the poll task and the handler stand. *)

\* the open card is the same if the cards are
LEMMA SameCards ==
  ASSUME tracker'.cards = tracker.cards
  PROVE  Active' = Active /\ Mine' = Mine
  BY DEF Active, Mine

LEMMA SameIds ==
  ASSUME DOMAIN tracker'.cards = DOMAIN tracker.cards,
         \A i \in DOMAIN tracker.cards : tracker'.cards[i].id = tracker.cards[i].id
  PROVE  Mine' = Mine
  BY DEF Mine

\* A poll task that runs has a tracker, and the handler lets it alone.
LEMMA Running ==
  ASSUME PlaceInv, poll.at # "off"
  PROVE  tracker.on /\ hand.at = "none" /\ detached.at = "none"
  BY DEF PlaceInv, Idle

\* The card that is open is one of the tracker's, and Lark has it.
LEMMA OpenCard ==
  ASSUME TypeOK, SeqInv, Active # 0
  PROVE  /\ tracker.cards[Active].id \in Mine /\ tracker.cards[Active].id \in DOMAIN lark
         /\ Active \in DOMAIN tracker.cards /\ tracker.cards[Active] \in Card
<1>1. Active \in DOMAIN tracker.cards /\ tracker.cards[Active] \in Card
  BY ActiveCard
<1> QED BY <1>1 DEF Mine, SeqInv

\* What a freeze or a creation has to hold.
LEMMA Starts ==
  ASSUME TypeOK, PlaceInv, ShownInv
  PROVE  /\ poll.at = "freeze" /\ poll.why # "elements" => poll.start <= Len(poll.blocks)
         /\ poll.at = "create" => poll.start <= Len(poll.blocks)
<1>1. Len(poll.blocks) \in Nat /\ poll.start \in Nat
  BY DEF TypeOK, Polls
<1>2. CASE poll.at = "freeze" /\ poll.why # "elements"
  <2>1. Active # 0
    BY <1>2 DEF PlaceInv
  <2>2. poll.start \in tracker.cards[Active].start..Len(poll.blocks)
    BY <1>2, <2>1 DEF ShownInv
  <2> QED BY <1>1, <1>2, <2>2
<1>3. CASE poll.at = "create"
  BY <1>1, <1>3 DEF ShownInv
<1> QED BY <1>2, <1>3

LEMMA PlaceKept ==
  ASSUME IInv, Next
  PROVE  TypeOK' /\ PlaceInv'
<1> USE DEF IInv
<1>1. CASE Session
  <2>1. TypeOK' /\ UNCHANGED <<tracker, poll, hand, detached>>
    BY <1>1, SessionDoes
  <2> QED BY <2>1 DEF PlaceInv, Active
<1>2. CASE Poll
  <2>1. poll.at = "wait"
    BY <1>2 DEF Poll
  <2>2. tracker.on /\ hand.at = "none" /\ detached.at = "none"
    BY <2>1, Running
  <2>3. CASE Active = 0
    <3>1. /\ TypeOK' /\ tracker'.on = tracker.on /\ UNCHANGED <<hand, detached>>
          /\ tracker'.cards = tracker.cards /\ poll'.at = "create"
      BY <1>2, <2>3, PollCreates
    <3>2. Active' = 0
      BY <2>3, <3>1, SameCards
    <3> QED BY <2>2, <3>1, <3>2 DEF PlaceInv
  <2>4. CASE Active # 0
    <3>1. /\ TypeOK' /\ tracker'.on = tracker.on /\ UNCHANGED <<hand, detached>> /\ Active' = Active
          /\ poll'.at \in {"wait", "notify", "update", "freeze"}
      BY <1>2, <2>4, PollLooks
    <3> QED BY <2>2, <2>4, <3>1 DEF PlaceInv
  <2> QED BY <2>3, <2>4
<1>3. CASE CreateAnswered
  <2>1. poll.at = "create"
    BY <1>3 DEF CreateAnswered
  <2>2. poll.start <= Len(poll.blocks)
    BY <2>1, Starts
  <2>3. TypeOK' /\ UNCHANGED <<tracker, hand, detached>> /\ poll'.at \in {"wait", "notify", "send"}
    BY <1>3, <2>2, CreateDoes
  <2>4. Active' = Active /\ Active = 0
    BY <2>1, <2>3, SameCards DEF PlaceInv
  <2> QED BY <2>1, <2>3, <2>4, Running DEF PlaceInv
<1>4. CASE SendAnswered
  <2>1. poll.at = "send" /\ poll.id \in DOMAIN lark
    BY <1>4 DEF SendAnswered, SeqInv, Sending
  <2>2. /\ TypeOK' /\ UNCHANGED <<hand, detached>> /\ tracker'.on = tracker.on
        /\ poll'.at \in {"wait", "notify"}
    BY <1>4, <2>1, SendDoes
  <2> QED BY <2>1, <2>2, Running DEF PlaceInv
<1>5. CASE FreezeAnswered
  <2>1. poll.at = "freeze" /\ Active # 0
    BY <1>5 DEF FreezeAnswered, PlaceInv
  <2>2. /\ tracker.cards[Active].id \in DOMAIN lark
        /\ poll.why # "elements" => poll.start <= Len(poll.blocks)
    BY <2>1, OpenCard, Starts
  <2>3. /\ TypeOK' /\ UNCHANGED <<hand, detached>> /\ tracker'.on = tracker.on /\ Active' = 0
        /\ poll'.at \in {"wait", "notify", "create"}
    BY <1>5, <2>1, <2>2, FreezeDoes
  <2> QED BY <2>1, <2>3, Running DEF PlaceInv
<1>6. CASE UpdateAnswered
  <2>1. poll.at = "update" /\ Active # 0
    BY <1>6 DEF UpdateAnswered, PlaceInv
  <2>2. tracker.cards[Active].id \in DOMAIN lark
    BY <2>1, OpenCard
  <2>3. /\ TypeOK' /\ UNCHANGED <<hand, detached>> /\ tracker'.on = tracker.on
        /\ tracker'.cards = tracker.cards /\ poll'.at \in {"wait", "notify", "replace"}
    BY <1>6, <2>1, <2>2, UpdateDoes
  <2>4. Active' # 0
    BY <2>1, <2>3, SameCards
  <2> QED BY <2>1, <2>3, <2>4, Running DEF PlaceInv
<1>7. CASE ElementLimit
  <2>1. poll.at = "update" /\ Active # 0
    BY <1>7 DEF ElementLimit, PlaceInv
  <2>2. /\ TypeOK' /\ UNCHANGED <<hand, detached>> /\ tracker'.on = tracker.on /\ Active' # 0
        /\ poll'.at = "freeze"
    BY <1>7, <2>1, ElementsDo
  <2> QED BY <2>1, <2>2, Running DEF PlaceInv
<1>8. CASE ReplaceAnswered
  <2>1. poll.at = "replace" /\ Active # 0
    BY <1>8 DEF ReplaceAnswered, PlaceInv
  <2>2. /\ TypeOK' /\ UNCHANGED <<hand, detached>> /\ tracker'.on = tracker.on
        /\ tracker'.cards = tracker.cards /\ poll'.at \in {"wait", "notify", "resend"}
    BY <1>8, <2>1, ReplaceDoes
  <2>3. Active' # 0
    BY <2>1, <2>2, SameCards
  <2> QED BY <2>1, <2>2, <2>3, Running DEF PlaceInv
<1>9. CASE ResendAnswered
  <2>1. poll.at = "resend" /\ Active # 0 /\ poll.id \in DOMAIN lark
    BY <1>9 DEF ResendAnswered, PlaceInv, SeqInv, Sending
  <2>2. /\ TypeOK' /\ UNCHANGED <<hand, detached>> /\ tracker'.on = tracker.on /\ Active' # 0
        /\ poll'.at \in {"wait", "notify"}
    BY <1>9, <2>1, ResendDoes
  <2> QED BY <2>1, <2>2, Running DEF PlaceInv
<1>10. CASE NotifyAnswered
  <2>1. /\ TypeOK' /\ UNCHANGED <<hand, detached, tracker>> /\ poll.at = "notify" /\ poll'.at = "wait"
    BY <1>10, NotifyDoes
  <2> QED BY <2>1, Running DEF PlaceInv
<1>11. CASE Start
  <2>1. TypeOK' /\ hand'.at = "none" /\ detached'.at = "none" /\ tracker'.on /\ poll'.at = "wait"
    BY <1>11, StartDoes
  <2> QED BY <2>1 DEF PlaceInv
<1>12. ASSUME NEW how \in {"quiet", "off", "button"}, Stop(how)
       PROVE  TypeOK' /\ PlaceInv'
  <2>1. /\ poll.at \in {"update", "freeze"} => Active # 0
        /\ poll.at = "freeze" /\ poll.why # "elements" => poll.start <= Len(poll.blocks)
    BY Starts DEF PlaceInv
  <2>2. CutShort \subseteq Strays
    BY <2>1, CutShortCalls
  <2>3. TypeOK' /\ tracker.on /\ tracker' = NoTracker /\ poll' = Idle /\ detached' = detached
    BY <1>12, <2>2, StopDoes
  <2>4. detached'.at = "none" /\ ~tracker'.on /\ poll'.at = "off"
    BY <2>3 DEF PlaceInv, NoTracker, Idle
  <2> QED BY <2>3, <2>4 DEF PlaceInv
<1>13. CASE Reconnect
  <2>1. detached.id \in DOMAIN lark /\ detached.at = "update"
    BY <1>13 DEF Reconnect, SeqInv
  <2>2. /\ TypeOK' /\ UNCHANGED <<tracker, poll, hand>> /\ ~tracker.on /\ hand.at = "none"
        /\ detached'.at = "none"
    BY <1>13, <2>1, ReconnectDoes
  <2> QED BY <2>2 DEF PlaceInv, Active
<1>14. CASE HandAnswered
  <2>1. hand.id \in DOMAIN lark /\ hand.at = "update"
    BY <1>14 DEF HandAnswered, SeqInv
  <2>2. /\ TypeOK' /\ UNCHANGED <<tracker, poll>> /\ hand'.at \in {"none", "offline"}
        /\ detached' = detached \/ hand'.at = "none"
    BY <1>14, <2>1, HandDoes
  <2>3. ~tracker.on /\ detached.at = "none"
    BY <2>1 DEF PlaceInv
  <2> QED BY <2>2, <2>3 DEF PlaceInv, Active
<1>15. CASE OfflineCard
  <2>1. TypeOK' /\ UNCHANGED <<tracker, poll, detached>> /\ hand.at = "offline" /\ hand'.at = "none"
    BY <1>15, OfflineDoes
  <2> QED BY <2>1 DEF PlaceInv, Active
<1>16. CASE StrayEnds
  <2>1. TypeOK' /\ UNCHANGED <<tracker, poll, hand, detached>>
    BY <1>16, StrayDoes DEF SeqInv
  <2> QED BY <2>1 DEF PlaceInv, Active
<1> QED
  BY <1>1, <1>2, <1>3, <1>4, <1>5, <1>6, <1>7, <1>8, <1>9, <1>10, <1>11, <1>12, <1>13, <1>14, <1>15, <1>16
  DEF Next, Answered, Handler

-----------------------------------------------------------------------------
(* What an output and the cards have in common with what they were. *)

Numbers == /\ poll.blocks \in Seq(Block) /\ output.blocks \in Seq(Block) /\ output.next \in Nat
           /\ Len(poll.blocks) \in Nat /\ Len(output.blocks) \in Nat
           /\ DOMAIN poll.blocks = 1..Len(poll.blocks) /\ DOMAIN output.blocks = 1..Len(output.blocks)
           /\ First(poll.blocks) \in Nat /\ First(output.blocks) \in Nat

LEMMA FirstNat ==
  ASSUME NEW blocks \in Seq(Block)
  PROVE  First(blocks) \in Nat /\ Len(blocks) \in Nat /\ DOMAIN blocks = 1..Len(blocks)
<1>1. CASE blocks # <<>>
  <2>1. blocks[1] \in Block
    BY <1>1
  <2> QED BY <1>1, <2>1 DEF First, Block
<1>2. CASE blocks = <<>>
  BY <1>2 DEF First
<1> QED BY <1>1, <1>2

LEMMA NumbersOK ==
  ASSUME TypeOK
  PROVE  Numbers
<1>1. poll.blocks \in Seq(Block) /\ output.blocks \in Seq(Block) /\ output.next \in Nat
  BY DEF TypeOK, Polls, Outputs
<1> QED BY <1>1, FirstNat DEF Numbers

LEMMA LarkCards ==
  ASSUME TypeOK
  PROVE  /\ Len(lark) \in Nat /\ DOMAIN lark = 1..Len(lark)
         /\ \A i \in DOMAIN lark : lark[i].seq \in Nat /\ lark[i].sent \in BOOLEAN
<1>1. lark \in Seq(LarkCard)
  BY DEF TypeOK
<1>2. Len(lark) \in Nat /\ DOMAIN lark = 1..Len(lark) /\ \A i \in DOMAIN lark : lark[i] \in LarkCard
  BY <1>1
<1> QED BY <1>2 DEF LarkCard

\* An output goes on from itself, and from what the one before it went on from.
LEMMA ContinuesItself ==
  ASSUME NEW blocks \in Seq(Block)
  PROVE  Continues(blocks, blocks)
  BY FirstNat DEF Continues

LEMMA ContinuesOn ==
  ASSUME NEW blocks \in Seq(Block), NEW out \in Seq(Block), NEW out2 \in Seq(Block),
         Continues(blocks, out), Continues(out, out2)
  PROVE  Continues(blocks, out2)
<1>1. /\ First(blocks) \in Nat /\ First(out) \in Nat /\ First(out2) \in Nat
      /\ Len(blocks) \in Nat /\ DOMAIN blocks = 1..Len(blocks)
      /\ Len(out) \in Nat /\ DOMAIN out = 1..Len(out)
  BY FirstNat
<1>2. First(blocks) <= First(out) /\ First(out) <= First(out2)
  BY DEF Continues
<1>3. ASSUME First(blocks) = First(out2), NEW i \in DOMAIN blocks
      PROVE  i \in DOMAIN out2 /\ (i < Len(blocks) => out2[i] = blocks[i])
  <2>1. First(blocks) = First(out) /\ First(out) = First(out2)
    BY <1>1, <1>2, <1>3
  <2>2. i \in DOMAIN out /\ Len(blocks) \in DOMAIN out /\ (i < Len(blocks) => out[i] = blocks[i])
    BY <1>1, <1>3, <2>1 DEF Continues
  <2>3. i \in DOMAIN out2 /\ (i < Len(out) => out2[i] = out[i])
    BY <2>1, <2>2 DEF Continues
  <2>4. i < Len(blocks) => i < Len(out)
    BY <1>1, <2>2
  <2> QED BY <2>2, <2>3, <2>4
<1> QED BY <1>1, <1>2, <1>3 DEF Continues

LEMMA CoveredOn ==
  ASSUME NEW blocks \in Seq(Block), NEW out \in Seq(Block), NEW n \in Nat,
         Continues(blocks, out), First(blocks) = First(out), Covered(blocks, n)
  PROVE  Covered(out, n)
<1>1. Len(blocks) \in Nat /\ DOMAIN blocks = 1..Len(blocks) /\ Len(out) \in Nat /\ DOMAIN out = 1..Len(out)
  BY FirstNat
<1> SUFFICES ASSUME NEW i \in 1..n
             PROVE  i < Len(out) /\ out[i] \in Done
  BY DEF Covered
<1>2. i < Len(blocks) /\ blocks[i] \in Done
  BY DEF Covered
<1>3. i \in DOMAIN blocks /\ Len(blocks) \in DOMAIN blocks
  BY <1>1, <1>2
<1>4. out[i] = blocks[i] /\ Len(blocks) \in DOMAIN out
  BY <1>2, <1>3 DEF Continues
<1> QED BY <1>1, <1>2, <1>4

\* Cards that are done with stay as they are, so what they show is shown for good.
LEMMA DoneStays ==
  ASSUME missed \subseteq missed',
         \A i \in DOMAIN tracker.cards \ {Active} :
            /\ i \in DOMAIN tracker'.cards \ {Active'}
            /\ lark'[tracker'.cards[i].id].blocks = lark[tracker.cards[i].id].blocks
  PROVE  Done \subseteq Done'
<1> SUFFICES ASSUME NEW b \in Done, b \notin missed
             PROVE  b \in Done'
  BY DEF Done
<1>1. PICK i \in DOMAIN tracker.cards \ {Active} : b \in ToSet(lark[tracker.cards[i].id].blocks)
  BY DEF Done
<1>2. b \in ToSet(lark'[tracker'.cards[i].id].blocks)
  BY <1>1
<1> QED BY <1>1, <1>2 DEF Done

\* The cards that are done with, when only the open card is touched.
LEMMA DoneIfOthers ==
  ASSUME TypeOK, SeqInv, NEW id \in DOMAIN lark,
         id \notin Mine \/ (Active # 0 /\ id = tracker.cards[Active].id),
         missed \subseteq missed', DOMAIN tracker.cards \ {Active} \subseteq DOMAIN tracker'.cards \ {Active'},
         \A i \in DOMAIN tracker.cards : tracker'.cards[i].id = tracker.cards[i].id,
         \A i \in DOMAIN lark \ {id} : lark'[i].blocks = lark[i].blocks
  PROVE  Done \subseteq Done'
<1> SUFFICES ASSUME NEW i \in DOMAIN tracker.cards \ {Active}
             PROVE  lark'[tracker'.cards[i].id].blocks = lark[tracker.cards[i].id].blocks
  BY DoneStays
<1>1. tracker.cards[i].id \in Mine /\ tracker.cards[i].id \in DOMAIN lark
  BY DEF Mine, SeqInv
<1>2. Active # 0 => Active \in DOMAIN tracker.cards
  BY ActiveCard
<1>3. tracker.cards[i].id # id
  BY <1>1, <1>2 DEF SeqInv
<1> QED BY <1>1, <1>3

\* ... and when no card that Lark has is touched but for having been sent
LEMMA DoneIfKept ==
  ASSUME TypeOK, SeqInv, missed \subseteq missed',
         DOMAIN tracker.cards \ {Active} \subseteq DOMAIN tracker'.cards \ {Active'},
         \A i \in DOMAIN tracker.cards \ {Active} : tracker'.cards[i].id = tracker.cards[i].id,
         \A i \in DOMAIN lark : lark'[i].blocks = lark[i].blocks
  PROVE  Done \subseteq Done'
<1>1. \A i \in DOMAIN tracker.cards : tracker.cards[i].id \in DOMAIN lark
  BY DEF Mine, SeqInv
<1> QED BY <1>1, DoneStays

-----------------------------------------------------------------------------
(* The rest of the invariant, action by action. *)

LEMMA SessionKeeps ==
  ASSUME IInv, Session
  PROVE  SeqInv' /\ LiveInv' /\ ShownInv'
<1> USE DEF IInv
<1>1. UNCHANGED <<missed, past, tracker, poll, hand, detached, lark, strays, kept, refused>>
  BY SessionDoes
<1>2. TypeOK'
  BY SessionDoes
<1>3. \/ First(output'.blocks) = output.next /\ output'.next = output.next + 1
      \/ /\ First(output'.blocks) = First(output.blocks) /\ output'.next >= output.next
         /\ \A i \in DOMAIN output.blocks :
               i \in DOMAIN output'.blocks
               /\ (i < Len(output.blocks) => output'.blocks[i] = output.blocks[i])
  BY SessionDoes DEF First
<1>4. SeqInv'
  <2>1. Mine' = Mine /\ Active' = Active
    BY <1>1, SameCards
  <2> QED BY <1>1, <2>1 DEF SeqInv, Puts, Sending
<1>5. LiveInv'
  BY <1>1 DEF LiveInv, InHand, Open, Coming, Active
<1>6. Numbers /\ output'.blocks \in Seq(Block) /\ First(output'.blocks) \in Nat /\ output'.next \in Nat
      /\ past \in Nat /\ past <= First(output.blocks) /\ First(output.blocks) < output.next
  BY <1>2, NumbersOK, FirstNat DEF TypeOK, Outputs, ShownInv, Numbers
<1>7. Continues(output.blocks, output'.blocks) /\ First(output'.blocks) < output'.next
  BY <1>3, <1>6 DEF Continues, Numbers
<1>8. Done' = Done /\ Active' = Active /\ From(tracker.cards[Active].start)' = From(tracker.cards[Active].start)
      /\ From(poll.start)' = From(poll.start)
  BY <1>1 DEF Done, Active, From
<1>9. Reading => Continues(poll.blocks, output'.blocks)
  BY <1>6, <1>7, ContinuesOn DEF ShownInv, Numbers
<1>10. ASSUME Active # 0, past = First(output'.blocks)
       PROVE  Covered(output'.blocks, tracker.cards[Active].start)
  <2>1. past \in Nat /\ First(output.blocks) = First(output'.blocks)
    BY <1>3, <1>6, <1>10 DEF Numbers
  <2>2. Covered(output.blocks, tracker.cards[Active].start) /\ tracker.cards[Active].start \in Nat
    BY <1>10, <2>1, ActiveCard DEF ShownInv, Card
  <2> QED BY <1>6, <1>7, <2>1, <2>2, CoveredOn DEF Numbers
<1>11. past <= First(output'.blocks)
  BY <1>3, <1>6 DEF Numbers
<1>12. ShownInv'
  BY <1>1, <1>7, <1>8, <1>9, <1>10, <1>11 DEF ShownInv, Reading, Covered
<1> QED BY <1>4, <1>5, <1>12

\* A poll that has no open card asks for one.
LEMMA PollKeepsNone ==
  ASSUME IInv, Poll, Active = 0
  PROVE  SeqInv' /\ LiveInv' /\ ShownInv'
<1> USE DEF IInv
<1>1. /\ TypeOK' /\ UNCHANGED <<output, hand, detached, lark, strays, kept, refused, missed>>
      /\ tracker'.cards = tracker.cards
      /\ poll'.at = "create" /\ poll'.why = "new" /\ poll'.blocks = output.blocks
      /\ poll'.start = 0 \/ poll'.start < Len(output.blocks)
      /\ past' = First(output.blocks)
  BY PollCreates
<1>2. Active' = 0 /\ Mine' = Mine
  BY <1>1, SameCards
<1>3. SeqInv'
  BY <1>1, <1>2 DEF SeqInv, Puts, Sending
<1>4. LiveInv'
  BY <1>1, <1>2 DEF LiveInv, InHand, Open, Coming, Poll
<1>5. Continues(output.blocks, output.blocks)
  BY NumbersOK, ContinuesItself DEF Numbers
<1>6. ShownInv'
  BY <1>1, <1>2, <1>5, NumbersOK DEF ShownInv, Numbers
<1> QED BY <1>3, <1>4, <1>6

\* A poll that has an open card finds nothing to do, or gives its card the next number.
LEMMA PollKeepsOpen ==
  ASSUME IInv, Poll, Active # 0
  PROVE  SeqInv' /\ LiveInv' /\ ShownInv'
<1> USE DEF IInv
<1> DEFINE a == Active
           old == tracker.cards[a]
           new == tracker'.cards[a]
           n == Len(output.blocks)
<1>1. /\ TypeOK' /\ UNCHANGED <<output, hand, detached, lark, strays, kept, refused>>
      /\ DOMAIN tracker'.cards = DOMAIN tracker.cards /\ Active' = a
      /\ \A i \in DOMAIN tracker.cards : tracker'.cards[i].id = tracker.cards[i].id
      /\ new.start = IF n < old.start THEN 0 ELSE old.start
      /\ past' = IF new.start = n THEN past ELSE First(output.blocks)
      /\ missed' = IF First(output.blocks) = past THEN missed
                   ELSE missed \cup {output.blocks[i] : i \in 1..new.start}
      /\ \/ poll'.at \in {"wait", "notify"} /\ new.seq = old.seq /\ tracker'.hash \in {tracker.hash, <<>>}
         \/ poll'.at = "update" /\ poll'.blocks = output.blocks /\ new.seq = old.seq + 1
         \/ /\ poll'.at = "freeze" /\ poll'.why = "split" /\ poll'.blocks = output.blocks
            /\ new.seq = old.seq + 1
            /\ new.start < n /\ poll'.start \in new.start..n
  BY PollLooks
<1>2. a \in DOMAIN tracker.cards /\ old \in Card /\ old.id \in DOMAIN lark /\ lark[old.id].seq \in Nat
      /\ poll.at = "wait"
  BY OpenCard, LarkCards DEF Poll
<1>3. Mine' = Mine /\ new.id = old.id /\ old.seq \in Nat /\ old.start \in Nat
  BY <1>1, <1>2, SameIds DEF Card
<1>4. SeqInv'
  <2>1. lark[old.id].seq <= new.seq /\ (poll'.at \in {"update", "freeze"} => lark[old.id].seq < new.seq)
    BY <1>1, <1>2, <1>3 DEF SeqInv
  <2>2. ~Sending'
    BY <1>1 DEF Sending
  <2> QED BY <1>1, <1>3, <2>1, <2>2 DEF SeqInv, Puts
<1>5. LiveInv'
  BY <1>1, <1>2, <1>3 DEF LiveInv, InHand, Open, Coming
<1>6. Done \subseteq Done'
  BY <1>1, DoneIfKept
<1>7. Numbers /\ past \in Nat /\ past <= First(output.blocks)
  BY NumbersOK DEF ShownInv, Numbers
<1>8. ASSUME past' = First(output.blocks)
      PROVE  \A i \in 1..new.start : i < n /\ output.blocks[i] \in Done'
  <2>1. CASE First(output.blocks) = past
    <3>1. \A i \in 1..old.start : i < n /\ output.blocks[i] \in Done
      BY <2>1 DEF ShownInv, Covered
    <3> QED BY <1>1, <1>3, <1>6, <3>1
  <2>2. CASE First(output.blocks) # past
    <3>1. new.start # n /\ new.start <= n /\ new.start \in Nat
      BY <1>1, <1>3, <1>7, <1>8, <2>2 DEF Numbers
    <3>2. \A i \in 1..new.start : output.blocks[i] \in Done'
      BY <1>1, <2>2 DEF Done
    <3> QED BY <1>7, <3>1, <3>2 DEF Numbers
  <2> QED BY <2>1, <2>2
<1>10. past' \in Nat /\ past' <= First(output.blocks) /\ Continues(output.blocks, output.blocks)
  BY <1>1, <1>7, ContinuesItself DEF Numbers
<1>11. missed \subseteq missed'
  BY <1>1
<1>12. ShownInv'
  <2>1. past' \in 0..First(output'.blocks) /\ First(output'.blocks) < output'.next
    BY <1>1, <1>7, <1>10 DEF ShownInv, Numbers
  <2>2. Reading' => past' <= First(poll'.blocks) /\ Continues(poll'.blocks, output'.blocks)
    BY <1>1, <1>10 DEF Reading
  <2>3. past' = First(output'.blocks) =>
          \A i \in 1..new.start : i < Len(output'.blocks) /\ output'.blocks[i] \in Done'
    BY <1>1, <1>8
  <2>4. poll'.at \in {"wait", "notify"} /\ tracker'.hash # <<>> =>
                ToSet(tracker'.hash.blocks) \subseteq ToSet(lark'[new.id].blocks) \cup missed'
    BY <1>1, <1>2, <1>3, <1>11 DEF ShownInv
  <2>5. poll'.at = "freeze" =>
                /\ \A i \in 1..new.start : i < Len(poll'.blocks) /\ poll'.blocks[i] \in Done'
                /\ poll'.start \in new.start..Len(poll'.blocks)
    <3>1. CASE poll'.at = "freeze"
      <4>1. poll'.blocks = output.blocks /\ new.start < n /\ poll'.start \in new.start..n
        BY <1>1, <3>1
      <4>2. past' = First(output.blocks)
        BY <1>1, <1>3, <1>7, <4>1 DEF Numbers
      <4>3. \A i \in 1..new.start : i < n /\ output.blocks[i] \in Done'
        BY <1>8, <4>2
      <4> QED BY <4>1, <4>3
    <3> QED BY <3>1
  <2>6. poll'.at \notin {"resend", "create", "send"}
    BY <1>1
  <2> QED BY <1>1, <2>1, <2>2, <2>3, <2>4, <2>5, <2>6 DEF ShownInv, Covered
<1> QED BY <1>4, <1>5, <1>12

\* A card that is created holds the output from its start on; what comes before is done with.
LEMMA CreateKeeps ==
  ASSUME IInv, CreateAnswered
  PROVE  SeqInv' /\ LiveInv' /\ ShownInv'
<1> USE DEF IInv
<1>1. poll.at = "create" /\ Active = 0 /\ poll.start <= Len(poll.blocks)
  BY Starts DEF CreateAnswered, PlaceInv
<1>2. TypeOK' /\ UNCHANGED <<output, hand, detached, strays, past, tracker, kept, refused>>
  BY <1>1, CreateDoes
<1>3. PICK content \in Shows, start \in Nat :
        /\ content.blocks = From(start)
        /\ \/ /\ lark' \in {lark, Created(content)}
              /\ poll'.at \in {"wait", "notify"} /\ missed' = missed
           \/ /\ lark' = Created(content) /\ poll'.at = "send" /\ poll'.id = Len(lark) + 1
              /\ poll'.blocks = poll.blocks /\ poll'.start = start
              /\ poll.start <= start /\ (start = poll.start \/ start < Len(poll.blocks))
              /\ missed \subseteq missed'
              /\ {poll.blocks[i] : i \in (poll.start + 1)..start} \subseteq missed'
              /\ poll.why # "split" => Unshown(poll.start) \subseteq missed'
  BY <1>1, CreateDoes
<1> DEFINE id == Len(lark) + 1
<1>4. /\ DOMAIN Created(content) = DOMAIN lark \cup {id} /\ id \notin DOMAIN lark
      /\ \A i \in DOMAIN lark : Created(content)[i] = lark[i]
      /\ Created(content)[id].seq = 0 /\ Created(content)[id].blocks = content.blocks
      /\ Created(content)[id].sent = FALSE
  <2> DEFINE made == Created(content)
             card == [form |-> "live", blocks |-> content.blocks, busy |-> content.busy, seq |-> 0,
                      sent |-> FALSE]
  <2>1. /\ DOMAIN made = DOMAIN lark \cup {id} /\ id \notin DOMAIN lark
        /\ (\A i \in DOMAIN lark : made[i] = lark[i]) /\ made[id] = card
    BY CreatedCard
  <2>2. card.seq = 0 /\ card.blocks = content.blocks /\ card.sent = FALSE
    OBVIOUS
  <2> HIDE DEF made, card, id
  <2>3. made[id].seq = 0 /\ made[id].blocks = content.blocks /\ made[id].sent = FALSE
    BY <2>1, <2>2
  <2> QED BY <2>1, <2>3 DEF made
<1>5. DOMAIN lark \subseteq DOMAIN lark' /\ (\A i \in DOMAIN lark : lark'[i] = lark[i])
      /\ \A i \in DOMAIN lark' \ DOMAIN lark : lark'[i].sent = FALSE
  BY <1>3, <1>4
<1>6. Active' = 0 /\ Mine' = Mine
  BY <1>1, <1>2, SameCards
<1>7. poll'.at \in {"wait", "notify", "send"}
  BY <1>3
<1>8. poll'.at = "send" => poll'.id = id /\ id \in DOMAIN lark' /\ lark'[id].seq = 0
                           /\ lark'[id].blocks = From(start)
  BY <1>3, <1>4
<1> HIDE DEF id
<1>9. SeqInv'
  <2>1. Mine \subseteq DOMAIN lark' /\ (\A c \in strays : c.id \in DOMAIN lark')
    BY <1>5 DEF SeqInv
  <2>2. Sending' => /\ poll'.id \in DOMAIN lark' \ Mine'
                    /\ Puts(id) = {} /\ poll'.id = id /\ lark'[id].seq = 0
    BY <1>4, <1>6, <1>7, <1>8 DEF Sending, SeqInv, Puts
  <2>3. hand.at = "none" /\ detached.at = "none"
    BY <1>1, Running
  <2> QED BY <1>2, <1>6, <1>7, <2>1, <2>2, <2>3 DEF SeqInv, Puts
<1>10. LiveInv'
  <2>1. \A c \in strays : c.id \in DOMAIN lark
    BY DEF SeqInv
  <2> QED BY <1>1, <1>2, <1>5, <1>6, <1>7, <2>1 DEF LiveInv, InHand, Open, Coming
<1>11. Done \subseteq Done'
  BY <1>2, <1>3, <1>5, <1>6, <1>1, DoneIfKept
<1>12. ASSUME poll'.at = "send", NEW i \in 1..start
       PROVE  i < Len(poll.blocks) /\ poll.blocks[i] \in Done'
  <2>1. /\ poll.start <= start /\ (start = poll.start \/ start < Len(poll.blocks))
        /\ {poll.blocks[j] : j \in (poll.start + 1)..start} \subseteq missed'
        /\ poll.why # "split" => Unshown(poll.start) \subseteq missed'
    BY <1>3, <1>12
  <2>2. Numbers /\ poll.start \in Nat /\ (poll.start = 0 \/ poll.start < Len(poll.blocks))
    BY <1>1, NumbersOK DEF TypeOK, Polls, ShownInv
  <2>3. i < Len(poll.blocks)
    BY <2>1, <2>2 DEF Numbers
  <2>4. CASE i > poll.start
    <3>1. i \in (poll.start + 1)..start
      BY <2>2, <2>4
    <3> QED BY <2>1, <2>3, <3>1 DEF Done
  <2>5. CASE i <= poll.start /\ poll.why = "split"
    BY <1>1, <1>11, <2>2, <2>3, <2>5 DEF ShownInv, Covered
  <2>6. CASE i <= poll.start /\ poll.why # "split"
    <3>1. poll.blocks[i] \in missed' \/ poll.blocks[i] \in ShownBlocks
      BY <2>1, <2>2, <2>6 DEF Unshown
    <3>2. ShownBlocks \subseteq Done
      <4>1. DOMAIN tracker.cards = 1..Len(tracker.cards)
        BY DEF TypeOK, Trackers
      <4> QED BY <1>1, <4>1 DEF ShownBlocks, Done
    <3> QED BY <1>11, <2>3, <3>1, <3>2 DEF Done
  <2> QED BY <2>2, <2>4, <2>5, <2>6
<1>13. poll'.at = "send" => poll'.blocks = poll.blocks /\ poll'.start = start /\ From(start)' = From(start)
  BY <1>3, <1>7 DEF From
<1>14. ShownInv'
  <2>1. past \in 0..First(output.blocks) /\ First(output.blocks) < output.next
        /\ past <= First(poll.blocks) /\ Continues(poll.blocks, output.blocks)
    BY <1>1 DEF ShownInv, Reading
  <2>2. poll'.at = "send" => ToSet(From(start)') \subseteq ToSet(lark'[poll'.id].blocks)
    BY <1>8, <1>13
  <2> QED BY <1>2, <1>6, <1>7, <1>12, <1>13, <2>1, <2>2 DEF ShownInv, Covered, Reading
<1> QED BY <1>9, <1>10, <1>14

\* A card that has been sent becomes the open one.
LEMMA SendKeeps ==
  ASSUME IInv, SendAnswered
  PROVE  SeqInv' /\ LiveInv' /\ ShownInv'
<1> USE DEF IInv
<1> DEFINE id == poll.id
           a == Active'
<1>1. poll.at = "send" /\ Active = 0 /\ id \in DOMAIN lark /\ id \notin Mine /\ Puts(id) = {} /\ lark[id].seq = 0
  BY DEF SendAnswered, PlaceInv, SeqInv, Sending
<1>2. /\ TypeOK' /\ UNCHANGED <<output, hand, detached, strays, past, kept, missed, refused>>
      /\ poll'.at \in {"wait", "notify"}
      /\ lark' \in {lark, [lark EXCEPT ![id].sent = TRUE]}
      /\ DOMAIN tracker'.cards = DOMAIN tracker.cards \cup {a} /\ a \notin DOMAIN tracker.cards
      /\ a # 0
      /\ \A i \in DOMAIN tracker.cards : tracker'.cards[i] = tracker.cards[i]
      /\ tracker'.cards[a] = [id |-> id, seq |-> 0, start |-> poll.start, frozen |-> FALSE]
      /\ tracker'.hash.blocks = From(poll.start)
  BY <1>1, SendDoes
<1>3. /\ DOMAIN lark' = DOMAIN lark /\ \A i \in DOMAIN lark \ {id} : lark'[i] = lark[i]
      /\ \A i \in DOMAIN lark : lark'[i].blocks = lark[i].blocks /\ lark'[i].seq = lark[i].seq
  <2> DEFINE sent == [lark EXCEPT ![id].sent = TRUE]
  <2>1. /\ DOMAIN sent = DOMAIN lark /\ \A i \in DOMAIN lark \ {id} : sent[i] = lark[i]
        /\ \A i \in DOMAIN lark : sent[i].blocks = lark[i].blocks /\ sent[i].seq = lark[i].seq
    BY <1>1, SentCard
  <2>2. lark' = lark \/ lark' = sent
    BY <1>2
  <2> HIDE DEF sent
  <2> QED BY <2>1, <2>2
<1>4. Mine' = Mine \cup {id}
  BY <1>2 DEF Mine
<1>5. tracker'.cards[a].id = id /\ tracker'.cards[a].seq = 0 /\ tracker'.cards[a].start = poll.start
  BY <1>2
<1>6. hand.at = "none" /\ detached.at = "none"
  BY <1>1, Running
<1>7. \A i \in DOMAIN tracker.cards : tracker.cards[i].id # id
  BY <1>1 DEF Mine
<1> HIDE DEF id, a
<1>8. SeqInv'
  <2>1. \A i, j \in DOMAIN tracker'.cards : tracker'.cards[i].id = tracker'.cards[j].id => i = j
    <3> SUFFICES ASSUME NEW i \in DOMAIN tracker'.cards, NEW j \in DOMAIN tracker'.cards,
                        tracker'.cards[i].id = tracker'.cards[j].id
                 PROVE  i = j
      OBVIOUS
    <3> QED BY <1>2, <1>5, <1>7 DEF SeqInv
  <2>2. Mine' \subseteq DOMAIN lark' /\ (\A i \in Mine' : Puts(i) = {})
    BY <1>1, <1>3, <1>4 DEF SeqInv
  <2>3. lark'[tracker'.cards[a].id].seq <= tracker'.cards[a].seq
    BY <1>1, <1>3, <1>5
  <2>4. ~Sending' /\ poll'.at \notin {"update", "freeze"}
    BY <1>2 DEF Sending
  <2>5. (\A c \in strays : c.id \in DOMAIN lark') /\ refused' = {}
    BY <1>2, <1>3 DEF SeqInv
  <2>6. Active' = a
    BY DEF a
  <2> QED BY <1>2, <1>6, <2>1, <2>2, <2>3, <2>4, <2>5, <2>6 DEF SeqInv, Puts
<1>9. LiveInv'
  <2>1. Open' = {id} /\ Coming' = {} /\ InHand' = InHand /\ Open = {} /\ Coming = {}
    BY <1>1, <1>2, <1>5 DEF Open, Coming, InHand, a
  <2>2. \A c \in strays : c.id \in DOMAIN lark
    BY DEF SeqInv
  <2> QED BY <1>2, <1>3, <2>1, <2>2 DEF LiveInv
<1>10. Done \subseteq Done'
  <2>1. DOMAIN tracker.cards \ {Active} \subseteq DOMAIN tracker'.cards \ {Active'}
    BY <1>2 DEF a
  <2> QED BY <1>2, <1>3, <2>1, DoneIfKept
<1>11. ShownInv'
  <2>1. past \in 0..First(output.blocks) /\ First(output.blocks) < output.next
        /\ past <= First(poll.blocks) /\ Continues(poll.blocks, output.blocks)
        /\ Covered(poll.blocks, poll.start) /\ ToSet(From(poll.start)) \subseteq ToSet(lark[id].blocks)
    BY <1>1 DEF ShownInv, Reading, id
  <2>2. ASSUME past = First(output.blocks)
        PROVE  \A i \in 1..poll.start : i < Len(output.blocks) /\ output.blocks[i] \in Done'
    <3>1. Numbers /\ poll.start \in Nat
      BY NumbersOK DEF TypeOK, Polls
    <3>2. First(poll.blocks) = First(output.blocks)
      BY <2>1, <2>2, <3>1 DEF Numbers, Continues
    <3>3. Covered(output.blocks, poll.start)
      BY <2>1, <3>1, <3>2, CoveredOn DEF Numbers
    <3> QED BY <1>10, <3>3 DEF Covered
  <2>3. ToSet(tracker'.hash.blocks) \subseteq ToSet(lark'[id].blocks)
    BY <1>1, <1>2, <1>3, <2>1
  <2>4. tracker'.cards[Active'].id = id /\ tracker'.cards[Active'].start = poll.start
    BY <1>5 DEF a
  <2> QED BY <1>2, <2>1, <2>2, <2>3, <2>4 DEF ShownInv, Covered, Reading
<1> QED BY <1>8, <1>9, <1>11

\* What a number above all others that Lark has seen of a card brings about.
LEMMA PutTaken ==
  ASSUME TypeOK, NEW id \in DOMAIN lark, NEW seq \in Nat,
         NEW form \in {"live", "frozen", "off"}, NEW content \in Shows, lark[id].seq < seq
  PROVE  LET put == Put(id, seq, form, content)
         IN  /\ Takes(id, seq) /\ DOMAIN put = DOMAIN lark
             /\ \A i \in DOMAIN lark \ {id} : put[i] = lark[i]
             /\ put[id].seq = seq /\ put[id].form = form /\ put[id].blocks = content.blocks
             /\ \A i \in DOMAIN lark : lark[i].seq <= put[i].seq
<1> DEFINE put == Put(id, seq, form, content)
<1>1. Takes(id, seq)
  BY LarkCards DEF Takes
<1>2. /\ DOMAIN put = DOMAIN lark
      /\ \A i \in DOMAIN lark \ {id} : put[i] = lark[i]
      /\ put[id].seq = seq /\ put[id].form = form /\ put[id].blocks = content.blocks
  BY <1>1, PutCard
<1> HIDE DEF put
<1>3. \A i \in DOMAIN lark : lark[i].seq <= put[i].seq
  <2> SUFFICES ASSUME NEW i \in DOMAIN lark
               PROVE  lark[i].seq <= put[i].seq
    OBVIOUS
  <2>1. lark[i].seq \in Nat
    BY LarkCards
  <2> QED BY <1>2, <2>1
<1> QED BY <1>1, <1>2, <1>3 DEF put

\* Calls on their way that come too late, or are known of, stay so while numbers go up.
LEMMA StraysLate ==
  ASSUME TypeOK, SeqInv, LiveInv, TypeOK', strays' \subseteq strays, kept \subseteq kept',
         InHand \subseteq kept' \cup InHand',
         \A i \in DOMAIN lark : i \in DOMAIN lark' /\ lark[i].seq <= lark'[i].seq
  PROVE  \A c \in strays' :
            /\ c.call = "send" => c.id \in kept'
            /\ c.call = "put" /\ c.form = "live" => c.id \in kept' \cup InHand' \/ c.seq <= lark'[c.id].seq
<1> SUFFICES ASSUME NEW c \in strays
             PROVE  /\ c.call = "send" => c.id \in kept'
                    /\ c.call = "put" /\ c.form = "live" =>
                         c.id \in kept' \cup InHand' \/ c.seq <= lark'[c.id].seq
  OBVIOUS
<1>1. c.id \in DOMAIN lark /\ c.id \in DOMAIN lark' /\ c \in Strays
  BY DEF SeqInv, TypeOK
<1>2. lark[c.id] \in LarkCard /\ lark'[c.id] \in LarkCard
  BY <1>1 DEF TypeOK
<1>3. lark[c.id].seq \in Nat /\ lark'[c.id].seq \in Nat /\ c.seq \in Nat
  BY <1>1, <1>2 DEF LarkCard, Strays
<1>4. c.call = "send" => c.id \in kept
  BY DEF LiveInv
<1>5. c.call = "put" /\ c.form = "live" => c.id \in kept \cup InHand \/ c.seq <= lark[c.id].seq
  BY DEF LiveInv
<1>6. lark[c.id].seq <= lark'[c.id].seq
  BY <1>1
<1> QED BY <1>3, <1>4, <1>5, <1>6

\* A frozen card holds its part of the output, or what it would hold is left out.
LEMMA FreezeKeeps ==
  ASSUME IInv, FreezeAnswered
  PROVE  SeqInv' /\ LiveInv' /\ ShownInv'
<1> USE DEF IInv
<1> DEFINE card == tracker.cards[Active]
           held == SubSeq(poll.blocks, card.start + 1,
                          IF poll.why = "elements" THEN Len(poll.blocks) ELSE poll.start)
<1>1. poll.at = "freeze" /\ Active # 0
  BY DEF FreezeAnswered, PlaceInv
<1>2. /\ card.id \in Mine /\ card.id \in DOMAIN lark /\ Active \in DOMAIN tracker.cards
      /\ card.seq \in Nat /\ card.start \in Nat /\ lark[card.id].seq < card.seq
      /\ poll.why # "elements" => poll.start <= Len(poll.blocks)
  BY <1>1, OpenCard, Starts DEF Card, SeqInv
<1>3. /\ TypeOK' /\ UNCHANGED <<output, hand, detached, strays, past>>
      /\ DOMAIN tracker'.cards = DOMAIN tracker.cards
      /\ \A i \in DOMAIN tracker.cards : tracker'.cards[i].id = tracker.cards[i].id
      /\ Active' = 0
      /\ \/ poll'.at \in {"wait", "notify"}
         \/ /\ poll'.at = "create" /\ From(poll.start) # <<>> /\ poll'.blocks = poll.blocks
            /\ poll'.start = poll.start /\ poll'.why = poll.why
  BY <1>1, <1>2, FreezeDoes
<1>4. PICK content \in Shows :
        /\ content.blocks = held
        /\ \/ /\ lark' = Put(card.id, card.seq, "frozen", content) /\ kept' = kept /\ missed' = missed
              /\ refused' = IF Takes(card.id, card.seq) THEN refused ELSE refused \cup {card.id}
           \/ /\ lark' = lark /\ kept' = kept \cup {card.id} /\ missed' = missed \cup ToSet(held)
              /\ refused' = refused
  BY <1>1, <1>2, FreezeDoes
<1> HIDE DEF card, held
<1>5. /\ Takes(card.id, card.seq) /\ DOMAIN lark' = DOMAIN lark
      /\ \A i \in DOMAIN lark \ {card.id} : lark'[i] = lark[i]
      /\ \A i \in DOMAIN lark : lark[i].seq \in Nat /\ lark[i].seq <= lark'[i].seq
      /\ \/ lark'[card.id].form = "frozen" /\ lark'[card.id].blocks = held /\ kept' = kept /\ missed' = missed
         \/ lark' = lark /\ kept' = kept \cup {card.id} /\ missed' = missed \cup ToSet(held)
  <2> DEFINE put == Put(card.id, card.seq, "frozen", content)
  <2>1. /\ Takes(card.id, card.seq) /\ DOMAIN put = DOMAIN lark
        /\ \A i \in DOMAIN lark \ {card.id} : put[i] = lark[i]
        /\ put[card.id].form = "frozen" /\ put[card.id].blocks = content.blocks
        /\ \A i \in DOMAIN lark : lark[i].seq <= put[i].seq
    BY <1>2, PutTaken
  <2>2. \A i \in DOMAIN lark : lark[i].seq \in Nat
    BY LarkCards
  <2> HIDE DEF put
  <2>3. CASE lark' = put
    BY <1>4, <2>1, <2>2, <2>3 DEF put
  <2>4. CASE lark' = lark /\ kept' = kept \cup {card.id} /\ missed' = missed \cup ToSet(held)
    BY <2>1, <2>2, <2>4
  <2> QED BY <1>4, <2>3, <2>4 DEF put
<1>6. refused' = {}
  BY <1>4, <1>5 DEF SeqInv
<1>7. Mine' = Mine /\ hand.at = "none" /\ detached.at = "none" /\ ~Sending'
      /\ poll'.at \in {"wait", "notify", "create"}
  BY <1>1, <1>3, SameIds, Running DEF Sending
<1>8. SeqInv'
  <2>1. \A i, j \in DOMAIN tracker'.cards : tracker'.cards[i].id = tracker'.cards[j].id => i = j
    BY <1>3 DEF SeqInv
  <2> QED BY <1>3, <1>5, <1>6, <1>7, <2>1 DEF SeqInv, Puts
<1>9. LiveInv'
  <2>1. Open' = {} /\ Coming' = {} /\ InHand' = InHand /\ Open = {card.id} /\ Coming = {}
    BY <1>1, <1>3, <1>7 DEF Open, Coming, InHand, card
  <2>2. kept \subseteq kept'
    BY <1>4
  <2>3. \A i \in DOMAIN lark' : lark'[i].sent /\ lark'[i].form = "live" =>
            i \in kept' \cup InHand' \cup Open' \cup Coming'
    BY <1>5, <2>1, <2>2 DEF LiveInv
  <2>4. \A c \in strays' :
            /\ c.call = "send" => c.id \in kept'
            /\ c.call = "put" /\ c.form = "live" => c.id \in kept' \cup InHand' \/ c.seq <= lark'[c.id].seq
    BY <1>3, <1>5, <2>1, <2>2, StraysLate
  <2> QED BY <2>3, <2>4 DEF LiveInv
<1>10. Done \subseteq Done'
  <2>1. \A i \in DOMAIN lark \ {card.id} : lark'[i].blocks = lark[i].blocks
    BY <1>5
  <2>2. DOMAIN tracker.cards \ {Active} \subseteq DOMAIN tracker'.cards \ {Active'}
    BY <1>3, ActiveCard
  <2>3. missed \subseteq missed'
    BY <1>5
  <2> QED BY <1>1, <1>2, <1>3, <2>1, <2>2, <2>3, DoneIfOthers DEF card
<1>11. ToSet(held) \subseteq Done'
  <2>1. CASE lark'[card.id].blocks = held
    <3>1. Active \in DOMAIN tracker'.cards \ {Active'} /\ tracker'.cards[Active].id = card.id
      BY <1>1, <1>2, <1>3 DEF card
    <3>2. ToSet(lark'[tracker'.cards[Active].id].blocks) = ToSet(held)
      BY <2>1, <3>1
    <3> QED BY <3>1, <3>2 DEF Done
  <2>2. CASE missed' = missed \cup ToSet(held)
    BY <2>2 DEF Done
  <2> QED BY <1>5, <2>1, <2>2
<1>12. poll'.at = "create" =>
         /\ poll'.start < Len(poll'.blocks)
         /\ poll'.why = "split" => \A i \in 1..poll'.start : i < Len(poll'.blocks) /\ poll'.blocks[i] \in Done'
  <2> SUFFICES ASSUME poll'.at = "create"
               PROVE  /\ poll.start < Len(poll.blocks)
                      /\ poll.why = "split" => \A i \in 1..poll.start : i < Len(poll.blocks) /\ poll.blocks[i] \in Done'
    BY <1>3
  <2>1. Numbers /\ poll.start \in Nat
    BY NumbersOK DEF TypeOK, Polls
  <2>2. poll.start < Len(poll.blocks)
    <3>1. From(poll.start) # <<>>
      BY <1>3
    <3>2. From(poll.start) = <<>> <=> poll.start >= Len(poll.blocks)
      BY <2>1, FromSlice
    <3> QED BY <2>1, <3>1, <3>2 DEF Numbers
  <2>3. ASSUME poll.why = "split", NEW i \in 1..poll.start
        PROVE  poll.blocks[i] \in Done'
    <3>1. Covered(poll.blocks, card.start)
      BY <1>1, <2>3 DEF ShownInv, card
    <3>2. CASE i <= card.start
      <4>1. i \in 1..card.start
        BY <1>2, <2>1, <3>2
      <4> QED BY <1>10, <3>1, <4>1 DEF Covered
    <3>3. CASE i > card.start
      <4>1. held = SubSeq(poll.blocks, card.start + 1, poll.start)
        BY <2>3 DEF held
      <4>2. ToSet(held) = {poll.blocks[j] : j \in (card.start + 1)..poll.start}
        <5>1. poll.blocks \in Seq(Block) /\ card.start \in Nat /\ poll.start \in Nat
              /\ poll.start <= Len(poll.blocks)
          BY <1>2, <2>1, <2>3 DEF Numbers
        <5>2. ToSet(SubSeq(poll.blocks, card.start + 1, poll.start))
                = {poll.blocks[j] : j \in (card.start + 1)..poll.start}
          BY <5>1, Slice
        <5> QED BY <4>1, <5>2
      <4>3. i \in (card.start + 1)..poll.start
        BY <1>2, <2>1, <3>3
      <4> QED BY <1>11, <4>2, <4>3
    <3> QED BY <1>2, <2>1, <3>2, <3>3
  <2> QED BY <2>1, <2>2, <2>3 DEF Numbers
<1>13. ShownInv'
  <2>1. past \in 0..First(output.blocks) /\ First(output.blocks) < output.next
        /\ past <= First(poll.blocks) /\ Continues(poll.blocks, output.blocks)
    BY <1>1 DEF ShownInv, Reading
  <2> QED BY <1>3, <1>7, <1>12, <2>1 DEF ShownInv, Covered, Reading
<1> QED BY <1>8, <1>9, <1>13

\* An update that is taken shows the output as the poll read it; one that is not is followed
\* by a replacement.
LEMMA UpdateKeeps ==
  ASSUME IInv, UpdateAnswered
  PROVE  SeqInv' /\ LiveInv' /\ ShownInv'
<1> USE DEF IInv
<1> DEFINE card == tracker.cards[Active]
<1>1. poll.at = "update" /\ Active # 0
  BY DEF UpdateAnswered, PlaceInv
<1>2. /\ card.id \in Mine /\ card.id \in DOMAIN lark /\ Active \in DOMAIN tracker.cards
      /\ card.seq \in Nat /\ card.start \in Nat /\ lark[card.id].seq < card.seq
  BY <1>1, OpenCard DEF Card, SeqInv
<1>3. /\ TypeOK' /\ UNCHANGED <<output, hand, detached, strays, past, kept, missed>>
      /\ tracker'.cards = tracker.cards
      /\ poll'.at = "replace" => poll'.blocks = poll.blocks
  BY <1>1, <1>2, UpdateDoes
<1>4. PICK content \in Shows :
        /\ content.blocks = From(card.start)
        /\ \/ lark' = lark /\ refused' = refused /\ poll'.at = "replace"
           \/ /\ lark' = Put(card.id, card.seq, "live", content)
              /\ refused' = IF Takes(card.id, card.seq) THEN refused ELSE refused \cup {card.id}
              /\ \/ poll'.at = "replace"
                 \/ poll'.at \in {"wait", "notify"} /\ tracker'.hash = content
  BY <1>1, <1>2, UpdateDoes
<1>5. Active' = Active /\ Mine' = Mine /\ tracker'.cards[Active'] = card
  BY <1>3, SameCards
<1> HIDE DEF card
<1>6. /\ DOMAIN lark' = DOMAIN lark /\ refused' = {}
      /\ \A i \in DOMAIN lark \ {card.id} : lark'[i] = lark[i]
      /\ lark'[card.id].seq <= card.seq
      /\ \A i \in DOMAIN lark : lark[i].seq \in Nat /\ lark[i].seq <= lark'[i].seq
      /\ \/ poll'.at = "replace"
         \/ poll'.at \in {"wait", "notify"} /\ tracker'.hash = content
            /\ lark'[card.id].blocks = content.blocks
  <2> DEFINE put == Put(card.id, card.seq, "live", content)
  <2>1. /\ Takes(card.id, card.seq) /\ DOMAIN put = DOMAIN lark
        /\ \A i \in DOMAIN lark \ {card.id} : put[i] = lark[i]
        /\ put[card.id].seq = card.seq /\ put[card.id].blocks = content.blocks
        /\ \A i \in DOMAIN lark : lark[i].seq <= put[i].seq
    BY <1>2, PutTaken
  <2>2. (\A i \in DOMAIN lark : lark[i].seq \in Nat) /\ refused = {}
    BY LarkCards DEF SeqInv
  <2> HIDE DEF put
  <2>3. CASE lark' = lark /\ refused' = refused /\ poll'.at = "replace"
    BY <1>2, <2>2, <2>3
  <2>4. CASE lark' = put /\ refused' = IF Takes(card.id, card.seq) THEN refused ELSE refused \cup {card.id}
    BY <1>2, <1>4, <2>1, <2>2, <2>4
  <2> QED BY <1>4, <2>3, <2>4 DEF put
<1>7. poll'.at \in {"replace", "wait", "notify"}
  BY <1>4
<1>8. hand.at = "none" /\ detached.at = "none" /\ ~Sending'
  BY <1>1, <1>7, Running DEF Sending
<1>9. SeqInv'
  BY <1>3, <1>5, <1>6, <1>7, <1>8 DEF SeqInv, Puts
<1>10. LiveInv'
  <2>1. Open' = Open /\ Open = {card.id} /\ Coming' = {} /\ Coming = {} /\ InHand' = InHand
    BY <1>1, <1>3, <1>5, <1>7 DEF Open, Coming, InHand, card
  <2>2. \A c \in strays' :
            /\ c.call = "send" => c.id \in kept'
            /\ c.call = "put" /\ c.form = "live" => c.id \in kept' \cup InHand' \/ c.seq <= lark'[c.id].seq
    BY <1>3, <1>6, <2>1, StraysLate
  <2> QED BY <1>3, <1>6, <2>1, <2>2 DEF LiveInv
<1>11. Done \subseteq Done'
  <2>1. \A i \in DOMAIN lark \ {card.id} : lark'[i].blocks = lark[i].blocks
    BY <1>6
  <2> QED BY <1>1, <1>2, <1>3, <1>5, <2>1, DoneIfOthers DEF card
<1>12. ShownInv'
  <2>1. past \in 0..First(output.blocks) /\ First(output.blocks) < output.next
        /\ past <= First(poll.blocks) /\ Continues(poll.blocks, output.blocks)
    BY <1>1 DEF ShownInv, Reading
  <2>2. past = First(output.blocks) =>
          \A i \in 1..card.start : i < Len(output.blocks) /\ output.blocks[i] \in Done'
    BY <1>1, <1>11 DEF ShownInv, Covered, card
  <2>3. poll'.at \in {"wait", "notify"} => ToSet(tracker'.hash.blocks) = ToSet(lark'[card.id].blocks)
    BY <1>6
  <2> QED BY <1>1, <1>3, <1>5, <1>7, <2>1, <2>2, <2>3 DEF ShownInv, Covered, Reading
<1> QED BY <1>9, <1>10, <1>12

\* A card that has too many elements is to be frozen with the next number.
LEMMA ElementsKeep ==
  ASSUME IInv, ElementLimit
  PROVE  SeqInv' /\ LiveInv' /\ ShownInv'
<1> USE DEF IInv
<1> DEFINE card == tracker.cards[Active]
           next == tracker'.cards[Active]
<1>1. poll.at = "update" /\ Active # 0
  BY DEF ElementLimit, PlaceInv
<1>2. /\ card.id \in DOMAIN lark /\ Active \in DOMAIN tracker.cards /\ card.seq \in Nat
      /\ lark[card.id].seq < card.seq /\ lark[card.id].seq \in Nat
  BY <1>1, OpenCard, LarkCards DEF Card, SeqInv
<1>3. /\ TypeOK' /\ UNCHANGED <<output, hand, detached, strays, past, lark, refused, kept, missed>>
      /\ poll'.at = "freeze" /\ poll'.why = "elements" /\ poll'.blocks = poll.blocks
      /\ DOMAIN tracker'.cards = DOMAIN tracker.cards /\ Active' = Active
      /\ \A i \in DOMAIN tracker.cards : tracker'.cards[i].id = tracker.cards[i].id
      /\ next.start = card.start /\ next.seq = card.seq + 1
  BY <1>1, ElementsDo
<1>4. Mine' = Mine /\ hand.at = "none" /\ detached.at = "none" /\ ~Sending' /\ next.id = card.id
  BY <1>1, <1>2, <1>3, SameIds, Running DEF Sending
<1>5. SeqInv'
  <2>1. lark[card.id].seq < next.seq /\ lark[card.id].seq <= next.seq
    BY <1>2, <1>3
  <2> QED BY <1>3, <1>4, <2>1 DEF SeqInv, Puts
<1>6. LiveInv'
  BY <1>1, <1>3, <1>4 DEF LiveInv, Open, Coming, InHand
<1>7. Done \subseteq Done'
  BY <1>3, DoneIfKept
<1>8. ShownInv'
  <2>1. past \in 0..First(output.blocks) /\ First(output.blocks) < output.next
        /\ past <= First(poll.blocks) /\ Continues(poll.blocks, output.blocks)
    BY <1>1 DEF ShownInv, Reading
  <2>2. past = First(output.blocks) =>
          \A i \in 1..card.start : i < Len(output.blocks) /\ output.blocks[i] \in Done'
    BY <1>1, <1>7 DEF ShownInv, Covered
  <2> QED BY <1>1, <1>3, <2>1, <2>2 DEF ShownInv, Covered, Reading
<1> QED BY <1>5, <1>6, <1>8

\* A card that is to replace the open one holds the same window; without it the change is left out.
LEMMA ReplaceKeeps ==
  ASSUME IInv, ReplaceAnswered
  PROVE  SeqInv' /\ LiveInv' /\ ShownInv'
<1> USE DEF IInv
<1> DEFINE card == tracker.cards[Active]
           id == Len(lark) + 1
<1>1. poll.at = "replace" /\ Active # 0
  BY DEF ReplaceAnswered, PlaceInv
<1>2. /\ card.id \in DOMAIN lark /\ lark[card.id].seq <= card.seq
  BY <1>1, OpenCard DEF Card, SeqInv
<1>3. /\ TypeOK' /\ UNCHANGED <<output, hand, detached, strays, past, kept, refused>>
      /\ tracker'.cards = tracker.cards
  BY <1>1, ReplaceDoes
<1>4. PICK content \in Shows :
        /\ content.blocks = From(card.start)
        /\ \/ /\ lark' = Created(content) /\ missed' = missed
              /\ poll'.at = "resend" /\ poll'.id = id /\ poll'.blocks = poll.blocks
           \/ /\ lark' \in {lark, Created(content)} /\ missed' = missed \cup ToSet(content.blocks)
              /\ poll'.at \in {"wait", "notify"} /\ tracker'.hash = content
  BY <1>1, ReplaceDoes
<1>5. Active' = Active /\ Mine' = Mine /\ tracker'.cards[Active'] = card
  BY <1>3, SameCards
<1>6. /\ DOMAIN lark \subseteq DOMAIN lark' /\ id \notin DOMAIN lark
      /\ \A i \in DOMAIN lark : lark'[i] = lark[i]
      /\ \A i \in DOMAIN lark' \ DOMAIN lark : lark'[i].sent = FALSE
      /\ poll'.at = "resend" =>
           id \in DOMAIN lark' /\ lark'[id].seq = 0 /\ lark'[id].blocks = content.blocks
  <2> DEFINE made == Created(content)
             new == [form |-> "live", blocks |-> content.blocks, busy |-> content.busy, seq |-> 0, sent |-> FALSE]
  <2>1. /\ DOMAIN made = DOMAIN lark \cup {id} /\ id \notin DOMAIN lark
        /\ (\A i \in DOMAIN lark : made[i] = lark[i]) /\ made[id] = new
    BY CreatedCard
  <2>2. new.seq = 0 /\ new.blocks = content.blocks /\ new.sent = FALSE
    OBVIOUS
  <2>3. lark' = made \/ (lark' = lark /\ poll'.at # "resend")
    BY <1>4
  <2> HIDE DEF made, new, id
  <2> QED BY <2>1, <2>2, <2>3
<1>7. poll'.at \in {"resend", "wait", "notify"}
  BY <1>4
<1>8. poll'.at = "resend" => poll'.id = id
  BY <1>4
<1>9. hand.at = "none" /\ detached.at = "none"
  BY <1>1, Running
<1> HIDE DEF card, id
<1>10. SeqInv'
  <2>1. Mine \subseteq DOMAIN lark' /\ (\A c \in strays : c.id \in DOMAIN lark')
    BY <1>6 DEF SeqInv
  <2>2. Sending' => /\ poll'.id \in DOMAIN lark' \ Mine'
                    /\ poll'.id = id /\ Puts(id) = {} /\ lark'[id].seq = 0
    BY <1>5, <1>6, <1>7, <1>8, <1>9 DEF Sending, SeqInv, Puts
  <2>3. lark'[card.id].seq <= card.seq
    BY <1>2, <1>6
  <2> QED BY <1>3, <1>5, <1>7, <1>9, <2>1, <2>2, <2>3 DEF SeqInv, Puts
<1>11. LiveInv'
  <2>1. \A c \in strays : c.id \in DOMAIN lark
    BY DEF SeqInv
  <2>2. Open' = Open /\ InHand' = InHand /\ Coming = {}
    BY <1>1, <1>3, <1>5 DEF Open, InHand, Coming, card
  <2> QED BY <1>3, <1>6, <2>1, <2>2 DEF LiveInv
<1>12. Done \subseteq Done'
  <2>1. missed \subseteq missed' /\ \A i \in DOMAIN lark : lark'[i].blocks = lark[i].blocks
    BY <1>4, <1>6
  <2> QED BY <1>3, <1>5, <2>1, DoneIfKept
<1>13. ShownInv'
  <2>1. past \in 0..First(output.blocks) /\ First(output.blocks) < output.next
        /\ past <= First(poll.blocks) /\ Continues(poll.blocks, output.blocks)
    BY <1>1 DEF ShownInv, Reading
  <2>2. past = First(output.blocks) =>
          \A i \in 1..card.start : i < Len(output.blocks) /\ output.blocks[i] \in Done'
    BY <1>1, <1>12 DEF ShownInv, Covered, card
  <2>3. poll'.at \in {"wait", "notify"} => ToSet(tracker'.hash.blocks) \subseteq missed'
    BY <1>4
  <2>4. poll'.at = "resend" =>
          /\ poll'.blocks = poll.blocks
          /\ ToSet(From(tracker.cards[Active].start)') \subseteq ToSet(lark'[poll'.id].blocks)
    <3>1. CASE poll'.at = "resend"
      <4>1. poll'.blocks = poll.blocks /\ content.blocks = From(card.start)
            /\ lark'[poll'.id].blocks = content.blocks
        BY <1>4, <1>6, <3>1
      <4>2. From(tracker.cards[Active].start)' = From(card.start)
        BY <1>5, <4>1 DEF From
      <4> QED BY <4>1, <4>2
    <3> QED BY <3>1
  <2>5. poll'.at \notin {"create", "send", "freeze"}
    BY <1>7
  <2> QED BY <1>3, <1>5, <1>7, <2>1, <2>2, <2>3, <2>4, <2>5 DEF ShownInv, Covered, Reading
<1> QED BY <1>10, <1>11, <1>13

\* The card that replaces the open one takes its place; the old one is kept.
LEMMA ResendKeeps ==
  ASSUME IInv, ResendAnswered
  PROVE  SeqInv' /\ LiveInv' /\ ShownInv'
<1> USE DEF IInv
<1> DEFINE card == tracker.cards[Active]
           next == tracker'.cards[Active]
           id == poll.id
<1>1. poll.at = "resend" /\ Active # 0 /\ id \in DOMAIN lark /\ id \notin Mine /\ Puts(id) = {} /\ lark[id].seq = 0
  BY DEF ResendAnswered, PlaceInv, SeqInv, Sending
<1>2. card.id \in DOMAIN lark /\ Active \in DOMAIN tracker.cards
  BY <1>1, OpenCard
<1>3. /\ TypeOK' /\ UNCHANGED <<output, hand, detached, strays, past, missed, refused>>
      /\ poll'.at \in {"wait", "notify"}
      /\ lark' \in {lark, [lark EXCEPT ![id].sent = TRUE]}
      /\ DOMAIN tracker'.cards = DOMAIN tracker.cards /\ Active' = Active
      /\ \A i \in DOMAIN tracker.cards \ {Active} : tracker'.cards[i] = tracker.cards[i]
      /\ next.id = id /\ next.seq = 0 /\ next.start = card.start
      /\ tracker'.hash.blocks = From(card.start)
      /\ kept' = kept \cup {card.id}
  BY <1>1, ResendDoes
<1>4. /\ DOMAIN lark' = DOMAIN lark /\ \A i \in DOMAIN lark \ {id} : lark'[i] = lark[i]
      /\ \A i \in DOMAIN lark : lark'[i].blocks = lark[i].blocks /\ lark'[i].seq = lark[i].seq
  <2> DEFINE sent == [lark EXCEPT ![id].sent = TRUE]
  <2>1. /\ DOMAIN sent = DOMAIN lark /\ \A i \in DOMAIN lark \ {id} : sent[i] = lark[i]
        /\ \A i \in DOMAIN lark : sent[i].blocks = lark[i].blocks /\ sent[i].seq = lark[i].seq
    BY <1>1, SentCard
  <2>2. lark' = lark \/ lark' = sent
    BY <1>3
  <2> HIDE DEF sent
  <2> QED BY <2>1, <2>2
<1>5. hand.at = "none" /\ detached.at = "none" /\ ~Sending'
  BY <1>1, <1>3, Running DEF Sending
<1>6. \A i \in DOMAIN tracker.cards : tracker.cards[i].id # id
  BY <1>1 DEF Mine
<1> HIDE DEF id, card, next
<1>7. SeqInv'
  <2>1. \A i, j \in DOMAIN tracker'.cards : tracker'.cards[i].id = tracker'.cards[j].id => i = j
    <3> SUFFICES ASSUME NEW i \in DOMAIN tracker'.cards, NEW j \in DOMAIN tracker'.cards,
                        tracker'.cards[i].id = tracker'.cards[j].id
                 PROVE  i = j
      OBVIOUS
    <3> QED BY <1>3, <1>6 DEF SeqInv, next
  <2>2. Mine' \subseteq Mine \cup {id}
    <3> SUFFICES ASSUME NEW i \in DOMAIN tracker'.cards
                 PROVE  tracker'.cards[i].id \in Mine \cup {id}
      BY DEF Mine
    <3> QED BY <1>3 DEF Mine, next
  <2>3. Mine' \subseteq DOMAIN lark' /\ (\A i \in Mine' : Puts(i) = {})
    BY <1>1, <1>4, <2>2 DEF SeqInv
  <2>4. lark'[next.id].seq <= next.seq
    BY <1>1, <1>3, <1>4
  <2>5. (\A c \in strays : c.id \in DOMAIN lark') /\ refused' = {}
    BY <1>3, <1>4 DEF SeqInv
  <2> QED BY <1>3, <1>5, <2>1, <2>3, <2>4, <2>5 DEF SeqInv, Puts, next
<1>8. LiveInv'
  <2>1. Open' = {id} /\ Coming' = {} /\ InHand' = InHand /\ Open = {card.id} /\ Coming = {id}
    BY <1>1, <1>3 DEF Open, Coming, InHand, card, next, id
  <2>2. \A c \in strays : c.id \in DOMAIN lark
    BY DEF SeqInv
  <2> QED BY <1>3, <1>4, <2>1, <2>2 DEF LiveInv
<1>9. Done \subseteq Done'
  <2>1. DOMAIN tracker.cards \ {Active} \subseteq DOMAIN tracker'.cards \ {Active'}
    BY <1>3
  <2> QED BY <1>3, <1>4, <2>1, DoneIfKept
<1>10. ShownInv'
  <2>1. past \in 0..First(output.blocks) /\ First(output.blocks) < output.next
    BY <1>1 DEF ShownInv
  <2>2. past = First(output.blocks) =>
          \A i \in 1..card.start : i < Len(output.blocks) /\ output.blocks[i] \in Done'
    BY <1>1, <1>9 DEF ShownInv, Covered, card
  <2>3. ToSet(tracker'.hash.blocks) \subseteq ToSet(lark'[id].blocks)
    BY <1>1, <1>3, <1>4 DEF ShownInv, card, id
  <2> QED BY <1>3, <2>1, <2>2, <2>3 DEF ShownInv, Covered, Reading, next
<1> QED BY <1>7, <1>8, <1>10

LEMMA NotifyKeeps ==
  ASSUME IInv, NotifyAnswered
  PROVE  SeqInv' /\ LiveInv' /\ ShownInv'
<1> USE DEF IInv
<1>1. /\ UNCHANGED <<output, tracker, hand, detached, lark, strays, kept, missed, refused, past>>
      /\ poll.at = "notify" /\ poll'.at = "wait"
  BY NotifyDoes
<1>2. Active' = Active /\ Mine' = Mine /\ Done' = Done
  BY <1>1, SameCards DEF Done, Active
<1>3. SeqInv'
  BY <1>1, <1>2 DEF SeqInv, Puts, Sending
<1>4. LiveInv'
  BY <1>1, <1>2 DEF LiveInv, InHand, Open, Coming
<1>5. ShownInv'
  BY <1>1, <1>2 DEF ShownInv, Covered, Reading
<1> QED BY <1>3, <1>4, <1>5

\* Without a tracker there is no open card, and no call of the poll task.
LEMMA Stopped ==
  ASSUME PlaceInv, ~tracker.on
  PROVE  Active = 0 /\ Mine = {} /\ poll.at = "off" /\ tracker.cards = <<>>
<1>1. tracker = NoTracker /\ poll = Idle
  BY DEF PlaceInv
<1>2. tracker.cards = <<>> /\ poll.at = "off"
  BY <1>1 DEF NoTracker, Idle
<1> QED BY <1>2 DEF Active, Mine

LEMMA StartKeeps ==
  ASSUME IInv, Start
  PROVE  SeqInv' /\ LiveInv' /\ ShownInv'
<1> USE DEF IInv
<1>1. /\ UNCHANGED <<output, hand, lark, strays, kept, refused>>
      /\ ~tracker.on /\ hand.at = "none" /\ detached'.at = "none" /\ past' = 0
      /\ tracker'.cards = <<>> /\ poll'.at = "wait"
  BY StartDoes
<1>2. Active = 0 /\ Mine = {} /\ poll.at = "off" /\ Active' = 0 /\ Mine' = {} /\ DOMAIN tracker'.cards = {}
  BY <1>1, Stopped DEF Active, Mine
<1>3. SeqInv'
  BY <1>1, <1>2 DEF SeqInv, Sending
<1>4. LiveInv'
  BY <1>1, <1>2 DEF LiveInv, InHand, Open, Coming
<1>5. ShownInv'
  BY <1>1, <1>2, NumbersOK DEF ShownInv, Reading, Numbers
<1> QED BY <1>3, <1>4, <1>5

\* The handler that stops the poll task counts on from the card's last number, which the
\* call that is cut short has.
LEMMA StopKeeps ==
  ASSUME IInv, NEW how \in {"quiet", "off", "button"}, Stop(how)
  PROVE  SeqInv' /\ LiveInv' /\ ShownInv'
<1> USE DEF IInv
<1> DEFINE card == tracker.cards[Active]
<1>1. /\ poll.at \in {"update", "freeze"} => Active # 0
      /\ poll.at = "freeze" /\ poll.why # "elements" => poll.start <= Len(poll.blocks)
  BY Starts DEF PlaceInv
<1>2. /\ CutShort \subseteq Strays
      /\ \A c \in CutShort :
           \/ poll.at \in {"update", "freeze"} /\ c.call = "put" /\ c.id = card.id /\ c.seq = card.seq
           \/ Sending /\ c.call = "send" /\ c.id = poll.id
  BY <1>1, CutShortCalls
<1>3. /\ UNCHANGED <<output, detached, lark, missed, refused, past>>
      /\ tracker.on /\ hand.at = "none" /\ tracker' = NoTracker /\ poll' = Idle
      /\ strays' = strays \cup CutShort
      /\ kept \subseteq kept' /\ (Sending => poll.id \in kept')
      /\ hand'.at = "update" => Active # 0 /\ hand'.id = card.id /\ hand'.seq = card.seq + 1
      /\ Active # 0 => card.id \in kept' \/ hand'.at = "update"
  BY <1>2, StopDoes
<1>4. tracker'.cards = <<>> /\ poll'.at = "off" /\ detached.at = "none"
  BY <1>3 DEF NoTracker, Idle, PlaceInv
<1>5. Active' = 0 /\ Mine' = {} /\ DOMAIN tracker'.cards = {}
  BY <1>4 DEF Active, Mine
<1>6. Active # 0 => /\ card.id \in DOMAIN lark /\ card.id \in Mine /\ card.seq \in Nat
                    /\ lark[card.id].seq \in Nat /\ lark[card.id].seq <= card.seq
  BY OpenCard, LarkCards DEF Card, SeqInv
<1>7. \A c \in CutShort : c.id \in DOMAIN lark
  BY <1>1, <1>2, <1>6 DEF SeqInv
<1> HIDE DEF card
<1>8. SeqInv'
  <2>1. hand'.at = "update" => /\ hand'.id \in DOMAIN lark /\ lark[hand'.id].seq < hand'.seq
                               /\ \A c \in strays' : c.call = "put" /\ c.id = hand'.id => c.seq < hand'.seq
    <3> SUFFICES ASSUME hand'.at = "update"
                 PROVE  /\ card.id \in DOMAIN lark /\ lark[card.id].seq < card.seq + 1
                        /\ \A c \in strays' : c.call = "put" /\ c.id = card.id => c.seq < card.seq + 1
      BY <1>3
    <3>1. card.id \in DOMAIN lark /\ lark[card.id].seq < card.seq + 1
      BY <1>3, <1>6
    <3>2. ASSUME NEW c \in strays', c.call = "put", c.id = card.id
          PROVE  c.seq < card.seq + 1
      <4>1. c \notin strays
        BY <1>3, <1>6, <3>2 DEF SeqInv, Puts
      <4>2. c.seq = card.seq
        BY <1>2, <1>3, <3>2, <4>1
      <4> QED BY <1>3, <1>6, <4>2
    <3> QED BY <3>1, <3>2
  <2>2. \A c \in strays' : c.id \in DOMAIN lark
    BY <1>3, <1>7 DEF SeqInv
  <2>3. ~Sending' /\ refused = {}
    BY <1>4 DEF Sending, SeqInv
  <2> QED BY <1>3, <1>4, <1>5, <2>1, <2>2, <2>3 DEF SeqInv, Puts
<1>9. LiveInv'
  <2>1. Open \subseteq kept' \cup InHand' /\ Coming \subseteq kept' /\ InHand = {} /\ Open' = {} /\ Coming' = {}
    BY <1>3, <1>4, <1>5 DEF Open, Coming, InHand, Sending, card
  <2>2. \A i \in DOMAIN lark : lark[i].sent /\ lark[i].form = "live" => i \in kept' \cup InHand'
    BY <1>3, <2>1 DEF LiveInv
  <2>3. ASSUME NEW c \in strays'
        PROVE  /\ c.call = "send" => c.id \in kept'
               /\ c.call = "put" /\ c.form = "live" => c.id \in kept' \cup InHand' \/ c.seq <= lark[c.id].seq
    <3>1. CASE c \in strays
      BY <1>3, <2>1, <3>1 DEF LiveInv
    <3>2. CASE c \in CutShort
      <4>1. Active # 0 => card.id \in kept' \cup InHand'
        BY <2>1 DEF Open, card
      <4> QED BY <1>1, <1>2, <1>3, <3>2, <4>1
    <3> QED BY <1>3, <3>1, <3>2
  <2> QED BY <1>3, <2>1, <2>2, <2>3 DEF LiveInv
<1>10. ShownInv'
  BY <1>3, <1>4, <1>5 DEF ShownInv, Reading
<1> QED BY <1>8, <1>9, <1>10

LEMMA ReconnectKeeps ==
  ASSUME IInv, Reconnect
  PROVE  SeqInv' /\ LiveInv' /\ ShownInv'
<1> USE DEF IInv
<1> DEFINE id == detached.id
           seq == detached.seq + 1
<1>1. id \in DOMAIN lark /\ detached.seq \in Nat /\ lark[id].seq \in Nat /\ lark[id].seq < seq
  <2>1. id \in DOMAIN lark /\ detached.seq \in Nat /\ lark[id].seq <= detached.seq
    BY DEF Reconnect, SeqInv, TypeOK, Hands
  <2> QED BY <2>1, LarkCards
<1>2. /\ TypeOK' /\ UNCHANGED <<output, tracker, poll, hand, strays, kept, missed, past>>
      /\ ~tracker.on /\ hand.at = "none" /\ detached'.at = "none"
  BY <1>1, ReconnectDoes
<1>3. PICK content \in Shows :
        \/ /\ lark' = Put(id, seq, "frozen", content)
           /\ refused' = IF Takes(id, seq) THEN refused ELSE refused \cup {id}
        \/ lark' = lark /\ refused' = refused
  BY <1>1, ReconnectDoes
<1> HIDE DEF id, seq
<1>4. /\ DOMAIN lark' = DOMAIN lark /\ refused' = {}
      /\ \A i \in DOMAIN lark \ {id} : lark'[i] = lark[i]
      /\ lark'[id] = lark[id] \/ lark'[id].form = "frozen"
      /\ \A i \in DOMAIN lark : lark[i].seq <= lark'[i].seq
  <2> DEFINE put == Put(id, seq, "frozen", content)
  <2>1. seq \in Nat
    BY <1>1 DEF seq
  <2>2. /\ Takes(id, seq) /\ DOMAIN put = DOMAIN lark /\ put[id].form = "frozen"
        /\ \A i \in DOMAIN lark \ {id} : put[i] = lark[i]
        /\ \A i \in DOMAIN lark : lark[i].seq <= put[i].seq
    BY <1>1, <2>1, PutTaken
  <2>3. refused = {} /\ \A i \in DOMAIN lark : lark[i].seq \in Nat
    BY LarkCards DEF SeqInv
  <2> HIDE DEF put
  <2>4. CASE lark' = put /\ refused' = IF Takes(id, seq) THEN refused ELSE refused \cup {id}
    BY <2>2, <2>3, <2>4
  <2>5. CASE lark' = lark /\ refused' = refused
    BY <2>3, <2>5
  <2> QED BY <1>3, <2>4, <2>5 DEF put
<1>5. Active = 0 /\ Mine = {} /\ poll.at = "off" /\ tracker.cards = <<>> /\ Active' = 0 /\ Mine' = {}
  BY <1>2, Stopped DEF Active, Mine
<1>6. SeqInv'
  BY <1>2, <1>4, <1>5 DEF SeqInv, Sending
<1>7. LiveInv'
  <2>1. InHand' = InHand /\ Open' = {} /\ Coming' = {} /\ Open = {} /\ Coming = {}
    BY <1>2, <1>5 DEF InHand, Open, Coming
  <2>2. \A c \in strays' :
            /\ c.call = "send" => c.id \in kept'
            /\ c.call = "put" /\ c.form = "live" => c.id \in kept' \cup InHand' \/ c.seq <= lark'[c.id].seq
    BY <1>2, <1>4, <2>1, StraysLate
  <2> QED BY <1>2, <1>4, <2>1, <2>2 DEF LiveInv
<1>8. ShownInv'
  BY <1>2, <1>5 DEF ShownInv, Reading
<1> QED BY <1>6, <1>7, <1>8

\* The card in the handler's hand is turned off by a number above all that are on their way,
\* or kept.
LEMMA HandKeeps ==
  ASSUME IInv, HandAnswered
  PROVE  SeqInv' /\ LiveInv' /\ ShownInv'
<1> USE DEF IInv
<1> DEFINE id == hand.id
<1>1. /\ hand.at = "update" /\ id \in DOMAIN lark /\ hand.seq \in Nat
      /\ lark[id].seq \in Nat /\ lark[id].seq < hand.seq
      /\ \A c \in Puts(id) : c.seq < hand.seq
  <2>1. hand.at = "update" /\ hand.seq \in Nat
    BY DEF HandAnswered, TypeOK, Hands
  <2>2. id \in DOMAIN lark /\ lark[id].seq < hand.seq /\ \A c \in Puts(id) : c.seq < hand.seq
    BY <2>1 DEF SeqInv
  <2> QED BY <2>1, <2>2, LarkCards
<1>2. ~tracker.on /\ detached.at = "none"
  BY <1>1 DEF PlaceInv
<1>3. /\ TypeOK' /\ UNCHANGED <<output, tracker, poll, strays, missed, past>>
      /\ hand'.at \in {"none", "offline"}
  BY <1>1, HandDoes
<1>4. PICK content \in Shows :
        \/ /\ lark' = Put(id, hand.seq, "off", content) /\ kept' = kept
           /\ refused' = IF Takes(id, hand.seq) THEN refused ELSE refused \cup {id}
           /\ detached' = detached \/ (detached' = hand /\ hand'.at = "none")
        \/ /\ lark' = lark /\ kept' = kept \cup {id} /\ refused' = refused /\ detached' = detached
  BY <1>1, HandDoes
<1> HIDE DEF id
<1>5. /\ DOMAIN lark' = DOMAIN lark /\ refused' = {}
      /\ \A i \in DOMAIN lark \ {id} : lark'[i] = lark[i]
      /\ \A i \in DOMAIN lark : lark[i].seq \in Nat /\ lark[i].seq <= lark'[i].seq
      /\ \/ /\ lark'[id].form = "off" /\ lark'[id].seq = hand.seq /\ kept' = kept
            /\ detached' = detached \/ detached' = hand
         \/ lark' = lark /\ kept' = kept \cup {id} /\ detached' = detached
  <2> DEFINE put == Put(id, hand.seq, "off", content)
  <2>1. /\ Takes(id, hand.seq) /\ DOMAIN put = DOMAIN lark /\ put[id].form = "off" /\ put[id].seq = hand.seq
        /\ \A i \in DOMAIN lark \ {id} : put[i] = lark[i]
        /\ \A i \in DOMAIN lark : lark[i].seq <= put[i].seq
    BY <1>1, PutTaken
  <2>2. refused = {} /\ \A i \in DOMAIN lark : lark[i].seq \in Nat
    BY LarkCards DEF SeqInv
  <2> HIDE DEF put
  <2>3. CASE lark' = put
    BY <1>4, <2>1, <2>2, <2>3 DEF put
  <2>4. CASE lark' = lark /\ kept' = kept \cup {id} /\ refused' = refused /\ detached' = detached
    BY <2>2, <2>4
  <2> QED BY <1>4, <2>3, <2>4 DEF put
<1>6. Active = 0 /\ Mine = {} /\ poll.at = "off" /\ tracker.cards = <<>> /\ Active' = 0 /\ Mine' = {}
  BY <1>2, <1>3, Stopped DEF Active, Mine
<1>7. SeqInv'
  <2>1. detached'.at = "update" =>
          /\ detached'.id \in DOMAIN lark' /\ lark'[detached'.id].seq <= detached'.seq
          /\ \A c \in Puts(detached'.id) : c.seq <= detached'.seq
    <3> SUFFICES ASSUME detached' = hand, lark'[id].seq = hand.seq
                 PROVE  /\ id \in DOMAIN lark' /\ lark'[id].seq <= hand.seq
                        /\ \A c \in Puts(id) : c.seq <= hand.seq
      BY <1>2, <1>5 DEF id
    <3>1. \A c \in Puts(id) : c.seq \in Nat
      BY DEF Puts, TypeOK, Strays
    <3> QED BY <1>1, <1>5, <3>1
  <2>2. \A c \in strays' : c.id \in DOMAIN lark'
    BY <1>3, <1>5 DEF SeqInv
  <2>3. ~Sending'
    BY <1>3, <1>6 DEF Sending
  <2> QED BY <1>3, <1>5, <1>6, <2>1, <2>2, <2>3 DEF SeqInv, Puts
<1>8. LiveInv'
  <2>1. InHand = {id} /\ InHand' = {} /\ Open = {} /\ Open' = {} /\ Coming = {} /\ Coming' = {}
    BY <1>1, <1>3, <1>6 DEF InHand, Open, Coming, id
  <2>2. \A i \in DOMAIN lark' : lark'[i].sent /\ lark'[i].form = "live" => i \in kept'
    BY <1>5, <2>1 DEF LiveInv
  <2>3. ASSUME NEW c \in strays
        PROVE  /\ c.call = "send" => c.id \in kept'
               /\ c.call = "put" /\ c.form = "live" => c.id \in kept' \/ c.seq <= lark'[c.id].seq
    <3>1. c.id \in DOMAIN lark /\ c \in Strays
      BY DEF SeqInv, TypeOK
    <3>2. c.seq \in Nat /\ lark[c.id].seq \in Nat /\ lark[c.id].seq <= lark'[c.id].seq
      BY <1>5, <3>1 DEF Strays
    <3>3. lark'[c.id].seq \in Nat
      <4>1. lark'[c.id] \in LarkCard
        BY <1>3, <1>5, <3>1 DEF TypeOK
      <4> QED BY <4>1 DEF LarkCard
    <3>4. kept \subseteq kept'
      BY <1>5
    <3>5. c.call = "put" /\ c.form = "live" => c.id \in kept \/ c.id = id \/ c.seq <= lark[c.id].seq
      BY <2>1 DEF LiveInv
    <3>6. c.call = "put" /\ c.id = id => id \in kept' \/ c.seq <= lark'[id].seq
      <4> SUFFICES ASSUME c.call = "put", c.id = id, lark'[id].seq = hand.seq
                   PROVE  c.seq <= lark'[id].seq
        BY <1>5
      <4>1. c.seq < hand.seq
        BY <1>1 DEF Puts
      <4> QED BY <1>1, <3>2, <4>1
    <3>7. c.call = "send" => c.id \in kept
      BY DEF LiveInv
    <3> QED BY <3>2, <3>3, <3>4, <3>5, <3>6, <3>7
  <2> QED BY <1>3, <2>1, <2>2, <2>3 DEF LiveInv
<1>9. ShownInv'
  BY <1>3, <1>6 DEF ShownInv, Reading
<1> QED BY <1>7, <1>8, <1>9

LEMMA OfflineKeeps ==
  ASSUME IInv, OfflineCard
  PROVE  SeqInv' /\ LiveInv' /\ ShownInv'
<1> USE DEF IInv
<1> DEFINE id == Len(lark) + 1
<1>1. /\ UNCHANGED <<output, tracker, poll, detached, strays, kept, missed, refused, past>>
      /\ hand.at = "offline" /\ hand'.at = "none"
      /\ DOMAIN lark' = DOMAIN lark \cup {id} /\ id \notin DOMAIN lark
      /\ \A i \in DOMAIN lark : lark'[i] = lark[i]
      /\ lark'[id].form = "off"
  BY OfflineDoes
<1> HIDE DEF id
<1>2. ~tracker.on /\ detached.at = "none"
  BY <1>1 DEF PlaceInv
<1>3. Active = 0 /\ Mine = {} /\ poll.at = "off" /\ tracker.cards = <<>> /\ Active' = 0 /\ Mine' = {}
  BY <1>1, <1>2, Stopped DEF Active, Mine
<1>4. SeqInv'
  BY <1>1, <1>2, <1>3 DEF SeqInv, Sending
<1>5. LiveInv'
  <2>1. InHand = {} /\ InHand' = {} /\ Open = {} /\ Open' = {} /\ Coming = {} /\ Coming' = {}
    BY <1>1, <1>3 DEF InHand, Open, Coming
  <2>2. \A c \in strays : c.id \in DOMAIN lark
    BY DEF SeqInv
  <2> QED BY <1>1, <2>1, <2>2 DEF LiveInv
<1>6. ShownInv'
  BY <1>1, <1>3 DEF ShownInv, Reading
<1> QED BY <1>4, <1>5, <1>6

\* A late call changes no card of the tracker's, turns on none that is not kept, and has a
\* number below the handler's.
LEMMA StrayKeeps ==
  ASSUME IInv, StrayEnds
  PROVE  SeqInv' /\ LiveInv' /\ ShownInv'
<1> USE DEF IInv
<1>1. /\ TypeOK' /\ UNCHANGED <<output, tracker, poll, hand, detached, kept, missed, refused, past>>
      /\ strays' \subseteq strays
  BY StrayDoes DEF SeqInv
<1>2. PICK c \in strays :
        \/ lark' = lark
        \/ c.call = "send" /\ lark' = [lark EXCEPT ![c.id].sent = TRUE]
        \/ c.call = "put" /\ lark' = Put(c.id, c.seq, c.form, c.content)
  BY StrayDoes DEF SeqInv
<1>3. c.id \in DOMAIN lark /\ c.seq \in Nat /\ c.form \in {"live", "frozen"} /\ c.content \in Shows
  BY DEF SeqInv, TypeOK, Strays
<1>4. /\ DOMAIN lark' = DOMAIN lark
      /\ \A i \in DOMAIN lark : lark[i].seq \in Nat /\ lark[i].seq <= lark'[i].seq
      /\ \A i \in DOMAIN lark \ {c.id} : lark'[i] = lark[i]
      /\ c.call # "put" => \A i \in DOMAIN lark : lark'[i].blocks = lark[i].blocks /\ lark'[i].seq = lark[i].seq
      /\ \/ lark'[c.id] = lark[c.id]
         \/ c.call = "send"
         \/ c.call = "put" /\ lark'[c.id].seq = c.seq /\ lark'[c.id].form = c.form
            /\ lark[c.id].seq < c.seq
  <2>1. \A i \in DOMAIN lark : lark[i].seq \in Nat
    BY LarkCards
  <2>2. CASE lark' = lark
    BY <2>1, <2>2
  <2>3. CASE c.call = "send" /\ lark' = [lark EXCEPT ![c.id].sent = TRUE]
    <3> DEFINE sent == [lark EXCEPT ![c.id].sent = TRUE]
    <3>1. /\ DOMAIN sent = DOMAIN lark /\ \A i \in DOMAIN lark \ {c.id} : sent[i] = lark[i]
          /\ \A i \in DOMAIN lark : sent[i].blocks = lark[i].blocks /\ sent[i].seq = lark[i].seq
      BY <1>3, SentCard
    <3>2. lark' = sent
      BY <2>3
    <3> HIDE DEF sent
    <3> QED BY <2>1, <2>3, <3>1, <3>2
  <2>4. CASE c.call = "put" /\ lark' = Put(c.id, c.seq, c.form, c.content)
    <3>1. CASE lark[c.id].seq < c.seq
      <4> DEFINE put == Put(c.id, c.seq, c.form, c.content)
      <4>1. /\ DOMAIN put = DOMAIN lark /\ put[c.id].form = c.form /\ put[c.id].seq = c.seq
            /\ \A i \in DOMAIN lark \ {c.id} : put[i] = lark[i]
            /\ \A i \in DOMAIN lark : lark[i].seq <= put[i].seq
        BY <1>3, <3>1, PutTaken
      <4> HIDE DEF put
      <4> QED BY <2>1, <2>4, <3>1, <4>1 DEF put
    <3>2. CASE ~(lark[c.id].seq < c.seq)
      <4>1. ~Takes(c.id, c.seq)
        BY <1>3, <2>1, <3>2 DEF Takes
      <4>2. lark' = lark
        BY <2>4, <4>1 DEF Put
      <4> QED BY <2>1, <4>2
    <3> QED BY <3>1, <3>2
  <2> QED BY <1>2, <2>2, <2>3, <2>4
<1>5. Active' = Active /\ Mine' = Mine /\ Sending' = Sending
  BY <1>1, SameCards DEF Sending
<1>6. c.call = "put" => c \in Puts(c.id)
  BY DEF Puts
<1>7. SeqInv'
  <2>1. c.call = "put" => c.id \notin Mine /\ (Sending => c.id # poll.id)
    BY <1>6 DEF SeqInv
  <2>2. \A i \in DOMAIN lark : (c.call = "put" => i # c.id) => lark'[i].seq = lark[i].seq
    BY <1>4
  <2>3. Active # 0 => lark'[tracker.cards[Active].id].seq = lark[tracker.cards[Active].id].seq
    BY <2>1, <2>2, OpenCard
  <2>4. Sending => lark'[poll.id].seq = 0
    BY <2>1, <2>2 DEF SeqInv
  <2>5. hand.at = "update" => lark'[hand.id].seq < hand.seq
    <3> SUFFICES ASSUME hand.at = "update", lark'[hand.id] # lark[hand.id], c.call = "put"
                 PROVE  lark'[hand.id].seq < hand.seq
      BY <1>4 DEF SeqInv
    <3>1. hand.id = c.id /\ lark'[c.id].seq = c.seq
      BY <1>4 DEF SeqInv
    <3> QED BY <1>6, <3>1 DEF SeqInv
  <2>6. detached.at = "update" => lark'[detached.id].seq <= detached.seq
    <3> SUFFICES ASSUME detached.at = "update", lark'[detached.id] # lark[detached.id], c.call = "put"
                 PROVE  lark'[detached.id].seq <= detached.seq
      BY <1>4 DEF SeqInv
    <3>1. detached.id = c.id /\ lark'[c.id].seq = c.seq
      BY <1>4 DEF SeqInv
    <3> QED BY <1>6, <3>1 DEF SeqInv
  <2>7. \A id : (Puts(id))' \subseteq Puts(id)
    BY <1>1 DEF Puts
  <2> QED BY <1>1, <1>4, <1>5, <2>3, <2>4, <2>5, <2>6, <2>7 DEF SeqInv, Puts
<1>8. LiveInv'
  <2>1. InHand' = InHand /\ Open' = Open /\ Coming' = Coming
    BY <1>1, <1>5 DEF InHand, Open, Coming
  <2>2. \A d \in strays' :
            /\ d.call = "send" => d.id \in kept'
            /\ d.call = "put" /\ d.form = "live" => d.id \in kept' \cup InHand' \/ d.seq <= lark'[d.id].seq
    BY <1>1, <1>4, <2>1, StraysLate
  <2>3. ASSUME NEW i \in DOMAIN lark, lark'[i].sent, lark'[i].form = "live"
        PROVE  i \in kept \cup InHand \cup Open \cup Coming
    <3>1. CASE lark'[i] = lark[i]
      BY <2>3, <3>1 DEF LiveInv
    <3>2. CASE i = c.id /\ c.call = "send"
      BY <3>2 DEF LiveInv
    <3>3. CASE i = c.id /\ c.call = "put" /\ lark'[i].form = c.form /\ lark[i].seq < c.seq
      <4>1. ~(c.seq <= lark[c.id].seq)
        BY <1>3, <1>4, <3>3
      <4> QED BY <2>3, <3>3, <4>1 DEF LiveInv
    <3> QED BY <1>4, <3>1, <3>2, <3>3
  <2> QED BY <1>1, <1>4, <2>1, <2>2, <2>3 DEF LiveInv
<1>9. \A i \in DOMAIN lark : i \in Mine \/ (Sending /\ i = poll.id) => lark'[i].blocks = lark[i].blocks
  BY <1>4, <1>6 DEF SeqInv
<1>10. Done \subseteq Done'
  <2>1. \A i \in DOMAIN tracker.cards : tracker.cards[i].id \in Mine /\ tracker.cards[i].id \in DOMAIN lark
    BY DEF Mine, SeqInv
  <2> QED BY <1>1, <1>5, <1>9, <2>1, DoneStays
<1>11. ShownInv'
  <2>1. Active # 0 => lark'[tracker.cards[Active].id].blocks = lark[tracker.cards[Active].id].blocks
    BY <1>9, OpenCard
  <2>2. Sending => lark'[poll.id].blocks = lark[poll.id].blocks
    BY <1>9 DEF SeqInv
  <2>3. \A blocks, n : Covered(blocks, n) => \A i \in 1..n : i < Len(blocks) /\ blocks[i] \in Done'
    BY <1>10 DEF Covered
  <2>4. /\ Active # 0 /\ past = First(output.blocks) =>
             \A i \in 1..tracker.cards[Active].start : i < Len(output.blocks) /\ output.blocks[i] \in Done'
        /\ Active # 0 /\ poll.at = "freeze" /\ poll.why # "elements" =>
             \A i \in 1..tracker.cards[Active].start : i < Len(poll.blocks) /\ poll.blocks[i] \in Done'
        /\ (poll.at = "create" /\ poll.why = "split") \/ poll.at = "send" =>
             \A i \in 1..poll.start : i < Len(poll.blocks) /\ poll.blocks[i] \in Done'
    BY <2>3 DEF ShownInv
  <2>5. From(poll.start)' = From(poll.start)
        /\ From(tracker.cards[Active].start)' = From(tracker.cards[Active].start)
    BY <1>1, <1>5 DEF From
  <2> QED BY <1>1, <1>5, <2>1, <2>2, <2>4, <2>5 DEF ShownInv, Covered, Reading, Sending
<1> QED BY <1>7, <1>8, <1>11

-----------------------------------------------------------------------------
(* The invariant holds, and what it is for. *)

LEMMA InitInv ==
  ASSUME Init
  PROVE  IInv
<1>1. TypeOK
  BY InitType
<1>2. /\ output.blocks = <<>> /\ output.next = 1 /\ tracker = NoTracker /\ poll = Idle
      /\ hand = NoHand /\ detached = NoHand /\ lark = <<>> /\ strays = {} /\ refused = {} /\ past = 0
  BY DEF Init
<1>3. /\ ~tracker.on /\ tracker.cards = <<>> /\ poll.at = "off" /\ hand.at = "none" /\ detached.at = "none"
  BY <1>2 DEF NoTracker, Idle, NoHand
<1>4. PlaceInv
  BY <1>2, <1>3 DEF PlaceInv
<1>5. Active = 0 /\ Mine = {} /\ DOMAIN tracker.cards = {} /\ DOMAIN lark = {}
  BY <1>2, <1>3 DEF Active, Mine
<1>6. SeqInv
  BY <1>2, <1>3, <1>5 DEF SeqInv, Sending
<1>7. LiveInv
  BY <1>2, <1>5 DEF LiveInv
<1>8. ShownInv
  BY <1>2, <1>3, <1>5 DEF ShownInv, Reading, First
<1> QED BY <1>1, <1>4, <1>6, <1>7, <1>8 DEF IInv

LEMMA NextInv ==
  ASSUME IInv, [Next]_vars
  PROVE  IInv'
<1>1. CASE Next
  <2>1. TypeOK' /\ PlaceInv'
    BY <1>1, PlaceKept
  <2>2. SeqInv' /\ LiveInv' /\ ShownInv'
    <3>1. CASE Session
      BY <3>1, SessionKeeps
    <3>2. CASE Poll
      BY <3>2, PollKeepsNone, PollKeepsOpen
    <3>3. CASE Answered
      BY <3>3, CreateKeeps, SendKeeps, FreezeKeeps, UpdateKeeps, ElementsKeep, ReplaceKeeps,
         ResendKeeps, NotifyKeeps DEF Answered
    <3>4. CASE Handler
      BY <3>4, StartKeeps, StopKeeps, ReconnectKeeps DEF Handler
    <3>5. CASE HandAnswered \/ OfflineCard \/ StrayEnds
      BY <3>5, HandKeeps, OfflineKeeps, StrayKeeps
    <3> QED BY <1>1, <3>1, <3>2, <3>3, <3>4, <3>5 DEF Next
  <2> QED BY <2>1, <2>2 DEF IInv
<1>2. CASE UNCHANGED vars
  <2>1. UNCHANGED <<output, tracker, poll, hand, detached, lark, strays, kept, missed, refused, past>>
    BY <1>2 DEF vars
  <2>2. Active' = Active /\ Mine' = Mine
    BY <2>1, SameCards
  <2>3. TypeOK' /\ PlaceInv'
    BY <2>1, <2>2 DEF IInv, TypeOK, PlaceInv
  <2>4. SeqInv'
    BY <2>1, <2>2 DEF IInv, SeqInv, Puts, Sending
  <2>5. LiveInv'
    BY <2>1, <2>2 DEF IInv, LiveInv, InHand, Open, Coming
  <2>6. Done' = Done /\ From(poll.start)' = From(poll.start)
        /\ From(tracker.cards[Active].start)' = From(tracker.cards[Active].start)
    BY <2>1, <2>2 DEF Done, From
  <2>7. ShownInv'
    BY <2>1, <2>2, <2>6 DEF IInv, ShownInv, Covered, Reading
  <2> QED BY <2>3, <2>4, <2>5, <2>7 DEF IInv
<1> QED BY <1>1, <1>2

THEOREM StreamInvariant == Spec => []IInv
<1>1. Init => IInv
  BY InitInv
<1>2. IInv /\ [Next]_vars => IInv'
  BY NextInv
<1> QED BY <1>1, <1>2, PTL DEF Spec

\* Once the poll task has caught up, every block of the output is on one of the tracker's
\* cards as Lark has them, but for those that a named step of the code leaves out
\* (_do_card_update, _freeze_and_split, _handle_element_limit): whatever is written, changed
\* or started over while calls are under way, and whatever calls fail or are lost.
THEOREM NothingLeftOutTheorem == Spec => []NothingLeftOut
<1>1. IInv => NothingLeftOut
  <2> SUFFICES ASSUME IInv, CaughtUp, NEW b \in Awaited
               PROVE  b \in ShownBlocks \cup missed
    BY DEF NothingLeftOut
  <2> USE DEF IInv
  <2> DEFINE card == tracker.cards[Active]
             n == Len(output.blocks)
             window == SubSeq(output.blocks, card.start + 1, n)
  <2>1. /\ Active # 0 /\ Active \in DOMAIN tracker.cards /\ card \in Card /\ poll.at = "wait"
        /\ tracker.hash = Content(window, output.busy)
    BY OpenCard DEF CaughtUp
  <2>2. tracker.hash = [blocks |-> window, busy |-> output.busy]
    BY <2>1 DEF Content
  <2>3. Numbers /\ card.start \in Nat /\ DOMAIN tracker.cards = 1..Len(tracker.cards)
    BY <2>1, NumbersOK DEF Card, TypeOK, Trackers
  <2>4. ToSet(window) = {output.blocks[i] : i \in (card.start + 1)..n}
    <3>1. n \in Nat /\ n <= Len(output.blocks) /\ output.blocks \in Seq(Block)
      BY <2>3 DEF Numbers
    <3> HIDE DEF n, card
    <3> QED BY <2>3, <3>1, Slice
  <2>5. \A i \in DOMAIN tracker.cards : ToSet(lark[tracker.cards[i].id].blocks) \subseteq ShownBlocks
    BY <2>3 DEF ShownBlocks
  <2>6. Done \subseteq ShownBlocks \cup missed
    BY <2>5 DEF Done
  <2>7. ToSet(window) \subseteq ShownBlocks \cup missed
    <3> HIDE DEF window
    <3>1. tracker.hash.blocks = window /\ tracker.hash # <<>>
      <4>1. DOMAIN tracker.hash = {"blocks", "busy"} /\ DOMAIN <<>> = {}
        BY <2>2
      <4> QED BY <2>2, <4>1
    <3>2. ToSet(window) \subseteq ToSet(lark[card.id].blocks) \cup missed
      BY <2>1, <3>1 DEF ShownInv
    <3> QED BY <2>1, <2>5, <3>2
  <2>8. PICK i \in (IF First(output.blocks) = past THEN 1 ELSE card.start + 1)..n : b = output.blocks[i]
    BY DEF Awaited
  <2> HIDE DEF card, window
  <2>9. CASE i > card.start
    <3>1. i \in (card.start + 1)..n
      BY <2>3, <2>8, <2>9 DEF Numbers
    <3> QED BY <2>4, <2>7, <2>8, <3>1
  <2>10. CASE i <= card.start
    <3>1. First(output.blocks) = past /\ i \in 1..card.start
      BY <2>3, <2>8, <2>10 DEF Numbers
    <3>2. Covered(output.blocks, card.start)
      BY <2>1, <3>1 DEF ShownInv, card
    <3> QED BY <2>6, <2>8, <3>1, <3>2 DEF Covered
  <2> QED BY <2>3, <2>8, <2>9, <2>10 DEF Numbers
<1> QED BY <1>1, StreamInvariant, PTL

\* A card that still looks connected in the chat is the tracker's open card or the one in the
\* handler's hand; of every other it is known how it was left: no late call of a cancelled
\* poll task turns a card on again (stop_and_get_active_slice, _update_card_disconnected).
THEOREM OneLiveCardTheorem == Spec => []OneLiveCard
<1>1. IInv => OneLiveCard
  <2> SUFFICES ASSUME IInv, NEW i \in 1..Len(lark), lark[i].sent, lark[i].form = "live"
               PROVE  i \in kept \cup {hand.id} \cup (IF Active = 0 THEN {} ELSE {tracker.cards[Active].id})
                            \cup (IF poll.at = "resend" THEN {poll.id} ELSE {})
    BY DEF OneLiveCard
  <2>1. i \in DOMAIN lark
    BY LarkCards DEF IInv
  <2> QED BY <2>1 DEF IInv, LiveInv, InHand, Open, Coming
<1> QED BY <1>1, StreamInvariant, PTL

\* Lark never finds an update of the poll task or of the handler out of order: whoever takes a
\* card over counts on from the last number used, also by a call that is still on its way
\* (_do_card_update, stop_and_get_active_slice, _handle_stream_reconnect).
THEOREM NoneOutOfOrderTheorem == Spec => []NoneOutOfOrder
<1>1. IInv => NoneOutOfOrder
  BY DEF IInv, SeqInv, NoneOutOfOrder
<1> QED BY <1>1, StreamInvariant, PTL
=============================================================================
