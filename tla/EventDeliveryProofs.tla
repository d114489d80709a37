------------------------ MODULE EventDeliveryProofs ------------------------
(***************************************************************************)
(* That no event is lost once the queue is bound, and that none is shown   *)
(* or pushed twice: proofs for any number of events, relays, consumers and *)
(* disturbances.                                                           *)
(***************************************************************************)
EXTENDS EventDelivery, FiniteSetTheorems, TLAPS

\* Unacknowledged messages of the handlers H are counted back into the queue:
\* nothing leaves it, what they held enters it, and nothing else does.
LEMMA Requeued ==
    ASSUME TypeOK, NEW H \in SUBSET Handlers, Requeue(H)
    PROVE  /\ ready' \in [Events -> Nat]
           /\ \A e \in Events : ready[e] > 0 => ready'[e] > 0
           /\ \A e \in Events, h \in H :
                 handler[h].attached /\ handler[h].event = e => ready'[e] > 0
           /\ \A e \in Events : ready'[e] > 0 =>
                 \/ ready[e] > 0
                 \/ \E h \in H : handler[h].attached /\ handler[h].event = e
<1> DEFINE held(e) == {h \in H : handler[h].attached /\ handler[h].event = e}
<1>1. \A e \in Events : /\ IsFiniteSet(held(e))
                        /\ Cardinality(held(e)) \in Nat
                        /\ Cardinality(held(e)) = 0 <=> held(e) = {}
  <2> TAKE e \in Events
  <2>1. held(e) \in SUBSET Handlers
    OBVIOUS
  <2>2. IsFiniteSet(held(e))
    BY <2>1, DeliveryAssumption, FS_Subset
  <2> QED BY <2>2, FS_CardinalityType, FS_EmptySet
<1>2. ready' = [e \in Events |-> ready[e] + Cardinality(held(e))]
  BY DEF Requeue
<1>3. \A e \in Events, h \in H :
         handler[h].attached /\ handler[h].event = e => held(e) # {}
  OBVIOUS
<1>4. \A e \in Events : held(e) # {} =>
         \E h \in H : handler[h].attached /\ handler[h].event = e
  OBVIOUS
<1>5. ready \in [Events -> Nat]
  BY DEF TypeOK
<1> HIDE DEF held
<1>6. \A e \in Events : /\ ready'[e] = ready[e] + Cardinality(held(e))
                        /\ ready[e] \in Nat /\ Cardinality(held(e)) \in Nat
  BY <1>1, <1>2, <1>5
<1>7. ready' \in [Events -> Nat]
  BY <1>1, <1>2, <1>5
<1>8. \A e \in Events : ready[e] > 0 => ready'[e] > 0
  BY <1>6
<1>9. \A e \in Events, h \in H :
         handler[h].attached /\ handler[h].event = e => ready'[e] > 0
  BY <1>1, <1>3, <1>6
<1>10. \A e \in Events : ready'[e] > 0 => ready[e] > 0 \/ held(e) # {}
  BY <1>1, <1>6
<1> QED BY <1>4, <1>7, <1>8, <1>9, <1>10

\* A dying process or a lost connection costs no event: what its handlers had
\* not acknowledged is in the queue again.
LEMMA RequeueKeepsEvents ==
    ASSUME TypeOK, NEW H \in SUBSET Handlers, Requeue(H), UNCHANGED processed,
           \A h \in Handlers \ H : handler'[h] = handler[h]
    PROVE  \A e \in Events : InGoodHands(e) => InGoodHands(e)'
<1> SUFFICES ASSUME NEW e \in Events, InGoodHands(e) PROVE InGoodHands(e)'
  OBVIOUS
<1>1. CASE e \in processed \/ ready[e] > 0
  BY <1>1, Requeued DEF InGoodHands
<1>2. CASE \E h \in Handlers : handler[h].attached /\ handler[h].event = e
  <2> PICK h \in Handlers : handler[h].attached /\ handler[h].event = e
    BY <1>2
  <2>1. CASE h \in H
    BY <2>1, Requeued DEF InGoodHands
  <2>2. CASE h \notin H
    <3>1. handler'[h].attached /\ handler'[h].event = e
      BY <2>2
    <3> QED BY <3>1 DEF InGoodHands
  <2> QED BY <2>1, <2>2
<1> QED BY <1>1, <1>2 DEF InGoodHands

-----------------------------------------------------------------------------
(* Steps of the outbox and its relays *)

\* A step of the producers disturbs no consumer, and keeps the invariant if it
\* forgets no event and relies on the broker only for what the queue has.
LEMMA ProducerStep ==
    ASSUME InductiveInvariant, TypeOK', RelaysConsistent',
           UNCHANGED <<bound, consumerVars, inboxVars>>,
           Committed \subseteq Committed',
           \A e \in Events : ready[e] > 0 => ready'[e] > 0,
           \A e \in Events : ready'[e] > 0 => ready[e] > 0 \/ e \in Committed',
           bound => \A e \in Events : Relied(e)' => Relied(e) \/ ready'[e] > 0
    PROVE  InductiveInvariant'
<1> USE DEF consumerVars, inboxVars
<1>1. HandlersConsistent' /\ HandlersApart'
  BY DEF InductiveInvariant, HandlersConsistent, HandlersApart
<1>2. FeedMatchesInbox' /\ EmittedAtMostOnce'
  BY DEF InductiveInvariant, FeedMatchesInbox, EmittedAtMostOnce
<1>3. QueueConsistent'
  BY DEF InductiveInvariant, QueueConsistent
<1>4. QueueKeeps'
  <2> SUFFICES ASSUME QueueDeclared PROVE bound' /\ NothingLost'
    BY DEF QueueKeeps
  <2>1. bound /\ NothingLost
    BY DEF InductiveInvariant, QueueKeeps
  <2>2. \A e \in Events : InGoodHands(e) => InGoodHands(e)'
    BY DEF InGoodHands
  <2>3. \A e \in Events : ready'[e] > 0 => InGoodHands(e)'
    BY DEF InGoodHands
  <2> QED BY <2>1, <2>2, <2>3 DEF NothingLost
<1> QED BY <1>1, <1>2, <1>3, <1>4 DEF InductiveInvariant

\* The step of a relay that changes neither the queue nor the state of a row,
\* and does not come to rely on the broker.
LEMMA QuietStep ==
    ASSUME InductiveInvariant, TypeOK', RelaysConsistent',
           UNCHANGED <<brokerVars, consumerVars, inboxVars>>,
           Committed' = Committed,
           \A e \in Events : Relied(e)' => Relied(e)
    PROVE  InductiveInvariant'
BY ProducerStep DEF brokerVars

\* A row that changes keeps its state, so the event stays committed, and is
\* published only if it was.
LEMMA SameStates ==
    ASSUME \A e \in Events : outbox'[e].state = outbox[e].state
    PROVE  Committed' = Committed
BY DEF Committed

\* A new row, an expired lock and the end of a delay.
LEMMA RowStep ==
    ASSUME InductiveInvariant, NEW e \in Events,
           Enqueue(e) \/ LockExpires(e) \/ BackoffEnds(e)
    PROVE  InductiveInvariant'
<1> USE DEF InductiveInvariant
<1>1. UNCHANGED <<relay, brokerVars, consumerVars, inboxVars>>
  BY DEF Enqueue, LockExpires, BackoffEnds
<1>2. \A x \in Events : \/ outbox'[x].state = outbox[x].state
                        \/ outbox'[x].state = "waiting"
  <2> SUFFICES ASSUME NEW x \in Events
               PROVE  \/ outbox'[x].state = outbox[x].state
                      \/ outbox'[x].state = "waiting"
    OBVIOUS
  <2>1. outbox[x] \in Rows /\ outbox[e] \in Rows /\ outbox \in [Events -> Rows]
    BY DEF TypeOK
  <2>2. CASE Enqueue(e)
    BY <2>1, <2>2 DEF Enqueue, Rows
  <2>3. CASE LockExpires(e)
    BY <2>1, <2>3 DEF LockExpires, Rows
  <2>4. CASE BackoffEnds(e)
    BY <2>1, <2>4 DEF BackoffEnds, Rows
  <2> QED BY <2>2, <2>3, <2>4
<1>3. outbox' \in [Events -> Rows] /\ disturbances' \in 0..MaxDisturbances
  <2>1. CASE Enqueue(e)
    BY <2>1 DEF Enqueue, TypeOK, Rows
  <2>2. CASE LockExpires(e)
    <3>1. outbox' = [outbox EXCEPT ![e].locked = FALSE] /\ outbox[e] \in Rows
      BY <2>2 DEF LockExpires, TypeOK
    <3>2. Disturb \/ UNCHANGED disturbances
      BY <2>2 DEF LockExpires
    <3>3. outbox' \in [Events -> Rows]
      BY <3>1 DEF TypeOK, Rows
    <3>4. disturbances' \in 0..MaxDisturbances
      BY <3>2, DeliveryAssumption DEF Disturb, TypeOK
    <3> QED BY <3>3, <3>4
  <2>3. CASE BackoffEnds(e)
    BY <2>3 DEF BackoffEnds, TypeOK, Rows
  <2> QED BY <2>1, <2>2, <2>3
<1>4. TypeOK'
  BY <1>1, <1>3 DEF TypeOK, brokerVars, consumerVars, inboxVars
<1>5. Committed \subseteq Committed'
  BY <1>2 DEF Committed
<1>6. RelaysConsistent'
  BY <1>1, <1>5 DEF RelaysConsistent
<1>7. \A x \in Events : Relied(x)' => Relied(x)
  BY <1>1, <1>2 DEF Relied
<1> QED BY <1>1, <1>4, <1>5, <1>6, <1>7, ProducerStep DEF brokerVars

\* Claiming rows relies on nobody.
LEMMA ClaimStep ==
    ASSUME InductiveInvariant, NEW r \in Relays, Claim(r)
    PROVE  InductiveInvariant'
<1> PICK batch \in SUBSET {e \in Events : Claimable(e)} :
       /\ outbox' = [e \in Events |->
                        IF e \in batch
                        THEN [outbox[e] EXCEPT !.lock = r, !.locked = TRUE]
                        ELSE outbox[e]]
       /\ relay' = [relay EXCEPT ![r] = [pc |-> "batch", batch |-> batch,
                                         current |-> NoEvent]]
  BY DEF Claim
<1> USE DEF InductiveInvariant
<1>1. UNCHANGED <<brokerVars, consumerVars, inboxVars, disturbances>>
  BY DEF Claim
<1>2. \A e \in Events : outbox'[e].state = outbox[e].state
  BY DEF TypeOK, Rows
<1>3. outbox' \in [Events -> Rows]
  BY DEF TypeOK, Rows
<1>4. relay' \in [Relays -> RelayStates]
  BY DEF TypeOK, RelayStates
<1>5. TypeOK'
  BY <1>1, <1>3, <1>4 DEF TypeOK, brokerVars, consumerVars, inboxVars
<1>6. Committed' = Committed
  BY <1>2, SameStates
<1>7. batch \subseteq Committed
  BY DEF Claimable, Committed
<1>8. RelaysConsistent'
  BY <1>6, <1>7 DEF RelaysConsistent, TypeOK
<1>9. \A e \in Events : Relied(e)' => Relied(e)
  BY <1>2 DEF Relied, TypeOK
<1> QED BY <1>1, <1>5, <1>6, <1>8, <1>9, QuietStep

\* A publication, successful or not: if the relay believes in it, and the
\* queue is bound, the event is in the queue.
LEMMA PublishStep ==
    ASSUME InductiveInvariant, NEW r \in Relays, NEW e \in Events,
           Publish(r, e) \/ PublishFails(r, e)
    PROVE  InductiveInvariant'
<1> USE DEF InductiveInvariant
<1>1. /\ relay[r].pc = "batch" /\ e \in relay[r].batch
      /\ UNCHANGED <<outbox, bound, consumerVars, inboxVars>>
  BY DEF Publish, PublishFails, BrokerAccepts, brokerVars
<1>2. /\ ready' \in [Events -> Nat] /\ sent' \in [Events -> Nat]
      /\ \A x \in Events : ready[x] > 0 => ready'[x] > 0
      /\ \A x \in Events : ready'[x] > 0 => ready[x] > 0 \/ x = e
      /\ Publish(r, e) /\ bound => ready'[e] > 0
  BY DEF Publish, PublishFails, BrokerAccepts, brokerVars, TypeOK
<1>3. /\ relay' \in [Relays -> RelayStates]
      /\ relay'[r].batch = relay[r].batch /\ relay'[r].current = e
      /\ relay'[r].pc \in {"mark", "fail"}
      /\ relay'[r].pc = "mark" => Publish(r, e)
      /\ \A q \in Relays \ {r} : relay'[q] = relay[q]
  <2>1. relay[r] \in RelayStates
    BY DEF TypeOK
  <2>2. CASE Publish(r, e)
    BY <2>1, <2>2 DEF Publish, TypeOK, RelayStates
  <2>3. CASE PublishFails(r, e)
    BY <2>1, <2>3 DEF PublishFails, TypeOK, RelayStates
  <2> QED BY <2>2, <2>3
<1>4. disturbances' \in 0..MaxDisturbances
  BY DeliveryAssumption DEF Publish, PublishFails, Disturb, TypeOK
<1>5. TypeOK'
  BY <1>1, <1>2, <1>3, <1>4 DEF TypeOK, consumerVars, inboxVars
<1>6. Committed' = Committed /\ e \in Committed
  BY <1>1 DEF Committed, RelaysConsistent
<1>7. RelaysConsistent'
  BY <1>1, <1>3, <1>6 DEF RelaysConsistent
<1>8. bound => \A x \in Events : Relied(x)' => Relied(x) \/ ready'[x] > 0
  BY <1>1, <1>2, <1>3 DEF Relied
<1> QED BY <1>1, <1>2, <1>5, <1>6, <1>7, <1>8, ProducerStep

\* The relay's updates touch the row of its current event, at most, and leave
\* the relay relying on nothing new.
LEMMA MarkStep ==
    ASSUME InductiveInvariant, NEW r \in Relays, MarkPublished(r) \/ MarkFailed(r)
    PROVE  InductiveInvariant'
<1> USE DEF InductiveInvariant
<1> DEFINE e == relay[r].current
<1>1. /\ relay[r] \in RelayStates /\ relay[r].pc \in {"mark", "fail"}
      /\ e \in Events /\ e \in relay[r].batch /\ e \in Committed
      /\ outbox[e] \in Rows
      /\ UNCHANGED <<brokerVars, consumerVars, inboxVars, disturbances>>
  <2>1. relay[r] \in RelayStates /\ relay[r].pc \in {"mark", "fail"}
    BY DEF MarkPublished, MarkFailed, TypeOK
  <2>2. e \in relay[r].batch /\ e \in Committed
    BY <2>1 DEF RelaysConsistent
  <2> QED BY <2>1, <2>2 DEF MarkPublished, MarkFailed, TypeOK, Committed
<1>2. NextMessage(r)
  BY DEF MarkPublished, MarkFailed
<1>3. /\ relay' \in [Relays -> RelayStates]
      /\ relay'[r].batch \subseteq relay[r].batch
      /\ relay'[r].pc \in {"idle", "batch"}
      /\ \A q \in Relays \ {r} : relay'[q] = relay[q]
  <2>1. relay[r].batch \ {e} \in SUBSET Events
    BY <1>1 DEF RelayStates
  <2> QED BY <1>2, <2>1 DEF NextMessage, TypeOK, RelayStates
<1>4. /\ outbox' \in [Events -> Rows]
      /\ \A x \in Events \ {e} : outbox'[x] = outbox[x]
      /\ \/ outbox'[e].state = outbox[e].state
         \/ outbox'[e].state = "published" /\ relay[r].pc = "mark"
  <2> DEFINE done == [state |-> "published", lock |-> NoLock, locked |-> FALSE,
                      due |-> outbox[e].due]
             again == [state |-> outbox[e].state, lock |-> NoLock, locked |-> FALSE,
                       due |-> FALSE]
  <2>1. done \in Rows /\ again \in Rows
    BY <1>1 DEF Rows
  <2>2. \/ UpdateLocked(r, done) /\ relay[r].pc = "mark"
        \/ UpdateLocked(r, again)
    BY DEF MarkPublished, MarkFailed
  <2> QED BY <1>1, <2>1, <2>2 DEF UpdateLocked, TypeOK
<1> HIDE DEF e
<1>5. TypeOK'
  BY <1>1, <1>3, <1>4 DEF TypeOK, brokerVars, consumerVars, inboxVars
<1>6. Committed' = Committed
  <2>1. \A x \in Events : outbox'[x].state # "absent" <=> outbox[x].state # "absent"
    BY <1>1, <1>4 DEF Committed
  <2> QED BY <2>1 DEF Committed
<1>7. RelaysConsistent'
  BY <1>3, <1>6 DEF RelaysConsistent
<1>8. \A x \in Events : Relied(x)' => Relied(x)
  BY <1>3, <1>4 DEF Relied, e
<1> QED BY <1>1, <1>5, <1>6, <1>7, <1>8, QuietStep

\* A relay that fails or dies relies on nothing any more.
LEMMA RelayFailure ==
    ASSUME InductiveInvariant, NEW r \in Relays, DatabaseError(r) \/ RelayCrash(r)
    PROVE  InductiveInvariant'
<1> USE DEF InductiveInvariant
<1>1. UNCHANGED <<brokerVars, consumerVars, inboxVars>>
  BY DEF DatabaseError, RelayCrash
<1>2. disturbances' \in 0..MaxDisturbances
  BY DeliveryAssumption DEF DatabaseError, RelayCrash, Disturb, TypeOK
<1>3. /\ outbox' \in [Events -> Rows]
      /\ \A x \in Events : outbox'[x].state = outbox[x].state
  BY DEF DatabaseError, RelayCrash, Abandon, TypeOK, Rows
<1>4. /\ relay' \in [Relays -> RelayStates]
      /\ \A q \in Relays \ {r} : relay'[q] = relay[q]
      /\ \/ relay'[r].pc = "idle" /\ relay'[r].batch = {}
         \/ /\ relay[r].pc = "mark" /\ relay'[r].pc = "fail"
            /\ relay'[r].batch = relay[r].batch /\ relay'[r].current = relay[r].current
  <2>1. relay[r] \in RelayStates
    BY DEF TypeOK
  <2>2. CASE relay' = [relay EXCEPT ![r] = IdleRelay]
    BY <2>2 DEF IdleRelay, TypeOK, RelayStates
  <2>3. CASE relay[r].pc = "mark" /\ relay' = [relay EXCEPT ![r].pc = "fail"]
    BY <2>1, <2>3 DEF TypeOK, RelayStates
  <2> QED BY <2>2, <2>3 DEF DatabaseError, RelayCrash, Abandon
<1>5. TypeOK'
  BY <1>1, <1>2, <1>3, <1>4 DEF TypeOK, brokerVars, consumerVars, inboxVars
<1>6. Committed' = Committed
  BY <1>3, SameStates
<1>7. RelaysConsistent'
  BY <1>4, <1>6 DEF RelaysConsistent
<1>8. \A x \in Events : Relied(x)' => Relied(x)
  BY <1>3, <1>4 DEF Relied
<1> QED BY <1>1, <1>5, <1>6, <1>7, <1>8, QuietStep

-----------------------------------------------------------------------------
(* Steps of the consumers *)

\* A step of a consumer changes nothing for the producers, and keeps the
\* invariant if the events that were in good hands still are.
LEMMA ConsumerSide ==
    ASSUME InductiveInvariant, TypeOK', UNCHANGED <<outbox, relay>>,
           bound => bound',
           \A e \in Events : ready'[e] > 0 => e \in Committed,
           HandlersConsistent', HandlersApart',
           FeedMatchesInbox', EmittedAtMostOnce',
           \A e \in Events : InGoodHands(e) => InGoodHands(e)'
    PROVE  InductiveInvariant'
<1> USE DEF InductiveInvariant
<1>1. Committed' = Committed
  BY DEF Committed
<1>2. RelaysConsistent'
  BY <1>1 DEF RelaysConsistent
<1>3. QueueConsistent'
  BY <1>1 DEF QueueConsistent
<1>4. \A e \in Events : Relied(e)' => Relied(e)
  BY DEF Relied
<1>5. QueueKeeps'
  BY <1>4 DEF QueueKeeps, NothingLost
<1> QED BY <1>2, <1>3, <1>5

\* A (re)connection binds the queue; a restart makes one possible.
LEMMA ConfigureStep ==
    ASSUME InductiveInvariant, NEW p \in Consumers, Configure(p) \/ Restart(p)
    PROVE  InductiveInvariant'
<1> USE DEF InductiveInvariant
<1>1. /\ UNCHANGED <<outbox, relay, ready, sent, handler, inboxVars, disturbances>>
      /\ bound' \in {bound, TRUE}
      /\ online' \in {online, online \cup {p}} /\ dead' \in {dead, dead \ {p}}
  BY DEF Configure, Restart, brokerVars
<1>2. TypeOK'
  BY <1>1 DEF TypeOK, inboxVars
<1>3. HandlersConsistent' /\ HandlersApart'
  BY <1>1 DEF HandlersConsistent, HandlersApart, Committed, inboxVars
<1>4. FeedMatchesInbox' /\ EmittedAtMostOnce'
  BY <1>1 DEF FeedMatchesInbox, EmittedAtMostOnce, inboxVars
<1>5. \A e \in Events : InGoodHands(e) => InGoodHands(e)'
  BY <1>1 DEF InGoodHands, inboxVars
<1>6. \A e \in Events : ready'[e] > 0 => e \in Committed
  BY <1>1 DEF QueueConsistent
<1>7. bound => bound'
  BY <1>1, Zenon
<1> QED BY <1>1, <1>2, <1>3, <1>4, <1>5, <1>6, <1>7, ConsumerSide

\* A delivered event is with an attached handler instead of in the queue.
LEMMA DeliverStep ==
    ASSUME InductiveInvariant, NEW p \in Consumers, NEW h \in p, NEW e \in Events,
           Deliver(p, h, e)
    PROVE  InductiveInvariant'
<1> USE DEF InductiveInvariant
<1>0. h \in Handlers
  BY DeliveryAssumption
<1>1. /\ UNCHANGED <<outbox, relay, bound, sent, online, dead, inboxVars, disturbances>>
      /\ handler[h].pc = "idle" /\ ready[e] > 0
  BY DEF Deliver
<1>2. /\ ready' \in [Events -> Nat]
      /\ \A x \in Events \ {e} : ready'[x] = ready[x]
  BY <1>1 DEF Deliver, TypeOK
<1>3. /\ handler' \in [Handlers -> HandlerStates]
      /\ handler'[h].pc = "insert" /\ handler'[h].event = e /\ handler'[h].attached
      /\ \A g \in Handlers \ {h} : handler'[g] = handler[g]
  BY <1>0 DEF Deliver, TypeOK, HandlerStates
<1>4. TypeOK'
  BY <1>1, <1>2, <1>3 DEF TypeOK, inboxVars
<1>5. e \in Committed /\ Committed' = Committed
  BY <1>1 DEF QueueConsistent, Committed
<1>6. HandlersConsistent'
  BY <1>1, <1>3, <1>5 DEF HandlersConsistent, inboxVars
<1>7. HandlersApart'
  BY <1>3 DEF HandlersApart
<1>8. FeedMatchesInbox' /\ EmittedAtMostOnce'
  BY <1>1 DEF FeedMatchesInbox, EmittedAtMostOnce, inboxVars
<1>9. \A x \in Events : ready'[x] > 0 => x \in Committed
  BY <1>2, <1>5 DEF QueueConsistent
<1>10. \A x \in Events : InGoodHands(x) => InGoodHands(x)'
  <2> SUFFICES ASSUME NEW x \in Events, InGoodHands(x) PROVE InGoodHands(x)'
    OBVIOUS
  <2>1. CASE x = e
    BY <1>0, <1>3, <2>1 DEF InGoodHands
  <2>2. CASE x \in processed \/ (x # e /\ ready[x] > 0)
    BY <1>1, <1>2, <2>2 DEF InGoodHands, inboxVars
  <2>3. CASE \E g \in Handlers : handler[g].attached /\ handler[g].event = x
    <3> PICK g \in Handlers : handler[g].attached /\ handler[g].event = x
      BY <2>3
    <3>1. g # h
      BY <1>1 DEF HandlersConsistent
    <3>2. handler'[g].attached /\ handler'[g].event = x
      BY <1>3, <3>1
    <3> QED BY <3>2 DEF InGoodHands
  <2> QED BY <2>1, <2>2, <2>3 DEF InGoodHands
<1> QED BY <1>1, <1>4, <1>6, <1>7, <1>8, <1>9, <1>10, ConsumerSide

\* The unique key lets one handler at a time past the marker of an event.
LEMMA InsertStep ==
    ASSUME InductiveInvariant, NEW h \in Handlers, InsertMarker(h)
    PROVE  InductiveInvariant'
<1> USE DEF InductiveInvariant
<1> DEFINE e == handler[h].event
<1>1. /\ UNCHANGED <<outbox, relay, brokerVars, online, dead, inboxVars, disturbances>>
      /\ handler[h].pc = "insert" /\ handler[h] \in HandlerStates
      /\ \A g \in Handlers : handler[g].pc = "record" => handler[g].event # e
  BY DEF InsertMarker, TypeOK
<1>2. /\ handler' \in [Handlers -> HandlerStates]
      /\ handler'[h].event = e /\ handler'[h].attached = handler[h].attached
      /\ \/ e \in processed /\ handler'[h].pc = "duplicate"
         \/ e \notin processed /\ handler'[h].pc = "record"
      /\ \A g \in Handlers \ {h} : handler'[g] = handler[g]
  BY <1>1 DEF InsertMarker, TypeOK, HandlerStates
<1> HIDE DEF e
<1>3. TypeOK'
  BY <1>1, <1>2 DEF TypeOK, brokerVars, inboxVars
<1>4. HandlersConsistent'
  <2>1. Committed' = Committed
    BY <1>1 DEF Committed
  <2> QED BY <1>1, <1>2, <2>1 DEF HandlersConsistent, inboxVars, e
<1>5. HandlersApart'
  BY <1>1, <1>2 DEF HandlersApart
<1>6. FeedMatchesInbox' /\ EmittedAtMostOnce'
  BY <1>1 DEF FeedMatchesInbox, EmittedAtMostOnce, inboxVars
<1>7. \A x \in Events : ready'[x] > 0 => x \in Committed
  BY <1>1 DEF QueueConsistent, brokerVars
<1>8. \A g \in Handlers : /\ handler'[g].attached = handler[g].attached
                          /\ handler'[g].event = handler[g].event
  BY <1>2 DEF e
<1>9. \A x \in Events : InGoodHands(x) => InGoodHands(x)'
  BY <1>1, <1>8 DEF InGoodHands, inboxVars, brokerVars
<1> QED BY <1>1, <1>3, <1>4, <1>5, <1>6, <1>7, <1>9, ConsumerSide DEF brokerVars

\* The marker and the item of an event that has neither are stored together.
LEMMA RecordStep ==
    ASSUME InductiveInvariant, NEW h \in Handlers, Record(h)
    PROVE  InductiveInvariant'
<1> USE DEF InductiveInvariant
<1> DEFINE e == handler[h].event
<1>1. /\ UNCHANGED <<outbox, relay, brokerVars, online, dead, emitted, disturbances>>
      /\ handler[h].pc = "record" /\ handler[h] \in HandlerStates
      /\ processed' = processed \cup {e}
      /\ feed' = [feed EXCEPT ![e] = @ + 1]
  BY DEF Record, TypeOK
<1>2. e \in Events /\ e \in Committed /\ e \notin processed
  BY <1>1 DEF HandlersConsistent, Committed
<1>3. feed[e] = 0 /\ emitted[e] = 0
  BY <1>2 DEF FeedMatchesInbox, EmittedAtMostOnce, TypeOK
<1>4. /\ handler' \in [Handlers -> HandlerStates]
      /\ handler'[h].event = e /\ handler'[h].attached = handler[h].attached
      /\ handler'[h].pc = "emit"
      /\ \A g \in Handlers \ {h} : handler'[g] = handler[g]
  BY <1>1 DEF Record, TypeOK, HandlerStates
<1>5. \A g \in Handlers \ {h} : handler[g].event = e =>
         handler[g].pc # "record" /\ handler[g].pc # "emit"
  BY <1>1, <1>2 DEF HandlersApart, HandlersConsistent
<1> HIDE DEF e
<1>6. TypeOK'
  BY <1>1, <1>2, <1>4 DEF TypeOK, brokerVars
<1>7. HandlersConsistent'
  <2>1. Committed' = Committed
    BY <1>1 DEF Committed
  <2> QED BY <1>1, <1>2, <1>3, <1>4, <1>5, <2>1 DEF HandlersConsistent
<1>8. HandlersApart'
  BY <1>4, <1>5 DEF HandlersApart
<1>9. FeedMatchesInbox' /\ EmittedAtMostOnce'
  BY <1>1, <1>2, <1>3 DEF FeedMatchesInbox, EmittedAtMostOnce, TypeOK
<1>10. \A x \in Events : ready'[x] > 0 => x \in Committed
  BY <1>1 DEF QueueConsistent, brokerVars
<1>11. \A g \in Handlers : /\ handler'[g].attached = handler[g].attached
                           /\ handler'[g].event = handler[g].event
  BY <1>4 DEF e
<1>12. \A x \in Events : InGoodHands(x) => InGoodHands(x)'
  BY <1>1, <1>11 DEF InGoodHands, brokerVars
<1> QED BY <1>1, <1>6, <1>7, <1>8, <1>9, <1>10, <1>12, ConsumerSide DEF brokerVars

\* Handlers that end, or lose their channel, leave the others as they were.
LEMMA LeaveStep ==
    ASSUME InductiveInvariant, TypeOK', NEW H \in SUBSET Handlers,
           UNCHANGED <<outbox, relay, bound, processed, feed>>,
           \A h \in H : \/ handler'[h] = IdleHandler
                       \/ handler'[h] = [handler[h] EXCEPT !.attached = FALSE],
           \A h \in Handlers \ H : handler'[h] = handler[h],
           \A e \in Events : ready'[e] > 0 => e \in Committed,
           \A e \in Events : InGoodHands(e) => InGoodHands(e)',
           \A e \in Events : emitted'[e] <= feed[e],
           \A h \in Handlers : handler'[h].pc = "emit" => emitted'[handler[h].event] = 0
    PROVE  InductiveInvariant'
<1> USE DEF InductiveInvariant
<1>1. \A h \in Handlers :
         \/ handler'[h].pc = "idle" /\ ~handler'[h].attached
         \/ /\ handler'[h].pc = handler[h].pc /\ handler'[h].event = handler[h].event
            /\ handler'[h].attached => handler[h].attached
  <2> SUFFICES ASSUME NEW h \in Handlers
               PROVE  \/ handler'[h].pc = "idle" /\ ~handler'[h].attached
                      \/ /\ handler'[h].pc = handler[h].pc
                         /\ handler'[h].event = handler[h].event
                         /\ handler'[h].attached => handler[h].attached
    OBVIOUS
  <2>1. handler[h] \in HandlerStates
    BY DEF TypeOK
  <2>2. CASE handler'[h] = IdleHandler
    BY <2>2 DEF IdleHandler
  <2>3. CASE handler'[h] = [handler[h] EXCEPT !.attached = FALSE]
    BY <2>1, <2>3 DEF HandlerStates
  <2>4. CASE handler'[h] = handler[h]
    BY <2>4
  <2> QED BY <2>2, <2>3, <2>4
<1>2. Committed' = Committed
  BY DEF Committed
<1>3. HandlersConsistent'
  <2> SUFFICES ASSUME NEW h \in Handlers
               PROVE  LET e == handler'[h].event
                      IN  /\ handler'[h].pc = "idle" => ~handler'[h].attached
                          /\ handler'[h].pc # "idle" => e \in Committed
                          /\ handler'[h].pc = "record" => e \notin processed
                          /\ handler'[h].pc \in {"emit", "duplicate"} => e \in processed
                          /\ handler'[h].pc = "emit" => emitted'[e] = 0
    BY <1>2 DEF HandlersConsistent
  <2> QED BY <1>1 DEF HandlersConsistent
<1>4. HandlersApart'
  BY <1>1 DEF HandlersApart
<1>5. FeedMatchesInbox' /\ EmittedAtMostOnce'
  BY DEF FeedMatchesInbox, EmittedAtMostOnce
<1> QED BY <1>3, <1>4, <1>5, ConsumerSide

\* The death of a process, whose last act may have been to push an event.
LEMMA DeathStep ==
    ASSUME InductiveInvariant, NEW p \in Consumers, ProcessDies(p),
           UNCHANGED <<outbox, relay, bound, sent, processed, feed>>,
           disturbances' \in 0..MaxDisturbances,
           emitted' \in [Events -> Nat],
           \A e \in Events : emitted'[e] <= feed[e],
           \A h \in Handlers \ p : handler[h].pc = "emit" => emitted'[handler[h].event] = 0
    PROVE  InductiveInvariant'
<1> USE DEF InductiveInvariant
<1>1. /\ p \in SUBSET Handlers /\ Requeue(p)
      /\ online' = online \ {p} /\ dead' = dead \cup {p}
      /\ handler' = [h \in Handlers |-> IF h \in p THEN IdleHandler ELSE handler[h]]
  BY DeliveryAssumption DEF ProcessDies
<1>2. IdleHandler \in HandlerStates /\ IdleHandler.pc = "idle"
  BY DEF IdleHandler, HandlerStates
<1>3. ready' \in [Events -> Nat]
  BY <1>1, Requeued
<1>4. TypeOK'
  <2>1. handler' \in [Handlers -> HandlerStates]
    BY <1>1, <1>2 DEF TypeOK
  <2> QED BY <1>1, <1>3, <2>1 DEF TypeOK
<1>5. \A e \in Events : ready'[e] > 0 => e \in Committed
  BY <1>1, Requeued DEF QueueConsistent, HandlersConsistent
<1>6. \A e \in Events : InGoodHands(e) => InGoodHands(e)'
  BY <1>1, RequeueKeepsEvents
<1>7. /\ \A h \in p : handler'[h] = IdleHandler
      /\ \A h \in Handlers \ p : handler'[h] = handler[h]
      /\ \A h \in Handlers : handler'[h].pc = "emit" => emitted'[handler[h].event] = 0
  BY <1>1, <1>2
<1> QED BY <1>1, <1>4, <1>5, <1>6, <1>7, LeaveStep

\* A crash, whatever the handlers of the process were doing.
LEMMA CrashStep ==
    ASSUME InductiveInvariant, NEW p \in Consumers, ConsumerCrash(p)
    PROVE  InductiveInvariant'
<1> USE DEF InductiveInvariant
<1>1. /\ ProcessDies(p)
      /\ UNCHANGED <<outbox, relay, bound, sent, processed, feed, emitted>>
  BY DEF ConsumerCrash, inboxVars
<1>2. disturbances' \in 0..MaxDisturbances
  BY DeliveryAssumption DEF ConsumerCrash, Disturb, TypeOK
<1>3. emitted' \in [Events -> Nat] /\ \A e \in Events : emitted'[e] <= feed[e]
  BY <1>1 DEF TypeOK, EmittedAtMostOnce
<1>4. \A h \in Handlers \ p : handler[h].pc = "emit" => emitted'[handler[h].event] = 0
  BY <1>1 DEF HandlersConsistent
<1> QED BY <1>1, <1>2, <1>3, <1>4, DeathStep

\* A lost connection: the messages are in the queue again, and the handlers
\* that go on can no longer answer for them.
LEMMA DisconnectStep ==
    ASSUME InductiveInvariant, NEW p \in Consumers, Disconnect(p)
    PROVE  InductiveInvariant'
<1> USE DEF InductiveInvariant
<1>1. /\ p \in SUBSET Handlers /\ Requeue(p)
      /\ online' = online \ {p} /\ dead' = dead
      /\ handler' = [h \in Handlers |-> IF h \in p
                                        THEN [handler[h] EXCEPT !.attached = FALSE]
                                        ELSE handler[h]]
      /\ UNCHANGED <<outbox, relay, bound, sent, processed, feed, emitted>>
  BY DeliveryAssumption DEF Disconnect, inboxVars
<1>2. disturbances' \in 0..MaxDisturbances
  BY DeliveryAssumption DEF Disconnect, Disturb, TypeOK
<1>3. ready' \in [Events -> Nat]
  BY <1>1, Requeued
<1>4. TypeOK'
  <2>1. handler' \in [Handlers -> HandlerStates]
    BY <1>1 DEF TypeOK, HandlerStates
  <2> QED BY <1>1, <1>2, <1>3, <2>1 DEF TypeOK
<1>5. \A e \in Events : ready'[e] > 0 => e \in Committed
  BY <1>1, Requeued DEF QueueConsistent, HandlersConsistent
<1>6. /\ \A h \in p : handler'[h] = [handler[h] EXCEPT !.attached = FALSE]
      /\ \A h \in Handlers \ p : handler'[h] = handler[h]
  BY <1>1
<1>7. \A e \in Events : InGoodHands(e) => InGoodHands(e)'
  BY <1>1, <1>6, RequeueKeepsEvents
<1>8. \A h \in Handlers : handler'[h].pc = handler[h].pc
  BY <1>1, <1>6 DEF TypeOK, HandlerStates
<1>9. \A h \in Handlers : handler'[h].pc = "emit" => emitted'[handler[h].event] = 0
  BY <1>1, <1>8 DEF HandlersConsistent
<1>10. \A e \in Events : emitted'[e] <= feed[e]
  BY <1>1 DEF EmittedAtMostOnce
<1> QED BY <1>1, <1>4, <1>5, <1>6, <1>7, <1>9, <1>10, LeaveStep

\* The push of a new event is the first, and the event is in the inbox when
\* its message is acknowledged.
LEMMA AcknowledgeStep ==
    ASSUME InductiveInvariant, NEW p \in Consumers, NEW h \in p, Acknowledge(p, h)
    PROVE  InductiveInvariant'
<1> USE DEF InductiveInvariant
<1> DEFINE e == handler[h].event
<1>1. /\ h \in Handlers /\ handler[h] \in HandlerStates
      /\ handler[h].pc \in {"emit", "duplicate"}
      /\ UNCHANGED <<outbox, relay, bound, sent, processed, feed, disturbances>>
  BY DeliveryAssumption DEF Acknowledge, TypeOK
<1>2. e \in Events /\ e \in processed /\ feed[e] = 1
  BY <1>1 DEF HandlersConsistent, Committed, FeedMatchesInbox
<1>3. /\ emitted' \in [Events -> Nat]
      /\ \A x \in Events : emitted'[x] <= feed[x]
      /\ \A x \in Events \ {e} : emitted'[x] = emitted[x]
      /\ handler[h].pc # "emit" => emitted' = emitted
  BY <1>1, <1>2 DEF Acknowledge, TypeOK, HandlersConsistent, EmittedAtMostOnce
<1>4. \A g \in Handlers \ {h} : handler[g].pc = "emit" =>
         handler[g].event \in Events /\ emitted'[handler[g].event] = 0
  BY <1>1, <1>3 DEF HandlersConsistent, HandlersApart, Committed
<1> HIDE DEF e
<1>5. CASE handler' = [handler EXCEPT ![h] = IdleHandler] /\ UNCHANGED <<ready, online, dead>>
  <2>1. IdleHandler \in HandlerStates /\ IdleHandler.pc = "idle"
    BY DEF IdleHandler, HandlerStates
  <2>2. /\ handler' \in [Handlers -> HandlerStates] /\ handler'[h] = IdleHandler
        /\ \A g \in Handlers \ {h} : handler'[g] = handler[g]
    BY <1>1, <1>5, <2>1 DEF TypeOK
  <2>3. TypeOK'
    BY <1>1, <1>3, <1>5, <2>2 DEF TypeOK
  <2>4. \A x \in Events : InGoodHands(x) => InGoodHands(x)'
    <3> SUFFICES ASSUME NEW x \in Events, InGoodHands(x) PROVE InGoodHands(x)'
      OBVIOUS
    <3>1. CASE x \in processed \/ ready[x] > 0
      BY <1>1, <1>5, <3>1 DEF InGoodHands
    <3>2. CASE \E g \in Handlers : handler[g].attached /\ handler[g].event = x
      BY <1>1, <1>2, <2>2, <3>2 DEF InGoodHands, e
    <3> QED BY <3>1, <3>2 DEF InGoodHands
  <2>5. \A g \in Handlers : handler'[g].pc = "emit" => emitted'[handler[g].event] = 0
    BY <1>4, <2>1, <2>2
  <2>6. \A x \in Events : ready'[x] > 0 => x \in Committed
    BY <1>5 DEF QueueConsistent
  <2>7. {h} \in SUBSET Handlers
    BY <1>1
  <2> QED BY <1>1, <1>3, <2>2, <2>3, <2>4, <2>5, <2>6, <2>7, LeaveStep
<1>6. CASE ProcessDies(p)
  <2>1. disturbances' \in 0..MaxDisturbances
    BY <1>1 DEF TypeOK
  <2>2. \A g \in Handlers \ p : handler[g].pc = "emit" => emitted'[handler[g].event] = 0
    BY <1>4
  <2> QED BY <1>1, <1>3, <1>6, <2>1, <2>2, DeathStep
<1> QED BY <1>5, <1>6 DEF Acknowledge, AckThrows

\* A failed transaction is rolled back, and its message goes back.
LEMMA FailStep ==
    ASSUME InductiveInvariant, NEW p \in Consumers, NEW h \in p, HandlerFails(p, h)
    PROVE  InductiveInvariant'
<1> USE DEF InductiveInvariant
<1>1. /\ h \in Handlers
      /\ UNCHANGED <<outbox, relay, bound, sent, processed, feed, emitted>>
  BY DeliveryAssumption DEF HandlerFails, inboxVars
<1>2. disturbances' \in 0..MaxDisturbances
  BY DeliveryAssumption DEF HandlerFails, Disturb, TypeOK
<1>3. /\ emitted' \in [Events -> Nat] /\ \A e \in Events : emitted'[e] <= feed[e]
      /\ \A g \in Handlers : handler[g].pc = "emit" => emitted'[handler[g].event] = 0
  BY <1>1 DEF TypeOK, EmittedAtMostOnce, HandlersConsistent
<1>4. CASE /\ Requeue({h}) /\ UNCHANGED <<online, dead>>
           /\ handler' = [handler EXCEPT ![h] = IdleHandler]
  <2>1. IdleHandler \in HandlerStates /\ IdleHandler.pc = "idle"
    BY DEF IdleHandler, HandlerStates
  <2>2. /\ handler' \in [Handlers -> HandlerStates] /\ handler'[h] = IdleHandler
        /\ \A g \in Handlers \ {h} : handler'[g] = handler[g]
    BY <1>1, <1>4, <2>1 DEF TypeOK
  <2>3. {h} \in SUBSET Handlers
    BY <1>1
  <2>4. /\ ready' \in [Events -> Nat]
        /\ \A e \in Events : ready'[e] > 0 => e \in Committed
    BY <1>4, <2>3, Requeued DEF QueueConsistent, HandlersConsistent
  <2>5. TypeOK'
    BY <1>1, <1>2, <1>4, <2>2, <2>4 DEF TypeOK
  <2>6. \A e \in Events : InGoodHands(e) => InGoodHands(e)'
    BY <1>1, <1>4, <2>2, <2>3, RequeueKeepsEvents
  <2>7. \A g \in Handlers : handler'[g].pc = "emit" => emitted'[handler[g].event] = 0
    BY <1>3, <2>1, <2>2
  <2> QED BY <1>1, <1>3, <2>2, <2>3, <2>4, <2>5, <2>6, <2>7, LeaveStep
<1>5. CASE ProcessDies(p)
  BY <1>1, <1>2, <1>3, <1>5, DeathStep
<1> QED BY <1>4, <1>5 DEF HandlerFails, AckThrows

-----------------------------------------------------------------------------
(* The theorems *)

\* Every step of the delivery preserves the inductive invariant.
LEMMA InvariantStep == InductiveInvariant /\ [Next]_vars => InductiveInvariant'
<1> SUFFICES ASSUME InductiveInvariant, [Next]_vars PROVE InductiveInvariant'
  OBVIOUS
<1>1. ASSUME NEW e \in Events, Enqueue(e) \/ LockExpires(e) \/ BackoffEnds(e)
      PROVE  InductiveInvariant'
  BY <1>1, RowStep
<1>2. ASSUME NEW r \in Relays,
             \/ Claim(r) \/ RelayStep(r)
             \/ \E e \in Events : PublishFails(r, e)
             \/ DatabaseError(r) \/ RelayCrash(r)
      PROVE  InductiveInvariant'
  BY <1>2, ClaimStep, PublishStep, MarkStep, RelayFailure DEF RelayStep
<1>3. ASSUME NEW p \in Consumers, ConsumerStep(p)
      PROVE  InductiveInvariant'
  <2>1. p \in SUBSET Handlers
    BY DeliveryAssumption
  <2> QED BY <1>3, <2>1, ConfigureStep, DisconnectStep, CrashStep, DeliverStep, InsertStep,
             RecordStep, AcknowledgeStep, FailStep DEF ConsumerStep, HandlerStep
<1>4. CASE UNCHANGED vars
  <2>1. UNCHANGED <<outbox, relay, bound, ready, sent, online, dead, handler, processed,
                    feed, emitted, disturbances>>
    BY <1>4 DEF vars, brokerVars, consumerVars, inboxVars
  <2> QED BY <2>1 DEF InductiveInvariant, TypeOK, RelaysConsistent, HandlersConsistent,
             HandlersApart, QueueConsistent, FeedMatchesInbox, EmittedAtMostOnce,
             QueueKeeps, NothingLost, Relied, InGoodHands, Committed
<1> QED BY <1>1, <1>2, <1>3, <1>4 DEF Next

\* The inductive invariant holds initially.
LEMMA InvariantInit == Init => InductiveInvariant
<1> SUFFICES ASSUME Init PROVE InductiveInvariant
  OBVIOUS
<1>1. TypeOK
  BY DeliveryAssumption DEF Init, TypeOK, NoRow, Rows, IdleRelay, RelayStates, IdleHandler,
                            HandlerStates
<1>2. RelaysConsistent /\ HandlersConsistent /\ HandlersApart
  BY DEF Init, RelaysConsistent, HandlersConsistent, HandlersApart, IdleRelay, IdleHandler
<1>3. QueueConsistent /\ FeedMatchesInbox /\ EmittedAtMostOnce
  BY DEF Init, QueueConsistent, FeedMatchesInbox, EmittedAtMostOnce
<1>4. QueueKeeps
  BY DEF Init, QueueKeeps, NothingLost, Relied, NoRow, IdleRelay
<1> QED BY <1>1, <1>2, <1>3, <1>4 DEF InductiveInvariant

\* The invariant of the delivery chain, for any number of relays, consumers
\* and disturbances.
THEOREM InvariantHolds == Spec => []InductiveInvariant
<1> QED BY InvariantInit, InvariantStep, PTL DEF Spec

\* If a consumer has declared the queue before the first event, then no event
\* that an outbox has marked as published is ever lost.
THEOREM NoEventLost == Spec => [](QueueDeclared => NothingLost)
<1>1. InductiveInvariant => (QueueDeclared => NothingLost)
  BY DEF InductiveInvariant, QueueKeeps
<1> QED BY <1>1, InvariantHolds, PTL

\* An event has one feed item if it is in the inbox, and none otherwise.
THEOREM FeedItemsOnce == Spec => []FeedMatchesInbox
<1>1. InductiveInvariant => FeedMatchesInbox
  BY DEF InductiveInvariant
<1> QED BY <1>1, InvariantHolds, PTL

\* No event is pushed to the sockets twice, or without a feed item.
THEOREM PushedAtMostOnce == Spec => []EmittedAtMostOnce
<1>1. InductiveInvariant => EmittedAtMostOnce
  BY DEF InductiveInvariant
<1> QED BY <1>1, InvariantHolds, PTL

\* Only Enqueue commits an event, and only Record shows one: every other step
\* leaves the abstract feed alone.
LEMMA FeedStep ==
    InductiveInvariant /\ [Next]_vars => [Feed!Next]_(Feed!vars)
<1> SUFFICES ASSUME InductiveInvariant, [Next]_vars PROVE Feed!Next \/ UNCHANGED Feed!vars
  OBVIOUS
<1> USE DEF InductiveInvariant, Feed!vars
<1>0. ASSUME \A x \in Events : outbox'[x].state = outbox[x].state, feed' = feed
      PROVE  UNCHANGED Feed!vars
  BY <1>0, SameStates
<1>1. ASSUME NEW e \in Events, Enqueue(e)
      PROVE  Feed!Next
  <2>1. e \notin Committed /\ feed' = feed
    BY <1>1 DEF Enqueue, Committed, inboxVars
  <2>2. Committed' = Committed \cup {e}
    BY <1>1 DEF Enqueue, Committed, TypeOK, Rows
  <2> QED BY <2>1, <2>2 DEF Feed!Next, Feed!Commit
<1>2. ASSUME NEW e \in Events, LockExpires(e) \/ BackoffEnds(e)
      PROVE  UNCHANGED Feed!vars
  <2>1. /\ feed' = feed
        /\ \/ outbox' = [outbox EXCEPT ![e].locked = FALSE]
           \/ outbox' = [outbox EXCEPT ![e].due = TRUE]
    BY <1>2 DEF LockExpires, BackoffEnds, inboxVars
  <2>2. \A x \in Events : outbox'[x].state = outbox[x].state
    BY <2>1 DEF TypeOK, Rows
  <2> QED BY <1>0, <2>1, <2>2
<1>3. ASSUME NEW r \in Relays,
             \/ Claim(r) \/ DatabaseError(r) \/ RelayCrash(r)
             \/ \E e \in Events : Publish(r, e) \/ PublishFails(r, e)
      PROVE  UNCHANGED Feed!vars
  <2>1. feed' = feed
    BY <1>3 DEF Claim, DatabaseError, RelayCrash, Publish, PublishFails, inboxVars
  <2>2. \A x \in Events : outbox'[x].state = outbox[x].state
    <3>1. CASE Claim(r)
      <4> PICK batch \in SUBSET {e \in Events : Claimable(e)} :
             outbox' = [e \in Events |->
                           IF e \in batch
                           THEN [outbox[e] EXCEPT !.lock = r, !.locked = TRUE]
                           ELSE outbox[e]]
        BY <3>1 DEF Claim
      <4> QED BY DEF TypeOK, Rows
    <3>2. CASE DatabaseError(r) \/ RelayCrash(r)
      BY <3>2 DEF DatabaseError, RelayCrash, Abandon, TypeOK, Rows
    <3>3. CASE \E e \in Events : Publish(r, e) \/ PublishFails(r, e)
      BY <3>3 DEF Publish, PublishFails
    <3> QED BY <1>3, <3>1, <3>2, <3>3
  <2> QED BY <1>0, <2>1, <2>2
<1>4. ASSUME NEW r \in Relays, MarkPublished(r) \/ MarkFailed(r)
      PROVE  UNCHANGED Feed!vars
  <2> DEFINE e == relay[r].current
  <2>1. e \in Committed /\ feed' = feed
    BY <1>4 DEF MarkPublished, MarkFailed, RelaysConsistent, inboxVars
  <2>2. \/ outbox' = outbox
        \/ \E row : /\ outbox' = [outbox EXCEPT ![e] = row]
                    /\ row.state \in {"published", outbox[e].state}
    BY <1>4 DEF MarkPublished, MarkFailed, UpdateLocked
  <2> HIDE DEF e
  <2>3. \A x \in Events : outbox'[x].state # "absent" <=> outbox[x].state # "absent"
    BY <2>1, <2>2 DEF Committed, TypeOK
  <2> QED BY <2>1, <2>3 DEF Committed
<1>5. ASSUME NEW h \in Handlers, Record(h)
      PROVE  Feed!Next
  <2> DEFINE e == handler[h].event
  <2>1. e \in Committed /\ e \in Events /\ e \notin processed
    BY <1>5 DEF Record, HandlersConsistent, Committed
  <2>2. feed[e] = 0
    BY <2>1 DEF FeedMatchesInbox
  <2>3. feed' = [feed EXCEPT ![e] = 1] /\ outbox' = outbox
    BY <1>5, <2>2 DEF Record
  <2>4. Committed' = Committed
    BY <2>3 DEF Committed
  <2> QED BY <2>1, <2>2, <2>3, <2>4 DEF Feed!Next, Feed!Show
<1>6. ASSUME NEW p \in Consumers,
             \/ Configure(p) \/ Restart(p) \/ Disconnect(p) \/ ConsumerCrash(p)
             \/ \E h \in p : \/ InsertMarker(h) \/ Acknowledge(p, h) \/ HandlerFails(p, h)
                             \/ \E e \in Events : Deliver(p, h, e)
      PROVE  UNCHANGED Feed!vars
  <2>1. feed' = feed /\ outbox' = outbox
    BY <1>6 DEF Configure, Restart, Disconnect, ConsumerCrash, InsertMarker, Acknowledge,
                HandlerFails, Deliver, inboxVars
  <2> QED BY <1>0, <2>1
<1>7. CASE UNCHANGED vars
  BY <1>0, <1>7 DEF vars, inboxVars
<1>8. \A p \in Consumers : p \subseteq Handlers
  BY DeliveryAssumption
<1>9. ASSUME NEW p \in Consumers, ConsumerStep(p)
      PROVE  Feed!Next \/ UNCHANGED Feed!vars
  BY <1>5, <1>6, <1>8, <1>9 DEF ConsumerStep, HandlerStep
<1> QED BY <1>1, <1>2, <1>3, <1>4, <1>7, <1>9 DEF Next, RelayStep

\* Outbox, relays, broker and consumers together implement the reliable feed.
THEOREM Refinement == Spec => ImplementsReliableFeed
<1>1. Init => Feed!Init
  BY DEF Init, NoRow, Committed, Feed!Init
<1> QED BY <1>1, FeedStep, InvariantHolds, PTL DEF Spec, ImplementsReliableFeed, Feed!Spec

-----------------------------------------------------------------------------
(* Duplicates *)

\* What a relay has claimed and will still send, unless it fails.
Todo(r) == relay[r].batch \ {relay[r].current}
Senders(e) == {r \in Relays : e \in Todo(r)}

\* No relay will claim the event again, unless there is a disturbance.
Covered(e) ==
    \/ outbox[e].state = "published"
    \/ /\ outbox[e].locked
       /\ \E r \in Relays : /\ outbox[e].lock = r
                            /\ e \in Todo(r) \/ (relay[r].pc = "mark" /\ relay[r].current = e)

\* A lock is held by a relay that has the event in its batch.
LocksHeld ==
    /\ \A r \in Relays : /\ relay[r].pc = "idle" => relay[r].batch = {}
                         /\ relay[r].pc \in {"idle", "batch"} => relay[r].current = NoEvent
    /\ \A e \in Events, r \in Relays :
          outbox[e].lock = r => e \in relay[r].batch /\ outbox[e].state = "waiting"

\* What was sent, is about to be sent, and may be claimed and sent anew is more
\* than one only through disturbances.
SendsPaidFor(e) ==
    /\ IsFiniteSet(Senders(e))
    /\ sent[e] + Cardinality(Senders(e)) + (IF Covered(e) THEN 0 ELSE 1) <= 1 + disturbances

\* The strengthening of DuplicatesPaidFor.
SendInvariant == LocksHeld /\ \A e \in Events : SendsPaidFor(e)

\* The numbers in SendsPaidFor are numbers.
LEMMA SendTypes ==
    ASSUME TypeOK, NEW e \in Events, IsFiniteSet(Senders(e))
    PROVE  sent[e] \in Nat /\ disturbances \in Nat /\ Cardinality(Senders(e)) \in Nat
BY DeliveryAssumption, FS_CardinalityType DEF TypeOK

\* The step adds no sender, and the event stays covered unless disturbed.
LEMMA NoNewSender ==
    ASSUME TypeOK, TypeOK', NEW e \in Events, SendsPaidFor(e),
           Senders(e)' \subseteq Senders(e), sent'[e] = sent[e],
           \/ disturbances' = disturbances /\ (Covered(e) => Covered(e)')
           \/ disturbances' = disturbances + 1
    PROVE  SendsPaidFor(e)'
<1>1. /\ IsFiniteSet(Senders(e)') /\ IsFiniteSet(Senders(e))
      /\ Cardinality(Senders(e)') <= Cardinality(Senders(e))
  BY FS_Subset DEF SendsPaidFor
<1>2. /\ sent[e] \in Nat /\ disturbances \in Nat /\ Cardinality(Senders(e)) \in Nat
      /\ Cardinality(Senders(e)') \in Nat
  BY <1>1, SendTypes, FS_CardinalityType
<1> QED BY <1>1, <1>2 DEF SendsPaidFor

\* A sender sends.
LEMMA SenderSends ==
    ASSUME TypeOK, NEW e \in Events, SendsPaidFor(e), NEW r \in Senders(e),
           Senders(e)' = Senders(e) \ {r}, sent'[e] \in {sent[e], sent[e] + 1},
           \/ disturbances' = disturbances /\ (Covered(e) => Covered(e)')
           \/ disturbances' = disturbances + 1
    PROVE  SendsPaidFor(e)'
<1>1. /\ IsFiniteSet(Senders(e)') /\ IsFiniteSet(Senders(e))
      /\ Cardinality(Senders(e)') = Cardinality(Senders(e)) - 1
  BY FS_RemoveElement DEF SendsPaidFor
<1>2. sent[e] \in Nat /\ disturbances \in Nat /\ Cardinality(Senders(e)) \in Nat
  BY <1>1, SendTypes
<1> QED BY <1>1, <1>2 DEF SendsPaidFor

\* An event that may be claimed is claimed.
LEMMA SenderClaims ==
    ASSUME TypeOK, NEW e \in Events, SendsPaidFor(e), NEW r \in Relays,
           Senders(e)' = Senders(e) \cup {r}, sent'[e] = sent[e],
           disturbances' = disturbances, ~Covered(e), Covered(e)'
    PROVE  SendsPaidFor(e)'
<1>1. /\ IsFiniteSet(Senders(e)') /\ IsFiniteSet(Senders(e))
      /\ Cardinality(Senders(e)') <= Cardinality(Senders(e)) + 1
      /\ Cardinality(Senders(e)) \in Nat /\ Cardinality(Senders(e)') \in Nat
  <2>1. IsFiniteSet(Senders(e))
    BY DEF SendsPaidFor
  <2>2. Cardinality(Senders(e)) \in Nat
    BY <2>1, FS_CardinalityType
  <2> QED BY <2>1, <2>2, FS_AddElement, SMTT(30)
<1>2. sent[e] \in Nat /\ disturbances \in Nat
  BY <1>1, SendTypes
<1> QED BY <1>1, <1>2 DEF SendsPaidFor

\* What a relay's state says, written out.
LEMMA RelayFacts ==
    ASSUME InductiveInvariant, LocksHeld, NEW r \in Relays
    PROVE  /\ relay[r] \in RelayStates /\ relay \in [Relays -> RelayStates]
           /\ outbox \in [Events -> Rows]
           /\ relay[r].pc \in {"idle", "batch", "mark", "fail"}
           /\ relay[r].pc = "idle" => relay[r].batch = {}
           /\ relay[r].pc \in {"idle", "batch"} => relay[r].current = NoEvent
           /\ relay[r].pc \in {"mark", "fail"} => relay[r].current \in relay[r].batch
           /\ relay[r].batch \subseteq Events
           /\ NoEvent \notin Events
BY DeliveryAssumption DEF InductiveInvariant, TypeOK, RelaysConsistent, LocksHeld, RelayStates

\* One relay changes, with what it claims; the rows it has no lock on stay.
LEMMA OtherRelays ==
    ASSUME NEW r \in Relays, \A q \in Relays \ {r} : relay'[q] = relay[q], NEW e \in Events
    PROVE  /\ e \in Todo(r)' <=> e \in Todo(r) => Senders(e)' = Senders(e)
           /\ e \notin Todo(r)' => Senders(e)' = Senders(e) \ {r}
           /\ e \in Todo(r)' => Senders(e)' = Senders(e) \cup {r}
           /\ outbox[e].lock # r /\ outbox'[e] = outbox[e] => (Covered(e) => Covered(e)')
BY DEF Senders, Todo, Covered

\* Claiming: a free row gets a lock and one sender.
LEMMA ClaimSends ==
    ASSUME InductiveInvariant, TypeOK', SendInvariant, NEW r \in Relays, Claim(r)
    PROVE  SendInvariant'
<1> USE DEF InductiveInvariant, SendInvariant
<1>0. /\ relay \in [Relays -> RelayStates] /\ outbox \in [Events -> Rows]
      /\ relay[r].batch = {} /\ NoEvent \notin Events /\ UNCHANGED <<sent, disturbances>>
  BY RelayFacts DEF Claim, brokerVars
<1>1. PICK batch \in SUBSET {e \in Events : Claimable(e)} :
        /\ outbox' = [e \in Events |->
                         IF e \in batch
                         THEN [outbox[e] EXCEPT !.lock = r, !.locked = TRUE]
                         ELSE outbox[e]]
        /\ relay' = [relay EXCEPT ![r] = [pc |-> "batch", batch |-> batch,
                                          current |-> NoEvent]]
        /\ batch # {}
  BY DEF Claim
<1>2. /\ relay'[r] = [pc |-> "batch", batch |-> batch, current |-> NoEvent]
      /\ \A q \in Relays \ {r} : relay'[q] = relay[q]
  BY <1>0, <1>1
<1>3. ASSUME NEW e \in batch
      PROVE  /\ outbox'[e].lock = r /\ outbox'[e].locked /\ outbox'[e].state = "waiting"
             /\ outbox[e].state = "waiting" /\ ~outbox[e].locked /\ e \in Events
  <2>1. e \in Events /\ outbox[e].state = "waiting" /\ ~outbox[e].locked
    BY DEF Claimable
  <2>2. outbox'[e] = [outbox[e] EXCEPT !.lock = r, !.locked = TRUE] /\ outbox[e] \in Rows
    BY <1>0, <1>1, <2>1
  <2> QED BY <2>1, <2>2 DEF Rows
<1>4. ASSUME NEW e \in Events \ batch PROVE outbox'[e] = outbox[e] /\ outbox[e].lock # r
  <2>1. outbox'[e] = outbox[e]
    BY <1>1
  <2>2. outbox[e].lock # r
    BY <1>0 DEF LocksHeld
  <2> QED BY <2>1, <2>2
<1>5. LocksHeld'
  <2>1. ASSUME NEW q \in Relays
        PROVE  /\ relay'[q].pc = "idle" => relay'[q].batch = {}
               /\ relay'[q].pc \in {"idle", "batch"} => relay'[q].current = NoEvent
    BY <1>2 DEF LocksHeld
  <2>2. ASSUME NEW e \in Events, NEW q \in Relays, outbox'[e].lock = q
        PROVE  e \in relay'[q].batch /\ outbox'[e].state = "waiting"
    <3>1. CASE e \in batch
      BY <1>2, <1>3, <2>2, <3>1
    <3>2. CASE e \notin batch
      BY <1>2, <1>4, <2>2, <3>2 DEF LocksHeld
    <3> QED BY <3>1, <3>2
  <2> QED BY <2>1, <2>2 DEF LocksHeld
<1>6. ASSUME NEW e \in Events PROVE SendsPaidFor(e)'
  <2>1. CASE e \in batch
    <3>1. e \in Todo(r)'
      BY <1>0, <1>2, <2>1 DEF Todo
    <3>2. ~Covered(e)
      BY <1>3, <2>1 DEF Covered
    <3>3. Covered(e)'
      BY <1>3, <2>1, <3>1 DEF Covered
    <3>4. Senders(e)' = Senders(e) \cup {r}
      BY <1>2, <3>1, OtherRelays
    <3> QED BY <1>0, <3>2, <3>3, <3>4, SenderClaims
  <2>2. CASE e \notin batch
    <3>1. e \notin Todo(r)'
      BY <1>2, <2>2 DEF Todo
    <3>2. Senders(e)' = Senders(e) \ {r} /\ (Covered(e) => Covered(e)')
      BY <1>2, <1>4, <2>2, <3>1, OtherRelays
    <3> QED BY <1>0, <3>2, NoNewSender
  <2> QED BY <2>1, <2>2
<1> QED BY <1>5, <1>6

\* Sending, whether the relay learns of its success or not.
LEMMA PublishSends ==
    ASSUME InductiveInvariant, TypeOK', SendInvariant, NEW r \in Relays, NEW e \in Events,
           Publish(r, e) \/ PublishFails(r, e)
    PROVE  SendInvariant'
<1> USE DEF InductiveInvariant, SendInvariant
<1>0. /\ relay \in [Relays -> RelayStates] /\ relay[r] \in RelayStates
      /\ relay[r].pc = "batch" /\ e \in relay[r].batch /\ relay[r].current = NoEvent
      /\ NoEvent \notin Events /\ outbox' = outbox
  BY RelayFacts DEF Publish, PublishFails
<1>1. PICK pc \in {"mark", "fail"} :
        /\ relay' = [relay EXCEPT ![r].pc = pc, ![r].current = e]
        /\ (pc = "mark" /\ disturbances' = disturbances) \/ disturbances' = disturbances + 1
  BY DEF Publish, PublishFails, Disturb
<1>2. /\ relay'[r].pc = pc /\ relay'[r].current = e /\ relay'[r].batch = relay[r].batch
      /\ \A q \in Relays \ {r} : relay'[q] = relay[q]
  BY <1>0, <1>1 DEF RelayStates
<1>3. /\ sent'[e] \in {sent[e], sent[e] + 1}
      /\ \A x \in Events \ {e} : sent'[x] = sent[x]
  BY DEF Publish, PublishFails, BrokerAccepts, brokerVars, TypeOK
<1>4. LocksHeld'
  BY <1>0, <1>1, <1>2 DEF LocksHeld
<1>5. SendsPaidFor(e)'
  <2>1. e \in Todo(r) /\ e \notin Todo(r)'
    BY <1>0, <1>2 DEF Todo
  <2>2. Senders(e)' = Senders(e) \ {r} /\ r \in Senders(e)
    BY <1>2, <2>1, OtherRelays DEF Senders
  <2>3. pc = "mark" => (Covered(e) => Covered(e)')
    <3>1. CASE outbox[e].lock = r
      BY <1>0, <1>2, <3>1 DEF Covered
    <3>2. CASE outbox[e].lock # r
      BY <1>0, <1>2, <3>2, OtherRelays
    <3> QED BY <3>1, <3>2
  <2> QED BY <1>1, <1>3, <2>2, <2>3, SenderSends
<1>6. ASSUME NEW x \in Events \ {e} PROVE SendsPaidFor(x)'
  <2>1. x \in Todo(r)' <=> x \in Todo(r)
    BY <1>0, <1>2 DEF Todo
  <2>2. Senders(x)' = Senders(x)
    BY <1>2, <2>1, OtherRelays
  <2>3. Covered(x) => Covered(x)'
    <3>1. CASE outbox[x].lock = r
      BY <1>0, <2>1, <3>1 DEF Covered
    <3>2. CASE outbox[x].lock # r
      BY <1>0, <1>2, <3>2, OtherRelays
    <3> QED BY <3>1, <3>2
  <2> QED BY <1>1, <1>3, <2>2, <2>3, NoNewSender
<1> QED BY <1>4, <1>5, <1>6

\* The row of the event that was sent is updated, if it is still locked.
LEMMA MarkSends ==
    ASSUME InductiveInvariant, TypeOK', SendInvariant, NEW r \in Relays,
           MarkPublished(r) \/ MarkFailed(r)
    PROVE  SendInvariant'
<1> USE DEF InductiveInvariant, SendInvariant
<1> DEFINE e == relay[r].current
           rest == relay[r].batch \ {e}
<1>0. /\ relay \in [Relays -> RelayStates] /\ outbox \in [Events -> Rows]
      /\ e \in Events /\ e \in relay[r].batch /\ NoEvent \notin Events
      /\ relay[r].batch \subseteq Events
      /\ UNCHANGED <<sent, disturbances>>
  BY RelayFacts DEF MarkPublished, MarkFailed, brokerVars
<1>1. relay' = [relay EXCEPT ![r] = [pc |-> IF rest = {} THEN "idle" ELSE "batch",
                                     batch |-> rest, current |-> NoEvent]]
  BY DEF MarkPublished, MarkFailed, NextMessage
<1>2. PICK row : /\ outbox' = IF outbox[e].lock = r THEN [outbox EXCEPT ![e] = row] ELSE outbox
                 /\ row.lock = NoLock
                 /\ row.state = "published" \/ relay[r].pc = "fail"
  BY DEF MarkPublished, MarkFailed, UpdateLocked
<1>3. /\ relay'[r].pc = IF rest = {} THEN "idle" ELSE "batch"
      /\ relay'[r].batch = rest /\ relay'[r].current = NoEvent
      /\ \A q \in Relays \ {r} : relay'[q] = relay[q]
  BY <1>0, <1>1
<1>4. /\ outbox[e].lock = r => outbox'[e] = row
      /\ outbox[e].lock # r => outbox'[e] = outbox[e]
      /\ \A x \in Events \ {e} : outbox'[x] = outbox[x]
  BY <1>0, <1>2
<1>5. NoLock \notin Relays
  BY DeliveryAssumption
<1> HIDE DEF e, rest
<1>6. LocksHeld'
  <2>1. ASSUME NEW q \in Relays
        PROVE  /\ relay'[q].pc = "idle" => relay'[q].batch = {}
               /\ relay'[q].pc \in {"idle", "batch"} => relay'[q].current = NoEvent
    BY <1>3 DEF LocksHeld
  <2>2. ASSUME NEW x \in Events, NEW q \in Relays, outbox'[x].lock = q
        PROVE  x \in relay'[q].batch /\ outbox'[x].state = "waiting"
    <3>1. outbox'[x] = outbox[x] /\ ~(x = e /\ q = r)
      BY <1>2, <1>4, <1>5, <2>2
    <3>2. x \in relay[q].batch /\ outbox[x].state = "waiting"
      BY <2>2, <3>1 DEF LocksHeld
    <3>3. CASE q = r
      BY <1>3, <3>1, <3>2, <3>3 DEF rest
    <3>4. CASE q # r
      BY <1>3, <3>1, <3>2, <3>4
    <3> QED BY <3>3, <3>4
  <2> QED BY <2>1, <2>2 DEF LocksHeld
<1>7. ASSUME NEW x \in Events PROVE SendsPaidFor(x)'
  <2>1. x \in Todo(r)' <=> x \in Todo(r)
    BY <1>0, <1>3 DEF Todo, rest, e
  <2>2. Senders(x)' = Senders(x)
    BY <1>3, <2>1, OtherRelays
  <2>3. Covered(x) => Covered(x)'
    <3>1. CASE outbox[x].lock # r
      <4>1. outbox'[x] = outbox[x]
        BY <1>4, <3>1
      <4> QED BY <1>3, <3>1, <4>1, OtherRelays
    <3>2. CASE outbox[x].lock = r /\ x # e
      <4>1. outbox'[x] = outbox[x] /\ outbox[x].state = "waiting"
        BY <1>4, <3>2 DEF LocksHeld
      <4>2. Covered(x) => x \in Todo(r) /\ outbox[x].locked
        BY <3>2, <4>1 DEF Covered, e
      <4> QED BY <2>1, <3>2, <4>1, <4>2 DEF Covered
    <3>3. CASE outbox[x].lock = r /\ x = e
      <4>1. outbox[x].state = "waiting" /\ x \notin Todo(r)
        BY <3>3 DEF LocksHeld, Todo, e
      <4>2. CASE row.state = "published"
        BY <1>4, <3>3, <4>2 DEF Covered
      <4>3. CASE relay[r].pc = "fail"
        BY <3>3, <4>1, <4>3 DEF Covered
      <4> QED BY <1>2, <4>2, <4>3
    <3> QED BY <3>1, <3>2, <3>3
  <2> QED BY <1>0, <2>2, <2>3, NoNewSender
<1> QED BY <1>6, <1>7

\* A relay whose UPDATE fails, or that dies, is a disturbance.
LEMMA RelayFailureSends ==
    ASSUME InductiveInvariant, TypeOK', SendInvariant, NEW r \in Relays,
           DatabaseError(r) \/ RelayCrash(r)
    PROVE  SendInvariant'
<1> USE DEF InductiveInvariant, SendInvariant
<1>0. /\ relay \in [Relays -> RelayStates] /\ outbox \in [Events -> Rows]
      /\ relay[r] \in RelayStates
      /\ disturbances' = disturbances + 1 /\ UNCHANGED sent
  BY RelayFacts DEF DatabaseError, RelayCrash, Disturb, brokerVars
<1>1. CASE relay[r].pc = "mark" /\ relay' = [relay EXCEPT ![r].pc = "fail"] /\ UNCHANGED outbox
  <2>1. /\ relay'[r].pc = "fail" /\ relay'[r].batch = relay[r].batch
        /\ relay'[r].current = relay[r].current
        /\ \A q \in Relays \ {r} : relay'[q] = relay[q]
    BY <1>0, <1>1 DEF RelayStates
  <2>2. LocksHeld'
    BY <1>1, <2>1 DEF LocksHeld
  <2>3. \A e \in Events : Senders(e)' = Senders(e)
    BY <2>1 DEF Senders, Todo
  <2> QED BY <1>0, <2>2, <2>3, NoNewSender
<1>2. CASE Abandon(r)
  <2>1. relay'[r] = IdleRelay /\ \A q \in Relays \ {r} : relay'[q] = relay[q]
    BY <1>0, <1>2 DEF Abandon
  <2>2. ASSUME NEW e \in Events
        PROVE  /\ outbox[e].lock = r => outbox'[e].lock = Gone
               /\ outbox[e].lock # r => outbox'[e] = outbox[e]
    <3>1. outbox'[e] = IF outbox[e].lock = r THEN [outbox[e] EXCEPT !.lock = Gone] ELSE outbox[e]
      BY <1>2 DEF Abandon
    <3>2. outbox[e] \in Rows
      BY <1>0
    <3> QED BY <3>1, <3>2 DEF Rows
  <2>3. LocksHeld'
    <3>1. ASSUME NEW q \in Relays
          PROVE  /\ relay'[q].pc = "idle" => relay'[q].batch = {}
                 /\ relay'[q].pc \in {"idle", "batch"} => relay'[q].current = NoEvent
      BY <2>1 DEF LocksHeld, IdleRelay
    <3>2. ASSUME NEW e \in Events, NEW q \in Relays, outbox'[e].lock = q
          PROVE  e \in relay'[q].batch /\ outbox'[e].state = "waiting"
      BY <2>1, <2>2, <3>2, DeliveryAssumption DEF LocksHeld
    <3> QED BY <3>1, <3>2 DEF LocksHeld
  <2>4. \A e \in Events : Senders(e)' \subseteq Senders(e)
    BY <2>1 DEF Senders, Todo, IdleRelay
  <2> QED BY <1>0, <2>3, <2>4, NoNewSender
<1> QED BY <1>1, <1>2 DEF DatabaseError, RelayCrash

\* A new row, an expired lock, the end of a delay.
LEMMA RowSends ==
    ASSUME InductiveInvariant, TypeOK', SendInvariant, NEW e \in Events,
           Enqueue(e) \/ LockExpires(e) \/ BackoffEnds(e)
    PROVE  SendInvariant'
<1> USE DEF InductiveInvariant, SendInvariant
<1>0. /\ outbox \in [Events -> Rows] /\ outbox[e] \in Rows
      /\ UNCHANGED <<relay, sent>>
  BY DEF TypeOK, Enqueue, LockExpires, BackoffEnds, brokerVars
<1>1. /\ \A x \in Events \ {e} : outbox'[x] = outbox[x]
      /\ outbox'[e].lock = outbox[e].lock
      /\ outbox'[e].state = IF Enqueue(e) THEN "waiting" ELSE outbox[e].state
      /\ ~LockExpires(e) => outbox'[e].locked = outbox[e].locked
  <2>1. CASE Enqueue(e)
    BY <1>0, <2>1 DEF Enqueue, LockExpires, Rows
  <2>2. CASE LockExpires(e)
    BY <1>0, <2>2 DEF Enqueue, LockExpires, Rows
  <2>3. CASE BackoffEnds(e)
    BY <1>0, <2>3 DEF Enqueue, BackoffEnds, Rows
  <2> QED BY <2>1, <2>2, <2>3
<1>2. LocksHeld'
  BY <1>0, <1>1 DEF LocksHeld, Enqueue
<1>3. \A x \in Events : Senders(x)' = Senders(x)
  BY <1>0 DEF Senders, Todo
<1>4. ASSUME NEW x \in Events
      PROVE  \/ disturbances' = disturbances /\ (Covered(x) => Covered(x)')
             \/ disturbances' = disturbances + 1
  <2>1. CASE x # e
    <3>1. Covered(x) => Covered(x)'
      BY <1>0, <1>1, <2>1 DEF Covered, Todo
    <3> QED BY <3>1 DEF Enqueue, LockExpires, BackoffEnds, Disturb
  <2>2. CASE x = e /\ LockExpires(e)
    <3>1. CASE outbox[e].lock \in Relays
      BY <2>2, <3>1 DEF LockExpires, Disturb
    <3>2. CASE outbox[e].lock \notin Relays
      <4>1. Covered(x) => outbox[x].state = "published"
        BY <2>2, <3>2 DEF Covered
      <4>2. outbox'[x].state = outbox[x].state \/ outbox[x].state = "absent"
        BY <1>1, <2>2 DEF Enqueue
      <4>3. Covered(x) => Covered(x)'
        BY <4>1, <4>2 DEF Covered
      <4> QED BY <2>2, <3>2, <4>3 DEF LockExpires
    <3> QED BY <3>1, <3>2
  <2>3. CASE x = e /\ ~LockExpires(e)
    <3>1. Covered(x) => outbox[x].state # "absent"
      BY DEF Covered, LocksHeld
    <3>2. Covered(x) => Covered(x)'
      BY <1>0, <1>1, <2>3, <3>1 DEF Covered, Todo, Enqueue
    <3>3. disturbances' = disturbances
      BY <2>3 DEF Enqueue, BackoffEnds
    <3> QED BY <3>2, <3>3
  <2> QED BY <2>1, <2>2, <2>3
<1> QED BY <1>0, <1>2, <1>3, <1>4, NoNewSender

\* Consumers send nothing.
LEMMA ConsumerSends ==
    ASSUME InductiveInvariant, TypeOK', SendInvariant, UNCHANGED <<outbox, relay, sent>>,
           disturbances' \in {disturbances, disturbances + 1}
    PROVE  SendInvariant'
<1> USE DEF InductiveInvariant, SendInvariant
<1>1. LocksHeld'
  BY DEF LocksHeld
<1>2. \A e \in Events : Senders(e)' = Senders(e) /\ Covered(e)' = Covered(e)
  BY DEF Senders, Todo, Covered
<1> QED BY <1>1, <1>2, NoNewSender

\* Every step preserves the strengthening.
LEMMA SendStep ==
    ASSUME InductiveInvariant, SendInvariant, [Next]_vars
    PROVE  SendInvariant'
<1>0. TypeOK'
  BY InvariantStep DEF InductiveInvariant
<1>1. ASSUME NEW p \in Consumers, ConsumerStep(p) PROVE SendInvariant'
  <2>1. UNCHANGED <<outbox, relay, sent>> /\ disturbances' \in {disturbances, disturbances + 1}
    BY <1>1 DEF ConsumerStep, HandlerStep, Configure, Restart, Disconnect, ConsumerCrash,
                Deliver, InsertMarker, Record, Acknowledge, HandlerFails, Disturb, brokerVars
  <2> QED BY <1>0, <2>1, ConsumerSends
<1>2. CASE UNCHANGED vars
  BY <1>0, <1>2, ConsumerSends DEF vars, brokerVars
<1> QED BY <1>0, <1>1, <1>2, RowSends, ClaimSends, PublishSends, MarkSends, RelayFailureSends
        DEF Next, RelayStep

\* An event is sent at most once more than there are disturbances: the lock
\* keeps relays apart.
THEOREM DuplicatesAlwaysPaidFor == Spec => []DuplicatesPaidFor
<1>1. Init => SendInvariant
  <2> SUFFICES ASSUME Init PROVE SendInvariant
    OBVIOUS
  <2>1. LocksHeld
    BY DeliveryAssumption DEF Init, LocksHeld, NoRow, IdleRelay
  <2>2. ASSUME NEW e \in Events PROVE SendsPaidFor(e)
    <3>1. Senders(e) = {}
      BY DEF Init, Senders, Todo, IdleRelay
    <3>2. sent[e] = 0 /\ disturbances = 0
      BY DEF Init
    <3> QED BY <3>1, <3>2, FS_EmptySet DEF SendsPaidFor
  <2> QED BY <2>1, <2>2 DEF SendInvariant
<1>2. InductiveInvariant /\ SendInvariant /\ [Next]_vars => SendInvariant'
  BY SendStep
<1>3. InductiveInvariant /\ SendInvariant => DuplicatesPaidFor
  <2> SUFFICES ASSUME InductiveInvariant, SendInvariant, NEW e \in Events
               PROVE  sent[e] <= 1 + disturbances
    BY DEF DuplicatesPaidFor
  <2>1. SendsPaidFor(e) /\ TypeOK
    BY DEF SendInvariant, InductiveInvariant
  <2>2. sent[e] \in Nat /\ disturbances \in Nat /\ Cardinality(Senders(e)) \in Nat
    BY <2>1, SendTypes DEF SendsPaidFor
  <2> QED BY <2>1, <2>2 DEF SendsPaidFor
<1> QED BY <1>1, <1>2, <1>3, InvariantHolds, PTL DEF Spec
=============================================================================
