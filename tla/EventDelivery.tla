--------------------------- MODULE EventDelivery ---------------------------
(***************************************************************************)
(* The way of an integration event from a service's transaction to the     *)
(* activity feed: the row of integration_outbox, the relays that publish   *)
(* it (publishBatch, in any number of processes), the broker's durable     *)
(* queue, and the consumers of notifications-service with their inbox.     *)
(*                                                                         *)
(* Ledger and payments have the same relay; which of them an event comes   *)
(* from makes no difference.  The lock_id of a claim is represented by the *)
(* relay that made it, and by Gone once that call of publishBatch is over. *)
(* A handler is one call of consume, for one unacknowledged message within *)
(* the prefetch limit; a consumer is a process of notifications-service,   *)
(* given as the set of its handlers.                                       *)
(***************************************************************************)
EXTENDS Naturals, FiniteSets

CONSTANTS
    Events,          \* integration events
    Relays,          \* slots for concurrent calls of publishBatch
    NoLock,          \* lock_id IS NULL
    Gone,            \* lock_id of a call that is over
    NoEvent,         \* no event
    Handlers,        \* slots for concurrent calls of consume
    Consumers,       \* the processes that make these calls
    Killable,        \* those that may be killed from outside
    BatchSize,       \* LIMIT of a claim
    QueueDeclared,   \* a consumer has bound the queue before the first event
    MaxDisturbances  \* bound on crashes, lost connections, failed writes, ...

ASSUME DeliveryAssumption ==
    /\ NoLock \notin Relays
    /\ Gone \notin Relays
    /\ NoLock # Gone
    /\ NoEvent \notin Events
    /\ IsFiniteSet(Handlers)
    /\ Consumers \subseteq SUBSET Handlers
    /\ Killable \subseteq Consumers
    /\ \A p, q \in Consumers : p # q => p \cap q = {}
    /\ BatchSize \in Nat \ {0}
    /\ QueueDeclared \in BOOLEAN
    /\ MaxDisturbances \in Nat

VARIABLES
    outbox,        \* event |-> its row of integration_outbox
    relay,         \* the local state of each call of publishBatch
    bound,         \* the queue exists and is bound to the exchange
    ready,         \* event |-> copies in the queue that wait for delivery
    online,        \* the consumers that have a connection
    dead,          \* the consumers whose process has ended
    handler,       \* the local state of each call of consume
    processed,     \* processed_messages
    feed,          \* event |-> its rows of activity_feed
    emitted,       \* event |-> how often it was pushed to the user's sockets
    sent,          \* event |-> how often the broker accepted it
    disturbances   \* how many of MaxDisturbances have happened

brokerVars == <<bound, ready, sent>>
consumerVars == <<online, dead, handler>>
inboxVars == <<processed, feed, emitted>>
vars == <<outbox, relay, brokerVars, consumerVars, inboxVars, disturbances>>

\* A row is absent until its event is committed; locked means that
\* locked_until has not passed, due that available_at has.
Rows == [state: {"absent", "waiting", "published"},
         lock: Relays \cup {NoLock, Gone}, locked: BOOLEAN, due: BOOLEAN]

NoRow == [state |-> "absent", lock |-> NoLock, locked |-> FALSE, due |-> TRUE]

\* batch holds what the relay has claimed and not yet dealt with.
RelayStates == [pc: {"idle", "batch", "mark", "fail"}, batch: SUBSET Events,
                current: Events \cup {NoEvent}]

IdleRelay == [pc |-> "idle", batch |-> {}, current |-> NoEvent]

\* attached: the channel the message came by is still open.
HandlerStates == [pc: {"idle", "insert", "record", "emit", "duplicate"},
                  event: Events \cup {NoEvent}, attached: BOOLEAN]

IdleHandler == [pc |-> "idle", event |-> NoEvent, attached |-> FALSE]

Init ==
    /\ outbox = [e \in Events |-> NoRow]
    /\ relay = [r \in Relays |-> IdleRelay]
    /\ bound = QueueDeclared
    /\ ready = [e \in Events |-> 0]
    /\ online = {}
    /\ dead = {}
    /\ handler = [h \in Handlers |-> IdleHandler]
    /\ processed = {}
    /\ feed = [e \in Events |-> 0]
    /\ emitted = [e \in Events |-> 0]
    /\ sent = [e \in Events |-> 0]
    /\ disturbances = 0

Disturb == disturbances < MaxDisturbances /\ disturbances' = disturbances + 1

-----------------------------------------------------------------------------
(* The outbox and its relays *)

\* enqueueWalletEvents, enqueueTransferCompleted and the others: the row is
\* inserted in the transaction that changes the service's state.
Enqueue(e) ==
    /\ outbox[e].state = "absent"
    /\ outbox' = [outbox EXCEPT ![e].state = "waiting"]
    /\ UNCHANGED <<relay, brokerVars, consumerVars, inboxVars, disturbances>>

\* Mutant: rows that another relay is working on are candidates too.
ClaimableLocked(e) == outbox[e].state = "waiting" /\ outbox[e].due

\* Mutant: the lock of a dead relay is respected for ever.
ClaimableUnlocked(e) ==
    /\ outbox[e].state = "waiting"
    /\ outbox[e].due
    /\ outbox[e].lock = NoLock

Claimable(e) ==
    /\ outbox[e].state = "waiting"
    /\ outbox[e].due
    /\ ~outbox[e].locked

\* Mutant: published_at is set before the broker has confirmed.
ClaimPublished(r) ==
    /\ relay[r].pc = "idle"
    /\ \E e \in {c \in Events : Claimable(c)} :
          /\ outbox' = [outbox EXCEPT ![e].state = "published"]
          /\ relay' = [relay EXCEPT ![r] = [pc |-> "batch", batch |-> {e},
                                            current |-> NoEvent]]
    /\ UNCHANGED <<brokerVars, consumerVars, inboxVars, disturbances>>

\* claim.  Which candidates are the oldest depends on clocks, and SKIP LOCKED
\* passes over those another transaction is writing: any choice is possible.
Claim(r) ==
    /\ relay[r].pc = "idle"
    /\ \E batch \in SUBSET {e \in Events : Claimable(e)} :
          /\ batch # {}
          /\ Cardinality(batch) <= BatchSize
          /\ outbox' = [e \in Events |->
                           IF e \in batch
                           THEN [outbox[e] EXCEPT !.lock = r, !.locked = TRUE]
                           ELSE outbox[e]]
          /\ relay' = [relay EXCEPT ![r] = [pc |-> "batch", batch |-> batch,
                                            current |-> NoEvent]]
    /\ UNCHANGED <<brokerVars, consumerVars, inboxVars, disturbances>>

\* The broker accepts a persistent message.  The exchange has one queue or
\* none: without a queue the message is confirmed and dropped.
BrokerAccepts(e) ==
    /\ ready' = IF bound THEN [ready EXCEPT ![e] = @ + 1] ELSE ready
    /\ sent' = [sent EXCEPT ![e] = @ + 1]
    /\ UNCHANGED bound

\* publisher.publish resolves: the broker has confirmed.
Publish(r, e) ==
    /\ relay[r].pc = "batch"
    /\ e \in relay[r].batch
    /\ BrokerAccepts(e)
    /\ relay' = [relay EXCEPT ![r].pc = "mark", ![r].current = e]
    /\ UNCHANGED <<outbox, consumerVars, inboxVars, disturbances>>

\* publisher.publish throws; the broker may have accepted the message.
PublishFails(r, e) ==
    /\ relay[r].pc = "batch"
    /\ e \in relay[r].batch
    /\ Disturb
    /\ BrokerAccepts(e) \/ UNCHANGED brokerVars
    /\ relay' = [relay EXCEPT ![r].pc = "fail", ![r].current = e]
    /\ UNCHANGED <<outbox, consumerVars, inboxVars>>

\* The loop goes on to the next message, or publishBatch is over.
NextMessage(r) ==
    LET rest == relay[r].batch \ {relay[r].current}
    IN  relay' = [relay EXCEPT ![r] =
                     [pc |-> IF rest = {} THEN "idle" ELSE "batch",
                      batch |-> rest, current |-> NoEvent]]

\* UPDATE ... WHERE event_id AND lock_id: no row, and no error, if another
\* relay has claimed the event since.
UpdateLocked(r, row) ==
    LET e == relay[r].current
    IN  outbox' = IF outbox[e].lock = r THEN [outbox EXCEPT ![e] = row] ELSE outbox

MarkPublished(r) ==
    /\ relay[r].pc = "mark"
    /\ UpdateLocked(r, [state |-> "published", lock |-> NoLock, locked |-> FALSE,
                        due |-> outbox[relay[r].current].due])
    /\ NextMessage(r)
    /\ UNCHANGED <<brokerVars, consumerVars, inboxVars, disturbances>>

\* The catch block: available_at is moved on, and the lock is given up.
MarkFailed(r) ==
    /\ relay[r].pc = "fail"
    /\ UpdateLocked(r, [state |-> outbox[relay[r].current].state, lock |-> NoLock,
                        locked |-> FALSE, due |-> FALSE])
    /\ NextMessage(r)
    /\ UNCHANGED <<brokerVars, consumerVars, inboxVars, disturbances>>

\* publishBatch ends early: its other rows stay locked by an id nobody has.
Abandon(r) ==
    /\ relay' = [relay EXCEPT ![r] = IdleRelay]
    /\ outbox' = [e \in Events |-> IF outbox[e].lock = r
                                   THEN [outbox[e] EXCEPT !.lock = Gone] ELSE outbox[e]]

\* A failed UPDATE after publishing is treated like a failed publication; one
\* in the catch block ends publishBatch.
DatabaseError(r) ==
    /\ Disturb
    /\ \/ /\ relay[r].pc = "mark"
          /\ relay' = [relay EXCEPT ![r].pc = "fail"]
          /\ UNCHANGED outbox
       \/ relay[r].pc = "fail" /\ Abandon(r)
    /\ UNCHANGED <<brokerVars, consumerVars, inboxVars>>

RelayCrash(r) ==
    /\ relay[r].pc # "idle"
    /\ Disturb
    /\ Abandon(r)
    /\ UNCHANGED <<brokerVars, consumerVars, inboxVars>>

\* locked_until passes.  That the relay is still at work is a disturbance.
LockExpires(e) ==
    /\ outbox[e].locked
    /\ outbox' = [outbox EXCEPT ![e].locked = FALSE]
    /\ IF outbox[e].lock \in Relays THEN Disturb ELSE UNCHANGED disturbances
    /\ UNCHANGED <<relay, brokerVars, consumerVars, inboxVars>>

\* available_at passes.
BackoffEnds(e) ==
    /\ ~outbox[e].due
    /\ outbox' = [outbox EXCEPT ![e].due = TRUE]
    /\ UNCHANGED <<relay, brokerVars, consumerVars, inboxVars, disturbances>>

-----------------------------------------------------------------------------
(* The broker and the consumers *)

\* connectOrSchedule: a running process (re)connects; configure declares and
\* binds the durable queue, if need be, and starts to consume.
Configure(p) ==
    /\ p \notin online \cup dead
    /\ online' = online \cup {p}
    /\ bound' = TRUE
    /\ UNCHANGED <<outbox, relay, ready, sent, dead, handler, inboxVars, disturbances>>

\* An operator starts a process that has ended: nothing in the repository does.
Restart(p) ==
    /\ p \in dead
    /\ dead' = dead \ {p}
    /\ UNCHANGED <<outbox, relay, brokerVars, online, handler, inboxVars, disturbances>>

Deliver(p, h, e) ==
    /\ p \in online
    /\ handler[h].pc = "idle"
    /\ ready[e] > 0
    /\ ready' = [ready EXCEPT ![e] = @ - 1]
    /\ handler' = [handler EXCEPT ![h] = [pc |-> "insert", event |-> e,
                                          attached |-> TRUE]]
    /\ UNCHANGED <<outbox, relay, bound, sent, online, dead, inboxVars, disturbances>>

\* Mutant: look for the marker, and insert it without a unique key.
InsertMarkerUnchecked(h) ==
    /\ handler[h].pc = "insert"
    /\ handler' = [handler EXCEPT ![h].pc = IF handler[h].event \in processed
                                            THEN "duplicate" ELSE "record"]
    /\ UNCHANGED <<outbox, relay, brokerVars, online, dead, inboxVars, disturbances>>

\* INSERT INTO processed_messages ... ON CONFLICT DO NOTHING waits for the end
\* of another transaction that has inserted the same id.
InsertMarker(h) ==
    LET e == handler[h].event
    IN  /\ handler[h].pc = "insert"
        /\ \A g \in Handlers : handler[g].pc = "record" => handler[g].event # e
        /\ handler' = [handler EXCEPT ![h].pc = IF e \in processed
                                                THEN "duplicate" ELSE "record"]
        /\ UNCHANGED <<outbox, relay, brokerVars, online, dead, inboxVars, disturbances>>

\* Mutant: no marker is kept.
RecordUnmarked(h) ==
    /\ handler[h].pc = "record"
    /\ feed' = [feed EXCEPT ![handler[h].event] = @ + 1]
    /\ handler' = [handler EXCEPT ![h].pc = "emit"]
    /\ UNCHANGED <<outbox, relay, brokerVars, online, dead, processed, emitted,
                   disturbances>>

\* activities.record and COMMIT: the marker and the feed item together.
Record(h) ==
    /\ handler[h].pc = "record"
    /\ processed' = processed \cup {handler[h].event}
    /\ feed' = [feed EXCEPT ![handler[h].event] = @ + 1]
    /\ handler' = [handler EXCEPT ![h].pc = "emit"]
    /\ UNCHANGED <<outbox, relay, brokerVars, online, dead, emitted, disturbances>>

\* The broker puts the unacknowledged messages of the handlers H back.
Requeue(H) ==
    ready' = [e \in Events |->
                 ready[e] + Cardinality({h \in H : handler[h].attached
                                                   /\ handler[h].event = e})]

\* The process is gone, with its connection and its open transactions.
ProcessDies(p) ==
    /\ Requeue(p)
    /\ handler' = [h \in Handlers |-> IF h \in p THEN IdleHandler ELSE handler[h]]
    /\ online' = online \ {p}
    /\ dead' = dead \cup {p}

\* ack and nack throw on a closed channel: the rejected promise of consume is
\* nobody's, which ends the process.
AckThrows(p, h) == ~handler[h].attached /\ ProcessDies(p)

\* Mutant: duplicates are pushed to the sockets as well.
AcknowledgeEmitting(p, h) ==
    /\ handler[h].pc \in {"emit", "duplicate"}
    /\ emitted' = [emitted EXCEPT ![handler[h].event] = @ + 1]
    /\ handler' = [handler EXCEPT ![h] = IdleHandler]
    /\ UNCHANGED <<outbox, relay, brokerVars, online, dead, processed, feed, disturbances>>

\* emitToUser, if the event was new, and ack, without a pause in between.
Acknowledge(p, h) ==
    /\ handler[h].pc \in {"emit", "duplicate"}
    /\ emitted' = IF handler[h].pc = "emit"
                  THEN [emitted EXCEPT ![handler[h].event] = @ + 1] ELSE emitted
    /\ \/ /\ handler[h].attached
          /\ handler' = [handler EXCEPT ![h] = IdleHandler]
          /\ UNCHANGED <<ready, online, dead>>
       \/ AckThrows(p, h)
    /\ UNCHANGED <<outbox, relay, bound, sent, processed, feed, disturbances>>

\* Mutant: a message whose processing failed is acknowledged.
HandlerSwallows(p, h) ==
    /\ handler[h].pc \in {"insert", "record"}
    /\ Disturb
    /\ handler' = [handler EXCEPT ![h] = IdleHandler]
    /\ UNCHANGED <<outbox, relay, brokerVars, online, dead, inboxVars>>

\* inbox.process throws: rollback, and nack with requeue.
HandlerFails(p, h) ==
    /\ handler[h].pc \in {"insert", "record"}
    /\ Disturb
    /\ \/ /\ handler[h].attached
          /\ Requeue({h})
          /\ handler' = [handler EXCEPT ![h] = IdleHandler]
          /\ UNCHANGED <<online, dead>>
       \/ AckThrows(p, h)
    /\ UNCHANGED <<outbox, relay, bound, sent, inboxVars>>

\* handleDisconnect: the broker takes back what is unacknowledged, while the
\* handlers go on.
Disconnect(p) ==
    /\ p \in online
    /\ Disturb
    /\ Requeue(p)
    /\ handler' = [h \in Handlers |-> IF h \in p
                                      THEN [handler[h] EXCEPT !.attached = FALSE]
                                      ELSE handler[h]]
    /\ online' = online \ {p}
    /\ UNCHANGED <<outbox, relay, bound, sent, dead, inboxVars>>

ConsumerCrash(p) ==
    /\ p \in Killable \ dead
    /\ Disturb
    /\ ProcessDies(p)
    /\ UNCHANGED <<outbox, relay, bound, sent, inboxVars>>

-----------------------------------------------------------------------------

RelayStep(r) == (\E e \in Events : Publish(r, e)) \/ MarkPublished(r) \/ MarkFailed(r)

HandlerStep(p, h) == InsertMarker(h) \/ Record(h) \/ Acknowledge(p, h)

ConsumerStep(p) ==
    \/ Configure(p) \/ Restart(p) \/ Disconnect(p) \/ ConsumerCrash(p)
    \/ \E h \in p : \/ \E e \in Events : Deliver(p, h, e)
                    \/ HandlerStep(p, h) \/ HandlerFails(p, h)

Next ==
    \/ \E e \in Events : Enqueue(e) \/ LockExpires(e) \/ BackoffEnds(e)
    \/ \E r \in Relays : \/ Claim(r) \/ RelayStep(r)
                         \/ \E e \in Events : PublishFails(r, e)
                         \/ DatabaseError(r) \/ RelayCrash(r)
    \/ \E p \in Consumers : ConsumerStep(p)

Spec == Init /\ [][Next]_vars

\* The poll timers fire, calls in progress go on, locks and delays run out,
\* running consumers connect (scheduleReconnect), and the broker delivers what is
\* ready.  Nobody has to restart a process that has ended.
Fairness ==
    /\ \A r \in Relays : WF_vars(RelayStep(r))
    /\ WF_vars(\E r \in Relays : Claim(r))
    /\ \A e \in Events : WF_vars(LockExpires(e)) /\ WF_vars(BackoffEnds(e))
    /\ \A p \in Consumers : /\ WF_vars(Configure(p))
                            /\ \A h \in p : WF_vars(HandlerStep(p, h))
    /\ \A e \in Events :
          SF_vars(\E p \in Consumers : \E h \in p : Deliver(p, h, e))

FairSpec == Spec /\ Fairness

-----------------------------------------------------------------------------
(* Properties *)

\* Every variable stays within its type, and events within Events.
TypeOK ==
    /\ outbox \in [Events -> Rows]
    /\ relay \in [Relays -> RelayStates]
    /\ bound \in BOOLEAN
    /\ ready \in [Events -> Nat]
    /\ online \subseteq Consumers
    /\ dead \subseteq Consumers
    /\ handler \in [Handlers -> HandlerStates]
    /\ processed \subseteq Events
    /\ feed \in [Events -> Nat]
    /\ emitted \in [Events -> Nat]
    /\ sent \in [Events -> Nat]
    /\ disturbances \in 0..MaxDisturbances

Committed == {e \in Events : outbox[e].state # "absent"}

\* The producer may never publish the event again.
Relied(e) ==
    \/ outbox[e].state = "published"
    \/ \E r \in Relays : relay[r].pc = "mark" /\ relay[r].current = e

\* The event is in the inbox, in the queue, or with a handler whose death
\* would put it back into the queue.
InGoodHands(e) ==
    \/ e \in processed
    \/ ready[e] > 0
    \/ \E h \in Handlers : handler[h].attached /\ handler[h].event = e

\* No event is lost between published_at in the outbox and the inbox, whatever
\* crashes, fails or is disconnected.
NothingLost == \A e \in Events : Relied(e) => InGoodHands(e)

\* The marker of an event and its feed item come together, and once: relays
\* may publish it twice, the broker may redeliver it while a handler that has
\* lost its channel is still at work on it.
FeedMatchesInbox ==
    \A e \in Events : feed[e] = IF e \in processed THEN 1 ELSE 0

\* The user's sockets get an event at most once, and only if it is in the feed.
EmittedAtMostOnce == \A e \in Events : emitted[e] <= feed[e]

\* Without a failure an event is sent once: the lock keeps relays apart.
DuplicatesPaidFor == \A e \in Events : sent[e] <= 1 + disturbances

\* What a relay has in hand is committed; the current event is part of it.
RelaysConsistent ==
    \A r \in Relays :
        /\ relay[r].batch \subseteq Committed
        /\ relay[r].pc \in {"mark", "fail"} => relay[r].current \in relay[r].batch

\* What the place of a handler in consume says about the inbox.
HandlersConsistent ==
    \A h \in Handlers :
        LET e == handler[h].event
        IN  /\ handler[h].pc = "idle" => ~handler[h].attached
            /\ handler[h].pc # "idle" => e \in Committed
            /\ handler[h].pc = "record" => e \notin processed
            /\ handler[h].pc \in {"emit", "duplicate"} => e \in processed
            /\ handler[h].pc = "emit" => emitted[e] = 0

\* No two handlers are past the marker of the same event.
HandlersApart ==
    \A g, h \in Handlers :
        /\ g # h
        /\ handler[g].event = handler[h].event
        => /\ ~(handler[g].pc = "record" /\ handler[h].pc = "record")
           /\ ~(handler[g].pc = "emit" /\ handler[h].pc = "emit")

\* Only committed events are in the queue.
QueueConsistent == \A e \in Events : ready[e] > 0 => e \in Committed

\* If the queue is bound from the start it stays so, and nothing is lost.
QueueKeeps == QueueDeclared => bound /\ NothingLost

\* The inductive invariant from which the safety properties follow.
InductiveInvariant ==
    /\ TypeOK
    /\ RelaysConsistent
    /\ HandlersConsistent
    /\ HandlersApart
    /\ QueueConsistent
    /\ FeedMatchesInbox
    /\ EmittedAtMostOnce
    /\ QueueKeeps

\* Every committed event appears in the feed, once failures cease, unless all
\* consumer processes end and nobody restarts one.
EveryEventShown ==
    \A e \in Events : e \in Committed ~> (feed[e] = 1 \/ [](dead = Consumers))

\* README: consistency is "eventual across services -- a completed transfer may
\* appear in payments shortly before its notification becomes visible".
EventuallyVisible == \A e \in Events : e \in Committed ~> feed[e] = 1

Feed == INSTANCE ReliableFeed WITH committed <- Committed, items <- feed

\* Outbox, broker and inbox together implement a reliable feed: only committed
\* events are shown, each once.
ImplementsReliableFeed == Feed!Spec
=============================================================================
