# A verification project for p2p-ledger

TLA+ models of the parts of p2p-ledger that decide where the money is, TLC
configurations that check them on small instances, and TLAPS proofs of their
main properties for every value of the constants.

## 1. The system

| Component | State it keeps | Operations | Hard because |
|---|---|---|---|
| **Transfer saga** (payments-service, `transfer-saga.service.ts`) | one row of `transfers`: status, retry count, resolved receiver, `hold_may_exist`, version, lease | `run` (one per HTTP request and per recovery tick, in any number of processes), `recoverDue` | runs race on one row; leases expire in mid-step; every step ends in a ledger call that may be lost, late or repeated; crashes |
| **Ledger gateway** (`ledger.gateway.ts`) | circuit breaker counters | `validate`, `placeHold`, `settle`, `release` with timeout, retry, backoff | an aborted request may still be executed |
| **Wallet aggregate** (ledger-service, `wallet.aggregate.ts`) | balance, holds, version, replayed from events | deposit, withdraw, place, release, consume | funds reserved and spent by different commands |
| **Event store** (`event-store.service.ts`) | `ledger_events`, unique (stream, version) | append with expected version, load | optimistic concurrency in READ COMMITTED transactions |
| **Wallet commands** (`wallets.service.ts`) | `wallet_balance_projection`, `integration_outbox`, `ledger_transfer_settlements` | create, deposit, withdraw, holds, settle, release | one transaction writes two streams and four tables; retries; deadlocks |
| **Outbox relays** (both services) | `integration_outbox` rows with lock and attempts | claim, publish, mark | crash between publish and mark, lock expiry |
| **Notifications** (`rabbitmq-consumer`, `inbox`, `activity-feed`, realtime gateway) | `processed_messages`, `activity_feed_items`, a connection | consume, dedupe, record, emit, reconnect | redelivery, lost emissions, reconnect |
| **Transfer creation** (`transfers.service.ts`, `fx-quote.ts`; in the browser `transfer-form`, `split-bill-detail`, `idempotency.ts`) | `transfers`, unique (sender, key) and (share); a key per form | submit, retry, poll; create, pay share | the browser gives up on requests that go on; concurrent requests with one key or one share |
| **Split bills and reminders** (`split-bills/`) | bills, shares, reminders | create, pay share, detect overdue | a status derived from rows that others change; several processes scan |
| **Ledger maintenance** (`admin/`) | none of its own | rebuild all projections, reconcile a wallet | snapshots and row locks beside running commands |
| **Activity page** (`activity-feed.service.ts`, realtime gateway, `activity-feed.tsx`, `live-refresh.tsx`) | feed rows; a socket; what the page shows | list with cursors, push, connect, load more | responses in any order, pushes that nobody hears |
| **Authentication, rate limits, gateway, observability** | little or none | | |

How they interact: the frontend calls the stateless gateway, which calls
payments and ledger over HTTP.  The saga calls the ledger over HTTP with the
transfer id as command id; the ledger never calls back.  Both services insert
integration events into their outbox in the transaction that changes their
state; a relay publishes them to RabbitMQ, and notifications turns each into a
feed item and a WebSocket message.  Users can also reach wallets and holds
directly (`wallets.controller.ts`), the holds of their transfers included.

What makes each part correct:

* saga: the reported outcome is final and true, the row moves only along
  `ALLOWED_TRANSITIONS`, one Completed event, no hold without a record of it,
  bounded attempts, and every transfer ends;
* ledger: no overspending, every committed event can be replayed, projections
  and outbox equal the events, a settlement moves its money once and on both
  sides, a hold is reserved once and ends once, every command is answered;
* delivery: no event is lost, one feed item per event;
* creation: one transfer per intent and per share, whatever is retried, and the
  form shows the truth and in the end the outcome;
* split bills: shares add up, what is announced is true, an overdue share is
  reminded of once;
* maintenance: a rebuild repairs and never damages; false alarms can be told;
* activity page: consecutive pages show every row once, and no item stays unseen
  without a reason.

The hazards, line by line, are listed in `PROJECT.json`.

## 2. Modules

| Module | Contents |
|---|---|
| `AtomicTransfer` | abstract: what a transfer promises its users |
| `TransferSaga`, `TransferSagaProofs` | saga, gateway client, and the ledger's answers, for one transfer |
| `HoldLifecycle` | abstract: what the ledger promises the saga about one transfer's hold |
| `WalletLedger`, `WalletLedgerProofs` | aggregate, event store and wallet commands, several wallets and transfers |
| `ReliableFeed` | abstract: what outbox, broker and inbox promise together |
| `EventDelivery`, `EventDeliveryProofs` | outbox rows, relays, broker queue, consumers, inbox, feed, push |
| `SharePayment` | abstract: what transfer creation and the saga promise split bills about a share |
| `TransferCreation`, `TransferCreationProofs` | forms, idempotency keys, the requests in payments-service, the FX quote |
| `SplitBills`, `SplitBillsProofs` | one bill: creation, payment of its shares, announcements, reminders |
| `LedgerMaintenance`, `LedgerMaintenanceProofs` | rebuilds and reconciliations beside commands |
| `ActivityPage`, `ActivityPageProofs` | the feed query, its cursors, the socket, and the component that shows the pages |
| `MC*` | instances for TLC |

The three layers of the payment path are joined by abstract specifications:
`WalletLedger` implements `HoldLifecycle`, on which `TransferSaga` rests (its
own ledger implements it too, so the two agree on what a hold may do);
`TransferSaga` implements `AtomicTransfer`, which is all that `TransferCreation`
uses of it (a transfer is open until it is Completed or Failed);
`TransferCreation` implements `SharePayment`, on which `SplitBills` rests, and
which the payments in `SplitBills` are shown to keep to.  The
rows that `SplitBills` and `TransferSaga` put into the outbox are the events of
`EventDelivery`, and the feed rows of `EventDelivery` those of `ActivityPage`.

Definitions that start with "Mutant:" in their comment are deliberate
deviations from the code.  No specification uses them; replacing the
definition that follows by its mutant makes TLC report the property that
`PROJECT.json` names with it, which shows that the property constrains the code.

### TransferSaga

One transfer is modelled, because runs of different transfers share no state
(they share the circuit breaker, which is abstracted).  `row`, `leaseOwner`,
`leaseLive` and `retryDue` are the columns; a `run` has the copy of the row it
read last, its turn of the loop, and where it is: at the top of the loop,
waiting for a ledger call, or about to write.  Each `await` on the database or
on the network is a step boundary.

* The version column is only compared with the version of a copy, so the set
  `fresh` of runs whose copy is current replaces it.  `CanWrite` is the WHERE
  clause of `transitionUsingManager` and `updateClaimed`; `LeaseLost` is what
  happens when it matches no row.
* `Claim` follows the code, which never returns null (finding 2 below).
* A ledger call that fails (`AttemptFails`) may leave its request in `late`,
  from where it is executed at any later time, any number of times, or never.
  The circuit breaker is abstracted to giving up at any attempt.
* The ledger's side of each command is atomic here: `hold` and `receipt`
  change as `HoldLifecycle` says, which `WalletLedger` is shown to implement.
  `LedgerSettle` may answer 409 although a receipt exists, as two concurrent
  settlements can make it do.
* The sender may use the transfer's id with the wallet API at any time: place a
  hold under it, of the transfer's amount or another one, before the saga does
  (`UserPlacesHold`), release it or consume it.  `origin` remembers who placed
  the hold.  `placeHold` accepts an existing hold of the same amount and refuses
  another (HOLD_CONFLICT); `settle` takes only a hold of the right amount
  (`Settleable`).  `HoldIsRecorded` therefore speaks of holds that the saga has
  placed; one that the sender placed is the sender's to release.
* `PolicyRejects` is the synchronous policy check; that it may fail on a retry
  after the hold was placed (the FX quote expired) is a choice in the model.
* Time is the two events `LeaseExpires` and `RetryBecomesDue`.

Two database round trips that the code makes back to back are one step: the
UPDATE of a claim or a write and the SELECT that reads the row back; and
`SKIP LOCKED` is not modelled, a run that finds the row locked starts without
the lease, as any run does while the lease is live.

### WalletLedger

A stream is represented by the aggregate it replays to, so `apply` is the
append of an event and `Applicable` says when a replay would throw.  A worker
is one command in one READ COMMITTED transaction: it looks for a receipt
(settle and release of a transfer), loads the wallet, for a settlement loads the
receiver, decides, appends with the expected version, for a settlement appends
the credit, and commits.  Each statement sees what is committed by then.  An
INSERT at a version at which another transaction has an uncommitted row waits
(`pending`); a version that is already taken is `ExpectedStreamVersionError`
and leads to another attempt, up to `MaxAttempts`.  `DeadlockVictim` is
PostgreSQL's resolution of a circle of waits.  The commit makes event, outbox
row, projection and receipt visible together.  A stale projection cannot be
written by a command, since its append would have failed: this is checked
(`ReadModelsMatch`), not assumed.  `rebuildBalanceProjection` is left out: no
code of the service calls it.

Queries only read and have no action.  Sums (`heldMinor`, and those in
`BalancesAddUp`) are defined without recursion, as the number of minor units
that are added up, so that they can be reasoned about.

### EventDelivery

Ledger and payments have the same relay code, so one set of relays stands for
both.  An `outbox` row is absent, waiting or published, and has a lock: the
claiming call of `publishBatch` takes the place of the random `lock_id`, `Gone`
that of a call that is over; `locked` and `due` compare `locked_until` and
`available_at` with the clock.  A relay claims a batch, publishes each event,
and marks it published or failed by an UPDATE that names its lock, so a relay
whose lock was taken over changes nothing (`UpdateLocked`).

The broker (external) has one durable queue, `ready`, or none until a consumer
has bound it; a message without a queue is confirmed and dropped.  A consumer
process is the set of its concurrent calls of `consume` (`Handlers`).  A call
inserts the marker, stores the feed item and commits, then pushes and
acknowledges.  The primary key of `processed_messages` makes a second INSERT
wait for the transaction of the first.  `Disconnect` returns unacknowledged
messages to the queue while the calls go on; their later ack or nack throws,
and the rejection of the floating promise ends the process (`AckThrows`).
A process that has ended is `dead` until an operator starts it (`Restart`), which
nobody has to.  Connecting and configuring is one step.  Dead-lettering is left out: the events
of both services pass the envelope check.  Each event is taken to have an owner
to push it to, as all events of both services do.

### TransferCreation

A *tab* is a mounted form, either the transfer form or the page of a split bill
on which its user pays one share.  `LogicalSubmission` keeps one key for one
intent: `begin` makes it at the first submission and returns it again until
`reset`, so a retry (after an error, a timeout, or with an edited payload)
sends the same key.  `intent` counts the resets and exists only to state
`PaidOnce`.  A random key is a number never used before; a client of the API
may instead send any key of `ApiKeys`, with as many requests as it likes.

A request is let in or refused by the guards of the controller (`canActivate`;
the counters of the rate limit are abstracted to either answer).  Then each
statement of `createCanonical` is a step: `FindShare` (for shares only),
`FindKey`, `Insert`, and for the loser of a unique constraint `FindWinner`.  An
INSERT that waits for an uncommitted row with the same key takes effect as if
it had come after it, so `Insert` is one step.  The fingerprint is compared by
the record it is computed from.  After a run of the saga the controller answers
(`Reply`); `Timeout` is the gateway's, after which the request goes on and its
answer reaches nobody.  `Poll` and `PollArrives` are `refreshStatus` of the form and
`refresh` of the bill's page, which may read the share as Unpaid; responses
overtake each other, and they may arrive after `newTransfer`.  `NewTransfer`
ignores the reset of the key while a request is under way, as the code does.

`quoteTransfer` is the code's integer arithmetic.  Amounts are unbounded, as
BigInt is.

### SplitBills

One bill, made by one of the bodies in `Requests`, which also contains bodies
that must be refused.  Shares are named by their position.  `CountPaid` is the
SELECT in the middle of the transaction that completes a share's transfer,
`CommitPaid` its commit: other shares may commit in between.  The saga is
abstracted to its end.  A reminder worker runs `detectAndEnqueue`: `Scan` is the
snapshot of its SELECT, `Lock` the row locks that `SKIP LOCKED` finds free,
`CommitReminders` the INSERT with its conflict clause and the commit.  An INSERT
of a transfer needs a key-share lock on the share it refers to, so `payShare`
waits for a worker that has locked it.  `Acceptable` leaves out two limits on the
size of a body, 100 participants and amounts up to `MAX_SAFE_INTEGER`: they only
make the code accept less.  `Total`, the code's `reduce`, counts the
minor units of all shares.

The guard of `CountPaid` that participant and creator differ is the ledger's:
`validateTransfer` refuses a transfer to the sender's own wallet.  It makes a
bill with its creator among the participants one that is never Settled.

### LedgerMaintenance

A stream is a balance and a version, a row of the projection table the same two
columns.  A command has appended its event (another command on the wallet waits
for that version) and has read the row (`Project`), then saves it and commits
(`Commit`).  TypeORM's `save` is external and modelled by its statements: it
reads the row, and then inserts it if there was none (`Refused` by the primary
key if there is one by then), updates the columns in which it differs, or sends
nothing if none does (`Issues`).  A statement that finds no row to update touches
nothing (`Touches`).  A rebuild is SERIALIZABLE: all its reads are from the
snapshot of `Snapshot`, its statements lock rows until the commit, and one on a
row that was changed after the snapshot fails.  What was not written is no
change: a command whose `save` sends nothing causes no conflict.  A
reconciliation reads stream and row by two statements.  `Damage` is what makes
maintenance necessary: a row is deleted (`NoRow`), or changed by hand or by a
restore, so that it is behind its stream, beside it or ahead of it.

### ActivityPage

One user's page.  `created` is `now()`, the begin of the consumer's
transaction, so rows may appear below rows that are older in commit order; it
has finer ticks than the milliseconds of a cursor, as microseconds are.
`listForUser` is the query with `Limit + 1` rows; its ORDER BY (`Sorted`) puts
each row at the position after the rows that are newer.  A load of the browser is
asked, answered by the query, and arrives; loads overlap.  `Rerender` is part
of every arrival: the component passes a new callback at each render, and the
effect of `LiveRefresh` depends on it, so that the socket is replaced by one
that has never been connected and, unlike the one it replaces, owes no refresh
for what was pushed while the connection was down.  `base`, `walk`, `ends` and
`fate` are history for the properties: an item is open, shown, *missed* (pushed
before the page was connected for the first time, or its push or its load
failed), or *forgotten* (pushed while a page that had been connected was not,
with no socket left that will load it).

## 3. What TLC checks

| Run | Instance | Shows |
|---|---|---|
| `saga` | two runs, three step attempts, two HTTP attempts, three disturbances, the sender may place, release or consume a hold with the transfer's id | the outcome is true and final, one Completed event, the loop's turns suffice, moves only along `ALLOWED_TRANSITIONS`, `AtomicTransfer`; the transfer ends unless the sender has consumed its hold |
| `ledger` | two workers, four commands, two wallets, two transfers in opposite directions, one across currencies, one lost connection, three attempts | no overspending, projections and outbox match, money adds up, conflicts explain retries, `HoldLifecycle`, every command is answered |
| `delivery` | two events, two relays, two consumer processes, two disturbances | nothing lost, shown or pushed twice, duplicates only after failures, `ReliableFeed`, every event is shown unless all consumers have ended for good |
| `creation` | a transfer form and a share's page of one user, random keys and one key of an API client, two submissions, two requests at a time, one crash, two status responses on their way | one transfer per intent and share, answers fit the request, losers see the winner or are share payments with a key used elsewhere, forms show the truth and in the end the outcome, fair quotes, `SharePayment` |
| `split_bills` | bills of two and three shares (equal with remainder, custom, creator included, four that are refused), two reminder workers, batch of two, one failed transaction | amounts add up, announcements are true, the status only advances, reminders come and come once |
| `maintenance` | two wallets, two rebuilds, one reconciliation, streams of three events, one row damaged or deleted | what rebuilds repair, the two ways in which a matching row is lost, false alarms show themselves |
| `feed` | three rows at three times in two milliseconds, pages of one row, two loads at a time, two disturbances | consecutive pages are complete but for one millisecond; what explains an unseen item |
| `saga_orphan_hold` | two runs, no user | **violated**: finding 1 |
| `saga_unclaimed_run` | two runs | **violated**: finding 2 |
| `delivery_unbound` | no disturbance, queue not yet bound | **violated**: finding 3 |
| `creation_reused_key` | as `creation`, safety only | **violated**: finding 4 |
| `feed_reconnect` | as `feed` | **violated**: finding 5 |

Bounds.  Two runs are what a lease protects against (an owner and one other);
three disturbances allow a failed call with a late request, an expired lease and
a crash or a resubmission in one behaviour, beside whatever the sender does with
the hold.  Three step attempts is the code's
default.  Two workers give every pairwise interleaving of two commands; three
attempts (the code has 25) put the retry loop and its end within reach of four
commands.  The opening balances are such that a second hold or withdrawal fails.
In `delivery`, two disturbances let a relay fail after publishing and the copy
meet a handler that has lost its channel.  In `creation`, two submissions are a
request and its retry beside it, or two tabs; 20 kopiykas convert to nothing
and 63 to a rounded cent.  In `split_bills`, eight cents for three leave a
remainder of two, and a batch of two leaves a third share to a second scan.  In
`maintenance`, three events let a row be ahead of its stream by one and the
stream catch up and pass it.  In
`feed`, three rows make three pages, and two of them fall into one millisecond.
The proofs do not depend on any of these bounds.  `CHECK_DEADLOCK FALSE` is set
throughout, since a terminal transfer, a paid bill, or a ledger with no command
left to begin, rightly stops; that everything does come to an end is what the
liveness properties say.  Symmetry is used over events, relays, handlers,
rebuilds and loads, only in runs without liveness.

Fairness.  `TransferSaga!Fairness`: a started run goes on, a healthy ledger
answers, the recovery timer (`setInterval`, every second) fires, leases and
retry delays expire.  Disturbances are finite in number and not fair.
`WalletLedger!Fairness`: statements are executed, PostgreSQL detects
deadlocks, and a lock is eventually granted to a waiter (strong fairness of the
appends: PostgreSQL queues waiters).  `EventDelivery!Fairness`: the poll timer
of some relay fires, calls go on, locks and delays run out, a *running* consumer
process connects (`scheduleReconnect`), and the broker delivers what is ready to
a free handler (strong fairness, as handlers come and go).  A process that has
ended owes nothing and nobody has to restart it, since neither the code nor the
compose file does; `EveryEventShown` excepts behaviours in which all of them
have ended for good, and `EventuallyVisible` (finding 8) does not.
`TransferCreation!Fairness`: requests go on, sagas end (which
`EndsUnlessConsumed` shows, up to finding 6), a transfer form polls every 1.5
seconds while its transfer is open, and responses arrive.  Users owe nothing.
`SplitBills!Fairness`: the timer of each process starts a scan every minute,
and a transaction that has begun ends; nobody has to pay.

### Findings

1. **A hold can outlive its failed transfer** (`saga_orphan_hold`).  A
   `placeHold` that timed out arrives after the compensating release, which
   found no hold and answered "released".
2. **`claim` turns nobody away** (`saga_unclaimed_run`).  `raw.length === 0` is
   never true for TypeORM's answer to an UPDATE.  The writes are still guarded
   by `lease_owner` and version, so all properties of run `saga` hold.
3. **An event published before the queue exists is lost** (`delivery_unbound`).
   The publisher sends without `mandatory`, only the consumer declares the
   queue, and nothing makes the producers wait for it; the outbox row is marked
   as published all the same.
4. **A key used for a transfer and a share at once answers 500**
   (`creation_reused_key`).  The share payment that loses on the key looks for its
   winner by the share alone; `src/README.md:158-162` promises 409.
5. **A reconnect may load nothing** (`feed_reconnect`).  A render while the socket
   is down replaces it by one that does not know that it owes a refresh;
   `src/README.md:227-229` promises one after every reconnect.

Six more have no run of their own.  For all but the seventh, a property of a
passing run names the case as its exception and shows that it is the only one.
The property in parentheses states the claim without the exception; checked in
the configuration of that run, in place of the run's properties, it makes TLC
show the behaviour (7 and 11 as INVARIANT, the others as PROPERTY; 8 with
`Consumers <- OneProcess` and `Killable = {}`).

6. **A transfer can stay in Compensating for ever** (`EventuallyTerminal`, run
   `saga`), if the sender consumes the transfer's hold through the wallet API;
   `src/ЗАВДАННЯ.md:181-182` asks that no saga hangs.
7. **The events of a bill may never say Settled** (`SettledIsAnnounced`, run
   `split_bills`).  Two shares that complete at the same time each count the other
   as unpaid (`outbox.service.ts:101-111`), and both announce PartiallyPaid.  The
   status that queries derive is right, which is what `src/README.md:192-196` says.
8. **A lost connection can end notifications for good** (`EventuallyVisible`, run
   `delivery`).  A handler that outlives its channel gets an exception from `ack`,
   and another one from `nack` (`rabbitmq-consumer.service.ts:177-189`); the promise
   is nobody's, so the process ends, and nothing in the repository starts it
   again, where `src/README.md:218-219` speaks of eventual consistency.
9. **A command can commit a wrong projection** (`CommandsKeepMatch`, run
   `maintenance`).  `save` (`wallets.service.ts:552`) updates the columns in which
   the row it has *read* differs; if a rebuild repairs a damaged row in between,
   the others keep the older values.  `src/README.md:216-217`: "strong inside one
   service transaction".
10. **A rebuild can take a matching row away** (`RebuildsKeepMatch`, run
   `maintenance`).  If the row was ahead of its stream, the command that brings the
   stream up to it writes nothing, so a rebuild with an older snapshot meets no
   conflict.  `src/README.md:112-113`: "can be rebuilt deterministically".
11. **Pages skip rows** (`WalkSkipsNothing`, run `feed`).  A cursor has milliseconds
   (`activity-feed.service.ts:77`), `created_at` has microseconds.

What the passing properties except, because the code does not exclude it:

* `EndsUnlessConsumed`: a hold that the sender has consumed (finding 6); one
  consumed by the transfer's own settlement is no excuse.
* `AnnouncedIsTrue` says that no announcement claims too much, and does not say
  that one claims enough (finding 7).
* `EveryEventShown`: all consumer processes have ended for good (finding 8).
* `LosersSeeWinners`: a share payment whose key its sender uses for something
  else (finding 4).
* `MatchStays` and `RebuildRepairs`: `StaleSave` (finding 9), `AheadInSnapshot` and
  a stream that has grown without a touch of its row (finding 10).  Both need a
  row that was damaged before; of one that never was, nothing is excepted.
* `UnseenIsExplained`: items that are missed or forgotten as defined above
  (finding 5), and those that an older response has hidden again.
* `WalkIsComplete`: rows of the millisecond in which a page ends (finding 11);
  and nothing is said of pages whose loads overlapped, because the component
  does not discard a response that is no longer wanted.
* `OverdueReminded` and `SharePayment`: a share whose payment Failed keeps that
  transfer; it can be reminded of, but never be paid again.

## 4. What is proved

All theorems hold for every value of the constants that satisfies the ASSUME of
the module: any set of runs, workers, wallets, (finitely many) holds, events,
relays, (finitely many) handlers, tabs, requests, rebuilds, loads, page sizes,
any bounds.

**TransferSaga.**  `OutcomeMatchesLedger` is not inductive: a run may be about
to store Failed while some settlement is on its way.  `InductiveInvariant` adds
what each place in the code says about the run's copy (`RunConsistent`), what
the columns say about each other (`RowConsistent`), and `SafeToFail`: a row is
Failed, or a *current* run is about to make it so, only if there is no receipt
and either the hold is released (so every settlement to come is refused) or no
settlement can come.  Stale runs need no such guarantee, because `CanWrite`
stops them.  Nothing is assumed of the sender, who may place, release and consume
a hold with the transfer's id at any time.  From it follow `OutcomeIsTrue`, `HoldAlwaysRecorded`,
`OneCompletedEvent`, `ReceiverAlwaysResolved`, `BudgetNeverExhausted` (the turn
never exceeds the rank of the status), `AttemptsBounded`,
`StatusMovesAreAllowed`, `HoldsAreSpentOnce` and `Refinement`, the
implementation of `AtomicTransfer`.  `SagaKeepsHoldLifecycle` needs types only.

**WalletLedger.**  `InductiveInvariant` says that every copy is what the stream
was at the copy's version (`CopyOf`) and that a worker with a pending append
has a *current* copy of that stream.  Its preservation uses lemmas on
`heldMinor` (finite sets) and on `apply` (`ApplySolvent`: an applicable event
keeps a wallet solvent; `DecisionSound`: what a command decides is applicable
to what it decided on).  From it follow `NeverOverspent`, `EveryCommitReplays`,
`ReadModelsAlwaysMatch` and `LedgerKeepsHoldLifecycle`, which
justifies the atomic ledger of `TransferSaga`.  `BalancesAlwaysAddUp` follows
step by step: an event changes the balance by what it exchanges with the
outside, and a settlement moves its two amounts and inserts the receipt that
accounts for them at once (`SumMore`: a receipt more adds its own amount).
`RetriesPaidFor` is not inductive, as it does not say where the commits come
from that a retry is owed to.  `RetryInvariant` counts them (`Commits`: the
events appended, less one for each settlement, which appends two), says that
commits and running commands together are no more than the commands begun, and
that a command's attempts are at most one more than the commits, and not even
that once its copy is stale: the conflict it will meet is already paid for.

**EventDelivery.**  `NothingLost` needs to know that a handler past the commit
works on a processed event (its ack may remove the last copy), and
`FeedMatchesInbox` and `EmittedAtMostOnce` that no two handlers are between
INSERT and COMMIT, or between COMMIT and push, of one event.
`InductiveInvariant` adds these (`HandlersConsistent`, `HandlersApart`), and
that relays and queue hold committed events only.  The lemma `Requeued` counts
what a dying process returns to the queue; `ProducerStep` and `ConsumerSide`
say what each side must keep for the other.  From it follow `NoEventLost` (if
the queue was declared first), `FeedItemsOnce`, `PushedAtMostOnce` and
`Refinement`.  For `DuplicatesPaidFor`, `SendInvariant` adds to what was sent of
an event the relays that have yet to send it, and one if it may be claimed
anew; it is not `Covered` by the lock of a relay that still works on it.  Only a
disturbance (a lock that runs out, a failed send or UPDATE, a crash) makes that
sum grow, by one.  It also needs `LocksHeld`: a relay that holds a lock has the
event in its batch.

**LedgerMaintenance.**  `IInv` says what a transaction may rely on: a command is one
event ahead of its stream; a row that was never damaged matches its stream, and
so does what a command has read of it; the snapshot of a rebuild has the current
row but for what is in `changed`, its streams are the current ones or shorter
(`SnapshotBehind`), what it has written is locked and unchanged, and no two
rebuilds lock one row; what a reconciliation has loaded is the stream or shorter.
`StreamsOpened`, that no stream has version 0, tells a missing row from a
projection of anything.  From it follow `AlarmsExplained`, `MatchesStay` and `RebuildsRepair`.

**TransferCreation.**  `PaidOnce` rests on keys, not on rows: `OneKey` says that
whatever has gone out for one submission of a tab, as a request or as a row,
carries one key, which is the tab's as long as the submission lasts.  So two
rows of one submission would have one sender and one key, which the unique
constraint excludes (`RowsUnique`, with the count that yields the ids).
`ViewsReflect` says that whatever is shown, or on its way to be shown, is
confirmed by a row, and stays so since rows keep their outcome.  With them,
`IInv` has what rows say of their origin, and that a request inserts only what
converts to something.  From it follow `NothingPaidTwice`, `AnswersAlwaysFit`,
`ShownIsAlwaysTrue`, `QuotesAreFair` (the lemma `QuoteRounds` covers the nine
pairs of currencies) and `Refinement`, the implementation of `SharePayment`.
`LosersAlwaysSeeWinners` is about any keys: what a request that lost had met
stays there, so it finds its winner, or it is a share payment that met the row
of something else under its key.

**SplitBills.**  What a transaction has counted may be outdated when it commits,
but is never too much: `CountsFit` says that one which has counted the bill as
Settled has seen all other shares as paid, and paid shares stay paid
(`PaidStays`).  `DerivedStatus` turns the comparison of counts into one of sets.
From `IInv` follow `AlwaysRemindedOnce`, `AnnouncementsAreTrue`,
`StatusOnlyAdvances` and `PaymentsKeepContract`, that payments behave as
`SharePayment` says.  `SharesAlwaysAddUp` is about `shareAmounts`: the units of an
equal split form a rectangle, base by participants, and a column of the
remainder beside it (`EqualUnits`), which are as many as the total
(`DivisionWithRest`).

**ActivityPage.**  First the query: no two rows have one position
(`PositionOrder`), so every position is taken (`PositionsTaken`, by counting),
and the rows come out sorted (`SortedFacts`).  `QueryFulfils` says what a page
is: the rows beyond the cursor, each once, in order, and those left out come
after the last one.  `IInv` says that this stays true of every answer on its
way, since rows keep their times (`FulfilsStays`), and of a page that is part of
a walk that nothing shown on it lies beyond its cursor (`Walked`).  A next page
then repeats nothing (`CursorAdvances`), and what it leaves out is of the
millisecond of the last item (`LostToCursor`).  That gives `WalksAreComplete`.
`UnseenAlwaysExplained` needs besides that a request without a cursor is one
that replaces the page (`LoadsFit`), and that new rows only push old ones off the
first page (`FirstPageShrinks`), so that an answer that is under way still
brings what is on the first page when it arrives.

Only model-checked: liveness (`EndsUnlessConsumed`, `EveryCommandAnswered`,
`EveryEventShown`, `OutcomeGetsShown`, `OverdueReminded`), which TLAPS cannot
prove.  Every other property of the passing runs is also a theorem
(`NothingLost` if the queue was declared first).  The
strengthenings (`InductiveInvariant`, `IInv`, `RetryInvariant`, `SendInvariant`)
were model-checked on instances like those of the runs before they were proved.

## 5. Not modelled, and what is left

* *Authentication*: registration, tokens and their refresh are library calls on
  formats; users are given in the models.
* *Rate limits* and *circuit breaker*: their counters.  What they do to a caller
  (refuse a request, give up before the last attempt) may happen at any time in
  `TransferCreation` and `TransferSaga`, so everything shown there holds for
  every setting of them.
* *Gateway*, `proxy.ts`, remaining pages: they keep no state; the one thing that
  matters, a timeout after which the upstream goes on, is in `TransferCreation`.
  The dashboard refreshes like the activity page, without pages.
* *reconcileGlobal* only sums; *rebuildBalanceProjection* has no caller.
* *Reconnect guards* of the consumer (`connecting`, timer): connecting is one
  step in `EventDelivery`.
* *POST /split-bills* has no idempotency key: a retried creation makes a second
  bill.  There is no property to state about it.
* *Observability*, *migrations*, `verify-system-correctness.mjs` (a script of
  end-to-end requests): no part of the running system.

Left for later: a composition of two sagas with `WalletLedger` in one module,
the consumer's reconnect guards.
