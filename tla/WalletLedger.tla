---------------------------- MODULE WalletLedger ----------------------------
(***************************************************************************)
(* The wallets of ledger-service: WalletAggregate, the event store it is   *)
(* rehydrated from, and the commands of WalletsService that run against    *)
(* them concurrently, in any number of processes.                          *)
(*                                                                         *)
(* A stream is represented by the aggregate its replay yields: an append   *)
(* applies one event to it.  A command runs in one READ COMMITTED          *)
(* transaction of several statements, each of which sees what others have  *)
(* committed by then.  Its first INSERT at the next version of a stream    *)
(* makes every other INSERT at that version wait for its end: `pending'    *)
(* is the worker whose row the index UQ_ledger_events_stream_version       *)
(* holds back.                                                             *)
(***************************************************************************)
EXTENDS Integers, FiniteSets

CONSTANTS
    Workers,       \* slots for concurrently running commands
    Nobody,        \* no worker
    Wallets,       \* one per owner and currency
    Holds,         \* hold ids, those of transfers included
    Plan,          \* the transfers: hold id |-> [from, to, amount, credit]
    Opening,       \* existing wallets |-> their balance at the start
    Amounts,       \* amounts in minor units a user may name
    MaxAttempts,   \* MAX_CONCURRENCY_RETRIES
    MaxCommands,   \* bound on the commands begun
    MaxRollbacks   \* bound on lost connections

Transfers == DOMAIN Plan

ASSUME LedgerAssumption ==
    /\ Nobody \notin Workers
    /\ Wallets # {}
    /\ IsFiniteSet(Holds)
    /\ Transfers \subseteq Holds
    /\ \A t \in Transfers :
          /\ Plan[t].from \in Wallets
          /\ Plan[t].to \in Wallets
          /\ Plan[t].from # Plan[t].to
          /\ Plan[t].amount \in Nat \ {0}
          /\ Plan[t].credit \in Nat \ {0}
    /\ DOMAIN Opening \subseteq Wallets
    /\ \A w \in DOMAIN Opening : Opening[w] \in Nat
    /\ Amounts \subseteq Nat \ {0}
    /\ MaxAttempts \in Nat \ {0}
    /\ MaxCommands \in Nat
    /\ MaxRollbacks \in Nat

VARIABLES
    stream,        \* wallet |-> the aggregate that its events replay to
    projection,    \* wallet |-> its row of wallet_balance_projection
    outbox,        \* wallet |-> its rows of integration_outbox
    receipts,      \* ledger_transfer_settlements
    external,      \* wallet |-> what it exchanged with system:external, transfers apart
    pending,       \* wallet |-> the worker with an uncommitted append to it
    worker,        \* the local state of each command
    commands,      \* how many of MaxCommands have begun
    rollbacks      \* how many of MaxRollbacks have happened

store == <<stream, projection, outbox, receipts, external>>
vars == <<store, pending, worker, commands, rollbacks>>

-----------------------------------------------------------------------------
(* WalletAggregate *)

HoldStatus == {"none", "active", "released", "consumed"}

Aggregate == [version: Nat, balance: Int, status: [Holds -> HoldStatus],
              amount: [Holds -> Nat]]

\* WalletAggregate.empty: no WalletCreated event yet.
Empty == [version |-> 0, balance |-> 0, status |-> [h \in Holds |-> "none"],
          amount |-> [h \in Holds |-> 0]]

Active(a) == {h \in Holds : a.status[h] = "active"}

\* heldMinor: each reserved unit is a pair of an active hold and a number up
\* to the amount of that hold.
Reserved(a) == UNION {{h} \X (1..a.amount[h]) : h \in Active(a)}
heldMinor(a) == Cardinality(Reserved(a))
availableMinor(a) == a.balance - heldMinor(a)

\* The conditions under which apply does not throw.
Applicable(a, e) ==
    CASE e.kind = "WalletCreated" -> a.version = 0
      [] e.kind = "MoneyDeposited" -> a.balance + e.amount >= heldMinor(a)
      [] e.kind = "WithdrawalCompleted" -> a.balance - e.amount >= heldMinor(a)
      [] e.kind = "FundsHeld" ->
            /\ a.status[e.hold] = "none"
            /\ e.amount > 0
            /\ e.amount <= availableMinor(a)
      [] e.kind \in {"HoldReleased", "HoldConsumed"} -> a.status[e.hold] = "active"

apply(a, e) ==
    LET next == [a EXCEPT !.version = @ + 1]
    IN  CASE e.kind = "WalletCreated" -> next
          [] e.kind = "MoneyDeposited" -> [next EXCEPT !.balance = @ + e.amount]
          [] e.kind = "WithdrawalCompleted" -> [next EXCEPT !.balance = @ - e.amount]
          [] e.kind = "FundsHeld" -> [next EXCEPT !.status[e.hold] = "active",
                                                  !.amount[e.hold] = e.amount]
          [] e.kind = "HoldReleased" -> [next EXCEPT !.status[e.hold] = "released"]
          [] e.kind = "HoldConsumed" -> [next EXCEPT !.status[e.hold] = "consumed",
                                                     !.balance = @ - a.amount[e.hold]]

projectionFromAggregate(a) ==
    [balance |-> a.balance, held |-> heldMinor(a), available |-> availableMinor(a),
     version |-> a.version]

\* An operation yields an event, or nothing where there is nothing to do, or
\* it throws (a 4xx response).
NoEvent == [kind |-> "none"]
Throws == [kind |-> "throws"]

deposit(n) == [kind |-> "MoneyDeposited", amount |-> n]

\* Mutant: reserved funds can be withdrawn.
withdrawHeld(a, n) ==
    IF a.balance >= n
    THEN [kind |-> "WithdrawalCompleted", amount |-> n] ELSE Throws

withdraw(a, n) ==
    IF availableMinor(a) >= n
    THEN [kind |-> "WithdrawalCompleted", amount |-> n] ELSE Throws

\* Mutant: a hold that was released can be placed again.
placeHoldAgain(a, h, n) ==
    IF a.status[h] \in {"active", "consumed"}
    THEN IF a.amount[h] = n THEN NoEvent ELSE Throws
    ELSE IF availableMinor(a) >= n
         THEN [kind |-> "FundsHeld", hold |-> h, amount |-> n] ELSE Throws

placeHold(a, h, n) ==
    IF a.status[h] # "none"
    THEN IF a.amount[h] = n THEN NoEvent ELSE Throws
    ELSE IF availableMinor(a) >= n
         THEN [kind |-> "FundsHeld", hold |-> h, amount |-> n] ELSE Throws

releaseHold(a, h) ==
    CASE a.status[h] = "active" -> [kind |-> "HoldReleased", hold |-> h]
      [] a.status[h] = "released" -> NoEvent
      [] a.status[h] \in {"none", "consumed"} -> Throws

consumeHold(a, h) ==
    CASE a.status[h] = "active" -> [kind |-> "HoldConsumed", hold |-> h]
      [] a.status[h] = "consumed" -> NoEvent
      [] a.status[h] \in {"none", "released"} -> Throws

-----------------------------------------------------------------------------
(* Commands *)

\* create is getOrCreateForUser; place, release and consume are the hold
\* commands, of a user or of a transfer; settle and drop are settleTransfer
\* and releaseTransferHold.
Command ==
    [op: {"create"}, wallet: Wallets]
    \cup [op: {"deposit", "withdraw"}, wallet: Wallets, amount: Amounts]
    \cup [op: {"place"}, wallet: Wallets, hold: Holds, amount: Amounts]
    \cup [op: {"release", "consume"}, wallet: Wallets, hold: Holds]
    \cup {[op |-> o, wallet |-> Plan[t].from, hold |-> t, amount |-> Plan[t].amount] :
             o \in {"place", "settle", "drop"}, t \in Transfers}

\* What a command decides from the aggregate it has read.  A settlement wants
\* an active hold of the right amount; dropping a missing hold is no error.
Decision(cmd, a) ==
    IF a.version = 0
    THEN IF cmd.op = "create" THEN [kind |-> "WalletCreated"] ELSE Throws
    ELSE CASE cmd.op = "create" -> NoEvent
           [] cmd.op = "deposit" -> deposit(cmd.amount)
           [] cmd.op = "withdraw" -> withdraw(a, cmd.amount)
           [] cmd.op = "place" -> placeHold(a, cmd.hold, cmd.amount)
           [] cmd.op = "release" -> releaseHold(a, cmd.hold)
           [] cmd.op = "consume" -> consumeHold(a, cmd.hold)
           [] cmd.op = "settle" ->
                 IF a.status[cmd.hold] = "active" /\ a.amount[cmd.hold] = cmd.amount
                 THEN consumeHold(a, cmd.hold) ELSE Throws
           [] cmd.op = "drop" ->
                 IF a.status[cmd.hold] = "none" THEN NoEvent
                 ELSE releaseHold(a, cmd.hold)

\* Mutant: the receiver gets the amount in the sender's currency.
CreditUnconverted(cmd) == deposit(Plan[cmd.hold].amount)

Credit(cmd) == deposit(Plan[cmd.hold].credit)
Receiver(cmd) == Plan[cmd.hold].to

HasEvent(cmd, a) == Decision(cmd, a).kind \notin {"none", "throws"}

-----------------------------------------------------------------------------
(* The life of a command *)

Worker == [pc: {"idle", "receipt", "load", "loadReceiver", "append",
                "appendReceiver", "commit"},
           cmd: Command, mine: Aggregate, theirs: Aggregate,
           attempt: 0..MaxAttempts]

AnyCommand == [op |-> "create", wallet |-> CHOOSE w \in Wallets : TRUE]

Idle == [pc |-> "idle", cmd |-> AnyCommand, mine |-> Empty, theirs |-> Empty,
         attempt |-> 0]

\* A wallet that exists at the start was created and, if it has money, was
\* paid into once.
Opened(w) ==
    IF w \notin DOMAIN Opening THEN Empty
    ELSE [Empty EXCEPT !.version = IF Opening[w] = 0 THEN 1 ELSE 2,
                       !.balance = Opening[w]]

Init ==
    /\ stream = [w \in Wallets |-> Opened(w)]
    /\ projection = [w \in Wallets |-> projectionFromAggregate(Opened(w))]
    /\ outbox = [w \in Wallets |-> Opened(w).version]
    /\ receipts = {}
    /\ external = [w \in Wallets |-> Opened(w).balance]
    /\ pending = [w \in Wallets |-> Nobody]
    /\ worker = [c \in Workers |-> Idle]
    /\ commands = 0
    /\ rollbacks = 0

Begin(c, cmd) ==
    /\ worker[c].pc = "idle"
    /\ commands < MaxCommands
    /\ commands' = commands + 1
    /\ worker' = [worker EXCEPT ![c] =
                     [Idle EXCEPT !.pc = IF cmd.op \in {"settle", "drop"}
                                         THEN "receipt" ELSE "load",
                                  !.cmd = cmd, !.attempt = 1]]
    /\ UNCHANGED <<store, pending, rollbacks>>

\* Mutant: the transaction of an answered command stays open.
KeepTransaction(c) == c \in Workers /\ UNCHANGED pending

\* The transaction ends; what it inserted is gone unless it committed.
EndTransaction(c) ==
    pending' = [w \in Wallets |-> IF pending[w] = c THEN Nobody ELSE pending[w]]

Answer(c) ==
    /\ worker' = [worker EXCEPT ![c] = Idle]
    /\ EndTransaction(c)

\* settleTransfer and releaseTransferHold look for a receipt first.
FindReceipt(c) ==
    /\ worker[c].pc = "receipt"
    /\ IF worker[c].cmd.hold \in receipts
       THEN Answer(c)
       ELSE /\ worker' = [worker EXCEPT ![c].pc = "load"]
            /\ UNCHANGED pending
    /\ UNCHANGED <<store, commands, rollbacks>>

\* rehydrate the wallet and decide
LoadStream(c) ==
    /\ worker[c].pc = "load"
    /\ LET cmd == worker[c].cmd
           a == stream[cmd.wallet]
           next == IF cmd.op = "settle" THEN "loadReceiver" ELSE "append"
       IN  IF next = "append" /\ ~HasEvent(cmd, a)
           THEN Answer(c)
           ELSE /\ worker' = [worker EXCEPT ![c].pc = next, ![c].mine = a]
                /\ UNCHANGED pending
    /\ UNCHANGED <<store, commands, rollbacks>>

\* settleTransfer rehydrates the receiver too, by another statement.
LoadReceiver(c) ==
    /\ worker[c].pc = "loadReceiver"
    /\ LET cmd == worker[c].cmd
           a == stream[Receiver(cmd)]
       IN  IF a.version = 0 \/ ~HasEvent(cmd, worker[c].mine)
           THEN Answer(c)
           ELSE /\ worker' = [worker EXCEPT ![c].pc = "append", ![c].theirs = a]
                /\ UNCHANGED pending
    /\ UNCHANGED <<store, commands, rollbacks>>

\* Mutant: the attempts are counted from zero.
RetryOnceMore(c) ==
    LET self == worker[c]
        again == [self EXCEPT !.pc = IF self.cmd.op = "settle" THEN "receipt" ELSE "load",
                              !.mine = Empty, !.theirs = Empty, !.attempt = @ + 1]
    IN  /\ worker' = [worker EXCEPT ![c] =
                         IF self.cmd.op = "create" \/ self.attempt > MaxAttempts
                         THEN Idle ELSE again]
        /\ EndTransaction(c)

\* ExpectedStreamVersionError rolls the transaction back and tries again.  The
\* loser of a race to create a wallet answers with the winner's.
Retry(c) ==
    LET self == worker[c]
        again == [self EXCEPT !.pc = IF self.cmd.op = "settle" THEN "receipt" ELSE "load",
                              !.mine = Empty, !.theirs = Empty, !.attempt = @ + 1]
    IN  /\ worker' = [worker EXCEPT ![c] =
                         IF self.cmd.op = "create" \/ self.attempt = MaxAttempts
                         THEN Idle ELSE again]
        /\ EndTransaction(c)

\* Mutant: the next version is taken from the store, not from the aggregate.
AppendToLatest(c, w, a, next) ==
    /\ pending[w] = Nobody
    /\ pending' = [pending EXCEPT ![w] = c]
    /\ worker' = [worker EXCEPT ![c].pc = next]
    /\ UNCHANGED <<store, commands, rollbacks>>

\* Mutant: an uncommitted append of another command is a conflict.
AppendToNoWait(c, w, a, next) ==
    /\ \/ (stream[w].version # a.version \/ pending[w] # Nobody) /\ Retry(c)
       \/ /\ stream[w].version = a.version
          /\ pending[w] = Nobody
          /\ pending' = [pending EXCEPT ![w] = c]
          /\ worker' = [worker EXCEPT ![c].pc = next]
    /\ UNCHANGED <<store, commands, rollbacks>>

\* appendUsingManager with the expected version of aggregate a: a newer event
\* is a conflict, an uncommitted one must be waited for.
AppendTo(c, w, a, next) ==
    /\ \/ stream[w].version # a.version /\ Retry(c)
       \/ /\ stream[w].version = a.version
          /\ pending[w] = Nobody
          /\ pending' = [pending EXCEPT ![w] = c]
          /\ worker' = [worker EXCEPT ![c].pc = next]
    /\ UNCHANGED <<store, commands, rollbacks>>

Append(c) ==
    /\ worker[c].pc = "append"
    /\ AppendTo(c, worker[c].cmd.wallet, worker[c].mine,
                IF worker[c].cmd.op = "settle" THEN "appendReceiver" ELSE "commit")

\* Mutant: only the sender's stream is appended to with a version check.
AppendReceiverLatest(c) ==
    /\ worker[c].pc = "appendReceiver"
    /\ AppendToLatest(c, Receiver(worker[c].cmd), worker[c].theirs, "commit")

AppendReceiver(c) ==
    /\ worker[c].pc = "appendReceiver"
    /\ AppendTo(c, Receiver(worker[c].cmd), worker[c].theirs, "commit")

\* What a command exchanges with system:external outside transfers.
ExternalChange(e, a) ==
    CASE e.kind = "MoneyDeposited" -> e.amount
      [] e.kind = "WithdrawalCompleted" -> 0 - e.amount
      [] e.kind = "HoldConsumed" -> 0 - a.amount[e.hold]
      [] OTHER -> 0

\* COMMIT of a command on one wallet: event, integration event and projection.
CommitOne(c) ==
    LET w == worker[c].cmd.wallet
        mine == worker[c].mine
        e == Decision(worker[c].cmd, mine)
    IN  /\ worker[c].pc = "commit"
        /\ worker[c].cmd.op # "settle"
        /\ stream' = [stream EXCEPT ![w] = apply(@, e)]
        /\ outbox' = [outbox EXCEPT ![w] = @ + 1]
        /\ projection' = [projection EXCEPT ![w] = projectionFromAggregate(apply(mine, e))]
        /\ external' = [external EXCEPT ![w] = @ + ExternalChange(e, mine)]
        /\ Answer(c)
        /\ UNCHANGED <<receipts, commands, rollbacks>>

\* Mutant: no receipt is written.
CommitWithoutReceipt(c) ==
    LET cmd == worker[c].cmd
        w == cmd.wallet
        v == Receiver(cmd)
        debit == Decision(cmd, worker[c].mine)
    IN  /\ worker[c].pc = "commit"
        /\ cmd.op = "settle"
        /\ stream' = [stream EXCEPT ![w] = apply(@, debit), ![v] = apply(@, Credit(cmd))]
        /\ outbox' = [outbox EXCEPT ![w] = @ + 1, ![v] = @ + 1]
        /\ projection' = [projection EXCEPT
              ![w] = projectionFromAggregate(apply(worker[c].mine, debit)),
              ![v] = projectionFromAggregate(apply(worker[c].theirs, Credit(cmd)))]
        /\ Answer(c)
        /\ UNCHANGED <<receipts, external, commands, rollbacks>>

\* COMMIT of settleTransfer: debit, credit and receipt.
CommitSettle(c) ==
    LET cmd == worker[c].cmd
        w == cmd.wallet
        v == Receiver(cmd)
        debit == Decision(cmd, worker[c].mine)
    IN  /\ worker[c].pc = "commit"
        /\ cmd.op = "settle"
        /\ stream' = [stream EXCEPT ![w] = apply(@, debit), ![v] = apply(@, Credit(cmd))]
        /\ outbox' = [outbox EXCEPT ![w] = @ + 1, ![v] = @ + 1]
        /\ projection' = [projection EXCEPT
              ![w] = projectionFromAggregate(apply(worker[c].mine, debit)),
              ![v] = projectionFromAggregate(apply(worker[c].theirs, Credit(cmd)))]
        /\ receipts' = receipts \cup {cmd.hold}
        /\ Answer(c)
        /\ UNCHANGED <<external, commands, rollbacks>>

-----------------------------------------------------------------------------
(* What ends a transaction from outside *)

\* The worker whose uncommitted append this one is waiting for.
WaitsFor(c) ==
    CASE worker[c].pc = "append" -> pending[worker[c].cmd.wallet]
      [] worker[c].pc = "appendReceiver" -> pending[Receiver(worker[c].cmd)]
      [] OTHER -> Nobody

\* PostgreSQL aborts one of the transactions that wait for each other in a
\* circle; the error is no version conflict, so the command answers 500.
DeadlockVictim(c) ==
    /\ \E circle \in SUBSET Workers :
          /\ c \in circle
          /\ {WaitsFor(d) : d \in circle} = circle
    /\ Answer(c)
    /\ UNCHANGED <<store, commands, rollbacks>>

\* The process dies or its connection breaks before the commit.
LoseConnection(c) ==
    /\ worker[c].pc # "idle"
    /\ rollbacks < MaxRollbacks
    /\ rollbacks' = rollbacks + 1
    /\ Answer(c)
    /\ UNCHANGED <<store, commands>>

-----------------------------------------------------------------------------

Step(c) ==
    \/ FindReceipt(c) \/ LoadStream(c) \/ LoadReceiver(c)
    \/ Append(c) \/ AppendReceiver(c)
    \/ CommitOne(c) \/ CommitSettle(c)
    \/ DeadlockVictim(c)

Next ==
    \E c \in Workers : \/ \E cmd \in Command : Begin(c, cmd)
                       \/ Step(c)
                       \/ LoseConnection(c)

Spec == Init /\ [][Next]_vars

\* Statements are executed, a deadlock is detected after deadlock_timeout, and
\* the waiters for a lock are served in turn.
Fairness == \A c \in Workers : WF_vars(Step(c)) /\ SF_vars(Append(c) \/ AppendReceiver(c))

FairSpec == Spec /\ Fairness

-----------------------------------------------------------------------------
(* Properties *)

\* Every variable has its type.
TypeOK ==
    /\ stream \in [Wallets -> Aggregate]
    /\ projection \in [Wallets -> [balance: Int, held: Int, available: Int, version: Nat]]
    /\ outbox \in [Wallets -> Nat]
    /\ receipts \subseteq Transfers
    /\ external \in [Wallets -> Int]
    /\ pending \in [Wallets -> Workers \cup {Nobody}]
    /\ worker \in [Workers -> Worker]
    /\ commands \in 0..MaxCommands
    /\ rollbacks \in 0..MaxRollbacks

\* No wallet reserves or spends more than it has, whatever commands race on
\* it: the CHECKs on wallet_balance_projection never fail.
NoOverspend == \A w \in Wallets : availableMinor(stream[w]) >= 0

\* Queries and integration events agree with the events: each projection is
\* what a replay of its stream yields, and each event has one outbox row.
ReadModelsMatch ==
    \A w \in Wallets : /\ projection[w] = projectionFromAggregate(stream[w])
                       /\ outbox[w] = stream[w].version

\* An event that is about to be committed was decided on the present state of
\* its stream, so it can be replayed: no command leaves a stream on which
\* rehydrate throws.
CommitsReplay ==
    \A c \in Workers :
        worker[c].pc = "commit" =>
            LET cmd == worker[c].cmd
            IN  /\ Applicable(stream[cmd.wallet], Decision(cmd, worker[c].mine))
                /\ cmd.op = "settle" => Applicable(stream[Receiver(cmd)], Credit(cmd))

\* The sum of n[t] over the transfers in S, counted like heldMinor.
Units(S, n) == UNION {{t} \X (1..n[t]) : t \in S}
SumOver(S, n) == Cardinality(Units(S, n))

Debits == [t \in Transfers |-> Plan[t].amount]
Credits == [t \in Transfers |-> Plan[t].credit]

\* The wallet's balance is what it exchanged with the outside, less what its
\* receipts debit, plus what receipts credit: every settlement moves its money
\* once, on both sides or on neither.
BalancesAddUp ==
    \A w \in Wallets :
        stream[w].balance = external[w] - SumOver({t \in receipts : Plan[t].from = w}, Debits)
                                        + SumOver({t \in receipts : Plan[t].to = w}, Credits)

\* A command is retried only because another one committed meanwhile: the
\* optimistic loop cannot spin, and MAX_CONCURRENCY_RETRIES is reached only
\* under as many competing commands.
RetriesPaidFor == \A c \in Workers : worker[c].attempt <= commands

Contract(t) == INSTANCE HoldLifecycle
                   WITH hold <- stream[Plan[t].from].status[t], receipt <- (t \in receipts)

\* Every transfer's hold and receipt behave as TransferSaga expects: the
\* conjunction of the specifications Contract(t)!Spec.
KeepsHoldLifecycle ==
    /\ \A t \in Transfers : Contract(t)!Init
    /\ [][\A t \in Transfers : Contract(t)!Next \/ UNCHANGED Contract(t)!vars]_vars

\* Every command is answered: waits end, although settlements of opposite
\* direction can wait for each other.
EveryCommandAnswered ==
    \A c \in Workers : worker[c].pc # "idle" ~> worker[c].pc = "idle"

-----------------------------------------------------------------------------
(* The inductive invariant behind NoOverspend, CommitsReplay and             *)
(* ReadModelsMatch                                                           *)

\* A copy of a stream is what the stream was at the version of the copy.
CopyOf(w, a) ==
    /\ a.version <= stream[w].version
    /\ a.version = stream[w].version => a = stream[w]

\* What the place a command has reached says about its copies and its locks.
WorkerConsistent(c) ==
    LET self == worker[c]
        cmd == self.cmd
        settling == cmd.op = "settle"
    IN  /\ self.pc \in {"receipt", "loadReceiver", "appendReceiver"}
               => cmd.op \in {"settle", "drop"}
        /\ self.pc \in {"loadReceiver", "appendReceiver"} => settling
        /\ self.pc \in {"loadReceiver", "append", "appendReceiver", "commit"}
               => CopyOf(cmd.wallet, self.mine)
        /\ self.pc \in {"append", "appendReceiver", "commit"}
               => /\ HasEvent(cmd, self.mine)
                  /\ settling => CopyOf(Receiver(cmd), self.theirs)
                                 /\ self.theirs.version > 0
        /\ self.pc \in {"appendReceiver", "commit"}
               => /\ pending[cmd.wallet] = c
                  /\ stream[cmd.wallet].version = self.mine.version
        /\ self.pc = "commit" /\ settling
               => /\ pending[Receiver(cmd)] = c
                  /\ stream[Receiver(cmd)].version = self.theirs.version

\* Why commands that decide on what they read earlier are still right: while a
\* command's append is pending no other command can append to that stream.
InductiveInvariant ==
    /\ TypeOK
    /\ NoOverspend
    /\ \A t \in receipts : stream[Plan[t].from].status[t] = "consumed"
    /\ \A c \in Workers : WorkerConsistent(c)
=============================================================================
