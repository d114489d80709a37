----------------------------- MODULE SplitBills -----------------------------
(***************************************************************************)
(* One split bill: its creation and division into shares, the payment of   *)
(* the shares, what the outbox announces about them, and the reminders     *)
(* about the shares that are overdue.                                      *)
(*                                                                         *)
(* The transfer of a share is begun and ended as module SharePayment says, *)
(* which TransferCreation is shown to implement.  Its end is a transaction *)
(* of the saga that derives the status of the bill from what it sees of    *)
(* the other shares.  Reminder workers (one per process) run READ          *)
(* COMMITTED transactions that lock shares with SKIP LOCKED.               *)
(***************************************************************************)
EXTENDS Integers, Sequences, FiniteSets, SequencesExt

CONSTANTS
    Users,
    Requests,       \* the bodies of POST /split-bills that users send
    Workers,        \* processes with a reminder timer
    BatchSize,      \* SPLIT_BILL_REMINDER_BATCH_SIZE
    MaxRollbacks    \* bound on the transactions that fail

CreateSplitBillDto ==
    [creator: Users, total: Nat, mode: {"equal", "custom"},
     participants: Seq(Users), custom: Seq(Nat), deadline: BOOLEAN]

ASSUME SplitAssumption ==
    /\ Requests \subseteq CreateSplitBillDto
    /\ BatchSize \in Nat \ {0}
    /\ MaxRollbacks \in Nat

VARIABLES
    bill,        \* NoBill, or the rows of split_bills and split_bill_shares
    overdue,     \* the deadline has passed
    payment,     \* share |-> the state of its transfer
    counted,     \* share |-> the status derived by the transaction that ends it
    worker,      \* the local state of each reminder worker
    reminders,   \* the shares with a row in split_bill_reminders
    outbox,      \* the messages, except the reminders
    reminded,    \* share |-> number of ShareOverdue messages
    rollbacks

vars == <<bill, overdue, payment, counted, worker, reminders, outbox, reminded, rollbacks>>

\* Shares are named by their position.
Positions == UNION {DOMAIN d.participants : d \in Requests}

NoBill == [amounts |-> <<>>]
Shares == DOMAIN bill.amounts

Idle == [pc |-> "idle", candidates |-> {}, locked |-> {}]

-----------------------------------------------------------------------------
(* Creation *)

\* A sum of amounts: the minor units of all shares, counted.
MinorUnits(amounts) == UNION {{i} \X (1..amounts[i]) : i \in DOMAIN amounts}
Total(amounts) == Cardinality(MinorUnits(amounts))

\* Mutant: the remainder is not distributed.
EqualAmountsBase(total, count) == [i \in 1..count |-> total \div count]

\* The remainder goes to the first shares, one minor unit each.
EqualAmounts(total, count) ==
    [i \in 1..count |-> total \div count + (IF i <= total % count THEN 1 ELSE 0)]

shareAmounts(d) ==
    IF d.mode = "equal" THEN EqualAmounts(d.total, Len(d.participants)) ELSE d.custom

\* Mutant: the base of an equal split may be zero.
AcceptableTiny(d) ==
    /\ d.total > 0
    /\ Len(d.participants) > 0
    /\ IsInjective(d.participants)
    /\ d.mode = "custom" => /\ Len(d.custom) = Len(d.participants)
                            /\ Total(d.custom) = d.total

\* What create and shareAmounts accept.  (The limits of the body's size, 100
\* participants and amounts up to MAX_SAFE_INTEGER, only make it accept less.)
Acceptable(d) ==
    /\ d.total > 0
    /\ Len(d.participants) > 0
    /\ IsInjective(d.participants)
    /\ IF d.mode = "equal"
       THEN d.custom = <<>> /\ d.total \div Len(d.participants) > 0
       ELSE /\ Len(d.custom) = Len(d.participants)
            /\ \A i \in DOMAIN d.custom : d.custom[i] > 0
            /\ Total(d.custom) = d.total

Init ==
    /\ bill = NoBill
    /\ overdue = FALSE
    /\ payment = [i \in Positions |-> "none"]
    /\ counted = [i \in Positions |-> "none"]
    /\ worker = [w \in Workers |-> Idle]
    /\ reminders = {}
    /\ outbox = {}
    /\ reminded = [i \in Positions |-> 0]
    /\ rollbacks = 0

\* The message to the participant of share i.
enqueueSplitBillCreated(d, i) == [type |-> "Created", owner |-> d.participants[i], share |-> i]

\* One transaction inserts the bill, its shares and a message for each.
create(d) ==
    /\ bill = NoBill
    /\ Acceptable(d)
    /\ bill' = [creator |-> d.creator, total |-> d.total, mode |-> d.mode,
                participants |-> d.participants, deadline |-> d.deadline,
                amounts |-> shareAmounts(d)]
    /\ outbox' = {enqueueSplitBillCreated(d, i) : i \in DOMAIN d.participants}
    /\ UNCHANGED <<overdue, payment, counted, worker, reminders, reminded, rollbacks>>

DeadlinePasses ==
    /\ bill # NoBill
    /\ bill.deadline
    /\ ~overdue
    /\ overdue' = TRUE
    /\ UNCHANGED <<bill, payment, counted, worker, reminders, outbox, reminded, rollbacks>>

-----------------------------------------------------------------------------
(* Payment *)

deriveSplitBillStatus(paid, total) ==
    IF total > 0 /\ paid = total THEN "Settled"
    ELSE IF paid > 0 THEN "PartiallyPaid" ELSE "Pending"

Completed == {i \in Shares : payment[i] = "Completed"}

\* The status of the bill in toView.
Status == deriveSplitBillStatus(Cardinality(Completed), Cardinality(Shares))

\* Mutant: payShare begins a new payment whatever became of the last one, which
\* takes a Completed share back.
PayAgain(i) ==
    /\ i \in Shares
    /\ payment[i] \in {"none", "Failed", "Completed"}
    /\ payment' = [payment EXCEPT ![i] = "open"]
    /\ UNCHANGED <<bill, overdue, counted, worker, reminders, outbox, reminded, rollbacks>>

\* The first payment of the share inserts a transfer; every other one gets that
\* transfer back, whatever became of it.  The foreign key makes the INSERT wait
\* for a worker that has locked the share.
payShare(i) ==
    /\ i \in Shares
    /\ payment[i] = "none"
    /\ \A w \in Workers : i \notin worker[w].locked
    /\ payment' = [payment EXCEPT ![i] = "open"]
    /\ UNCHANGED <<bill, overdue, counted, worker, reminders, outbox, reminded, rollbacks>>

\* Mutant: payments on their way count as paid.
CountPaidOpen(i) ==
    /\ payment[i] = "open"
    /\ counted[i] = "none"
    /\ bill.participants[i] # bill.creator
    /\ counted' = [counted EXCEPT ![i] = deriveSplitBillStatus(
          Cardinality({j \in Shares : payment[j] \in {"open", "Completed"}}), Cardinality(Shares))]
    /\ UNCHANGED <<bill, overdue, payment, worker, reminders, outbox, reminded, rollbacks>>

\* The transaction that completes the transfer has updated its row and counts
\* the paid shares: this one, and those committed by now.  The creator's own
\* share never gets here: its sender's and its receiver's wallet are the same,
\* and the ledger refuses that.
CountPaid(i) ==
    /\ payment[i] = "open"
    /\ counted[i] = "none"
    /\ bill.participants[i] # bill.creator
    /\ counted' = [counted EXCEPT ![i] =
          deriveSplitBillStatus(Cardinality(Completed \cup {i}), Cardinality(Shares))]
    /\ UNCHANGED <<bill, overdue, payment, worker, reminders, outbox, reminded, rollbacks>>

\* The messages to the participant and, unless it is the same user, the creator.
SharePaid(i) ==
    {[type |-> "SharePaid", owner |-> bill.participants[i], share |-> i,
      billStatus |-> counted[i]]}
    \cup (IF bill.creator = bill.participants[i] THEN {}
          ELSE {[type |-> "StatusChanged", owner |-> bill.creator, share |-> i,
                 billStatus |-> counted[i]]})

CommitPaid(i) ==
    /\ counted[i] # "none"
    /\ payment' = [payment EXCEPT ![i] = "Completed"]
    /\ counted' = [counted EXCEPT ![i] = "none"]
    /\ outbox' = outbox \cup SharePaid(i)
    /\ UNCHANGED <<bill, overdue, worker, reminders, reminded, rollbacks>>

\* The transaction fails; the saga will try again.
RollbackPaid(i) ==
    /\ counted[i] # "none"
    /\ rollbacks < MaxRollbacks
    /\ rollbacks' = rollbacks + 1
    /\ counted' = [counted EXCEPT ![i] = "none"]
    /\ UNCHANGED <<bill, overdue, payment, worker, reminders, outbox, reminded>>

\* The saga ends in Failed.
FailPayment(i) ==
    /\ payment[i] = "open"
    /\ counted[i] = "none"
    /\ payment' = [payment EXCEPT ![i] = "Failed"]
    /\ UNCHANGED <<bill, overdue, counted, worker, reminders, outbox, reminded, rollbacks>>

-----------------------------------------------------------------------------
(* Reminders: detectAndEnqueue *)

\* Mutant: shares whose payment failed are left out.
CandidatesUnpaid == {i \in Shares : overdue /\ payment[i] = "none" /\ i \notin reminders}

\* The WHERE clause, as the statement's snapshot shows it.
Candidates ==
    {i \in Shares : overdue /\ payment[i] \in {"none", "Failed"} /\ i \notin reminders}

\* trigger starts a scan when the last one of its process is over.
Scan(w) ==
    /\ worker[w].pc = "idle"
    /\ Candidates # {}
    /\ worker' = [worker EXCEPT ![w] = [pc |-> "lock", candidates |-> Candidates, locked |-> {}]]
    /\ UNCHANGED <<bill, overdue, payment, counted, reminders, outbox, reminded, rollbacks>>

\* FOR UPDATE OF s SKIP LOCKED LIMIT: shares are never updated, so the other
\* conditions are not evaluated again.
Lock(w) ==
    LET free == {i \in worker[w].candidates : \A v \in Workers : i \notin worker[v].locked}
    IN  /\ worker[w].pc = "lock"
        /\ worker' = [worker EXCEPT ![w].pc = "insert",
                          ![w].locked = {i \in free : Cardinality({j \in free : j < i}) < BatchSize}]
        /\ UNCHANGED <<bill, overdue, payment, counted, reminders, outbox, reminded, rollbacks>>

\* Mutant: the conflict is ignored.
InsertedAnyway(w) == worker[w].locked

\* ON CONFLICT (share_id, kind) DO NOTHING RETURNING id
Inserted(w) == worker[w].locked \ reminders

\* One message for each of the shares; they are told apart by number only.
enqueueOverdueReminder(shares) ==
    [i \in Positions |-> reminded[i] + (IF i \in shares THEN 1 ELSE 0)]

\* One message for each row that was inserted.
CommitReminders(w) ==
    /\ worker[w].pc = "insert"
    /\ reminders' = reminders \cup worker[w].locked
    /\ reminded' = enqueueOverdueReminder(Inserted(w))
    /\ worker' = [worker EXCEPT ![w] = Idle]
    /\ UNCHANGED <<bill, overdue, payment, counted, outbox, rollbacks>>

\* The scan fails, or the process ends.
AbortScan(w) ==
    /\ worker[w].pc # "idle"
    /\ rollbacks < MaxRollbacks
    /\ rollbacks' = rollbacks + 1
    /\ worker' = [worker EXCEPT ![w] = Idle]
    /\ UNCHANGED <<bill, overdue, payment, counted, reminders, outbox, reminded>>

-----------------------------------------------------------------------------

PaymentStep(i) ==
    payShare(i) \/ CountPaid(i) \/ CommitPaid(i) \/ RollbackPaid(i) \/ FailPayment(i)

WorkerStep(w) == Scan(w) \/ Lock(w) \/ CommitReminders(w)

Next ==
    \/ \E d \in Requests : create(d)
    \/ DeadlinePasses
    \/ \E i \in Positions : PaymentStep(i)
    \/ \E w \in Workers : WorkerStep(w) \/ AbortScan(w)

Spec == Init /\ [][Next]_vars

\* The timer starts a scan every minute, and a transaction that has begun ends.
Fairness ==
    /\ \A w \in Workers : WF_vars(WorkerStep(w))
    /\ \A i \in Positions : WF_vars(CommitPaid(i))

FairSpec == Spec /\ Fairness

-----------------------------------------------------------------------------
(* Properties *)

\* Every variable has its type.
TypeOK ==
    /\ bill = NoBill \/ /\ bill.creator \in Users
                        /\ bill.total \in Nat \ {0}
                        /\ bill.participants \in Seq(Users)
                        /\ bill.amounts \in Seq(Nat \ {0})
                        /\ bill.deadline \in BOOLEAN
    /\ overdue \in BOOLEAN
    /\ payment \in [Positions -> {"none", "open", "Completed", "Failed"}]
    /\ counted \in [Positions -> {"none", "Pending", "PartiallyPaid", "Settled"}]
    /\ worker \in [Workers -> [pc: {"idle", "lock", "insert"},
                               candidates: SUBSET Positions, locked: SUBSET Positions]]
    /\ reminders \subseteq Positions
    /\ reminded \in [Positions -> Nat]
    /\ rollbacks \in 0..MaxRollbacks

\* The shares of a bill add up to its total, none is free, and those of an equal
\* split differ by at most one minor unit: shareAmounts.
SharesAddUp ==
    bill # NoBill =>
        /\ Len(bill.amounts) = Len(bill.participants)
        /\ Total(bill.amounts) = bill.total
        /\ \A i \in Shares : bill.amounts[i] > 0
        /\ bill.mode = "equal" => \A i, j \in Shares : bill.amounts[i] - bill.amounts[j] <= 1

\* A participant is reminded of a share at most once, however many processes
\* scan and whenever one of them fails, and exactly if the row says so.
RemindedOnce == \A i \in Positions : reminded[i] = (IF i \in reminders THEN 1 ELSE 0)

\* What a message says of the bill is true when it is read: a bill announced as
\* Settled is paid in full, one announced as PartiallyPaid has a paid share.
\* Transactions that end other shares at the same time cannot make it false.
AnnouncedIsTrue ==
    \A e \in outbox : e.type # "Created" =>
        /\ e.share \in Completed
        /\ e.billStatus = "Settled" => Status = "Settled"
        /\ e.billStatus = "PartiallyPaid" => Status # "Pending"

Rank == [Pending |-> 0, PartiallyPaid |-> 1, Settled |-> 2]

\* The status of a bill goes from Pending to PartiallyPaid to Settled, never
\* back, although it is derived anew from rows that others change.
StatusAdvances == [][Rank[Status] <= Rank[Status']]_vars

\* The participant of a share that is overdue and not paid is reminded, unless
\* a payment is begun.
OverdueReminded ==
    \A i \in Positions :
        (i \in Shares /\ overdue /\ payment[i] \in {"none", "Failed"})
            ~> (reminded[i] > 0 \/ payment[i] \in {"open", "Completed"})

\* When all shares are paid, some message says that the bill is Settled.
SettledIsAnnounced ==
    Status = "Settled" =>
        \E e \in outbox : e.type = "SharePaid" /\ e.billStatus = "Settled"
=============================================================================
