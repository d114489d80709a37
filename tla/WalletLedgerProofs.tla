------------------------- MODULE WalletLedgerProofs -------------------------
(***************************************************************************)
(* That concurrent commands never overspend a wallet, never store an event *)
(* that cannot be replayed, and keep the projections right: proofs for any *)
(* number of workers, wallets, holds and transfers.                        *)
(***************************************************************************)
EXTENDS WalletLedger, FiniteSetTheorems, TLAPS

-----------------------------------------------------------------------------
(* Reserved funds *)

\* The units one hold reserves are as many as its amount says.
LEMMA HoldUnits ==
    ASSUME NEW h, NEW n \in Nat
    PROVE  IsFiniteSet({h} \X (1..n)) /\ Cardinality({h} \X (1..n)) = n
<1>1. IsFiniteSet(1..n) /\ Cardinality(1..n) = n
  BY FS_Interval
<1>2. IsFiniteSet({h}) /\ Cardinality({h}) = 1
  BY FS_Singleton
<1>3. Cardinality({h} \X (1..n)) = Cardinality({h}) * Cardinality(1..n)
  BY <1>1, <1>2, FS_Product
<1> QED BY <1>1, <1>2, <1>3, FS_Product

\* The reserved units are finitely many, so heldMinor is a natural number.
LEMMA HeldType ==
    ASSUME NEW a \in Aggregate
    PROVE  IsFiniteSet(Reserved(a)) /\ heldMinor(a) \in Nat
<1> DEFINE U == [h \in Active(a) |-> {h} \X (1..a.amount[h])]
<1>1. IsFiniteSet(Active(a))
  BY LedgerAssumption, FS_Subset DEF Active
<1>2. IsFiniteSet({U[h] : h \in Active(a)})
  <2>1. U \in Surjection(Active(a), {U[h] : h \in Active(a)})
    BY DEF Surjection
  <2> QED BY <1>1, <2>1, FS_Surjection DEF ExistsSurjection
<1>3. {U[h] : h \in Active(a)} = {{h} \X (1..a.amount[h]) : h \in Active(a)}
  OBVIOUS
<1>4. \A T \in {{h} \X (1..a.amount[h]) : h \in Active(a)} : IsFiniteSet(T)
  <2> SUFFICES ASSUME NEW h \in Active(a) PROVE IsFiniteSet({h} \X (1..a.amount[h]))
    OBVIOUS
  <2>1. a.amount[h] \in Nat
    BY DEF Active, Aggregate
  <2> QED BY <2>1, HoldUnits
<1>5. IsFiniteSet(Reserved(a))
  BY <1>2, <1>3, <1>4, FS_UNION DEF Reserved
<1> QED BY <1>5, FS_CardinalityType DEF heldMinor

\* Aggregates with the same active holds of the same amounts reserve the same.
LEMMA HeldSame ==
    ASSUME NEW a \in Aggregate, NEW b \in Aggregate, Active(b) = Active(a),
           \A h \in Active(a) : b.amount[h] = a.amount[h]
    PROVE  heldMinor(b) = heldMinor(a)
<1>1. Reserved(b) = Reserved(a)
  BY DEF Reserved
<1> QED BY <1>1 DEF heldMinor

\* One more active hold reserves its amount on top.
LEMMA HeldMore ==
    ASSUME NEW a \in Aggregate, NEW b \in Aggregate, NEW h \in Holds,
           h \notin Active(a), Active(b) = Active(a) \cup {h},
           \A g \in Active(a) : b.amount[g] = a.amount[g]
    PROVE  heldMinor(b) = heldMinor(a) + b.amount[h]
<1> DEFINE new == {h} \X (1..b.amount[h])
<1>1. b.amount[h] \in Nat
  BY DEF Aggregate
<1>2. IsFiniteSet(new) /\ Cardinality(new) = b.amount[h]
  BY <1>1, HoldUnits
<1>3. Reserved(b) = Reserved(a) \cup new
  BY DEF Reserved
<1>4. Reserved(a) \cap new = {}
  BY DEF Reserved
<1>5. IsFiniteSet(Reserved(a)) /\ heldMinor(a) \in Nat
  BY HeldType
<1> HIDE DEF new
<1>6. Cardinality(Reserved(a) \cup new) =
        Cardinality(Reserved(a)) + Cardinality(new) - Cardinality({})
  BY <1>2, <1>4, <1>5, FS_Union
<1>7. Cardinality({}) = 0
  BY FS_EmptySet
<1> QED BY <1>1, <1>2, <1>3, <1>5, <1>6, <1>7 DEF heldMinor

-----------------------------------------------------------------------------
(* The aggregate *)

Amount == Nat \ {0}

\* The events that the aggregate's operations yield.
EventOK(e) ==
    \/ e.kind = "WalletCreated"
    \/ e.kind \in {"MoneyDeposited", "WithdrawalCompleted"} /\ e.amount \in Amount
    \/ e.kind = "FundsHeld" /\ e.hold \in Holds /\ e.amount \in Amount
    \/ e.kind \in {"HoldReleased", "HoldConsumed"} /\ e.hold \in Holds

\* Applying an event gives an aggregate one version further on.
LEMMA ApplyType ==
    ASSUME NEW a \in Aggregate, NEW e, EventOK(e)
    PROVE  apply(a, e) \in Aggregate /\ apply(a, e).version = a.version + 1
<1>0. /\ a.version \in Nat /\ a.balance \in Int
      /\ a.status \in [Holds -> HoldStatus] /\ a.amount \in [Holds -> Nat]
      /\ a = [version |-> a.version, balance |-> a.balance,
              status |-> a.status, amount |-> a.amount]
  BY DEF Aggregate
<1>1. CASE e.kind = "WalletCreated"
  <2>1. apply(a, e) = [version |-> a.version + 1, balance |-> a.balance,
                       status |-> a.status, amount |-> a.amount]
    BY <1>0, <1>1 DEF apply
  <2> QED BY <1>0, <2>1 DEF Aggregate
<1>2. CASE e.kind = "MoneyDeposited" /\ e.amount \in Amount
  <2>1. apply(a, e) = [version |-> a.version + 1, balance |-> a.balance + e.amount,
                       status |-> a.status, amount |-> a.amount]
    BY <1>0, <1>2 DEF apply
  <2>2. a.balance + e.amount \in Int
    BY <1>0, <1>2 DEF Amount
  <2> QED BY <1>0, <2>1, <2>2 DEF Aggregate
<1>3. CASE e.kind = "WithdrawalCompleted" /\ e.amount \in Amount
  <2>1. apply(a, e) = [version |-> a.version + 1, balance |-> a.balance - e.amount,
                       status |-> a.status, amount |-> a.amount]
    BY <1>0, <1>3 DEF apply
  <2>2. a.balance - e.amount \in Int
    BY <1>0, <1>3 DEF Amount
  <2> QED BY <1>0, <2>1, <2>2 DEF Aggregate
<1>4. CASE e.kind = "FundsHeld" /\ e.hold \in Holds /\ e.amount \in Amount
  <2>1. apply(a, e) = [version |-> a.version + 1, balance |-> a.balance,
                       status |-> [a.status EXCEPT ![e.hold] = "active"],
                       amount |-> [a.amount EXCEPT ![e.hold] = e.amount]]
    BY <1>0, <1>4 DEF apply
  <2>2. /\ [a.status EXCEPT ![e.hold] = "active"] \in [Holds -> HoldStatus]
        /\ [a.amount EXCEPT ![e.hold] = e.amount] \in [Holds -> Nat]
    BY <1>0, <1>4 DEF Amount, HoldStatus
  <2> QED BY <1>0, <2>1, <2>2 DEF Aggregate
<1>5. CASE e.kind = "HoldReleased" /\ e.hold \in Holds
  <2>1. apply(a, e) = [version |-> a.version + 1, balance |-> a.balance,
                       status |-> [a.status EXCEPT ![e.hold] = "released"],
                       amount |-> a.amount]
    BY <1>0, <1>5 DEF apply
  <2>2. [a.status EXCEPT ![e.hold] = "released"] \in [Holds -> HoldStatus]
    BY <1>0, <1>5 DEF HoldStatus
  <2> QED BY <1>0, <2>1, <2>2 DEF Aggregate
<1>6. CASE e.kind = "HoldConsumed" /\ e.hold \in Holds
  <2>1. apply(a, e) = [version |-> a.version + 1,
                       balance |-> a.balance - a.amount[e.hold],
                       status |-> [a.status EXCEPT ![e.hold] = "consumed"],
                       amount |-> a.amount]
    BY <1>0, <1>6 DEF apply
  <2>2. /\ [a.status EXCEPT ![e.hold] = "consumed"] \in [Holds -> HoldStatus]
        /\ a.balance - a.amount[e.hold] \in Int
    BY <1>0, <1>6 DEF HoldStatus
  <2> QED BY <1>0, <2>1, <2>2 DEF Aggregate
<1> QED BY <1>1, <1>2, <1>3, <1>4, <1>5, <1>6 DEF EventOK

\* An applicable event leaves at least as much as is reserved.
LEMMA ApplySolvent ==
    ASSUME NEW a \in Aggregate, NEW e, EventOK(e), Applicable(a, e),
           availableMinor(a) >= 0
    PROVE  availableMinor(apply(a, e)) >= 0
<1> DEFINE b == apply(a, e)
<1>0. b \in Aggregate /\ heldMinor(a) \in Nat /\ heldMinor(b) \in Nat
      /\ a.balance \in Int /\ b.balance \in Int
  BY ApplyType, HeldType DEF Aggregate
<1>1. CASE e.kind = "WalletCreated"
  <2>1. b.balance = a.balance /\ b.status = a.status /\ b.amount = a.amount
    BY <1>1 DEF apply, Aggregate
  <2>2. heldMinor(b) = heldMinor(a)
    BY <1>0, <2>1, HeldSame DEF Active
  <2> QED BY <1>0, <2>1, <2>2 DEF availableMinor
<1>2. CASE e.kind = "MoneyDeposited" /\ e.amount \in Amount
  <2>1. b.balance = a.balance + e.amount /\ b.status = a.status /\ b.amount = a.amount
    BY <1>2 DEF apply, Aggregate
  <2>2. heldMinor(b) = heldMinor(a)
    BY <1>0, <2>1, HeldSame DEF Active
  <2> QED BY <1>0, <1>2, <2>1, <2>2 DEF availableMinor, Amount
<1>3. CASE e.kind = "WithdrawalCompleted" /\ e.amount \in Amount
  <2>1. b.balance = a.balance - e.amount /\ b.status = a.status /\ b.amount = a.amount
    BY <1>3 DEF apply, Aggregate
  <2>2. heldMinor(b) = heldMinor(a)
    BY <1>0, <2>1, HeldSame DEF Active
  <2>3. a.balance - e.amount >= heldMinor(a)
    BY <1>3 DEF Applicable
  <2> QED BY <1>0, <1>3, <2>1, <2>2, <2>3 DEF availableMinor, Amount
<1>4. CASE e.kind = "FundsHeld" /\ e.hold \in Holds /\ e.amount \in Amount
  <2>1. /\ b.balance = a.balance
        /\ b.status = [a.status EXCEPT ![e.hold] = "active"]
        /\ b.amount = [a.amount EXCEPT ![e.hold] = e.amount]
    BY <1>4 DEF apply, Aggregate
  <2>2. a.status[e.hold] = "none" /\ e.amount <= availableMinor(a)
    BY <1>4 DEF Applicable
  <2>3. e.hold \notin Active(a) /\ Active(b) = Active(a) \cup {e.hold}
    BY <1>4, <2>1, <2>2 DEF Active, Aggregate
  <2>4. b.amount[e.hold] = e.amount /\ \A g \in Active(a) : b.amount[g] = a.amount[g]
    BY <1>4, <2>1, <2>3 DEF Active, Aggregate
  <2>5. heldMinor(b) = heldMinor(a) + e.amount
    BY <1>0, <1>4, <2>3, <2>4, HeldMore
  <2> QED BY <1>0, <1>4, <2>1, <2>2, <2>5 DEF availableMinor, Amount
<1>5. CASE e.kind \in {"HoldReleased", "HoldConsumed"} /\ e.hold \in Holds
  <2>1. /\ b.balance = IF e.kind = "HoldReleased" THEN a.balance
                       ELSE a.balance - a.amount[e.hold]
        /\ b.status[e.hold] \in {"released", "consumed"}
        /\ \A g \in Holds \ {e.hold} : b.status[g] = a.status[g]
        /\ b.amount = a.amount
    BY <1>5 DEF apply, Aggregate
  <2>2. a.status[e.hold] = "active" /\ a.amount[e.hold] \in Nat
    BY <1>5 DEF Applicable, Aggregate
  <2>3. e.hold \notin Active(b) /\ Active(a) = Active(b) \cup {e.hold}
    BY <1>5, <2>1, <2>2 DEF Active
  <2>4. heldMinor(a) = heldMinor(b) + a.amount[e.hold]
    BY <1>0, <1>5, <2>1, <2>3, HeldMore
  <2> QED BY <1>0, <2>1, <2>2, <2>4 DEF availableMinor
<1> QED BY <1>1, <1>2, <1>3, <1>4, <1>5 DEF EventOK

-----------------------------------------------------------------------------
(* Commands and what they decide *)

\* What is known of a command from its operation.
LEMMA CommandFacts ==
    ASSUME NEW cmd \in Command
    PROVE  /\ cmd.wallet \in Wallets
           /\ cmd.op \in {"create", "deposit", "withdraw", "place", "release",
                          "consume", "settle", "drop"}
           /\ cmd.op \in {"deposit", "withdraw", "place", "settle", "drop"}
                  => cmd.amount \in Amount
           /\ cmd.op \in {"place", "release", "consume", "settle", "drop"}
                  => cmd.hold \in Holds
           /\ cmd.op \in {"settle", "drop"}
                  => cmd.hold \in Transfers /\ cmd.wallet = Plan[cmd.hold].from
<1>1. CASE cmd \in [op: {"create"}, wallet: Wallets]
  BY <1>1
<1>2. CASE cmd \in [op: {"deposit", "withdraw"}, wallet: Wallets, amount: Amounts]
  BY <1>2, LedgerAssumption DEF Amount
<1>3. CASE cmd \in [op: {"place"}, wallet: Wallets, hold: Holds, amount: Amounts]
  BY <1>3, LedgerAssumption DEF Amount
<1>4. CASE cmd \in [op: {"release", "consume"}, wallet: Wallets, hold: Holds]
  BY <1>4
<1>5. CASE cmd \in {[op |-> o, wallet |-> Plan[t].from, hold |-> t, amount |-> Plan[t].amount] :
                       o \in {"place", "settle", "drop"}, t \in Transfers}
  <2>1. PICK o \in {"place", "settle", "drop"}, t \in Transfers :
           cmd = [op |-> o, wallet |-> Plan[t].from, hold |-> t, amount |-> Plan[t].amount]
    BY <1>5
  <2>2. Plan[t].from \in Wallets /\ Plan[t].amount \in Amount /\ t \in Holds
    BY LedgerAssumption DEF Amount
  <2> QED BY <2>1, <2>2
<1> QED BY <1>1, <1>2, <1>3, <1>4, <1>5 DEF Command

\* The receiver of a settlement is another wallet, credited a positive amount.
LEMMA ReceiverFacts ==
    ASSUME NEW cmd \in Command, cmd.op = "settle"
    PROVE  /\ Receiver(cmd) \in Wallets
           /\ Receiver(cmd) # cmd.wallet
           /\ EventOK(Credit(cmd))
           /\ Credit(cmd).kind = "MoneyDeposited"
           /\ Credit(cmd).amount \in Amount
BY CommandFacts, LedgerAssumption DEF Receiver, Credit, deposit, EventOK, Amount

\* A command that yields an event yields a well-formed one that its aggregate
\* can apply; settling yields the consumption of the transfer's hold.
LEMMA DecisionSound ==
    ASSUME NEW cmd \in Command, NEW a \in Aggregate, HasEvent(cmd, a)
    PROVE  LET e == Decision(cmd, a)
           IN  /\ EventOK(e)
               /\ availableMinor(a) >= 0 => Applicable(a, e)
               /\ cmd.op = "settle" => e = [kind |-> "HoldConsumed", hold |-> cmd.hold]
               /\ e.kind \in {"FundsHeld", "HoldReleased", "HoldConsumed"}
                      => a.status[e.hold] = IF e.kind = "FundsHeld" THEN "none" ELSE "active"
<1> DEFINE e == Decision(cmd, a)
<1>0. /\ heldMinor(a) \in Nat /\ a.balance \in Int /\ a.version \in Nat
      /\ a.status \in [Holds -> HoldStatus]
  BY HeldType DEF Aggregate
<1>1. CASE a.version = 0
  <2>1. e = [kind |-> "WalletCreated"]
    BY <1>1 DEF HasEvent, Decision, Throws
  <2> QED BY <1>1, <2>1 DEF EventOK, Applicable, Decision, HasEvent, Throws
<1>2. CASE a.version # 0 /\ cmd.op = "create"
  BY <1>2 DEF HasEvent, Decision, NoEvent
<1>3. CASE a.version # 0 /\ cmd.op = "deposit"
  <2>1. e = [kind |-> "MoneyDeposited", amount |-> cmd.amount] /\ cmd.amount \in Amount
    BY <1>3, CommandFacts DEF Decision, deposit
  <2>2. availableMinor(a) >= 0 => a.balance + cmd.amount >= heldMinor(a)
    BY <1>0, <2>1 DEF availableMinor, Amount
  <2>3. EventOK(e)
    BY <2>1 DEF EventOK
  <2>4. availableMinor(a) >= 0 => Applicable(a, e)
    BY <2>1, <2>2 DEF Applicable
  <2> QED BY <1>3, <2>1, <2>3, <2>4
<1>4. CASE a.version # 0 /\ cmd.op = "withdraw"
  <2>1. /\ e = [kind |-> "WithdrawalCompleted", amount |-> cmd.amount]
        /\ cmd.amount \in Amount
        /\ availableMinor(a) >= cmd.amount
    BY <1>4, CommandFacts DEF HasEvent, Decision, withdraw, Throws
  <2>2. a.balance - cmd.amount >= heldMinor(a)
    BY <1>0, <2>1 DEF availableMinor, Amount
  <2>3. EventOK(e)
    BY <2>1 DEF EventOK
  <2>4. Applicable(a, e)
    BY <2>1, <2>2 DEF Applicable
  <2> QED BY <1>4, <2>1, <2>3, <2>4
<1>5. CASE a.version # 0 /\ cmd.op = "place"
  <2>1. cmd.amount \in Amount /\ cmd.hold \in Holds
    BY <1>5, CommandFacts
  <2>2. /\ e = [kind |-> "FundsHeld", hold |-> cmd.hold, amount |-> cmd.amount]
        /\ availableMinor(a) >= cmd.amount
        /\ a.status[cmd.hold] = "none"
    BY <1>5 DEF HasEvent, Decision, placeHold, Throws, NoEvent
  <2>3. EventOK(e)
    BY <2>1, <2>2 DEF EventOK
  <2>4. Applicable(a, e)
    BY <1>0, <2>1, <2>2 DEF Applicable, Amount, availableMinor
  <2> QED BY <1>5, <2>2, <2>3, <2>4
<1>6. CASE a.version # 0 /\ cmd.op \in {"release", "drop"}
  <2>1. cmd.hold \in Holds
    BY <1>6, CommandFacts
  <2>2. /\ e = [kind |-> "HoldReleased", hold |-> cmd.hold]
        /\ a.status[cmd.hold] = "active"
    BY <1>0, <1>6, <2>1 DEF HasEvent, Decision, releaseHold, Throws, NoEvent, HoldStatus
  <2>3. EventOK(e)
    BY <2>1, <2>2 DEF EventOK
  <2>4. Applicable(a, e)
    BY <2>2 DEF Applicable
  <2> QED BY <1>6, <2>2, <2>3, <2>4
<1>7. CASE a.version # 0 /\ cmd.op \in {"consume", "settle"}
  <2>1. cmd.hold \in Holds
    BY <1>7, CommandFacts
  <2>2. /\ e = [kind |-> "HoldConsumed", hold |-> cmd.hold]
        /\ a.status[cmd.hold] = "active"
    BY <1>0, <1>7, <2>1 DEF HasEvent, Decision, consumeHold, Throws, NoEvent, HoldStatus
  <2>3. EventOK(e)
    BY <2>1, <2>2 DEF EventOK
  <2>4. Applicable(a, e)
    BY <2>2 DEF Applicable
  <2> QED BY <2>2, <2>3, <2>4
<1> QED BY <1>1, <1>2, <1>3, <1>4, <1>5, <1>6, <1>7, CommandFacts

-----------------------------------------------------------------------------
(* Types *)

\* A wallet without events is an aggregate that reserves nothing.
LEMMA EmptyType == Empty \in Aggregate /\ heldMinor(Empty) = 0
<1>1. Empty \in Aggregate
  BY DEF Empty, Aggregate, HoldStatus
<1>2. Reserved(Empty) = {}
  BY DEF Reserved, Active, Empty
<1> QED BY <1>1, <1>2, FS_EmptySet DEF heldMinor

\* A worker without a command is well-typed.
LEMMA IdleType == Idle \in Worker
<1>1. AnyCommand \in Command
  BY LedgerAssumption DEF AnyCommand, Command
<1> QED BY <1>1, EmptyType, LedgerAssumption DEF Idle, Worker

Projection == [balance: Int, held: Int, available: Int, version: Nat]

\* The projection of an aggregate is a row of the projection table.
LEMMA ProjectionType ==
    ASSUME NEW a \in Aggregate
    PROVE  projectionFromAggregate(a) \in Projection
BY HeldType DEF projectionFromAggregate, availableMinor, Projection, Aggregate

\* Ending a transaction keeps the table of pending appends well-typed.
LEMMA EndType ==
    ASSUME TypeOK, NEW c \in Workers, EndTransaction(c)
    PROVE  pending' \in [Wallets -> Workers \cup {Nobody}]
BY DEF TypeOK, EndTransaction

\* Answering a command keeps workers and pending appends well-typed.
LEMMA AnswerType ==
    ASSUME TypeOK, NEW c \in Workers, Answer(c)
    PROVE  worker' \in [Workers -> Worker] /\ pending' \in [Wallets -> Workers \cup {Nobody}]
BY EndType, IdleType DEF TypeOK, Answer

\* So does giving a command another attempt.
LEMMA RetryType ==
    ASSUME TypeOK, NEW c \in Workers, Retry(c), worker[c].pc # "idle"
    PROVE  worker' \in [Workers -> Worker] /\ pending' \in [Wallets -> Workers \cup {Nobody}]
<1> DEFINE self == worker[c]
<1> DEFINE again == [self EXCEPT !.pc = IF self.cmd.op = "settle" THEN "receipt" ELSE "load",
                              !.mine = Empty, !.theirs = Empty, !.attempt = @ + 1]
<1>1. self \in Worker
  BY DEF TypeOK
<1>2. self.attempt # MaxAttempts => again \in Worker
  <2>1. self.attempt # MaxAttempts => self.attempt + 1 \in 0..MaxAttempts
    BY <1>1, LedgerAssumption DEF Worker
  <2> QED BY <1>1, <2>1, EmptyType DEF Worker
<1>3. worker' = [worker EXCEPT ![c] = IF self.cmd.op = "create" \/ self.attempt = MaxAttempts
                                      THEN Idle ELSE again]
  BY DEF Retry
<1> HIDE DEF again, self
<1>4. worker' \in [Workers -> Worker]
  BY <1>2, <1>3, IdleType DEF TypeOK
<1> QED BY <1>4, EndType DEF Retry

\* So does an append, whether it succeeds, waits or conflicts.
LEMMA AppendToType ==
    ASSUME TypeOK, NEW c \in Workers, NEW w \in Wallets, NEW a,
           NEW next \in {"appendReceiver", "commit"}, AppendTo(c, w, a, next),
           worker[c].pc # "idle"
    PROVE  TypeOK'
<1>1. CASE Retry(c)
  BY <1>1, RetryType DEF AppendTo, TypeOK, store
<1>2. CASE pending' = [pending EXCEPT ![w] = c] /\ worker' = [worker EXCEPT ![c].pc = next]
  <2>1. worker' \in [Workers -> Worker]
    BY <1>2 DEF TypeOK, Worker
  <2>2. pending' \in [Wallets -> Workers \cup {Nobody}]
    BY <1>2 DEF TypeOK
  <2> QED BY <2>1, <2>2 DEF AppendTo, TypeOK, store
<1> QED BY <1>1, <1>2 DEF AppendTo

\* Every step preserves the types of the variables, if the commands that are
\* about to commit have an event to commit.
LEMMA TypeStep ==
    ASSUME TypeOK, \A c \in Workers : WorkerConsistent(c), [Next]_vars
    PROVE  TypeOK'
<1>1. ASSUME NEW c \in Workers, NEW cmd \in Command, Begin(c, cmd) PROVE TypeOK'
  <2>0. 1 \in 0..MaxAttempts
    BY LedgerAssumption
  <2>1. [Idle EXCEPT !.pc = IF cmd.op \in {"settle", "drop"} THEN "receipt" ELSE "load",
                     !.cmd = cmd, !.attempt = 1] \in Worker
    BY <2>0, EmptyType DEF Worker, Idle
  <2>2. commands' \in 0..MaxCommands
    BY <1>1, LedgerAssumption DEF Begin, TypeOK
  <2> QED BY <1>1, <2>1, <2>2 DEF Begin, TypeOK, store
<1>2. ASSUME NEW c \in Workers, FindReceipt(c) PROVE TypeOK'
  <2>1. CASE Answer(c)
    BY <1>2, <2>1, AnswerType DEF FindReceipt, TypeOK, store
  <2>2. CASE worker' = [worker EXCEPT ![c].pc = "load"] /\ UNCHANGED pending
    <3>1. worker' \in [Workers -> Worker]
      BY <2>2 DEF TypeOK, Worker
    <3> QED BY <1>2, <2>2, <3>1 DEF FindReceipt, TypeOK, store
  <2> QED BY <1>2, <2>1, <2>2 DEF FindReceipt
<1>3. ASSUME NEW c \in Workers, LoadStream(c) PROVE TypeOK'
  <2>1. CASE Answer(c)
    BY <1>3, <2>1, AnswerType DEF LoadStream, TypeOK, store
  <2>2. ASSUME NEW pc \in {"loadReceiver", "append"}, UNCHANGED pending,
               worker' = [worker EXCEPT ![c].pc = pc, ![c].mine = stream[worker[c].cmd.wallet]]
        PROVE  TypeOK'
    <3>1. stream[worker[c].cmd.wallet] \in Aggregate
      BY CommandFacts DEF TypeOK, Worker
    <3>2. worker' \in [Workers -> Worker]
      BY <2>2, <3>1, ZenonT(30) DEF TypeOK, Worker
    <3> QED BY <1>3, <2>2, <3>2 DEF LoadStream, TypeOK, store
  <2> QED BY <1>3, <2>1, <2>2 DEF LoadStream
<1>4. ASSUME NEW c \in Workers, LoadReceiver(c) PROVE TypeOK'
  <2>1. CASE Answer(c)
    BY <1>4, <2>1, AnswerType DEF LoadReceiver, TypeOK, store
  <2>2. CASE /\ UNCHANGED pending
             /\ worker' = [worker EXCEPT ![c].pc = "append",
                                         ![c].theirs = stream[Receiver(worker[c].cmd)]]
    <3>1. worker[c].cmd \in Command /\ worker[c].cmd.op = "settle"
      BY <1>4 DEF TypeOK, Worker, LoadReceiver, WorkerConsistent
    <3>2. stream[Receiver(worker[c].cmd)] \in Aggregate
      BY <3>1, ReceiverFacts DEF TypeOK
    <3>3. worker' \in [Workers -> Worker]
      BY <2>2, <3>2 DEF TypeOK, Worker
    <3> QED BY <1>4, <2>2, <3>3 DEF LoadReceiver, TypeOK, store
  <2> QED BY <1>4, <2>1, <2>2 DEF LoadReceiver
<1>5. ASSUME NEW c \in Workers, Append(c) PROVE TypeOK'
  <2>1. worker[c].cmd.wallet \in Wallets
    BY CommandFacts DEF TypeOK, Worker
  <2> QED BY <1>5, <2>1, AppendToType DEF Append
<1>6. ASSUME NEW c \in Workers, AppendReceiver(c) PROVE TypeOK'
  <2>1. worker[c].cmd \in Command /\ worker[c].cmd.op = "settle"
    BY <1>6 DEF TypeOK, Worker, AppendReceiver, WorkerConsistent
  <2> QED BY <1>6, <2>1, ReceiverFacts, AppendToType DEF AppendReceiver
<1>7. ASSUME NEW c \in Workers, CommitOne(c) PROVE TypeOK'
  <2> DEFINE w == worker[c].cmd.wallet
             e == Decision(worker[c].cmd, worker[c].mine)
  <2>1. /\ worker[c].cmd \in Command /\ worker[c].mine \in Aggregate
        /\ HasEvent(worker[c].cmd, worker[c].mine)
    BY <1>7 DEF TypeOK, Worker, CommitOne, WorkerConsistent
  <2>2. w \in Wallets /\ EventOK(e)
    BY <2>1, CommandFacts, DecisionSound
  <2>3. /\ apply(stream[w], e) \in Aggregate
        /\ projectionFromAggregate(apply(worker[c].mine, e)) \in Projection
    BY <2>1, <2>2, ApplyType, ProjectionType DEF TypeOK
  <2>4. ExternalChange(e, worker[c].mine) \in Int
    BY <2>1, <2>2 DEF ExternalChange, EventOK, Aggregate, Amount
  <2> HIDE DEF w, e
  <2>5. /\ stream' = [stream EXCEPT ![w] = apply(@, e)]
        /\ outbox' = [outbox EXCEPT ![w] = @ + 1]
        /\ projection' = [projection EXCEPT ![w] = projectionFromAggregate(apply(worker[c].mine, e))]
        /\ external' = [external EXCEPT ![w] = @ + ExternalChange(e, worker[c].mine)]
        /\ Answer(c) /\ UNCHANGED <<receipts, commands, rollbacks>>
    BY <1>7 DEF CommitOne, w, e
  <2>6. stream' \in [Wallets -> Aggregate] /\ projection' \in [Wallets -> Projection]
    BY <2>2, <2>3, <2>5 DEF TypeOK, Projection
  <2>7. outbox' \in [Wallets -> Nat] /\ external' \in [Wallets -> Int]
    BY <2>2, <2>4, <2>5 DEF TypeOK
  <2> QED BY <2>5, <2>6, <2>7, AnswerType DEF TypeOK, Projection
<1>8. ASSUME NEW c \in Workers, CommitSettle(c) PROVE TypeOK'
  <2> DEFINE cmd == worker[c].cmd
             w == cmd.wallet
             v == Receiver(cmd)
             e == Decision(cmd, worker[c].mine)
             f == Credit(cmd)
  <2>1. /\ cmd \in Command /\ worker[c].mine \in Aggregate /\ worker[c].theirs \in Aggregate
        /\ HasEvent(cmd, worker[c].mine) /\ cmd.op = "settle"
    BY <1>8 DEF TypeOK, Worker, CommitSettle, WorkerConsistent
  <2>2. w \in Wallets /\ v \in Wallets /\ EventOK(e) /\ EventOK(f) /\ cmd.hold \in Transfers
    BY <2>1, CommandFacts, DecisionSound, ReceiverFacts
  <2>3. /\ \A a \in Aggregate : apply(a, e) \in Aggregate /\ apply(a, f) \in Aggregate
        /\ projectionFromAggregate(apply(worker[c].mine, e)) \in Projection
        /\ projectionFromAggregate(apply(worker[c].theirs, f)) \in Projection
    BY <2>1, <2>2, ApplyType, ProjectionType
  <2> HIDE DEF cmd, w, v, e, f
  <2>4. /\ stream' = [stream EXCEPT ![w] = apply(@, e), ![v] = apply(@, f)]
        /\ outbox' = [outbox EXCEPT ![w] = @ + 1, ![v] = @ + 1]
        /\ projection' = [projection EXCEPT
              ![w] = projectionFromAggregate(apply(worker[c].mine, e)),
              ![v] = projectionFromAggregate(apply(worker[c].theirs, f))]
        /\ receipts' = receipts \cup {cmd.hold}
        /\ Answer(c) /\ UNCHANGED <<external, commands, rollbacks>>
    BY <1>8 DEF CommitSettle, cmd, w, v, e, f
  <2>5. stream' \in [Wallets -> Aggregate] /\ projection' \in [Wallets -> Projection]
    BY <2>2, <2>3, <2>4 DEF TypeOK, Projection
  <2>6. outbox' \in [Wallets -> Nat] /\ receipts' \subseteq Transfers
    BY <2>2, <2>4 DEF TypeOK
  <2> QED BY <2>4, <2>5, <2>6, AnswerType DEF TypeOK, Projection
<1>10. ASSUME NEW c \in Workers, DeadlockVictim(c) \/ LoseConnection(c) PROVE TypeOK'
  <2>1. rollbacks' \in 0..MaxRollbacks
    BY <1>10, LedgerAssumption DEF DeadlockVictim, LoseConnection, TypeOK
  <2> QED BY <1>10, <2>1, AnswerType DEF DeadlockVictim, LoseConnection, TypeOK, store
<1>11. CASE UNCHANGED vars
  BY <1>11 DEF vars, store, TypeOK
<1> QED BY <1>1, <1>2, <1>3, <1>4, <1>5, <1>6, <1>7, <1>8, <1>10, <1>11
        DEF Next, Step

-----------------------------------------------------------------------------
(* The inductive invariant *)

\* The ways in which an event can move a hold.
HoldMove(old, new) ==
    \/ new = old
    \/ old = "none" /\ new = "active"
    \/ old = "active" /\ new \in {"released", "consumed"}

\* Applying what was decided on an aggregate moves its holds as they may move.
LEMMA HoldsMove ==
    ASSUME NEW cmd \in Command, NEW a \in Aggregate, HasEvent(cmd, a), NEW h \in Holds
    PROVE  LET b == apply(a, Decision(cmd, a))
           IN  /\ HoldMove(a.status[h], b.status[h])
               /\ cmd.op = "settle" /\ h = cmd.hold
                      => a.status[h] = "active" /\ b.status[h] = "consumed"
               /\ cmd.op = "settle" /\ h # cmd.hold => b.status[h] = a.status[h]
<1> DEFINE e == Decision(cmd, a)
<1>1. /\ EventOK(e)
      /\ cmd.op = "settle" => e = [kind |-> "HoldConsumed", hold |-> cmd.hold]
      /\ e.kind \in {"FundsHeld", "HoldReleased", "HoldConsumed"}
             => a.status[e.hold] = IF e.kind = "FundsHeld" THEN "none" ELSE "active"
  BY DecisionSound
<1> HIDE DEF e
<1>2. CASE e.kind \in {"WalletCreated", "MoneyDeposited", "WithdrawalCompleted"}
  <2>1. apply(a, e).status = a.status
    BY <1>2 DEF apply, Aggregate
  <2> QED BY <1>1, <1>2, <2>1 DEF HoldMove, e
<1>3. CASE e.kind = "FundsHeld" /\ e.hold \in Holds
  <2>1. apply(a, e).status = [a.status EXCEPT ![e.hold] = "active"]
    BY <1>3 DEF apply, Aggregate
  <2> QED BY <1>1, <1>3, <2>1 DEF HoldMove, Aggregate, e
<1>4. CASE e.kind = "HoldReleased" /\ e.hold \in Holds
  <2>1. apply(a, e).status = [a.status EXCEPT ![e.hold] = "released"]
    BY <1>4 DEF apply, Aggregate
  <2> QED BY <1>1, <1>4, <2>1 DEF HoldMove, Aggregate, e
<1>5. CASE e.kind = "HoldConsumed" /\ e.hold \in Holds
  <2>1. apply(a, e).status = [a.status EXCEPT ![e.hold] = "consumed"]
    BY <1>5 DEF apply, Aggregate
  <2> QED BY <1>1, <1>5, <2>1 DEF HoldMove, Aggregate, e
<1> QED BY <1>1, <1>2, <1>3, <1>4, <1>5 DEF EventOK

\* A deposit moves no hold and reserves nothing.
LEMMA DepositKeepsHolds ==
    ASSUME NEW a \in Aggregate, NEW e, e.kind = "MoneyDeposited"
    PROVE  apply(a, e).status = a.status
BY DEF apply, Aggregate

\* What a step of one command leaves true of another: it may append only to
\* streams on which the other has nothing pending.
LEMMA OtherWorker ==
    ASSUME TypeOK, NEW d \in Workers, WorkerConsistent(d), worker'[d] = worker[d],
           \A x \in Wallets : pending[x] = d => pending'[x] = d /\ stream'[x] = stream[x],
           \A x \in Wallets : \/ stream'[x] = stream[x]
                              \/ stream'[x].version = stream[x].version + 1
    PROVE  WorkerConsistent(d)'
<1> DEFINE self == worker[d]
           cmd == worker[d].cmd
<1>1. /\ cmd \in Command /\ cmd.wallet \in Wallets
      /\ cmd.op = "settle" => Receiver(cmd) \in Wallets
      /\ self.mine.version \in Nat /\ self.theirs.version \in Nat
  BY CommandFacts, ReceiverFacts DEF TypeOK, Worker, Aggregate
<1>2. \A x \in Wallets : stream[x].version \in Nat
  BY DEF TypeOK, Aggregate
<1>3. ASSUME NEW x \in Wallets, NEW a, a.version \in Nat,
             a.version <= stream[x].version,
             a.version = stream[x].version => a = stream[x]
      PROVE  /\ a.version <= stream'[x].version
             /\ a.version = stream'[x].version => a = stream'[x]
  BY <1>2, <1>3
<1> QED BY <1>1, <1>3 DEF WorkerConsistent, CopyOf

\* A command that has been answered, or begins, claims nothing.
LEMMA FreshWorker ==
    ASSUME NEW c \in Workers, worker'[c].pc \in {"idle", "load"}
    PROVE  WorkerConsistent(c)'
BY DEF WorkerConsistent

\* Ending one command's transaction releases no other's appends.
LEMMA EndKeepsOthers ==
    ASSUME TypeOK, NEW c \in Workers, EndTransaction(c), NEW d \in Workers, d # c,
           NEW x \in Wallets, pending[x] = d
    PROVE  pending'[x] = d
BY DEF EndTransaction, TypeOK

\* So a step that changes no stream is right if it is right for its command.
LEMMA QuietStep ==
    ASSUME InductiveInvariant, TypeOK', NEW c \in Workers,
           UNCHANGED <<stream, receipts>>,
           \A d \in Workers \ {c} : worker'[d] = worker[d],
           \A d \in Workers \ {c}, x \in Wallets : pending[x] = d => pending'[x] = d,
           WorkerConsistent(c)'
    PROVE  InductiveInvariant'
<1>1. ASSUME NEW d \in Workers PROVE WorkerConsistent(d)'
  BY OtherWorker DEF InductiveInvariant
<1>2. NoOverspend'
  BY DEF InductiveInvariant, NoOverspend, availableMinor, heldMinor, Reserved, Active
<1> QED BY <1>1, <1>2 DEF InductiveInvariant

\* Answering a command without a commit preserves the invariant.
LEMMA AnswerStep ==
    ASSUME InductiveInvariant, TypeOK', NEW c \in Workers, Answer(c),
           UNCHANGED <<stream, receipts>>
    PROVE  InductiveInvariant'
<1>1. worker'[c].pc = "idle" /\ \A d \in Workers \ {c} : worker'[d] = worker[d]
  BY DEF Answer, InductiveInvariant, TypeOK, Idle
<1>2. \A d \in Workers \ {c}, x \in Wallets : pending[x] = d => pending'[x] = d
  BY EndKeepsOthers DEF Answer, InductiveInvariant
<1>3. WorkerConsistent(c)'
  BY <1>1, FreshWorker
<1> QED BY <1>1, <1>2, <1>3, QuietStep

\* So does retrying it.
LEMMA RetryStep ==
    ASSUME InductiveInvariant, TypeOK', NEW c \in Workers, Retry(c),
           UNCHANGED <<stream, receipts>>
    PROVE  InductiveInvariant'
<1>1. /\ \/ worker'[c].pc \in {"idle", "load"}
         \/ worker'[c].pc = "receipt" /\ worker'[c].cmd.op = "settle"
      /\ \A d \in Workers \ {c} : worker'[d] = worker[d]
  <2> DEFINE self == worker[c]
             again == [self EXCEPT !.pc = IF self.cmd.op = "settle" THEN "receipt" ELSE "load",
                                   !.mine = Empty, !.theirs = Empty, !.attempt = @ + 1]
  <2>1. again.cmd = self.cmd /\ again.pc = IF self.cmd.op = "settle" THEN "receipt" ELSE "load"
    BY DEF InductiveInvariant, TypeOK, Worker
  <2>2. worker' = [worker EXCEPT ![c] = IF self.cmd.op = "create" \/ self.attempt = MaxAttempts
                                        THEN Idle ELSE again]
    BY DEF Retry
  <2> HIDE DEF again, self
  <2>3. worker'[c] \in {Idle, again} /\ \A d \in Workers \ {c} : worker'[d] = worker[d]
    BY <2>2 DEF InductiveInvariant, TypeOK
  <2>4. Idle.pc = "idle"
    BY DEF Idle
  <2>5. CASE worker'[c] = Idle
    BY <2>3, <2>4, <2>5
  <2>6. CASE worker'[c] = again
    BY <2>1, <2>3, <2>6
  <2> QED BY <2>3, <2>5, <2>6
<1>2. \A d \in Workers \ {c}, x \in Wallets : pending[x] = d => pending'[x] = d
  BY EndKeepsOthers DEF Retry, InductiveInvariant
<1>3. WorkerConsistent(c)'
  BY <1>1 DEF WorkerConsistent
<1> QED BY <1>1, <1>2, <1>3, QuietStep

\* Appending to a stream whose version is still that of the copy.
LEMMA AppendStep ==
    ASSUME InductiveInvariant, TypeOK', NEW c \in Workers, NEW w \in Wallets, NEW next,
           pending[w] = Nobody, pending' = [pending EXCEPT ![w] = c],
           worker' = [worker EXCEPT ![c].pc = next],
           UNCHANGED <<stream, receipts>>, WorkerConsistent(c)'
    PROVE  InductiveInvariant'
<1>1. \A d \in Workers \ {c} : worker'[d] = worker[d]
  BY DEF InductiveInvariant, TypeOK
<1>2. \A d \in Workers \ {c}, x \in Wallets : pending[x] = d => pending'[x] = d
  BY LedgerAssumption DEF InductiveInvariant, TypeOK
<1> QED BY <1>1, <1>2, QuietStep

\* Committing appends to streams on which the command has its append pending.
LEMMA CommitStep ==
    ASSUME InductiveInvariant, TypeOK', NEW c \in Workers, Answer(c),
           \A x \in Wallets :
              \/ stream'[x] = stream[x]
              \/ /\ pending[x] = c
                 /\ stream'[x].version = stream[x].version + 1
                 /\ availableMinor(stream'[x]) >= 0,
           \A t \in receipts' : stream'[Plan[t].from].status[t] = "consumed"
    PROVE  InductiveInvariant'
<1>1. worker'[c].pc = "idle" /\ \A d \in Workers \ {c} : worker'[d] = worker[d]
  BY DEF Answer, InductiveInvariant, TypeOK, Idle
<1>2. \A d \in Workers \ {c}, x \in Wallets : pending[x] = d => pending'[x] = d
  BY EndKeepsOthers DEF Answer, InductiveInvariant
<1>3. ASSUME NEW d \in Workers PROVE WorkerConsistent(d)'
  <2>1. CASE d = c
    BY <1>1, <2>1, FreshWorker
  <2>2. CASE d # c
    BY <1>1, <1>2, <2>2, OtherWorker DEF InductiveInvariant
  <2> QED BY <2>1, <2>2
<1>4. NoOverspend'
  <2> SUFFICES ASSUME NEW x \in Wallets PROVE availableMinor(stream'[x]) >= 0
    BY DEF NoOverspend, availableMinor, heldMinor, Reserved, Active
  <2>1. availableMinor(stream[x]) >= 0
    BY DEF InductiveInvariant, NoOverspend
  <2> QED BY <2>1
<1> QED BY <1>3, <1>4 DEF InductiveInvariant

\* What a command that commits knows of the streams it appends to.
LEMMA CommitFacts ==
    ASSUME InductiveInvariant, NEW c \in Workers, worker[c].pc = "commit"
    PROVE  LET cmd == worker[c].cmd
               mine == worker[c].mine
               theirs == worker[c].theirs
           IN  /\ cmd \in Command /\ mine \in Aggregate /\ theirs \in Aggregate
               /\ cmd.wallet \in Wallets
               /\ HasEvent(cmd, mine)
               /\ pending[cmd.wallet] = c
               /\ mine = stream[cmd.wallet]
               /\ availableMinor(mine) >= 0
               /\ cmd.op = "settle" => /\ Receiver(cmd) \in Wallets
                                       /\ pending[Receiver(cmd)] = c
                                       /\ theirs = stream[Receiver(cmd)]
                                       /\ availableMinor(theirs) >= 0
<1> DEFINE cmd == worker[c].cmd
<1>1. /\ cmd \in Command /\ worker[c].mine \in Aggregate /\ worker[c].theirs \in Aggregate
      /\ cmd.wallet \in Wallets
      /\ cmd.op = "settle" => Receiver(cmd) \in Wallets
  BY CommandFacts, ReceiverFacts DEF InductiveInvariant, TypeOK, Worker
<1>2. WorkerConsistent(c) /\ NoOverspend
  BY DEF InductiveInvariant
<1>3. /\ HasEvent(cmd, worker[c].mine) /\ pending[cmd.wallet] = c
      /\ worker[c].mine = stream[cmd.wallet]
      /\ cmd.op = "settle" => /\ pending[Receiver(cmd)] = c
                              /\ worker[c].theirs = stream[Receiver(cmd)]
  BY <1>2 DEF WorkerConsistent, CopyOf
<1> QED BY <1>1, <1>2, <1>3 DEF NoOverspend

\* A credit is applicable to any wallet that does not overspend.
LEMMA CreditApplicable ==
    ASSUME NEW cmd \in Command, cmd.op = "settle", NEW a \in Aggregate,
           availableMinor(a) >= 0
    PROVE  Applicable(a, Credit(cmd))
<1>1. Credit(cmd).kind = "MoneyDeposited" /\ Credit(cmd).amount \in Amount
  BY ReceiverFacts
<1>2. heldMinor(a) \in Nat /\ a.balance \in Int
  BY HeldType DEF Aggregate
<1>3. a.balance + Credit(cmd).amount >= heldMinor(a)
  BY <1>1, <1>2 DEF availableMinor, Amount
<1> QED BY <1>1, <1>3 DEF Applicable

\* Every step preserves the invariant.
LEMMA InvariantStep ==
    ASSUME InductiveInvariant, [Next]_vars
    PROVE  InductiveInvariant'
<1>0. TypeOK' /\ TypeOK
  BY TypeStep DEF InductiveInvariant
<1>1. ASSUME NEW c \in Workers, NEW cmd \in Command, Begin(c, cmd)
      PROVE  InductiveInvariant'
  <2>1. /\ \/ worker'[c].pc = "load"
           \/ worker'[c].pc = "receipt" /\ worker'[c].cmd.op \in {"settle", "drop"}
        /\ \A d \in Workers \ {c} : worker'[d] = worker[d]
        /\ UNCHANGED <<stream, receipts, pending>>
    BY <1>0, <1>1 DEF Begin, TypeOK, Idle, store
  <2>2. WorkerConsistent(c)'
    BY <2>1 DEF WorkerConsistent
  <2> QED BY <1>0, <2>1, <2>2, QuietStep
<1>2. ASSUME NEW c \in Workers, FindReceipt(c) PROVE InductiveInvariant'
  <2>1. CASE Answer(c)
    BY <1>0, <1>2, <2>1, AnswerStep DEF FindReceipt, store
  <2>2. CASE worker' = [worker EXCEPT ![c].pc = "load"] /\ UNCHANGED pending
    <3>1. worker'[c].pc = "load" /\ \A d \in Workers \ {c} : worker'[d] = worker[d]
      BY <1>0, <2>2 DEF TypeOK, Worker
    <3> QED BY <1>0, <1>2, <2>2, <3>1, FreshWorker, QuietStep DEF FindReceipt, store
  <2> QED BY <1>2, <2>1, <2>2 DEF FindReceipt
<1>3. ASSUME NEW c \in Workers, LoadStream(c) PROVE InductiveInvariant'
  <2> DEFINE cmd == worker[c].cmd
             a == stream[cmd.wallet]
  <2>1. CASE Answer(c)
    BY <1>0, <1>3, <2>1, AnswerStep DEF LoadStream, store
  <2>2. ASSUME NEW pc \in {"loadReceiver", "append"}, UNCHANGED pending,
               pc = "loadReceiver" => cmd.op = "settle",
               pc = "append" => HasEvent(cmd, a) /\ cmd.op # "settle",
               worker' = [worker EXCEPT ![c].pc = pc, ![c].mine = a]
        PROVE  InductiveInvariant'
    <3>1. /\ worker'[c].pc = pc /\ worker'[c].mine = a /\ worker'[c].cmd = cmd
          /\ \A d \in Workers \ {c} : worker'[d] = worker[d]
      BY <1>0, <2>2 DEF TypeOK, Worker
    <3>2. a.version \in Nat /\ UNCHANGED <<stream, receipts>>
      BY <1>0, <1>3, CommandFacts DEF LoadStream, store, TypeOK, Worker, Aggregate
    <3>3. WorkerConsistent(c)'
      BY <2>2, <3>1, <3>2 DEF WorkerConsistent, CopyOf
    <3> QED BY <1>0, <2>2, <3>1, <3>2, <3>3, QuietStep
  <2>3. CASE cmd.op = "settle"
    BY <1>3, <2>1, <2>2, <2>3 DEF LoadStream
  <2>4. CASE cmd.op # "settle"
    BY <1>3, <2>1, <2>2, <2>4 DEF LoadStream
  <2> QED BY <2>3, <2>4
<1>4. ASSUME NEW c \in Workers, LoadReceiver(c) PROVE InductiveInvariant'
  <2> DEFINE cmd == worker[c].cmd
             a == stream[Receiver(cmd)]
  <2>0. WorkerConsistent(c) /\ UNCHANGED <<stream, receipts>>
    BY <1>4 DEF InductiveInvariant, LoadReceiver, store
  <2>1. CASE Answer(c)
    BY <1>0, <2>0, <2>1, AnswerStep
  <2>2. CASE /\ UNCHANGED pending /\ a.version # 0 /\ HasEvent(cmd, worker[c].mine)
             /\ worker' = [worker EXCEPT ![c].pc = "append", ![c].theirs = a]
    <3>1. /\ worker'[c].pc = "append" /\ worker'[c].theirs = a /\ worker'[c].cmd = cmd
          /\ worker'[c].mine = worker[c].mine
          /\ \A d \in Workers \ {c} : worker'[d] = worker[d]
      BY <1>0, <2>2 DEF TypeOK, Worker
    <3>2. cmd.op = "settle" /\ CopyOf(cmd.wallet, worker[c].mine)
      BY <1>4, <2>0 DEF LoadReceiver, WorkerConsistent
    <3>3. a.version \in Nat
      BY <1>0, <3>2, ReceiverFacts DEF TypeOK, Worker, Aggregate
    <3>4. WorkerConsistent(c)'
      BY <2>0, <2>2, <3>1, <3>2, <3>3 DEF WorkerConsistent, CopyOf
    <3> QED BY <1>0, <2>0, <2>2, <3>1, <3>4, QuietStep
  <2> QED BY <1>4, <2>1, <2>2 DEF LoadReceiver
<1>5. ASSUME NEW c \in Workers, Append(c) PROVE InductiveInvariant'
  <2> DEFINE cmd == worker[c].cmd
             next == IF cmd.op = "settle" THEN "appendReceiver" ELSE "commit"
  <2>0. /\ WorkerConsistent(c) /\ UNCHANGED <<stream, receipts>> /\ worker[c].pc = "append"
        /\ cmd.wallet \in Wallets
    BY <1>0, <1>5, CommandFacts DEF InductiveInvariant, Append, AppendTo, store, TypeOK, Worker
  <2>1. CASE Retry(c)
    BY <1>0, <2>0, <2>1, RetryStep
  <2>2. CASE /\ stream[cmd.wallet].version = worker[c].mine.version
             /\ pending[cmd.wallet] = Nobody
             /\ pending' = [pending EXCEPT ![cmd.wallet] = c]
             /\ worker' = [worker EXCEPT ![c].pc = next]
    <3>1. /\ worker'[c].pc = next /\ worker'[c].cmd = cmd
          /\ worker'[c].mine = worker[c].mine /\ worker'[c].theirs = worker[c].theirs
      BY <1>0, <2>2 DEF TypeOK, Worker
    <3>2. pending'[cmd.wallet] = c
      BY <1>0, <2>0, <2>2 DEF TypeOK
    <3>3. WorkerConsistent(c)'
      BY <2>0, <2>2, <3>1, <3>2 DEF WorkerConsistent, CopyOf
    <3> QED BY <1>0, <2>0, <2>2, <3>3, AppendStep
  <2> QED BY <1>5, <2>1, <2>2 DEF Append, AppendTo
<1>6. ASSUME NEW c \in Workers, AppendReceiver(c) PROVE InductiveInvariant'
  <2> DEFINE cmd == worker[c].cmd
             v == Receiver(cmd)
  <2>0. /\ WorkerConsistent(c) /\ UNCHANGED <<stream, receipts>>
        /\ worker[c].pc = "appendReceiver" /\ cmd \in Command
    BY <1>0, <1>6 DEF InductiveInvariant, AppendReceiver, AppendTo, store, TypeOK, Worker
  <2>1. /\ cmd.op = "settle" /\ v \in Wallets /\ v # cmd.wallet
        /\ cmd.wallet \in Wallets /\ pending[cmd.wallet] = c
    BY <2>0, ReceiverFacts, CommandFacts DEF WorkerConsistent
  <2>2. CASE Retry(c)
    BY <1>0, <2>0, <2>2, RetryStep
  <2>3. CASE /\ stream[v].version = worker[c].theirs.version
             /\ pending[v] = Nobody
             /\ pending' = [pending EXCEPT ![v] = c]
             /\ worker' = [worker EXCEPT ![c].pc = "commit"]
    <3>1. /\ worker'[c].pc = "commit" /\ worker'[c].cmd = cmd
          /\ worker'[c].mine = worker[c].mine /\ worker'[c].theirs = worker[c].theirs
      BY <1>0, <2>3 DEF TypeOK, Worker
    <3>2. pending'[v] = c /\ pending'[cmd.wallet] = c
      BY <1>0, <2>1, <2>3 DEF TypeOK
    <3>3. WorkerConsistent(c)'
      BY <2>0, <2>1, <2>3, <3>1, <3>2 DEF WorkerConsistent, CopyOf
    <3> QED BY <1>0, <2>0, <2>1, <2>3, <3>3, AppendStep
  <2> QED BY <1>6, <2>2, <2>3 DEF AppendReceiver, AppendTo
<1>7. ASSUME NEW c \in Workers, CommitOne(c) PROVE InductiveInvariant'
  <2> DEFINE cmd == worker[c].cmd
             w == cmd.wallet
             e == Decision(cmd, worker[c].mine)
  <2>1. /\ cmd \in Command /\ w \in Wallets /\ stream[w] \in Aggregate
        /\ worker[c].mine = stream[w] /\ HasEvent(cmd, stream[w])
        /\ availableMinor(stream[w]) >= 0 /\ pending[w] = c
    BY <1>0, <1>7, CommitFacts DEF CommitOne
  <2>2. EventOK(e) /\ Applicable(stream[w], e)
    BY <2>1, DecisionSound
  <2>3. /\ apply(stream[w], e).version = stream[w].version + 1
        /\ availableMinor(apply(stream[w], e)) >= 0
    BY <2>1, <2>2, ApplyType, ApplySolvent
  <2>4. \A h \in Holds : stream[w].status[h] = "consumed" => apply(stream[w], e).status[h] = "consumed"
    BY <2>1, HoldsMove DEF HoldMove
  <2>5. stream' = [stream EXCEPT ![w] = apply(@, e)] /\ receipts' = receipts /\ Answer(c)
    BY <1>7 DEF CommitOne
  <2> HIDE DEF e, w, cmd
  <2>6. stream'[w] = apply(stream[w], e) /\ \A x \in Wallets \ {w} : stream'[x] = stream[x]
    BY <1>0, <2>1, <2>5 DEF TypeOK
  <2>7. ASSUME NEW t \in receipts PROVE stream'[Plan[t].from].status[t] = "consumed"
    <3>1. t \in Holds /\ Plan[t].from \in Wallets /\ stream[Plan[t].from].status[t] = "consumed"
      BY <1>0, LedgerAssumption DEF TypeOK, InductiveInvariant
    <3> QED BY <2>4, <2>6, <3>1
  <2> QED BY <1>0, <2>1, <2>3, <2>5, <2>6, <2>7, CommitStep
<1>8. ASSUME NEW c \in Workers, CommitSettle(c) PROVE InductiveInvariant'
  <2> DEFINE cmd == worker[c].cmd
             w == cmd.wallet
             v == Receiver(cmd)
             e == Decision(cmd, worker[c].mine)
             f == Credit(cmd)
  <2>1. /\ cmd \in Command /\ w \in Wallets /\ stream[w] \in Aggregate /\ cmd.op = "settle"
        /\ worker[c].mine = stream[w] /\ HasEvent(cmd, stream[w])
        /\ availableMinor(stream[w]) >= 0 /\ pending[w] = c
        /\ v \in Wallets /\ stream[v] \in Aggregate
        /\ availableMinor(stream[v]) >= 0 /\ pending[v] = c
    BY <1>0, <1>8, CommitFacts DEF CommitSettle
  <2>2. /\ EventOK(e) /\ Applicable(stream[w], e)
        /\ EventOK(f) /\ Applicable(stream[v], f) /\ f.kind = "MoneyDeposited" /\ v # w
        /\ cmd.hold \in Transfers /\ w = Plan[cmd.hold].from
    BY <2>1, DecisionSound, CreditApplicable, ReceiverFacts, CommandFacts
  <2>3. /\ apply(stream[w], e).version = stream[w].version + 1
        /\ availableMinor(apply(stream[w], e)) >= 0
        /\ apply(stream[v], f).version = stream[v].version + 1
        /\ availableMinor(apply(stream[v], f)) >= 0
        /\ apply(stream[v], f).status = stream[v].status
    BY <2>1, <2>2, ApplyType, ApplySolvent, DepositKeepsHolds
  <2>4. /\ \A h \in Holds : stream[w].status[h] = "consumed" => apply(stream[w], e).status[h] = "consumed"
        /\ cmd.hold \in Holds => apply(stream[w], e).status[cmd.hold] = "consumed"
    BY <2>1, HoldsMove DEF HoldMove
  <2>5. /\ stream' = [stream EXCEPT ![w] = apply(@, e), ![v] = apply(@, f)]
        /\ receipts' = receipts \cup {cmd.hold} /\ Answer(c)
    BY <1>8 DEF CommitSettle
  <2> HIDE DEF e, f, w, v, cmd
  <2>6. /\ stream'[w] = apply(stream[w], e) /\ stream'[v] = apply(stream[v], f)
        /\ \A x \in Wallets \ {w, v} : stream'[x] = stream[x]
    BY <1>0, <2>1, <2>2, <2>5 DEF TypeOK
  <2>7. ASSUME NEW t \in receipts' PROVE stream'[Plan[t].from].status[t] = "consumed"
    <3>1. CASE t \in receipts
      <4>1. t \in Holds /\ Plan[t].from \in Wallets /\ stream[Plan[t].from].status[t] = "consumed"
        BY <1>0, <3>1, LedgerAssumption DEF TypeOK, InductiveInvariant
      <4> QED BY <2>3, <2>4, <2>6, <4>1
    <3>2. CASE t = cmd.hold
      BY <2>2, <2>4, <2>6, <3>2, LedgerAssumption
    <3> QED BY <2>5, <3>1, <3>2
  <2>8. \A x \in Wallets : \/ stream'[x] = stream[x]
                           \/ /\ pending[x] = c
                              /\ stream'[x].version = stream[x].version + 1
                              /\ availableMinor(stream'[x]) >= 0
    BY <2>1, <2>3, <2>6
  <2> QED BY <1>0, <2>5, <2>7, <2>8, CommitStep
<1>9. ASSUME NEW c \in Workers, DeadlockVictim(c) \/ LoseConnection(c)
      PROVE  InductiveInvariant'
  BY <1>0, <1>9, AnswerStep DEF DeadlockVictim, LoseConnection, store
<1>10. CASE UNCHANGED vars
  <2>1. UNCHANGED <<stream, receipts, worker, pending>>
    BY <1>10 DEF vars, store
  <2>2. CASE Workers = {}
    BY <1>0, <2>1, <2>2 DEF InductiveInvariant, NoOverspend, availableMinor, heldMinor,
                            Reserved, Active
  <2>3. ASSUME NEW c \in Workers PROVE InductiveInvariant'
    <3>1. WorkerConsistent(c)'
      BY <1>0, <2>1, OtherWorker DEF InductiveInvariant
    <3> QED BY <1>0, <2>1, <3>1, QuietStep
  <2> QED BY <2>2, <2>3
<1> QED BY <1>1, <1>2, <1>3, <1>4, <1>5, <1>6, <1>7, <1>8, <1>9, <1>10 DEF Next, Step

-----------------------------------------------------------------------------
(* Theorems *)

\* The wallets that exist at the start are solvent aggregates.
LEMMA OpenedType ==
    ASSUME NEW w \in Wallets
    PROVE  /\ Opened(w) \in Aggregate
           /\ heldMinor(Opened(w)) = 0
           /\ Opened(w).balance \in Nat
           /\ \A h \in Holds : Opened(w).status[h] = "none"
<1>1. CASE w \notin DOMAIN Opening
  BY <1>1, EmptyType DEF Opened, Empty
<1>2. CASE w \in DOMAIN Opening
  <2>1. Opening[w] \in Nat
    BY <1>2, LedgerAssumption
  <2>2. Opened(w) = [version |-> IF Opening[w] = 0 THEN 1 ELSE 2, balance |-> Opening[w],
                     status |-> Empty.status, amount |-> Empty.amount]
    BY <1>2 DEF Opened, Empty
  <2>3. Opened(w) \in Aggregate
    BY <2>1, <2>2, EmptyType DEF Aggregate
  <2>4. Active(Opened(w)) = Active(Empty) /\ Opened(w).amount = Empty.amount
    BY <2>2 DEF Active
  <2>5. heldMinor(Opened(w)) = heldMinor(Empty)
    BY <2>3, <2>4, EmptyType, HeldSame
  <2> QED BY <2>1, <2>2, <2>3, <2>5, EmptyType DEF Empty
<1> QED BY <1>1, <1>2

\* The invariant holds before the first command.
LEMMA InvariantInit == Init => InductiveInvariant
<1> SUFFICES ASSUME Init PROVE InductiveInvariant
  OBVIOUS
<1>1. stream \in [Wallets -> Aggregate] /\ \A w \in Wallets : stream[w] = Opened(w)
  BY OpenedType DEF Init
<1>2. projection \in [Wallets -> Projection]
  BY OpenedType, ProjectionType DEF Init
<1>3. outbox \in [Wallets -> Nat] /\ external \in [Wallets -> Int]
  BY OpenedType DEF Init, Aggregate
<1>4. worker \in [Workers -> Worker] /\ \A c \in Workers : worker[c].pc = "idle"
  BY IdleType DEF Init, Idle
<1>5. TypeOK
  BY <1>1, <1>2, <1>3, <1>4, LedgerAssumption DEF Init, TypeOK, Projection
<1>6. NoOverspend
  BY <1>1, OpenedType DEF NoOverspend, availableMinor
<1>7. \A c \in Workers : WorkerConsistent(c)
  BY <1>4 DEF WorkerConsistent
<1> QED BY <1>5, <1>6, <1>7 DEF InductiveInvariant, Init

\* The inductive invariant holds in every reachable state: a command with a
\* pending append has a current copy of the stream.
THEOREM InvariantHolds == Spec => []InductiveInvariant
<1>1. InductiveInvariant /\ [Next]_vars => InductiveInvariant'
  BY InvariantStep
<1> QED BY <1>1, InvariantInit, PTL DEF Spec

\* Every variable of the ledger always has its type.
THEOREM TypeCorrect == Spec => []TypeOK
<1>1. InductiveInvariant => TypeOK
  BY DEF InductiveInvariant
<1> QED BY <1>1, InvariantHolds, PTL

\* No wallet ever reserves or spends more than it has.
THEOREM NeverOverspent == Spec => []NoOverspend
<1>1. InductiveInvariant => NoOverspend
  BY DEF InductiveInvariant
<1> QED BY <1>1, InvariantHolds, PTL

\* Every committed event can be replayed on the stream it was appended to.
THEOREM EveryCommitReplays == Spec => []CommitsReplay
<1>1. InductiveInvariant => CommitsReplay
  <2> SUFFICES ASSUME InductiveInvariant, NEW c \in Workers, worker[c].pc = "commit"
               PROVE  LET cmd == worker[c].cmd
                      IN  /\ Applicable(stream[cmd.wallet], Decision(cmd, worker[c].mine))
                          /\ cmd.op = "settle" => Applicable(stream[Receiver(cmd)], Credit(cmd))
    BY DEF CommitsReplay
  <2> DEFINE cmd == worker[c].cmd
  <2>1. /\ cmd \in Command /\ worker[c].mine = stream[cmd.wallet]
        /\ worker[c].mine \in Aggregate /\ availableMinor(worker[c].mine) >= 0
        /\ HasEvent(cmd, worker[c].mine)
        /\ cmd.op = "settle" => /\ stream[Receiver(cmd)] \in Aggregate
                                /\ availableMinor(stream[Receiver(cmd)]) >= 0
    BY CommitFacts
  <2>2. Applicable(stream[cmd.wallet], Decision(cmd, worker[c].mine))
    BY <2>1, DecisionSound
  <2>3. cmd.op = "settle" => Applicable(stream[Receiver(cmd)], Credit(cmd))
    BY <2>1, CreditApplicable
  <2> QED BY <2>2, <2>3
<1> QED BY <1>1, InvariantHolds, PTL

\* One step keeps projections and outbox right.
LEMMA ReadModelsStep ==
    ASSUME InductiveInvariant, ReadModelsMatch, [Next]_vars
    PROVE  ReadModelsMatch'
<1> DEFINE Match(w) == /\ projection[w] = projectionFromAggregate(stream[w])
                       /\ outbox[w] = stream[w].version
<1>0. TypeOK /\ \A w \in Wallets : Match(w)
  BY DEF InductiveInvariant, ReadModelsMatch
<1>a. ASSUME \A w \in Wallets : /\ projection'[w] = projectionFromAggregate(stream'[w])
                                /\ outbox'[w] = stream'[w].version
      PROVE  ReadModelsMatch'
  BY <1>a DEF ReadModelsMatch, projectionFromAggregate, availableMinor, heldMinor, Reserved, Active
<1>b. ASSUME UNCHANGED <<stream, projection, outbox>> PROVE ReadModelsMatch'
  BY <1>0, <1>a, <1>b
<1>1. ASSUME NEW c \in Workers, CommitOne(c) PROVE ReadModelsMatch'
  <2> DEFINE w == worker[c].cmd.wallet
             e == Decision(worker[c].cmd, worker[c].mine)
  <2>1. /\ w \in Wallets /\ stream[w] \in Aggregate /\ worker[c].mine = stream[w]
        /\ worker[c].cmd \in Command /\ HasEvent(worker[c].cmd, worker[c].mine)
    BY <1>1, CommitFacts DEF CommitOne
  <2>2. apply(stream[w], e).version = stream[w].version + 1
    BY <2>1, DecisionSound, ApplyType
  <2>3. /\ stream' = [stream EXCEPT ![w] = apply(@, e)]
        /\ outbox' = [outbox EXCEPT ![w] = @ + 1]
        /\ projection' = [projection EXCEPT ![w] = projectionFromAggregate(apply(worker[c].mine, e))]
    BY <1>1 DEF CommitOne
  <2> HIDE DEF w, e
  <2> QED BY <1>0, <1>a, <2>1, <2>2, <2>3 DEF TypeOK
<1>2. ASSUME NEW c \in Workers, CommitSettle(c) PROVE ReadModelsMatch'
  <2> DEFINE cmd == worker[c].cmd
             w == cmd.wallet
             v == Receiver(cmd)
             e == Decision(cmd, worker[c].mine)
             f == Credit(cmd)
  <2>1. /\ w \in Wallets /\ stream[w] \in Aggregate /\ worker[c].mine = stream[w]
        /\ v \in Wallets /\ stream[v] \in Aggregate /\ worker[c].theirs = stream[v]
        /\ cmd \in Command /\ HasEvent(cmd, worker[c].mine) /\ cmd.op = "settle"
    BY <1>2, CommitFacts DEF CommitSettle
  <2>2. /\ apply(stream[w], e).version = stream[w].version + 1
        /\ apply(stream[v], f).version = stream[v].version + 1
        /\ v # w
    BY <2>1, DecisionSound, ApplyType, ReceiverFacts
  <2>3. /\ stream' = [stream EXCEPT ![w] = apply(@, e), ![v] = apply(@, f)]
        /\ outbox' = [outbox EXCEPT ![w] = @ + 1, ![v] = @ + 1]
        /\ projection' = [projection EXCEPT
              ![w] = projectionFromAggregate(apply(worker[c].mine, e)),
              ![v] = projectionFromAggregate(apply(worker[c].theirs, f))]
    BY <1>2 DEF CommitSettle
  <2> HIDE DEF cmd, w, v, e, f
  <2> QED BY <1>0, <1>a, <2>1, <2>2, <2>3 DEF TypeOK
<1>4. ASSUME NEW c \in Workers,
             FindReceipt(c) \/ LoadStream(c) \/ LoadReceiver(c) \/ Append(c)
                 \/ AppendReceiver(c) \/ DeadlockVictim(c) \/ LoseConnection(c)
                 \/ \E cmd \in Command : Begin(c, cmd)
      PROVE  ReadModelsMatch'
  BY <1>4, <1>b DEF FindReceipt, LoadStream, LoadReceiver, Append, AppendReceiver, AppendTo,
                    DeadlockVictim, LoseConnection, Begin, store
<1>5. CASE UNCHANGED vars
  BY <1>5, <1>b DEF vars, store
<1> QED BY <1>1, <1>2, <1>4, <1>5 DEF Next, Step

\* Projections and outbox always match the streams.
THEOREM ReadModelsAlwaysMatch == Spec => []ReadModelsMatch
<1>1. Init => ReadModelsMatch
  BY DEF Init, ReadModelsMatch
<1>2. InductiveInvariant /\ ReadModelsMatch /\ [Next]_vars => ReadModelsMatch'
  BY ReadModelsStep
<1> QED BY <1>1, <1>2, InvariantHolds, PTL DEF Spec

\* One step moves the hold and the receipt of each transfer as they may move.
LEMMA LifecycleStep ==
    ASSUME InductiveInvariant, [Next]_vars, NEW t \in Transfers
    PROVE  Contract(t)!Next \/ UNCHANGED Contract(t)!vars
<1> DEFINE s == stream[Plan[t].from].status[t]
<1>0. /\ TypeOK /\ t \in Holds /\ Plan[t].from \in Wallets
      /\ t \in receipts => s = "consumed"
  BY LedgerAssumption DEF InductiveInvariant
<1>a. ASSUME HoldMove(s, s'), (t \in receipts') = (t \in receipts)
      PROVE  Contract(t)!Next \/ UNCHANGED Contract(t)!vars
  BY <1>a DEF HoldMove, Contract!Next, Contract!Place, Contract!Release, Contract!Consume,
              Contract!vars
<1>b. ASSUME UNCHANGED <<stream, receipts>>
      PROVE  Contract(t)!Next \/ UNCHANGED Contract(t)!vars
  BY <1>b, <1>a DEF HoldMove
<1>1. ASSUME NEW c \in Workers, CommitOne(c)
      PROVE  Contract(t)!Next \/ UNCHANGED Contract(t)!vars
  <2> DEFINE w == worker[c].cmd.wallet
             e == Decision(worker[c].cmd, worker[c].mine)
  <2>1. /\ w \in Wallets /\ stream[w] \in Aggregate /\ worker[c].mine = stream[w]
        /\ worker[c].cmd \in Command /\ HasEvent(worker[c].cmd, worker[c].mine)
    BY <1>1, CommitFacts DEF CommitOne
  <2>2. HoldMove(stream[w].status[t], apply(stream[w], e).status[t])
    BY <1>0, <2>1, HoldsMove
  <2>3. stream' = [stream EXCEPT ![w] = apply(@, e)] /\ receipts' = receipts
    BY <1>1 DEF CommitOne
  <2> HIDE DEF w, e
  <2>4. HoldMove(s, s')
    BY <1>0, <2>1, <2>2, <2>3 DEF TypeOK, HoldMove
  <2> QED BY <1>a, <2>3, <2>4
<1>2. ASSUME NEW c \in Workers, CommitSettle(c)
      PROVE  Contract(t)!Next \/ UNCHANGED Contract(t)!vars
  <2> DEFINE cmd == worker[c].cmd
             w == cmd.wallet
             v == Receiver(cmd)
             e == Decision(cmd, worker[c].mine)
             f == Credit(cmd)
  <2>1. /\ w \in Wallets /\ stream[w] \in Aggregate /\ worker[c].mine = stream[w]
        /\ v \in Wallets /\ stream[v] \in Aggregate
        /\ cmd \in Command /\ HasEvent(cmd, worker[c].mine) /\ cmd.op = "settle"
    BY <1>0, <1>2, CommitFacts DEF CommitSettle, TypeOK
  <2>2. /\ cmd.hold \in Transfers /\ w = Plan[cmd.hold].from /\ v # w
        /\ apply(stream[v], f).status = stream[v].status
    BY <2>1, CommandFacts, ReceiverFacts, DepositKeepsHolds
  <2>3. /\ t = cmd.hold => stream[w].status[t] = "active" /\ apply(stream[w], e).status[t] = "consumed"
        /\ t # cmd.hold => apply(stream[w], e).status[t] = stream[w].status[t]
    BY <1>0, <2>1, HoldsMove
  <2>4. /\ stream' = [stream EXCEPT ![w] = apply(@, e), ![v] = apply(@, f)]
        /\ receipts' = receipts \cup {cmd.hold}
    BY <1>2 DEF CommitSettle
  <2> HIDE DEF cmd, w, v, e, f
  <2>5. /\ stream'[w] = apply(stream[w], e) /\ stream'[v] = apply(stream[v], f)
        /\ \A x \in Wallets \ {w, v} : stream'[x] = stream[x]
    BY <1>0, <2>1, <2>2, <2>4 DEF TypeOK
  <2>6. CASE t = cmd.hold
    <3>1. s = "active" /\ s' = "consumed" /\ t \notin receipts /\ t \in receipts'
      BY <1>0, <2>2, <2>3, <2>4, <2>5, <2>6
    <3> QED BY <3>1 DEF Contract!Next, Contract!Settle
  <2>7. CASE t # cmd.hold
    <3>1. s' = s
      BY <1>0, <2>2, <2>3, <2>5, <2>7
    <3> QED BY <1>a, <2>4, <2>7, <3>1 DEF HoldMove
  <2> QED BY <2>6, <2>7
<1>3. ASSUME NEW c \in Workers,
             FindReceipt(c) \/ LoadStream(c) \/ LoadReceiver(c) \/ Append(c)
                 \/ AppendReceiver(c) \/ DeadlockVictim(c)
                 \/ LoseConnection(c) \/ \E cmd \in Command : Begin(c, cmd)
      PROVE  UNCHANGED <<stream, receipts>>
  BY <1>3 DEF FindReceipt, LoadStream, LoadReceiver, Append, AppendReceiver, AppendTo,
              DeadlockVictim, LoseConnection, Begin, store
<1>4. CASE UNCHANGED vars
  BY <1>4, <1>b DEF vars, store
<1> QED BY <1>b, <1>1, <1>2, <1>3, <1>4 DEF Next, Step

\* The ledger keeps, for every transfer at once, the contract that the saga
\* relies on.
THEOREM LedgerKeepsHoldLifecycle == Spec => KeepsHoldLifecycle
<1>1. Init => \A t \in Transfers : Contract(t)!Init
  <2> SUFFICES ASSUME Init, NEW t \in Transfers PROVE Contract(t)!Init
    OBVIOUS
  <2>1. t \in Holds /\ Plan[t].from \in Wallets
    BY LedgerAssumption
  <2> QED BY <2>1, OpenedType DEF Init, Contract!Init
<1>2. InductiveInvariant /\ [Next]_vars =>
        [\A t \in Transfers : Contract(t)!Next \/ UNCHANGED Contract(t)!vars]_vars
  BY LifecycleStep
<1> QED BY <1>1, <1>2, InvariantHolds, PTL DEF Spec, KeepsHoldLifecycle

-----------------------------------------------------------------------------
(* Balances *)

\* A sum over finitely many transfers is a natural number.
LEMMA SumType ==
    ASSUME NEW n \in [Transfers -> Nat], NEW S, S \subseteq Transfers
    PROVE  IsFiniteSet(Units(S, n)) /\ SumOver(S, n) \in Nat
<1> DEFINE U == [t \in S |-> {t} \X (1..n[t])]
<1>1. IsFiniteSet(S)
  <2>1. S \in SUBSET Holds
    BY LedgerAssumption
  <2> QED BY <2>1, LedgerAssumption, FS_Subset
<1>2. IsFiniteSet({U[t] : t \in S})
  <2>1. U \in Surjection(S, {U[t] : t \in S})
    BY DEF Surjection
  <2> QED BY <1>1, <2>1, FS_Surjection
<1>3. {U[t] : t \in S} = {{t} \X (1..n[t]) : t \in S}
  OBVIOUS
<1>4. \A T \in {{t} \X (1..n[t]) : t \in S} : IsFiniteSet(T)
  <2> SUFFICES ASSUME NEW t \in S PROVE IsFiniteSet({t} \X (1..n[t]))
    OBVIOUS
  <2>1. n[t] \in Nat
    OBVIOUS
  <2> QED BY <2>1, HoldUnits
<1>5. IsFiniteSet(Units(S, n))
  BY <1>2, <1>3, <1>4, FS_UNION DEF Units
<1> QED BY <1>5, FS_CardinalityType DEF SumOver

\* One more transfer adds its own amount.
LEMMA SumMore ==
    ASSUME NEW n \in [Transfers -> Nat], NEW S, S \subseteq Transfers,
           NEW t \in Transfers, t \notin S
    PROVE  SumOver(S \cup {t}, n) = SumOver(S, n) + n[t]
<1> DEFINE new == {t} \X (1..n[t])
<1>1. IsFiniteSet(new) /\ Cardinality(new) = n[t] /\ n[t] \in Nat
  BY HoldUnits
<1>2. Units(S \cup {t}, n) = Units(S, n) \cup new
  BY DEF Units
<1>3. Units(S, n) \cap new = {}
  BY DEF Units
<1>4. IsFiniteSet(Units(S, n)) /\ SumOver(S, n) \in Nat
  BY SumType
<1> HIDE DEF new
<1>5. Cardinality(Units(S, n) \cup new) =
        Cardinality(Units(S, n)) + Cardinality(new) - Cardinality({})
  BY <1>1, <1>3, <1>4, FS_Union
<1>6. Cardinality({}) = 0
  BY FS_EmptySet
<1>7. SumOver(S \cup {t}, n) = Cardinality(Units(S, n) \cup new)
  BY <1>2 DEF SumOver
<1>8. SumOver(S, n) = Cardinality(Units(S, n))
  BY DEF SumOver
<1> HIDE DEF SumOver, Units
<1> QED BY <1>1, <1>4, <1>5, <1>6, <1>7, <1>8

\* What an event changes of the balance is what it exchanges with the outside.
LEMMA BalanceChange ==
    ASSUME NEW a \in Aggregate, NEW e, EventOK(e)
    PROVE  /\ apply(a, e).balance = a.balance + ExternalChange(e, a)
           /\ ExternalChange(e, a) \in Int
<1>0. a.version \in Nat /\ a.balance \in Int /\ a.amount \in [Holds -> Nat]
  BY DEF Aggregate
<1>1. CASE e.kind = "WalletCreated"
  BY <1>0, <1>1 DEF apply, ExternalChange, Aggregate
<1>2. CASE e.kind = "MoneyDeposited" /\ e.amount \in Amount
  <2>1. apply(a, e).balance = a.balance + e.amount
    BY <1>0, <1>2 DEF apply, Aggregate
  <2>2. ExternalChange(e, a) = e.amount
    BY <1>2 DEF ExternalChange
  <2> QED BY <1>0, <1>2, <2>1, <2>2 DEF Amount
<1>3. CASE e.kind = "WithdrawalCompleted" /\ e.amount \in Amount
  <2>1. apply(a, e).balance = a.balance - e.amount
    BY <1>0, <1>3 DEF apply, Aggregate
  <2>2. ExternalChange(e, a) = 0 - e.amount
    BY <1>3 DEF ExternalChange
  <2> QED BY <1>0, <1>3, <2>1, <2>2 DEF Amount
<1>4. CASE e.kind \in {"FundsHeld", "HoldReleased"} /\ e.hold \in Holds
  BY <1>0, <1>4 DEF apply, ExternalChange, Aggregate
<1>5. CASE e.kind = "HoldConsumed" /\ e.hold \in Holds
  <2>1. a.amount[e.hold] \in Nat
    BY <1>0, <1>5
  <2>2. apply(a, e).balance = a.balance - a.amount[e.hold]
    BY <1>0, <1>5 DEF apply, Aggregate
  <2>3. ExternalChange(e, a) = 0 - a.amount[e.hold]
    BY <1>5 DEF ExternalChange
  <2> QED BY <1>0, <2>1, <2>2, <2>3
<1> QED BY <1>1, <1>2, <1>3, <1>4, <1>5 DEF EventOK

\* A settlement consumes a hold of exactly the transfer's amount.
LEMMA SettleDebit ==
    ASSUME NEW cmd \in Command, cmd.op = "settle", NEW a \in Aggregate, HasEvent(cmd, a)
    PROVE  a.amount[cmd.hold] = Plan[cmd.hold].amount
<1>1. cmd.hold \in Transfers /\ cmd.amount = Plan[cmd.hold].amount
  <2>1. PICK o \in {"place", "settle", "drop"}, t \in Transfers :
           cmd = [op |-> o, wallet |-> Plan[t].from, hold |-> t, amount |-> Plan[t].amount]
    BY DEF Command
  <2> QED BY <2>1
<1>2. a.version # 0 /\ a.amount[cmd.hold] = cmd.amount
  BY DEF HasEvent, Decision, Throws
<1> QED BY <1>1, <1>2

\* One step keeps the accounts of every wallet balanced.
LEMMA BalancesStep ==
    ASSUME InductiveInvariant, BalancesAddUp, [Next]_vars
    PROVE  BalancesAddUp'
<1> DEFINE Out(R, x) == {t \in R : Plan[t].from = x}
           In(R, x) == {t \in R : Plan[t].to = x}
<1>0. /\ TypeOK /\ receipts \subseteq Transfers
      /\ Debits \in [Transfers -> Nat] /\ Credits \in [Transfers -> Nat]
  BY LedgerAssumption DEF InductiveInvariant, TypeOK, Debits, Credits
<1>a. ASSUME NEW x \in Wallets
      PROVE  /\ stream[x].balance = external[x] - SumOver(Out(receipts, x), Debits)
                                                + SumOver(In(receipts, x), Credits)
             /\ SumOver(Out(receipts, x), Debits) \in Nat
             /\ SumOver(In(receipts, x), Credits) \in Nat
             /\ external[x] \in Int /\ stream[x].balance \in Int
  <2>1. Out(receipts, x) \subseteq Transfers /\ In(receipts, x) \subseteq Transfers
    BY <1>0
  <2>2. SumOver(Out(receipts, x), Debits) \in Nat /\ SumOver(In(receipts, x), Credits) \in Nat
    BY <1>0, <2>1, SumType
  <2> QED BY <1>0, <2>2 DEF BalancesAddUp, TypeOK, Aggregate
<1>b. ASSUME \A x \in Wallets :
               stream'[x].balance = external'[x] - SumOver(Out(receipts', x), Debits)
                                                 + SumOver(In(receipts', x), Credits)
      PROVE  BalancesAddUp'
  BY <1>b DEF BalancesAddUp, SumOver, Units, Debits, Credits
<1>1. ASSUME NEW c \in Workers, CommitOne(c) PROVE BalancesAddUp'
  <2> DEFINE w == worker[c].cmd.wallet
             e == Decision(worker[c].cmd, worker[c].mine)
  <2>1. /\ w \in Wallets /\ stream[w] \in Aggregate /\ worker[c].mine = stream[w]
        /\ worker[c].cmd \in Command /\ HasEvent(worker[c].cmd, worker[c].mine)
    BY <1>1, CommitFacts DEF CommitOne
  <2>2. /\ apply(stream[w], e).balance = stream[w].balance + ExternalChange(e, stream[w])
        /\ ExternalChange(e, stream[w]) \in Int
    BY <2>1, DecisionSound, BalanceChange
  <2>3. /\ stream' = [stream EXCEPT ![w] = apply(@, e)] /\ receipts' = receipts
        /\ external' = [external EXCEPT ![w] = @ + ExternalChange(e, stream[w])]
    BY <1>1, <2>1 DEF CommitOne
  <2> HIDE DEF w, e
  <2>4. /\ stream'[w].balance = stream[w].balance + ExternalChange(e, stream[w])
        /\ external'[w] = external[w] + ExternalChange(e, stream[w])
        /\ \A x \in Wallets \ {w} : stream'[x] = stream[x] /\ external'[x] = external[x]
    BY <1>0, <2>1, <2>2, <2>3 DEF TypeOK
  <2> HIDE DEF Out, In
  <2>5. ASSUME NEW x \in Wallets
        PROVE  stream'[x].balance = external'[x] - SumOver(Out(receipts, x), Debits)
                                                 + SumOver(In(receipts, x), Credits)
    <3>1. CASE x = w
      BY <1>a, <2>2, <2>4, <3>1
    <3>2. CASE x # w
      BY <1>a, <2>4, <3>2
    <3> QED BY <3>1, <3>2
  <2> QED BY <1>b, <2>3, <2>5
<1>2. ASSUME NEW c \in Workers, CommitSettle(c) PROVE BalancesAddUp'
  <2> DEFINE cmd == worker[c].cmd
             w == cmd.wallet
             v == Receiver(cmd)
             e == Decision(cmd, worker[c].mine)
             f == Credit(cmd)
             t == cmd.hold
  <2>1. /\ w \in Wallets /\ stream[w] \in Aggregate /\ worker[c].mine = stream[w]
        /\ v \in Wallets /\ stream[v] \in Aggregate
        /\ cmd \in Command /\ HasEvent(cmd, stream[w]) /\ cmd.op = "settle"
    BY <1>0, <1>2, CommitFacts DEF CommitSettle, TypeOK
  <2>2. /\ t \in Transfers /\ t \in Holds /\ w = Plan[t].from /\ v = Plan[t].to /\ v # w
        /\ EventOK(e) /\ e = [kind |-> "HoldConsumed", hold |-> t]
        /\ EventOK(f) /\ f = [kind |-> "MoneyDeposited", amount |-> Plan[t].credit]
        /\ Plan[t].amount \in Nat /\ Plan[t].credit \in Nat
        /\ stream[w].status[t] = "active"
    BY <2>1, CommandFacts, ReceiverFacts, DecisionSound, LedgerAssumption
       DEF Receiver, Credit, deposit
  <2>3. t \notin receipts
    BY <2>2 DEF InductiveInvariant
  <2>4. /\ apply(stream[w], e).balance = stream[w].balance - Plan[t].amount
        /\ apply(stream[v], f).balance = stream[v].balance + Plan[t].credit
    <3>0. stream[w].amount[t] = Plan[t].amount
      BY <2>1, SettleDebit
    <3>1. ExternalChange(e, stream[w]) = 0 - Plan[t].amount
      <4> HIDE DEF e, t, w
      <4> QED BY <2>2, <3>0 DEF ExternalChange
    <3>2. ExternalChange(f, stream[v]) = Plan[t].credit
      BY <2>2 DEF ExternalChange
    <3>3. stream[w].balance \in Int /\ stream[v].balance \in Int
      BY <2>1 DEF Aggregate
    <3> HIDE DEF e, f, t
    <3> QED BY <2>1, <2>2, <3>1, <3>2, <3>3, BalanceChange
  <2>5. /\ stream' = [stream EXCEPT ![w] = apply(@, e), ![v] = apply(@, f)]
        /\ receipts' = receipts \cup {t} /\ external' = external
    BY <1>2 DEF CommitSettle
  <2> HIDE DEF cmd, w, v, e, f, t
  <2>6. /\ stream'[w].balance = stream[w].balance - Plan[t].amount
        /\ stream'[v].balance = stream[v].balance + Plan[t].credit
        /\ \A x \in Wallets \ {w, v} : stream'[x] = stream[x]
    BY <1>0, <2>1, <2>2, <2>4, <2>5 DEF TypeOK
  <2>7. /\ SumOver(Out(receipts, w) \cup {t}, Debits)
             = SumOver(Out(receipts, w), Debits) + Plan[t].amount
        /\ SumOver(In(receipts, v) \cup {t}, Credits)
             = SumOver(In(receipts, v), Credits) + Plan[t].credit
    <3>1. /\ Out(receipts, w) \subseteq Transfers /\ t \notin Out(receipts, w)
          /\ In(receipts, v) \subseteq Transfers /\ t \notin In(receipts, v)
          /\ Debits[t] = Plan[t].amount /\ Credits[t] = Plan[t].credit
      BY <1>0, <2>2, <2>3 DEF Debits, Credits
    <3> HIDE DEF Out, In
    <3> QED BY <1>0, <2>2, <3>1, SumMore
  <2>8. /\ Out(receipts', w) = Out(receipts, w) \cup {t}
        /\ In(receipts', v) = In(receipts, v) \cup {t}
        /\ \A x \in Wallets \ {w} : Out(receipts', x) = Out(receipts, x)
        /\ \A x \in Wallets \ {v} : In(receipts', x) = In(receipts, x)
    BY <2>2, <2>5
  <2> HIDE DEF Out, In
  <2>9. ASSUME NEW x \in Wallets
        PROVE  stream'[x].balance = external'[x] - SumOver(Out(receipts', x), Debits)
                                                 + SumOver(In(receipts', x), Credits)
    <3> DEFINE out == SumOver(Out(receipts, x), Debits)
               in == SumOver(In(receipts, x), Credits)
    <3>0. /\ out \in Nat /\ in \in Nat /\ external[x] \in Int /\ external'[x] = external[x]
          /\ stream[x].balance = external[x] - out + in
          /\ Plan[t].amount \in Nat /\ Plan[t].credit \in Nat
      BY <1>a, <2>2, <2>5
    <3>1. CASE x = w
      <4>1. /\ stream'[x].balance = stream[x].balance - Plan[t].amount
            /\ SumOver(Out(receipts', x), Debits) = out + Plan[t].amount
            /\ SumOver(In(receipts', x), Credits) = in
        BY <2>1, <2>2, <2>6, <2>7, <2>8, <3>1
      <4> HIDE DEF out, in
      <4> QED BY <3>0, <4>1
    <3>2. CASE x = v
      <4>1. /\ stream'[x].balance = stream[x].balance + Plan[t].credit
            /\ SumOver(Out(receipts', x), Debits) = out
            /\ SumOver(In(receipts', x), Credits) = in + Plan[t].credit
        BY <2>1, <2>2, <2>6, <2>7, <2>8, <3>2
      <4> HIDE DEF out, in
      <4> QED BY <3>0, <4>1
    <3>3. CASE x # w /\ x # v
      BY <1>a, <2>5, <2>6, <2>8, <3>3
    <3> QED BY <3>1, <3>2, <3>3
  <2> QED BY <1>b, <2>9
<1>3. ASSUME UNCHANGED <<stream, external, receipts>> PROVE BalancesAddUp'
  <2> HIDE DEF Out, In
  <2> QED BY <1>a, <1>b, <1>3
<1>4. ASSUME NEW c \in Workers,
             FindReceipt(c) \/ LoadStream(c) \/ LoadReceiver(c) \/ Append(c)
                 \/ AppendReceiver(c) \/ DeadlockVictim(c) \/ LoseConnection(c)
                 \/ \E cmd \in Command : Begin(c, cmd)
      PROVE  UNCHANGED <<stream, external, receipts>>
  BY <1>4 DEF FindReceipt, LoadStream, LoadReceiver, Append, AppendReceiver, AppendTo,
              DeadlockVictim, LoseConnection, Begin, store
<1>5. CASE UNCHANGED vars
  BY <1>3, <1>5 DEF vars, store
<1> QED BY <1>1, <1>2, <1>3, <1>4, <1>5 DEF Next, Step

\* Money is neither made nor lost inside the ledger: every balance is what came
\* from outside, less the settled debits, plus the settled credits.
THEOREM BalancesAlwaysAddUp == Spec => []BalancesAddUp
<1>1. Init => BalancesAddUp
  <2> SUFFICES ASSUME Init, NEW w \in Wallets
               PROVE  stream[w].balance = external[w]
                          - SumOver({t \in receipts : Plan[t].from = w}, Debits)
                          + SumOver({t \in receipts : Plan[t].to = w}, Credits)
    BY DEF BalancesAddUp
  <2>1. receipts = {} /\ stream[w].balance = external[w] /\ external[w] \in Int
    BY OpenedType DEF Init
  <2>2. Units({}, Debits) = {} /\ Units({}, Credits) = {}
    BY DEF Units
  <2>3. SumOver({}, Debits) = 0 /\ SumOver({}, Credits) = 0
    BY <2>2, FS_EmptySet DEF SumOver
  <2>4. {t \in receipts : Plan[t].from = w} = {} /\ {t \in receipts : Plan[t].to = w} = {}
    BY <2>1
  <2> QED BY <2>1, <2>3, <2>4
<1>2. InductiveInvariant /\ BalancesAddUp /\ [Next]_vars => BalancesAddUp'
  BY BalancesStep
<1> QED BY <1>1, <1>2, InvariantHolds, PTL DEF Spec

-----------------------------------------------------------------------------
(* Retries *)

\* The events appended since the start, for streams of the versions in f.
AppendedTo(f) == UNION {{w} \X ((Opened(w).version + 1)..f[w]) : w \in Wallets}
Appended == AppendedTo([w \in Wallets |-> stream[w].version])

\* How many commands have committed: a settlement appends two events.
Commits == Cardinality(Appended) - Cardinality(receipts)

Running == {c \in Workers : worker[c].pc # "idle"}

\* The command will meet a conflict: another one has committed since it read.
Stale(c) ==
    LET self == worker[c]
    IN  \/ /\ self.pc \in {"loadReceiver", "append", "appendReceiver"}
           /\ self.mine.version # stream[self.cmd.wallet].version
        \/ /\ self.pc \in {"append", "appendReceiver"}
           /\ self.cmd.op = "settle"
           /\ self.theirs.version # stream[Receiver(self.cmd)].version

\* A first attempt is free; every other one has been paid for by a commit.
AttemptPaid(c) ==
    IF worker[c].pc = "idle" THEN worker[c].attempt = 0
    ELSE worker[c].attempt <= IF Stale(c) THEN Commits ELSE Commits + 1

CommitsCounted ==
    /\ \A w \in Wallets : Opened(w).version <= stream[w].version
    /\ IsFiniteSet(Appended)
    /\ IsFiniteSet(receipts)
    /\ Commits \in Nat

\* The strengthening of RetriesPaidFor: a command is running or has committed,
\* not both, so there are no more commits to pay with than other commands.
RetryInvariant ==
    /\ CommitsCounted
    /\ IsFiniteSet(Running)
    /\ Commits + Cardinality(Running) <= commands
    /\ \A c \in Workers : AttemptPaid(c)

\* One event more in a stream is one event more.
LEMMA AppendedMore ==
    ASSUME NEW f \in [Wallets -> Nat], NEW g \in [Wallets -> Nat], NEW w \in Wallets,
           \A x \in Wallets : Opened(x).version <= f[x],
           g[w] = f[w] + 1, \A x \in Wallets \ {w} : g[x] = f[x],
           IsFiniteSet(AppendedTo(f))
    PROVE  /\ IsFiniteSet(AppendedTo(g))
           /\ Cardinality(AppendedTo(g)) = Cardinality(AppendedTo(f)) + 1
<1> DEFINE new == <<w, f[w] + 1>>
<1>0. \A x \in Wallets : Opened(x).version \in Nat
  BY OpenedType DEF Aggregate
<1>1. new \notin AppendedTo(f)
  BY DEF AppendedTo
<1>2. AppendedTo(g) = AppendedTo(f) \cup {new}
  <2>1. ASSUME NEW x \in Wallets, NEW n
        PROVE  n \in (Opened(x).version + 1)..g[x]
                   <=> n \in (Opened(x).version + 1)..f[x] \/ (x = w /\ n = f[w] + 1)
    <3>1. CASE x = w
      BY <1>0, <3>1
    <3>2. CASE x # w
      BY <3>2
    <3> QED BY <3>1, <3>2
  <2>2. ASSUME NEW p
        PROVE  p \in AppendedTo(g) <=> p \in AppendedTo(f) \/ p = new
    <3>1. \A h : p \in AppendedTo(h) <=>
             \E x \in Wallets : \E n \in (Opened(x).version + 1)..h[x] : p = <<x, n>>
      BY DEF AppendedTo
    <3>2. ASSUME NEW x \in Wallets, NEW n \in (Opened(x).version + 1)..g[x], p = <<x, n>>
          PROVE  p \in AppendedTo(f) \/ p = new
      BY <2>1, <3>1, <3>2
    <3>3. ASSUME NEW x \in Wallets, NEW n \in (Opened(x).version + 1)..f[x], p = <<x, n>>
          PROVE  p \in AppendedTo(g)
      BY <2>1, <3>1, <3>3
    <3>4. p = new => p \in AppendedTo(g)
      <4>1. f[w] + 1 \in (Opened(w).version + 1)..g[w]
        BY <1>0
      <4> QED BY <3>1, <4>1
    <3> QED BY <3>1, <3>2, <3>3, <3>4
  <2> QED BY <2>2
<1> HIDE DEF new
<1> QED BY <1>1, <1>2, FS_AddElement, FS_CardinalityType

\* A step that changes no stream and one command at most, and says what becomes
\* of that command.
LEMMA RetryQuiet ==
    ASSUME RetryInvariant, NEW c \in Workers, UNCHANGED <<stream, receipts>>,
           \A d \in Workers \ {c} : worker'[d] = worker[d],
           IsFiniteSet(Running'), Commits + Cardinality(Running') <= commands',
           AttemptPaid(c)'
    PROVE  RetryInvariant'
<1>1. Appended' = Appended /\ Commits' = Commits
  BY DEF Appended, Commits
<1>2. CommitsCounted'
  BY <1>1 DEF RetryInvariant, CommitsCounted
<1>3. ASSUME NEW d \in Workers \ {c} PROVE AttemptPaid(d)'
  <2>1. Stale(d)' = Stale(d)
    BY DEF Stale
  <2> QED BY <1>1, <2>1 DEF RetryInvariant, AttemptPaid
<1> QED BY <1>1, <1>2, <1>3 DEF RetryInvariant

\* The command goes on with the same attempt, and is stale only if it was.
LEMMA RetryGoesOn ==
    ASSUME RetryInvariant, TypeOK, NEW c \in Workers, UNCHANGED <<stream, receipts, commands>>,
           \A d \in Workers \ {c} : worker'[d] = worker[d],
           worker[c].pc # "idle", worker'[c].pc # "idle",
           worker'[c].attempt = worker[c].attempt, Stale(c)' => Stale(c)
    PROVE  RetryInvariant'
<1>1. Running' = Running
  BY DEF Running
<1>2. Commits' = Commits /\ Commits \in Nat
  BY DEF Commits, Appended, RetryInvariant, CommitsCounted
<1>3. worker[c].attempt \in Nat
  BY DEF TypeOK, Worker
<1>4. AttemptPaid(c)'
  BY <1>2, <1>3 DEF AttemptPaid, RetryInvariant
<1>5. Commits + Cardinality(Running') <= commands'
  BY <1>1 DEF RetryInvariant
<1>6. IsFiniteSet(Running')
  BY <1>1 DEF RetryInvariant
<1> QED BY <1>4, <1>5, <1>6, RetryQuiet

\* A command that is answered is running no more.
LEMMA RunningLess ==
    ASSUME RetryInvariant, NEW c \in Workers, worker[c].pc # "idle", worker'[c].pc = "idle",
           \A d \in Workers \ {c} : worker'[d] = worker[d]
    PROVE  /\ IsFiniteSet(Running') /\ Cardinality(Running) \in Nat
           /\ Cardinality(Running') = Cardinality(Running) - 1
<1>1. Running' = Running \ {c} /\ c \in Running
  BY DEF Running
<1>2. IsFiniteSet(Running)
  BY DEF RetryInvariant
<1> QED BY <1>1, <1>2, FS_RemoveElement, FS_CardinalityType

\* Answering a command without a commit.
LEMMA RetryAnswered ==
    ASSUME RetryInvariant, TypeOK, NEW c \in Workers, worker[c].pc # "idle", Answer(c),
           UNCHANGED <<stream, receipts, commands>>
    PROVE  RetryInvariant'
<1>1. /\ worker'[c].pc = "idle" /\ worker'[c].attempt = 0
      /\ \A d \in Workers \ {c} : worker'[d] = worker[d]
  BY DEF Answer, TypeOK, Idle
<1>2. AttemptPaid(c)'
  BY <1>1 DEF AttemptPaid
<1>3. Commits \in Nat /\ commands \in Nat
  BY LedgerAssumption DEF RetryInvariant, CommitsCounted, TypeOK
<1>4. /\ IsFiniteSet(Running') /\ Cardinality(Running) \in Nat
      /\ Cardinality(Running') = Cardinality(Running) - 1
  BY <1>1, RunningLess
<1>5. Commits + Cardinality(Running') <= commands'
  BY <1>3, <1>4 DEF RetryInvariant
<1> QED BY <1>1, <1>2, <1>4, <1>5, RetryQuiet

\* A conflict is met by a stale command, so that its next attempt is paid for.
LEMMA RetryRetried ==
    ASSUME RetryInvariant, TypeOK, NEW c \in Workers, worker[c].pc # "idle", Stale(c), Retry(c),
           UNCHANGED <<stream, receipts, commands>>
    PROVE  RetryInvariant'
<1> DEFINE self == worker[c]
           again == [self EXCEPT !.pc = IF self.cmd.op = "settle" THEN "receipt" ELSE "load",
                                 !.mine = Empty, !.theirs = Empty, !.attempt = @ + 1]
<1>0. worker' = [worker EXCEPT ![c] = IF self.cmd.op = "create" \/ self.attempt = MaxAttempts
                                      THEN Idle ELSE again]
  BY DEF Retry
<1>1. again.pc \in {"receipt", "load"} /\ again.attempt = self.attempt + 1
  BY DEF TypeOK, Worker
<1>2. Idle.pc = "idle" /\ Idle.attempt = 0
  BY DEF Idle
<1>3. self.attempt \in Nat /\ Commits \in Nat /\ self.attempt <= Commits /\ commands \in Nat
  BY LedgerAssumption DEF RetryInvariant, CommitsCounted, AttemptPaid, TypeOK, Worker
<1> HIDE DEF self, again
<1>4. worker'[c] \in {Idle, again} /\ \A d \in Workers \ {c} : worker'[d] = worker[d]
  BY <1>0 DEF TypeOK
<1>5. CASE worker'[c] = Idle
  <2>1. AttemptPaid(c)'
    BY <1>2, <1>5 DEF AttemptPaid
  <2>2. /\ IsFiniteSet(Running') /\ Cardinality(Running) \in Nat
        /\ Cardinality(Running') = Cardinality(Running) - 1
    BY <1>2, <1>4, <1>5, RunningLess
  <2>3. Commits + Cardinality(Running') <= commands'
    BY <1>3, <2>2 DEF RetryInvariant
  <2> QED BY <1>4, <2>1, <2>2, <2>3, RetryQuiet
<1>6. CASE worker'[c] = again
  <2>1. Running' = Running
    BY <1>1, <1>4, <1>6 DEF Running
  <2>2. ~Stale(c)' /\ Commits' = Commits
    BY <1>1, <1>6 DEF Stale, Commits, Appended
  <2>3. worker'[c].pc # "idle" /\ worker'[c].attempt = self.attempt + 1
    BY <1>1, <1>6
  <2>4. AttemptPaid(c)'
    BY <1>3, <2>2, <2>3 DEF AttemptPaid
  <2>5. IsFiniteSet(Running') /\ Commits + Cardinality(Running') <= commands'
    BY <2>1 DEF RetryInvariant
  <2> QED BY <1>4, <2>4, <2>5, RetryQuiet
<1> QED BY <1>4, <1>5, <1>6

\* A commit turns one running command into one commit, with which every other
\* running command can pay.
LEMMA RetryCommitted ==
    ASSUME RetryInvariant, TypeOK, NEW c \in Workers, worker[c].pc # "idle", Answer(c),
           UNCHANGED commands, CommitsCounted', Commits' = Commits + 1
    PROVE  RetryInvariant'
<1>1. /\ worker'[c].pc = "idle" /\ worker'[c].attempt = 0
      /\ \A d \in Workers \ {c} : worker'[d] = worker[d]
  BY DEF Answer, TypeOK, Idle
<1>2. Commits \in Nat /\ commands \in Nat
  BY LedgerAssumption DEF RetryInvariant, CommitsCounted, TypeOK
<1>3. /\ IsFiniteSet(Running') /\ Cardinality(Running) \in Nat
      /\ Cardinality(Running') = Cardinality(Running) - 1
  BY <1>1, RunningLess
<1>4. Commits' + Cardinality(Running') <= commands'
  BY <1>2, <1>3 DEF RetryInvariant
<1>5. AttemptPaid(c)'
  BY <1>1 DEF AttemptPaid
<1>6. ASSUME NEW d \in Workers \ {c} PROVE AttemptPaid(d)'
  <2>1. AttemptPaid(d) /\ worker'[d] = worker[d] /\ worker[d].attempt \in Nat
    BY <1>1 DEF RetryInvariant, TypeOK, Worker
  <2>2. CASE worker[d].pc = "idle"
    BY <2>1, <2>2 DEF AttemptPaid
  <2>3. CASE worker[d].pc # "idle"
    <3>1. worker[d].attempt <= Commits + 1
      BY <1>2, <2>1, <2>3 DEF AttemptPaid
    <3> QED BY <1>2, <2>1, <2>3, <3>1 DEF AttemptPaid
  <2> QED BY <2>2, <2>3
<1> QED BY <1>3, <1>4, <1>5, <1>6 DEF RetryInvariant

\* The number of commits after a step that adds one event to some streams.
LEMMA CommitsAfter ==
    ASSUME TypeOK, TypeOK', CommitsCounted, NEW w \in Wallets,
           stream'[w].version = stream[w].version + 1,
           \A x \in Wallets \ {w} : stream'[x].version = stream[x].version
    PROVE  /\ \A x \in Wallets : Opened(x).version <= stream'[x].version
           /\ IsFiniteSet(Appended')
           /\ Cardinality(Appended') = Cardinality(Appended) + 1
<1> DEFINE f == [x \in Wallets |-> stream[x].version]
           g == [x \in Wallets |-> stream'[x].version]
<1>1. f \in [Wallets -> Nat] /\ g \in [Wallets -> Nat]
  BY DEF TypeOK, Aggregate
<1>2. \A x \in Wallets : Opened(x).version <= f[x] /\ Opened(x).version \in Nat
  BY OpenedType DEF CommitsCounted, Aggregate
<1>3. g[w] = f[w] + 1 /\ \A x \in Wallets \ {w} : g[x] = f[x]
  OBVIOUS
<1>4. Appended = AppendedTo(f) /\ Appended' = AppendedTo(g)
  BY DEF Appended, AppendedTo
<1>5. IsFiniteSet(AppendedTo(f))
  BY <1>4 DEF CommitsCounted
<1>6. \A x \in Wallets : Opened(x).version <= stream'[x].version
  <2> SUFFICES ASSUME NEW x \in Wallets PROVE Opened(x).version <= g[x]
    OBVIOUS
  <2> HIDE DEF f, g
  <2>1. CASE x = w
    BY <1>1, <1>2, <1>3, <2>1
  <2>2. CASE x # w
    BY <1>2, <1>3, <2>2
  <2> QED BY <2>1, <2>2
<1> HIDE DEF f, g
<1> QED BY <1>1, <1>2, <1>3, <1>4, <1>5, <1>6, AppendedMore

\* Every step preserves the strengthening.
LEMMA RetryStepInv ==
    ASSUME InductiveInvariant, RetryInvariant, [Next]_vars
    PROVE  RetryInvariant'
<1>0. TypeOK /\ TypeOK' /\ \A c \in Workers : WorkerConsistent(c)
  BY TypeStep DEF InductiveInvariant
<1>1. ASSUME NEW c \in Workers, NEW cmd \in Command, Begin(c, cmd) PROVE RetryInvariant'
  <2>1. /\ worker'[c].pc \in {"load", "receipt"} /\ worker'[c].attempt = 1
        /\ worker[c].pc = "idle" /\ commands' = commands + 1
        /\ \A d \in Workers \ {c} : worker'[d] = worker[d]
        /\ UNCHANGED <<stream, receipts>>
    BY <1>0, <1>1 DEF Begin, TypeOK, Idle, store
  <2>2. Running' = Running \cup {c} /\ c \notin Running
    BY <2>1 DEF Running
  <2>3. /\ IsFiniteSet(Running') /\ Cardinality(Running) \in Nat
        /\ Cardinality(Running') = Cardinality(Running) + 1
    BY <2>2, FS_AddElement, FS_CardinalityType DEF RetryInvariant
  <2>4. Commits \in Nat /\ Commits' = Commits /\ commands \in Nat
    BY <1>0, <2>1, LedgerAssumption
       DEF RetryInvariant, CommitsCounted, Commits, Appended, TypeOK
  <2>5. Commits + Cardinality(Running') <= commands'
    BY <2>1, <2>3, <2>4 DEF RetryInvariant
  <2>6. ~Stale(c)'
    BY <2>1 DEF Stale
  <2>7. AttemptPaid(c)'
    BY <2>1, <2>4, <2>6 DEF AttemptPaid
  <2> QED BY <2>1, <2>3, <2>5, <2>7, RetryQuiet
<1>2. ASSUME NEW c \in Workers, FindReceipt(c) PROVE RetryInvariant'
  <2>0. worker[c].pc # "idle" /\ UNCHANGED <<stream, receipts, commands>>
    BY <1>2 DEF FindReceipt, store
  <2>1. CASE Answer(c)
    BY <1>0, <2>0, <2>1, RetryAnswered
  <2>2. CASE worker' = [worker EXCEPT ![c].pc = "load"]
    <3>1. /\ worker'[c].pc = "load" /\ worker'[c].attempt = worker[c].attempt
          /\ \A d \in Workers \ {c} : worker'[d] = worker[d]
      BY <1>0, <2>2 DEF TypeOK, Worker
    <3>2. ~Stale(c)'
      BY <3>1 DEF Stale
    <3> QED BY <1>0, <2>0, <3>1, <3>2, RetryGoesOn
  <2> QED BY <1>2, <2>1, <2>2 DEF FindReceipt
<1>3. ASSUME NEW c \in Workers, LoadStream(c) PROVE RetryInvariant'
  <2> DEFINE cmd == worker[c].cmd
             a == stream[cmd.wallet]
  <2>0. worker[c].pc # "idle" /\ UNCHANGED <<stream, receipts, commands>>
    BY <1>3 DEF LoadStream, store
  <2>1. CASE Answer(c)
    BY <1>0, <2>0, <2>1, RetryAnswered
  <2>2. ASSUME NEW pc \in {"loadReceiver", "append"}, pc = "append" => cmd.op # "settle",
               worker' = [worker EXCEPT ![c].pc = pc, ![c].mine = a]
        PROVE  RetryInvariant'
    <3>1. /\ worker'[c].pc = pc /\ worker'[c].mine = a /\ worker'[c].cmd = cmd
          /\ worker'[c].attempt = worker[c].attempt
          /\ \A d \in Workers \ {c} : worker'[d] = worker[d]
      BY <1>0, <2>2 DEF TypeOK, Worker
    <3>2. ~Stale(c)'
      BY <2>0, <2>2, <3>1 DEF Stale
    <3> QED BY <1>0, <2>0, <2>2, <3>1, <3>2, RetryGoesOn
  <2>3. CASE cmd.op = "settle"
    BY <1>3, <2>1, <2>2, <2>3 DEF LoadStream
  <2>4. CASE cmd.op # "settle"
    BY <1>3, <2>1, <2>2, <2>4 DEF LoadStream
  <2> QED BY <2>3, <2>4
<1>4. ASSUME NEW c \in Workers, LoadReceiver(c) PROVE RetryInvariant'
  <2> DEFINE cmd == worker[c].cmd
             a == stream[Receiver(cmd)]
  <2>0. worker[c].pc = "loadReceiver" /\ UNCHANGED <<stream, receipts, commands>>
    BY <1>4 DEF LoadReceiver, store
  <2>1. CASE Answer(c)
    BY <1>0, <2>0, <2>1, RetryAnswered
  <2>2. CASE worker' = [worker EXCEPT ![c].pc = "append", ![c].theirs = a]
    <3>1. /\ worker'[c].pc = "append" /\ worker'[c].theirs = a /\ worker'[c].cmd = cmd
          /\ worker'[c].mine = worker[c].mine /\ worker'[c].attempt = worker[c].attempt
          /\ \A d \in Workers \ {c} : worker'[d] = worker[d]
      BY <1>0, <2>2 DEF TypeOK, Worker
    <3>2. Stale(c)' => Stale(c)
      BY <2>0, <3>1 DEF Stale
    <3> QED BY <1>0, <2>0, <3>1, <3>2, RetryGoesOn
  <2> QED BY <1>4, <2>1, <2>2 DEF LoadReceiver
<1>5. ASSUME NEW c \in Workers, Append(c) \/ AppendReceiver(c) PROVE RetryInvariant'
  <2> DEFINE cmd == worker[c].cmd
  <2>0. /\ worker[c].pc \in {"append", "appendReceiver"}
        /\ UNCHANGED <<stream, receipts, commands>>
    BY <1>5 DEF Append, AppendReceiver, AppendTo, store
  <2>1. \/ Stale(c) /\ Retry(c)
        \/ \E pc \in {"appendReceiver", "commit"} : worker' = [worker EXCEPT ![c].pc = pc]
    <3>1. CASE Append(c)
      BY <3>1 DEF Append, AppendTo, Stale
    <3>2. CASE AppendReceiver(c)
      <4>1. cmd.op = "settle" /\ worker[c].pc = "appendReceiver"
        BY <1>0, <3>2 DEF AppendReceiver, WorkerConsistent
      <4> QED BY <3>2, <4>1 DEF AppendReceiver, AppendTo, Stale
    <3> QED BY <1>5, <3>1, <3>2
  <2>2. CASE Stale(c) /\ Retry(c)
    BY <1>0, <2>0, <2>2, RetryRetried
  <2>3. ASSUME NEW pc \in {"appendReceiver", "commit"},
               worker' = [worker EXCEPT ![c].pc = pc]
        PROVE  RetryInvariant'
    <3>1. /\ worker'[c].pc = pc /\ worker'[c].theirs = worker[c].theirs
          /\ worker'[c].cmd = cmd /\ worker'[c].mine = worker[c].mine
          /\ worker'[c].attempt = worker[c].attempt
          /\ \A d \in Workers \ {c} : worker'[d] = worker[d]
      BY <1>0, <2>3 DEF TypeOK, Worker
    <3>2. Stale(c)' => Stale(c)
      BY <2>0, <2>3, <3>1 DEF Stale
    <3> QED BY <1>0, <2>0, <2>3, <3>1, <3>2, RetryGoesOn
  <2> QED BY <2>1, <2>2, <2>3
<1>6. ASSUME NEW c \in Workers, CommitOne(c) PROVE RetryInvariant'
  <2> DEFINE w == worker[c].cmd.wallet
             e == Decision(worker[c].cmd, worker[c].mine)
  <2>1. /\ w \in Wallets /\ stream[w] \in Aggregate /\ worker[c].mine = stream[w]
        /\ worker[c].cmd \in Command /\ HasEvent(worker[c].cmd, worker[c].mine)
    BY <1>6, CommitFacts DEF CommitOne
  <2>2. apply(stream[w], e).version = stream[w].version + 1
    BY <2>1, DecisionSound, ApplyType
  <2>3. /\ stream' = [stream EXCEPT ![w] = apply(@, e)] /\ receipts' = receipts
        /\ Answer(c) /\ UNCHANGED commands /\ worker[c].pc # "idle"
    BY <1>6 DEF CommitOne
  <2> HIDE DEF w, e
  <2>4. /\ stream'[w].version = stream[w].version + 1
        /\ \A x \in Wallets \ {w} : stream'[x].version = stream[x].version
    BY <1>0, <2>1, <2>2, <2>3 DEF TypeOK
  <2>5. /\ \A x \in Wallets : Opened(x).version <= stream'[x].version
        /\ IsFiniteSet(Appended')
        /\ Cardinality(Appended') = Cardinality(Appended) + 1
    BY <1>0, <2>1, <2>4, CommitsAfter DEF RetryInvariant
  <2>6. CommitsCounted' /\ Commits' = Commits + 1
    <3>1. Cardinality(Appended) \in Nat /\ Cardinality(receipts) \in Nat /\ Commits \in Nat
      BY FS_CardinalityType DEF RetryInvariant, CommitsCounted
    <3>2. Commits' = Commits + 1
      BY <2>3, <2>5, <3>1 DEF Commits
    <3>3. IsFiniteSet(receipts')
      BY <2>3 DEF RetryInvariant, CommitsCounted
    <3> QED BY <2>5, <3>1, <3>2, <3>3 DEF CommitsCounted
  <2> QED BY <1>0, <2>3, <2>6, RetryCommitted
<1>7. ASSUME NEW c \in Workers, CommitSettle(c) PROVE RetryInvariant'
  <2> DEFINE cmd == worker[c].cmd
             w == cmd.wallet
             v == Receiver(cmd)
             e == Decision(cmd, worker[c].mine)
             f == Credit(cmd)
             t == cmd.hold
             old == [x \in Wallets |-> stream[x].version]
             mid == [old EXCEPT ![w] = @ + 1]
             new == [x \in Wallets |-> stream'[x].version]
  <2>1. /\ w \in Wallets /\ stream[w] \in Aggregate /\ worker[c].mine = stream[w]
        /\ v \in Wallets /\ stream[v] \in Aggregate
        /\ cmd \in Command /\ HasEvent(cmd, stream[w]) /\ cmd.op = "settle"
    BY <1>0, <1>7, CommitFacts DEF CommitSettle, TypeOK
  <2>2. /\ apply(stream[w], e).version = stream[w].version + 1
        /\ apply(stream[v], f).version = stream[v].version + 1
        /\ v # w /\ t \in Transfers /\ t \in Holds /\ w = Plan[t].from
        /\ stream[w].status[t] = "active"
    <3>1. EventOK(e) /\ e.kind = "HoldConsumed" /\ e.hold = t BY <2>1, DecisionSound
    <3>2. stream[w].status[t] = "active" BY <2>1, <3>1, DecisionSound
    <3>3. EventOK(f) /\ v # w BY <2>1, ReceiverFacts
    <3>4. t \in Transfers /\ t \in Holds /\ w = Plan[t].from BY <2>1, CommandFacts
    <3> HIDE DEF e, f, w, v, t
    <3>5. apply(stream[w], e).version = stream[w].version + 1 BY <2>1, <3>1, ApplyType
    <3>6. apply(stream[v], f).version = stream[v].version + 1 BY <2>1, <3>3, ApplyType
    <3> QED BY <3>2, <3>3, <3>4, <3>5, <3>6
  <2>3. t \notin receipts
    BY <2>2 DEF InductiveInvariant
  <2>4. /\ stream' = [stream EXCEPT ![w] = apply(@, e), ![v] = apply(@, f)]
        /\ receipts' = receipts \cup {t} /\ Answer(c) /\ UNCHANGED commands
        /\ worker[c].pc # "idle"
    BY <1>7 DEF CommitSettle
  <2> HIDE DEF cmd, w, v, e, f, t
  <2>5. /\ old \in [Wallets -> Nat] /\ new \in [Wallets -> Nat] /\ mid \in [Wallets -> Nat]
        /\ mid[w] = old[w] + 1 /\ \A x \in Wallets \ {w} : mid[x] = old[x]
        /\ new[v] = mid[v] + 1 /\ \A x \in Wallets \ {v} : new[x] = mid[x]
    BY <1>0, <2>1, <2>2, <2>4 DEF TypeOK, Aggregate
  <2>6. /\ \A x \in Wallets : Opened(x).version <= old[x] /\ Opened(x).version \in Nat
        /\ Appended = AppendedTo(old) /\ Appended' = AppendedTo(new)
        /\ IsFiniteSet(AppendedTo(old))
    BY OpenedType DEF RetryInvariant, CommitsCounted, Aggregate, Appended, AppendedTo
  <2>7. new = [x \in Wallets |-> stream'[x].version]
    OBVIOUS
  <2> HIDE DEF old, mid, new
  <2>8. \A x \in Wallets : Opened(x).version <= mid[x] /\ Opened(x).version <= new[x]
    <3> SUFFICES ASSUME NEW x \in Wallets
                 PROVE  Opened(x).version <= mid[x] /\ Opened(x).version <= new[x]
      OBVIOUS
    <3>1. mid[x] \in Nat /\ old[x] \in Nat /\ new[x] \in Nat /\ mid[x] >= old[x] /\ new[x] >= mid[x]
      BY <2>5
    <3> QED BY <2>6, <3>1
  <2>9. /\ IsFiniteSet(AppendedTo(mid))
        /\ Cardinality(AppendedTo(mid)) = Cardinality(AppendedTo(old)) + 1
    BY <2>1, <2>5, <2>6, AppendedMore
  <2>10. /\ IsFiniteSet(AppendedTo(new))
         /\ Cardinality(AppendedTo(new)) = Cardinality(AppendedTo(mid)) + 1
    BY <2>1, <2>5, <2>8, <2>9, AppendedMore
  <2>11. /\ IsFiniteSet(receipts') /\ Cardinality(receipts') = Cardinality(receipts) + 1
    BY <2>3, <2>4, FS_AddElement DEF RetryInvariant, CommitsCounted
  <2>12. CommitsCounted' /\ Commits' = Commits + 1
    <3>1. Cardinality(Appended) \in Nat /\ Cardinality(receipts) \in Nat /\ Commits \in Nat
      BY FS_CardinalityType DEF RetryInvariant, CommitsCounted
    <3>2. Commits' = Commits + 1
      BY <2>6, <2>9, <2>10, <2>11, <3>1 DEF Commits
    <3>3. \A x \in Wallets : Opened(x).version <= stream'[x].version
      BY <2>7, <2>8
    <3>4. IsFiniteSet(Appended')
      BY <2>6, <2>10
    <3> QED BY <2>11, <3>1, <3>2, <3>3, <3>4 DEF CommitsCounted
  <2> QED BY <1>0, <2>4, <2>12, RetryCommitted
<1>8. ASSUME NEW c \in Workers, DeadlockVictim(c) \/ LoseConnection(c) PROVE RetryInvariant'
  <2>1. UNCHANGED <<stream, receipts, commands>> /\ Answer(c)
    BY <1>8 DEF DeadlockVictim, LoseConnection, store
  <2>2. CASE worker[c].pc # "idle"
    BY <1>0, <2>1, <2>2, RetryAnswered
  <2>3. CASE worker[c].pc = "idle"
    <3>1. WaitsFor(c) = Nobody
      BY <2>3 DEF WaitsFor
    <3>2. c \in Workers /\ Nobody \notin Workers
      BY LedgerAssumption
    <3> QED BY <1>8, <2>3, <3>1, <3>2 DEF DeadlockVictim, LoseConnection
  <2> QED BY <2>2, <2>3
<1>9. CASE UNCHANGED vars
  <2>1. UNCHANGED <<stream, receipts, worker, commands>>
    BY <1>9 DEF vars, store
  <2> QED BY <2>1 DEF RetryInvariant, CommitsCounted, Commits, Appended, Running, AttemptPaid, Stale
<1> QED BY <1>1, <1>2, <1>3, <1>4, <1>5, <1>6, <1>7, <1>8, <1>9 DEF Next, Step

\* No command is tried more often than there have been commands: the optimistic
\* loop cannot spin.
THEOREM RetriesAlwaysPaidFor == Spec => []RetriesPaidFor
<1>1. Init => RetryInvariant
  <2> SUFFICES ASSUME Init PROVE RetryInvariant
    OBVIOUS
  <2>1. /\ \A w \in Wallets : stream[w] = Opened(w) /\ Opened(w).version \in Nat
        /\ receipts = {} /\ commands = 0
        /\ \A c \in Workers : worker[c].pc = "idle" /\ worker[c].attempt = 0
    BY OpenedType DEF Init, Idle, Aggregate
  <2>2. Appended = {}
    <3>1. \A w \in Wallets : (Opened(w).version + 1)..stream[w].version = {}
      BY <2>1
    <3> QED BY <3>1 DEF Appended, AppendedTo
  <2>3. Running = {}
    BY <2>1 DEF Running
  <2>4. Commits = 0
    BY <2>1, <2>2, FS_EmptySet DEF Commits
  <2> QED BY <2>1, <2>2, <2>3, <2>4, FS_EmptySet
          DEF RetryInvariant, CommitsCounted, AttemptPaid
<1>2. InductiveInvariant /\ RetryInvariant /\ [Next]_vars => RetryInvariant'
  BY RetryStepInv
<1>3. InductiveInvariant /\ RetryInvariant => RetriesPaidFor
  <2> SUFFICES ASSUME InductiveInvariant, RetryInvariant, NEW c \in Workers
               PROVE  worker[c].attempt <= commands
    BY DEF RetriesPaidFor
  <2>1. AttemptPaid(c) /\ Commits \in Nat /\ commands \in Nat /\ worker[c].attempt \in Nat
    BY LedgerAssumption DEF RetryInvariant, CommitsCounted, InductiveInvariant, TypeOK, Worker
  <2>2. CASE worker[c].pc = "idle"
    BY <2>1, <2>2 DEF AttemptPaid
  <2>3. CASE worker[c].pc # "idle"
    <3>1. worker[c].attempt <= Commits + 1
      BY <2>1, <2>3 DEF AttemptPaid
    <3>2. Running # {} /\ IsFiniteSet(Running)
      BY <2>3 DEF Running, RetryInvariant
    <3>3. Cardinality(Running) \in Nat /\ Cardinality(Running) # 0
      BY <3>2, FS_EmptySet, FS_CardinalityType
    <3> QED BY <2>1, <3>1, <3>3 DEF RetryInvariant
  <2> QED BY <2>2, <2>3
<1> QED BY <1>1, <1>2, <1>3, InvariantHolds, PTL DEF Spec
=============================================================================
