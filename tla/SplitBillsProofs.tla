-------------------------- MODULE SplitBillsProofs --------------------------
(***************************************************************************)
(* Theorems about SplitBills, for any bills, users, workers and bounds.    *)
(* What a transaction counts may be outdated when it commits; the          *)
(* invariant says that it is never too much.                               *)
(***************************************************************************)
EXTENDS SplitBills, FiniteSetTheorems, TLAPS

Bill == [creator: Users, total: Nat \ {0}, mode: {"equal", "custom"},
         participants: Seq(Users), deadline: BOOLEAN, amounts: Seq(Nat \ {0})]

\* The types, with what the shares of a bill are.
Types ==
    /\ bill = NoBill \/ bill \in Bill
    /\ Shares \subseteq Positions
    /\ IsFiniteSet(Shares)
    /\ overdue \in BOOLEAN
    /\ payment \in [Positions -> {"none", "open", "Completed", "Failed"}]
    /\ counted \in [Positions -> {"none", "Pending", "PartiallyPaid", "Settled"}]
    /\ worker \in [Workers -> [pc: {"idle", "lock", "insert"},
                               candidates: SUBSET Positions, locked: SUBSET Positions]]
    /\ reminders \subseteq Positions
    /\ reminded \in [Positions -> Nat]
    /\ rollbacks \in 0..MaxRollbacks

\* Only shares of the bill are paid.
PaymentsFit == \A i \in Positions : payment[i] # "none" => i \in Shares

\* A transaction that has counted the bill as Settled has seen all other shares
\* as paid.
CountsFit ==
    \A i \in Positions : counted[i] # "none" =>
        /\ payment[i] = "open"
        /\ counted[i] = "Settled" => Shares \subseteq Completed \cup {i}

IInv ==
    /\ Types
    /\ PaymentsFit
    /\ CountsFit
    /\ RemindedOnce
    /\ AnnouncedIsTrue

-----------------------------------------------------------------------------
(* The derived status *)

\* deriveSplitBillStatus compares numbers of shares; what that says of the sets.
LEMMA DerivedStatus ==
    ASSUME IsFiniteSet(Shares), NEW P \in SUBSET Shares
    PROVE  LET s == deriveSplitBillStatus(Cardinality(P), Cardinality(Shares))
           IN  /\ s \in {"Pending", "PartiallyPaid", "Settled"}
               /\ s = "Settled" <=> P = Shares /\ Shares # {}
               /\ s = "Pending" <=> P = {}
<1>1. IsFiniteSet(P) /\ (Cardinality(Shares) = Cardinality(P) => Shares = P)
  BY FS_Subset
<1>2. Cardinality(P) \in Nat /\ Cardinality(Shares) \in Nat BY <1>1, FS_CardinalityType
<1>3. (Cardinality(P) = 0 <=> P = {}) /\ (Cardinality(Shares) = 0 <=> Shares = {})
  BY <1>1, FS_EmptySet
<1> QED BY <1>1, <1>2, <1>3 DEF deriveSplitBillStatus

LEMMA StatusMeans ==
    ASSUME IsFiniteSet(Shares)
    PROVE  /\ Status \in {"Pending", "PartiallyPaid", "Settled"}
           /\ Status = "Settled" <=> Completed = Shares /\ Shares # {}
           /\ Status = "Pending" <=> Completed = {}
<1>1. Completed \in SUBSET Shares BY DEF Completed
<1> QED BY <1>1, DerivedStatus DEF Status

\* The same after a step.
StatusFits ==
    /\ Status \in {"Pending", "PartiallyPaid", "Settled"}
    /\ Status = "Settled" <=> Completed = Shares /\ Shares # {}
    /\ Status = "Pending" <=> Completed = {}

LEMMA StatusHere == IsFiniteSet(Shares) => StatusFits
BY StatusMeans DEF StatusFits

LEMMA StatusNext == IsFiniteSet(Shares)' => StatusFits'
BY StatusHere, PTL

-----------------------------------------------------------------------------
(* Types *)

\* The amounts of an accepted bill: one positive amount for each participant.
LEMMA AmountsType ==
    ASSUME NEW d \in Requests, Acceptable(d)
    PROVE  /\ shareAmounts(d) \in Seq(Nat \ {0})
           /\ DOMAIN shareAmounts(d) = 1..Len(d.participants)
           /\ DOMAIN d.participants = 1..Len(d.participants)
           /\ Len(d.participants) \in Nat
<1>1. /\ d \in CreateSplitBillDto /\ d.total \in Nat /\ d.participants \in Seq(Users)
      /\ d.custom \in Seq(Nat) /\ d.mode \in {"equal", "custom"}
  BY SplitAssumption DEF CreateSplitBillDto
<1>2. DOMAIN d.participants = 1..Len(d.participants) /\ Len(d.participants) \in Nat BY <1>1
<1>3. CASE d.mode = "equal"
  <2> DEFINE n == Len(d.participants)
  <2>1. n \in Nat \ {0} /\ d.total \div n \in Nat \ {0} /\ d.total % n \in Nat
    BY <1>1, <1>2, <1>3 DEF Acceptable
  <2>2. \A i \in 1..n : d.total \div n + (IF i <= d.total % n THEN 1 ELSE 0) \in Nat \ {0}
    BY <2>1
  <2>3. shareAmounts(d) = [i \in 1..n |-> d.total \div n + (IF i <= d.total % n THEN 1 ELSE 0)]
    BY <1>3 DEF shareAmounts, EqualAmounts
  <2> HIDE DEF n
  <2>4. shareAmounts(d) \in [1..n -> Nat \ {0}] BY <2>2, <2>3
  <2>5. shareAmounts(d) \in Seq(Nat \ {0}) BY <2>1, <2>4
  <2> QED BY <1>2, <2>4, <2>5 DEF n
<1>4. CASE d.mode = "custom"
  <2>1. shareAmounts(d) = d.custom /\ Len(d.custom) = Len(d.participants)
    BY <1>4 DEF shareAmounts, Acceptable
  <2>2. \A i \in 1..Len(d.custom) : d.custom[i] \in Nat \ {0}
    BY <1>1, <1>4 DEF Acceptable
  <2>3. d.custom \in Seq(Nat \ {0}) BY <1>1, <2>2, SMTT(30)
  <2> QED BY <1>1, <1>2, <2>1, <2>3
<1> QED BY <1>1, <1>3, <1>4

\* The bill that create inserts.
LEMMA CreateTypes ==
    ASSUME NEW d \in Requests, create(d)
    PROVE  /\ bill' \in Bill
           /\ Shares' \subseteq Positions
           /\ IsFiniteSet(Shares')
<1>1. /\ d \in CreateSplitBillDto /\ d.total \in Nat /\ d.participants \in Seq(Users)
      /\ d.creator \in Users /\ d.mode \in {"equal", "custom"} /\ d.deadline \in BOOLEAN
  BY SplitAssumption DEF CreateSplitBillDto
<1>2. d.total > 0 BY DEF create, Acceptable
<1>3. /\ bill'.amounts = shareAmounts(d) /\ bill'.creator = d.creator
      /\ bill' = [creator |-> d.creator, total |-> d.total, mode |-> d.mode,
                  participants |-> d.participants, deadline |-> d.deadline,
                  amounts |-> shareAmounts(d)]
  BY DEF create
<1>4. /\ shareAmounts(d) \in Seq(Nat \ {0})
      /\ DOMAIN shareAmounts(d) = DOMAIN d.participants
      /\ DOMAIN shareAmounts(d) = 1..Len(d.participants) /\ Len(d.participants) \in Nat
  BY AmountsType DEF create
<1>5. bill' \in Bill BY <1>1, <1>2, <1>3, <1>4 DEF Bill
<1>6. Shares' = DOMAIN shareAmounts(d) BY <1>3 DEF Shares
<1>7. Shares' \subseteq Positions BY <1>4, <1>6 DEF Positions
<1>8. IsFiniteSet(Shares') BY <1>4, <1>6, FS_Interval
<1> QED BY <1>5, <1>7, <1>8

LEMMA TypesStep == ASSUME Types, [Next]_vars PROVE Types'
<1>1. ASSUME NEW d \in Requests, create(d) PROVE Types'
  BY <1>1, CreateTypes DEF create, Types
<1>2. ASSUME UNCHANGED bill PROVE Shares' = Shares /\ (bill' = NoBill \/ bill' \in Bill)
  BY <1>2 DEF Shares, Types
<1>3. CASE DeadlinePasses BY <1>2, <1>3 DEF DeadlinePasses, Types
<1>4. ASSUME NEW i \in Positions, payShare(i) PROVE Types'
  BY <1>2, <1>4 DEF payShare, Types
<1>5. ASSUME NEW i \in Positions, CountPaid(i) PROVE Types'
  <2>1. counted' \in [Positions -> {"none", "Pending", "PartiallyPaid", "Settled"}]
    BY <1>5 DEF CountPaid, deriveSplitBillStatus, Types
  <2> QED BY <1>2, <1>5, <2>1 DEF CountPaid, Types
<1>6. ASSUME NEW i \in Positions, CommitPaid(i) PROVE Types'
  BY <1>2, <1>6 DEF CommitPaid, Types
<1>7. ASSUME NEW i \in Positions, RollbackPaid(i) PROVE Types'
  BY <1>2, <1>7, SplitAssumption DEF RollbackPaid, Types
<1>8. ASSUME NEW i \in Positions, FailPayment(i) PROVE Types'
  BY <1>2, <1>8 DEF FailPayment, Types
<1>9. ASSUME NEW w \in Workers, Scan(w) PROVE Types'
  <2>1. Candidates \subseteq Positions BY DEF Candidates, Types
  <2> QED BY <1>2, <1>9, <2>1 DEF Scan, Types
<1>10. ASSUME NEW w \in Workers, Lock(w) PROVE Types'
  <2> DEFINE free == {i \in worker[w].candidates : \A v \in Workers : i \notin worker[v].locked}
             chosen == {i \in free : Cardinality({j \in free : j < i}) < BatchSize}
  <2>1. chosen \subseteq Positions BY DEF Types
  <2>2. worker' = [worker EXCEPT ![w].pc = "insert", ![w].locked = chosen]
    BY <1>10 DEF Lock
  <2> HIDE DEF chosen
  <2>3. worker' \in [Workers -> [pc: {"idle", "lock", "insert"},
                                 candidates: SUBSET Positions, locked: SUBSET Positions]]
    BY <2>1, <2>2, ZenonT(30) DEF Types
  <2> QED BY <1>2, <1>10, <2>3 DEF Lock, Types
<1>11. ASSUME NEW w \in Workers, CommitReminders(w) PROVE Types'
  <2>1. worker[w].locked \subseteq Positions BY DEF Types
  <2>2. reminded' \in [Positions -> Nat] BY <1>11 DEF CommitReminders, enqueueOverdueReminder, Types
  <2> QED BY <1>2, <1>11, <2>1, <2>2 DEF CommitReminders, Types, Idle
<1>12. ASSUME NEW w \in Workers, AbortScan(w) PROVE Types'
  BY <1>2, <1>12, SplitAssumption DEF AbortScan, Types, Idle
<1>13. CASE UNCHANGED vars BY <1>2, <1>13 DEF vars, Types
<1> QED
  BY <1>1, <1>3, <1>4, <1>5, <1>6, <1>7, <1>8, <1>9, <1>10, <1>11, <1>12, <1>13
  DEF Next, PaymentStep, WorkerStep

-----------------------------------------------------------------------------
(* Payments *)

\* Steps leave the bill alone, or create it before anything is paid; and a paid
\* share stays paid.
LEMMA PaidStays ==
    ASSUME Types, PaymentsFit, CountsFit, [Next]_vars
    PROVE  /\ PaymentsFit'
           /\ Completed \subseteq Completed'
           /\ \/ Shares' = Shares
              \/ Shares = {} /\ Completed = {} /\ UNCHANGED <<payment, counted>>
<1>1. ASSUME NEW d \in Requests, create(d)
      PROVE  PaymentsFit' /\ Shares = {} /\ Completed = {} /\ UNCHANGED <<payment, counted>>
  <2>1. Shares = {} BY <1>1 DEF create, Shares, NoBill
  <2>2. \A i \in Positions : payment[i] = "none" BY <2>1 DEF PaymentsFit
  <2> QED BY <1>1, <2>1, <2>2 DEF create, Completed, PaymentsFit
<1>2. ASSUME UNCHANGED bill PROVE Shares' = Shares BY <1>2 DEF Shares
<1>3. ASSUME UNCHANGED <<bill, payment>>
      PROVE  PaymentsFit' /\ Completed' = Completed /\ Shares' = Shares
  BY <1>2, <1>3 DEF PaymentsFit, Completed
<1>4. ASSUME NEW i \in Positions, payShare(i)
      PROVE  PaymentsFit' /\ Completed \subseteq Completed' /\ Shares' = Shares
  BY <1>2, <1>4 DEF payShare, PaymentsFit, Completed, Types
<1>5. ASSUME NEW i \in Positions, CommitPaid(i)
      PROVE  PaymentsFit' /\ Completed \subseteq Completed' /\ Shares' = Shares
  BY <1>2, <1>5 DEF CommitPaid, PaymentsFit, CountsFit, Completed, Types
<1>6. ASSUME NEW i \in Positions, FailPayment(i)
      PROVE  PaymentsFit' /\ Completed \subseteq Completed' /\ Shares' = Shares
  BY <1>2, <1>6 DEF FailPayment, PaymentsFit, Completed, Types
<1>7. ASSUME NEW i \in Positions, CountPaid(i) \/ RollbackPaid(i)
      PROVE  UNCHANGED <<bill, payment>>
  BY <1>7 DEF CountPaid, RollbackPaid
<1>8. ASSUME NEW w \in Workers, WorkerStep(w) \/ AbortScan(w)
      PROVE  UNCHANGED <<bill, payment>>
  BY <1>8 DEF WorkerStep, Scan, Lock, CommitReminders, AbortScan
<1>9. CASE DeadlinePasses \/ UNCHANGED vars
  BY <1>3, <1>9 DEF DeadlinePasses, vars
<1>10. ASSUME NEW d \in Requests, create(d) PROVE Completed \subseteq Completed'
  BY <1>1, <1>10
<1> QED BY <1>1, <1>3, <1>4, <1>5, <1>6, <1>7, <1>8, <1>9, <1>10 DEF Next, PaymentStep

\* What a transaction has counted stays true of the others until it commits.
LEMMA CountsStep ==
    ASSUME Types, PaymentsFit, CountsFit, [Next]_vars
    PROVE  CountsFit'
<1>1. /\ Completed \subseteq Completed'
      /\ Shares' = Shares \/ (Shares = {} /\ Completed = {} /\ UNCHANGED <<payment, counted>>)
  BY PaidStays
<1>2. ASSUME NEW i \in Positions, counted'[i] = counted[i],
             payment'[i] = payment[i], counted[i] # "none"
      PROVE  payment'[i] = "open" /\ (counted'[i] = "Settled" => Shares' \subseteq Completed' \cup {i})
  <2>1. i \in Shares BY <1>2 DEF CountsFit, PaymentsFit
  <2>2. Shares' = Shares BY <1>1, <2>1
  <2> QED BY <1>1, <1>2, <2>2 DEF CountsFit
<1>3. ASSUME UNCHANGED <<payment, counted>> PROVE CountsFit'
  BY <1>2, <1>3 DEF CountsFit
<1>4. ASSUME NEW i \in Positions, payShare(i) PROVE CountsFit'
  <2>1. \A j \in Positions : counted[j] # "none" => payment'[j] = payment[j]
    BY <1>4 DEF payShare, CountsFit, Types
  <2> QED BY <1>2, <1>4, <2>1 DEF payShare, CountsFit
<1>5. ASSUME NEW i \in Positions, CountPaid(i) PROVE CountsFit'
  <2>1. i \in Shares BY <1>5 DEF CountPaid, PaymentsFit
  <2>2. Completed \cup {i} \in SUBSET Shares BY <2>1 DEF Completed
  <2>3. counted'[i] = deriveSplitBillStatus(Cardinality(Completed \cup {i}), Cardinality(Shares))
    BY <1>5 DEF CountPaid, Types
  <2>4. counted'[i] = "Settled" => Completed \cup {i} = Shares
    BY <2>2, <2>3, DerivedStatus DEF Types
  <2>5. UNCHANGED payment /\ Shares' = Shares BY <1>5 DEF CountPaid, Shares
  <2>6. \A j \in Positions \ {i} : counted'[j] = counted[j] BY <1>5 DEF CountPaid, Types
  <2>7. payment'[i] = "open" BY <1>5 DEF CountPaid
  <2> QED BY <1>1, <1>2, <2>4, <2>5, <2>6, <2>7 DEF CountsFit
<1>6. ASSUME NEW i \in Positions, CommitPaid(i) PROVE CountsFit'
  <2>1. /\ counted'[i] = "none"
        /\ \A j \in Positions \ {i} : counted'[j] = counted[j] /\ payment'[j] = payment[j]
    BY <1>6 DEF CommitPaid, Types
  <2> QED BY <1>2, <2>1 DEF CountsFit
<1>7. ASSUME NEW i \in Positions, RollbackPaid(i) PROVE CountsFit'
  <2>1. /\ counted'[i] = "none" /\ UNCHANGED payment
        /\ \A j \in Positions \ {i} : counted'[j] = counted[j]
    BY <1>7 DEF RollbackPaid, Types
  <2> QED BY <1>2, <2>1 DEF CountsFit
<1>8. ASSUME NEW i \in Positions, FailPayment(i) PROVE CountsFit'
  <2>1. UNCHANGED counted /\ counted[i] = "none"
        /\ \A j \in Positions \ {i} : payment'[j] = payment[j]
    BY <1>8 DEF FailPayment, Types
  <2> QED BY <1>2, <2>1 DEF CountsFit
<1>9. ASSUME NEW w \in Workers, WorkerStep(w) \/ AbortScan(w)
      PROVE  UNCHANGED <<payment, counted>>
  BY <1>9 DEF WorkerStep, Scan, Lock, CommitReminders, AbortScan
<1>10. CASE DeadlinePasses \/ UNCHANGED vars BY <1>3, <1>10 DEF DeadlinePasses, vars
<1>11. ASSUME NEW d \in Requests, create(d) PROVE UNCHANGED <<payment, counted>>
  BY <1>11 DEF create
<1> QED
  BY <1>3, <1>4, <1>5, <1>6, <1>7, <1>8, <1>9, <1>10, <1>11 DEF Next, PaymentStep

\* The messages: each step keeps them, or adds those of one paid share.
LEMMA AnnouncedStep ==
    ASSUME Types, Types', PaymentsFit, CountsFit, AnnouncedIsTrue, [Next]_vars
    PROVE  AnnouncedIsTrue'
<1>1. /\ Completed \subseteq Completed'
      /\ Shares' = Shares \/ (Shares = {} /\ Completed = {} /\ UNCHANGED <<payment, counted>>)
  BY PaidStays
<1>2. StatusFits /\ StatusFits' BY StatusHere, StatusNext DEF Types
<1>3. Completed' \subseteq Shares' BY DEF Completed
<1>4. ASSUME NEW e \in outbox, e.type # "Created"
      PROVE  /\ e.share \in Completed'
             /\ e.billStatus = "Settled" => Status' = "Settled"
             /\ e.billStatus = "PartiallyPaid" => Status' # "Pending"
  <2>1. e.share \in Completed BY <1>4 DEF AnnouncedIsTrue
  <2>2. Shares' = Shares BY <1>1, <2>1
  <2>3. e.billStatus = "Settled" => Completed = Shares
    BY <1>2, <1>4 DEF AnnouncedIsTrue, StatusFits
  <2> QED BY <1>1, <1>2, <1>3, <2>1, <2>2, <2>3 DEF StatusFits
<1>5. ASSUME UNCHANGED outbox PROVE AnnouncedIsTrue'
  BY <1>4, <1>5 DEF AnnouncedIsTrue
<1>6. ASSUME NEW d \in Requests, create(d) PROVE AnnouncedIsTrue'
  <2>1. \A e \in outbox' : e.type = "Created"
    BY <1>6 DEF create, enqueueSplitBillCreated
  <2> QED BY <2>1 DEF AnnouncedIsTrue
<1>7. ASSUME NEW i \in Positions, CommitPaid(i) PROVE AnnouncedIsTrue'
  <2>1. i \in Shares BY <1>7 DEF CommitPaid, CountsFit, PaymentsFit
  <2>2. Shares' = Shares BY <1>1, <2>1
  <2>3. i \in Completed' BY <1>7, <2>1, <2>2 DEF CommitPaid, Completed, Types
  <2>4. \A e \in SharePaid(i) : e.share = i /\ e.billStatus = counted[i]
    BY DEF SharePaid
  <2>5. counted[i] = "Settled" => Shares \subseteq Completed \cup {i}
    BY <1>7 DEF CommitPaid, CountsFit
  <2>6. outbox' = outbox \cup SharePaid(i) BY <1>7 DEF CommitPaid
  <2>7. counted[i] = "Settled" => Status' = "Settled"
    BY <1>1, <1>2, <1>3, <2>1, <2>2, <2>3, <2>5 DEF StatusFits
  <2>8. Status' # "Pending" BY <1>2, <2>3 DEF StatusFits
  <2> QED BY <1>4, <2>3, <2>4, <2>6, <2>7, <2>8 DEF AnnouncedIsTrue
<1>8. ASSUME NEW i \in Positions,
             payShare(i) \/ CountPaid(i) \/ RollbackPaid(i) \/ FailPayment(i)
      PROVE  UNCHANGED outbox
  BY <1>8 DEF payShare, CountPaid, RollbackPaid, FailPayment
<1>9. ASSUME NEW w \in Workers, WorkerStep(w) \/ AbortScan(w) PROVE UNCHANGED outbox
  BY <1>9 DEF WorkerStep, Scan, Lock, CommitReminders, AbortScan
<1>10. CASE DeadlinePasses \/ UNCHANGED vars BY <1>5, <1>10 DEF DeadlinePasses, vars
<1> QED BY <1>5, <1>6, <1>7, <1>8, <1>9, <1>10 DEF Next, PaymentStep

\* The conflict clause: a message for each row that is new.
LEMMA RemindedStep ==
    ASSUME Types, RemindedOnce, [Next]_vars
    PROVE  RemindedOnce'
<1>1. ASSUME NEW w \in Workers, CommitReminders(w) PROVE RemindedOnce'
  <2>1. /\ reminders' = reminders \cup worker[w].locked
        /\ reminded' = [i \in Positions |-> reminded[i] + (IF i \in Inserted(w) THEN 1 ELSE 0)]
    BY <1>1 DEF CommitReminders, enqueueOverdueReminder
  <2>2. \A i \in Positions : i \in Inserted(w) <=> i \in worker[w].locked /\ i \notin reminders
    BY DEF Inserted
  <2>3. \A i \in Positions : reminded[i] = IF i \in reminders THEN 1 ELSE 0
    BY DEF RemindedOnce
  <2>4. \A i \in Positions : reminded'[i] = IF i \in reminders' THEN 1 ELSE 0
    BY <2>1, <2>2, <2>3
  <2> QED BY <2>4 DEF RemindedOnce
<1>2. ASSUME UNCHANGED <<reminders, reminded>> PROVE RemindedOnce'
  BY <1>2 DEF RemindedOnce
<1>3. ASSUME NEW w \in Workers, Scan(w) \/ Lock(w) \/ AbortScan(w)
      PROVE  UNCHANGED <<reminders, reminded>>
  BY <1>3 DEF Scan, Lock, AbortScan
<1>4. ASSUME NEW i \in Positions, PaymentStep(i) PROVE UNCHANGED <<reminders, reminded>>
  BY <1>4 DEF PaymentStep, payShare, CountPaid, CommitPaid, RollbackPaid, FailPayment
<1>5. ASSUME NEW d \in Requests, create(d) PROVE UNCHANGED <<reminders, reminded>>
  BY <1>5 DEF create
<1>6. CASE DeadlinePasses \/ UNCHANGED vars BY <1>2, <1>6 DEF DeadlinePasses, vars
<1> QED BY <1>1, <1>2, <1>3, <1>4, <1>5, <1>6 DEF Next, WorkerStep

-----------------------------------------------------------------------------
(* Theorems *)

LEMMA InitIInv == Init => IInv
<1> SUFFICES ASSUME Init PROVE IInv OBVIOUS
<1>1. Shares = {} BY DEF Init, Shares, NoBill
<1>2. Types
  <2>1. IsFiniteSet(Shares) BY <1>1, FS_EmptySet
  <2>2. Shares \subseteq Positions BY <1>1
  <2>3. bill = NoBill /\ rollbacks \in 0..MaxRollbacks BY SplitAssumption DEF Init
  <2>4. worker \in [Workers -> [pc: {"idle", "lock", "insert"},
                                candidates: SUBSET Positions, locked: SUBSET Positions]]
    BY DEF Init, Idle
  <2>5. /\ overdue \in BOOLEAN /\ reminders \subseteq Positions
        /\ payment \in [Positions -> {"none", "open", "Completed", "Failed"}]
        /\ counted \in [Positions -> {"none", "Pending", "PartiallyPaid", "Settled"}]
        /\ reminded \in [Positions -> Nat]
    BY DEF Init
  <2> QED BY <2>1, <2>2, <2>3, <2>4, <2>5 DEF Types
<1>3. PaymentsFit /\ CountsFit BY DEF Init, PaymentsFit, CountsFit
<1>4. RemindedOnce /\ AnnouncedIsTrue BY DEF Init, RemindedOnce, AnnouncedIsTrue
<1> QED BY <1>2, <1>3, <1>4 DEF IInv

\* The invariant is inductive.
THEOREM InvariantHolds == Spec => []IInv
<1>1. IInv /\ [Next]_vars => IInv'
  BY TypesStep, PaidStays, CountsStep, AnnouncedStep, RemindedStep DEF IInv
<1> QED BY <1>1, InitIInv, PTL DEF Spec

\* Every variable keeps its type; in particular every share of every bill that
\* create accepts has a positive amount.
THEOREM TypeCorrect == Spec => []TypeOK
<1>1. IInv => TypeOK BY DEF IInv, Types, TypeOK, Bill
<1> QED BY <1>1, InvariantHolds, PTL

\* However many processes scan, and whenever they fail, a participant is
\* reminded of a share once, exactly if the table of reminders says so.
THEOREM AlwaysRemindedOnce == Spec => []RemindedOnce
<1>1. IInv => RemindedOnce BY DEF IInv
<1> QED BY <1>1, InvariantHolds, PTL

\* A bill announced as Settled is paid in full, and one announced as
\* PartiallyPaid has a paid share, however the transactions overlap.
THEOREM AnnouncementsAreTrue == Spec => []AnnouncedIsTrue
<1>1. IInv => AnnouncedIsTrue BY DEF IInv
<1> QED BY <1>1, InvariantHolds, PTL

\* The derived status of a bill never goes back.
THEOREM StatusOnlyAdvances == Spec => StatusAdvances
<1>1. IInv /\ IInv' /\ [Next]_vars => [Rank[Status] <= Rank[Status']]_vars
  <2> SUFFICES ASSUME IInv, IInv', [Next]_vars PROVE Rank[Status] <= Rank[Status']
    OBVIOUS
  <2>1. /\ Completed \subseteq Completed'
        /\ Shares' = Shares \/ (Shares = {} /\ Completed = {} /\ UNCHANGED <<payment, counted>>)
    BY PaidStays DEF IInv
  <2>2. StatusFits /\ StatusFits' BY StatusHere, StatusNext DEF IInv, Types
  <2>3. Completed' \subseteq Shares' BY DEF Completed
  <2>4. /\ Status = "Settled" => Status' = "Settled"
        /\ Status # "Pending" => Status' # "Pending"
        /\ Status \in {"Pending", "PartiallyPaid", "Settled"}
        /\ Status' \in {"Pending", "PartiallyPaid", "Settled"}
    BY <2>1, <2>2, <2>3 DEF StatusFits
  <2>5. Rank["Pending"] = 0 /\ Rank["PartiallyPaid"] = 1 /\ Rank["Settled"] = 2
    BY DEF Rank
  <2> QED BY <2>4, <2>5
<1> QED BY <1>1, InvariantHolds, PTL DEF Spec, StatusAdvances

-----------------------------------------------------------------------------
(* The sum of the shares *)

\* An equal split gives every share the base, and the first ones a unit more:
\* the units of the shares are those of a rectangle and of a column beside it.
LEMMA EqualUnits ==
    ASSUME NEW n \in Nat, NEW base \in Nat, NEW extra \in 0..n
    PROVE  MinorUnits([i \in 1..n |-> base + (IF i <= extra THEN 1 ELSE 0)])
             = ((1..n) \X (1..base)) \cup ((1..extra) \X {base + 1})
<1> DEFINE s == [i \in 1..n |-> base + (IF i <= extra THEN 1 ELSE 0)]
           R == ((1..n) \X (1..base)) \cup ((1..extra) \X {base + 1})
<1>1. ASSUME NEW u \in MinorUnits(s) PROVE u \in R
  <2>1. PICK i \in 1..n : u \in {i} \X (1..s[i]) BY <1>1 DEF MinorUnits
  <2>2. PICK k \in 1..s[i] : u = <<i, k>> BY <2>1
  <2>3. s[i] = base + (IF i <= extra THEN 1 ELSE 0) OBVIOUS
  <2>4. CASE k <= base BY <2>2, <2>3, <2>4
  <2>5. CASE k > base
    <3>1. i <= extra /\ k = base + 1 BY <2>2, <2>3, <2>5
    <3>2. i \in 1..extra BY <3>1
    <3> QED BY <2>2, <3>1, <3>2
  <2> QED BY <2>2, <2>3, <2>4, <2>5
<1>2. ASSUME NEW i \in 1..n, NEW k \in 1..s[i] PROVE <<i, k>> \in MinorUnits(s)
  <2>1. {i} \X (1..s[i]) \in {{j} \X (1..s[j]) : j \in DOMAIN s} OBVIOUS
  <2> QED BY <2>1 DEF MinorUnits
<1>3. ASSUME NEW i \in 1..n, NEW k \in 1..base PROVE <<i, k>> \in MinorUnits(s)
  <2>1. k \in 1..s[i] OBVIOUS
  <2> QED BY <1>2, <2>1
<1>4. ASSUME NEW i \in 1..extra PROVE <<i, base + 1>> \in MinorUnits(s)
  <2>1. i \in 1..n /\ base + 1 \in 1..s[i] OBVIOUS
  <2> QED BY <1>2, <2>1
<1>5. R \subseteq MinorUnits(s) BY <1>3, <1>4
<1> QED BY <1>1, <1>5

LEMMA EqualTotal ==
    ASSUME NEW n \in Nat, NEW base \in Nat, NEW extra \in 0..n
    PROVE  Total([i \in 1..n |-> base + (IF i <= extra THEN 1 ELSE 0)]) = n * base + extra
<1> DEFINE A == (1..n) \X (1..base)
           B == (1..extra) \X {base + 1}
<1>1. ASSUME NEW k \in Nat PROVE IsFiniteSet(1..k) /\ Cardinality(1..k) = k
  BY FS_Interval
<1>2. IsFiniteSet({base + 1}) /\ Cardinality({base + 1}) = 1 BY FS_Singleton
<1>3. IsFiniteSet(A) /\ Cardinality(A) = Cardinality(1..n) * Cardinality(1..base)
  BY <1>1, FS_Product
<1>4. IsFiniteSet(B) /\ Cardinality(B) = Cardinality(1..extra) * Cardinality({base + 1})
  BY <1>1, <1>2, FS_Product
<1>5. A \cap B = {} OBVIOUS
<1>6. Total([i \in 1..n |-> base + (IF i <= extra THEN 1 ELSE 0)]) = Cardinality(A \cup B)
  BY EqualUnits DEF Total
<1>7. Cardinality(A) = n * base /\ Cardinality(B) = extra BY <1>1, <1>2, <1>3, <1>4
<1> HIDE DEF A, B
<1>8. Cardinality(A \cup B) = Cardinality(A) + Cardinality(B) - Cardinality({})
  <2>1. IsFiniteSet(A) /\ IsFiniteSet(B) BY <1>3, <1>4
  <2>2. Cardinality(A \cup B) = Cardinality(A) + Cardinality(B) - Cardinality(A \cap B)
    BY <2>1, FS_Union
  <2> QED BY <1>5, <2>2
<1>9. Cardinality({}) = 0 BY FS_EmptySet
<1>10. n * base \in Nat OBVIOUS
<1> QED BY <1>6, <1>7, <1>8, <1>9, <1>10

LEMMA DivisionWithRest ==
    ASSUME NEW t \in Nat, NEW n \in Nat, n > 0
    PROVE  t \div n \in Nat /\ t % n \in 0..n /\ t = n * (t \div n) + (t % n)
<1>1. t \div n \in Nat OBVIOUS
<1>2. t % n \in 0..n OBVIOUS
<1>3. t = n * (t \div n) + (t % n) BY Z3
<1> QED BY <1>1, <1>2, <1>3

\* What shareAmounts computes for the bills that create accepts.
LEMMA AmountsAddUp ==
    ASSUME NEW d \in Requests, Acceptable(d)
    PROVE  /\ Len(shareAmounts(d)) = Len(d.participants)
           /\ Total(shareAmounts(d)) = d.total
           /\ d.mode = "equal" => \A i, j \in DOMAIN shareAmounts(d) :
                                     shareAmounts(d)[i] - shareAmounts(d)[j] <= 1
<1> DEFINE n == Len(d.participants)
           base == d.total \div n
           extra == d.total % n
<1>1. /\ d.total \in Nat /\ d.participants \in Seq(Users) /\ d.mode \in {"equal", "custom"}
  BY SplitAssumption DEF CreateSplitBillDto
<1>2. /\ shareAmounts(d) \in Seq(Nat \ {0})
      /\ DOMAIN shareAmounts(d) = 1..n
      /\ n \in Nat
  BY AmountsType
<1>3. Len(shareAmounts(d)) = n BY <1>2
<1>4. CASE d.mode = "custom"
  BY <1>3, <1>4 DEF shareAmounts, Acceptable
<1>5. CASE d.mode = "equal"
  <2>1. n > 0 BY DEF Acceptable
  <2>2. base \in Nat /\ extra \in 0..n /\ d.total = n * base + extra
    BY <1>1, <1>2, <2>1, DivisionWithRest
  <2>3. shareAmounts(d) = [i \in 1..n |-> base + (IF i <= extra THEN 1 ELSE 0)]
    BY <1>5 DEF shareAmounts, EqualAmounts
  <2> HIDE DEF n, base, extra
  <2>4. Total(shareAmounts(d)) = d.total BY <1>2, <2>2, <2>3, EqualTotal
  <2>5. \A i, j \in 1..n : shareAmounts(d)[i] - shareAmounts(d)[j] <= 1
    BY <2>2, <2>3
  <2> QED BY <1>2, <1>3, <2>4, <2>5 DEF n
<1> QED BY <1>1, <1>4, <1>5

\* The shares of every bill add up to its total, to the last minor unit, in
\* whatever way it was split; those of an equal split differ by at most one.
THEOREM SharesAlwaysAddUp == Spec => []SharesAddUp
<1>1. Init => SharesAddUp BY DEF Init, SharesAddUp
<1>2. IInv' /\ SharesAddUp /\ [Next]_vars => SharesAddUp'
  <2> SUFFICES ASSUME IInv', SharesAddUp, [Next]_vars PROVE SharesAddUp'
    OBVIOUS
  <2>1. ASSUME UNCHANGED bill PROVE SharesAddUp'
    BY <2>1 DEF SharesAddUp, Shares
  <2>2. ASSUME NEW d \in Requests, create(d) PROVE SharesAddUp'
    <3>1. /\ bill'.amounts = shareAmounts(d) /\ bill'.total = d.total /\ bill'.mode = d.mode
          /\ bill'.participants = d.participants /\ Acceptable(d)
      BY <2>2 DEF create
    <3>2. Shares' = DOMAIN shareAmounts(d) BY <3>1 DEF Shares
    <3>3. /\ shareAmounts(d) \in Seq(Nat \ {0})
          /\ DOMAIN shareAmounts(d) = 1..Len(d.participants)
      BY <3>1, AmountsType
    <3>4. \A i \in DOMAIN shareAmounts(d) : shareAmounts(d)[i] > 0 BY <3>3
    <3> HIDE DEF Total
    <3> QED BY <3>1, <3>2, <3>4, AmountsAddUp DEF SharesAddUp
  <2>3. ASSUME NEW i \in Positions, PaymentStep(i) PROVE UNCHANGED bill
    BY <2>3 DEF PaymentStep, payShare, CountPaid, CommitPaid, RollbackPaid, FailPayment
  <2>4. ASSUME NEW w \in Workers, WorkerStep(w) \/ AbortScan(w) PROVE UNCHANGED bill
    BY <2>4 DEF WorkerStep, Scan, Lock, CommitReminders, AbortScan
  <2>5. CASE DeadlinePasses \/ UNCHANGED vars BY <2>1, <2>5 DEF DeadlinePasses, vars
  <2> QED BY <2>1, <2>2, <2>3, <2>4, <2>5 DEF Next
<1> QED BY <1>1, <1>2, InvariantHolds, PTL DEF Spec

-----------------------------------------------------------------------------
(* The contract with transfer creation *)

Payments == INSTANCE SharePayment WITH Shares <- Positions

\* SplitBills takes from the payment of a share no more than SharePayment
\* promises, which TransferCreation is shown to implement: one transfer, begun
\* once, ended once, for good.
THEOREM PaymentsKeepContract == Spec => Payments!Spec
<1>1. Init => Payments!Init BY DEF Init, Payments!Init
<1>2. IInv /\ [Next]_vars => [Payments!Next]_payment
  <2> SUFFICES ASSUME IInv, [Next]_vars, payment' # payment PROVE Payments!Next
    OBVIOUS
  <2>1. ASSUME NEW i \in Positions, payShare(i) PROVE Payments!Next
    BY <2>1 DEF payShare, Payments!Begin, Payments!Next
  <2>2. ASSUME NEW i \in Positions, CommitPaid(i) PROVE Payments!Next
    <3>1. payment[i] = "open" BY <2>2 DEF CommitPaid, IInv, CountsFit
    <3> QED BY <2>2, <3>1 DEF CommitPaid, Payments!Finish, Payments!Outcomes, Payments!Next
  <2>3. ASSUME NEW i \in Positions, FailPayment(i) PROVE Payments!Next
    BY <2>3 DEF FailPayment, Payments!Finish, Payments!Outcomes, Payments!Next
  <2>4. ASSUME NEW i \in Positions, CountPaid(i) \/ RollbackPaid(i) PROVE UNCHANGED payment
    BY <2>4 DEF CountPaid, RollbackPaid
  <2>5. ASSUME NEW w \in Workers, WorkerStep(w) \/ AbortScan(w) PROVE UNCHANGED payment
    BY <2>5 DEF WorkerStep, Scan, Lock, CommitReminders, AbortScan
  <2>6. ASSUME DeadlinePasses \/ UNCHANGED vars \/ \E d \in Requests : create(d)
        PROVE  UNCHANGED payment
    BY <2>6 DEF DeadlinePasses, vars, create
  <2> QED BY <2>1, <2>2, <2>3, <2>4, <2>5, <2>6 DEF Next, PaymentStep
<1> QED BY <1>1, <1>2, InvariantHolds, PTL DEF Spec, Payments!Spec
=============================================================================
