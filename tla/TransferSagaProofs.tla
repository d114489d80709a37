------------------------- MODULE TransferSagaProofs -------------------------
(***************************************************************************)
(* Proofs about TransferSaga for any number of concurrent runs, any retry  *)
(* limits and any number of disturbances.  The theorems are at the end;    *)
(* before them, the two lemmas that a step preserves the types and the     *)
(* inductive invariant.                                                    *)
(***************************************************************************)
EXTENDS TransferSaga, TLAPS

\* What a run keeps has its type.
LEMMA CopyType == ASSUME TypeOK, NEW r \in Runs PROVE run[r] \in Run /\ run[r].copy \in Row
BY DEF TypeOK, Run

\* A new transfer, and a run that has not started, are well-typed.
LEMMA IdleType == NewRow \in Row /\ Idle \in Run
BY SagaAssumption DEF NewRow, Row, Idle, Run, Statuses, Locations

\* The updates the saga makes to its copy yield rows again.
LEMMA RowUpdate ==
    ASSUME NEW x \in Row
    PROVE  /\ \A s \in Statuses : [x EXCEPT !.status = s, !.retryCount = 0] \in Row
           /\ \A s \in Statuses : [x EXCEPT !.status = s] \in Row
           /\ \A n \in 0..MaxStepAttempts : [x EXCEPT !.retryCount = n] \in Row
           /\ [x EXCEPT !.receiverResolved = TRUE, !.retryCount = 0] \in Row
           /\ [x EXCEPT !.holdMayExist = TRUE] \in Row
<1> 0 \in 0..MaxStepAttempts
  BY SagaAssumption
<1> QED BY DEF Row

\* A write that keeps the lease preserves the types.
LEMMA SaveType ==
    ASSUME TypeOK, NEW r \in Runs, NEW new \in Row, NEW pc \in Locations,
           NEW step \in Nat, Save(r, new, pc, step)
    PROVE  TypeOK'
BY SagaAssumption DEF Save, TypeOK, Run, ledgerVars

\* So does a transition to the next turn of the loop.
LEMMA AdvanceType ==
    ASSUME TypeOK, NEW r \in Runs, NEW next \in Statuses, Advance(r, next)
    PROVE  TypeOK'
<1>1. [run[r].copy EXCEPT !.status = next, !.retryCount = 0] \in Row
  BY CopyType, RowUpdate
<1>2. run[r].step + 1 \in Nat
  BY DEF TypeOK, Run
<1> QED BY <1>1, <1>2, SaveType DEF Advance, Locations

\* So does a write that gives the lease back and ends the run.
LEMMA ReleaseType ==
    ASSUME TypeOK, NEW r \in Runs, NEW new \in Row, NEW due \in BOOLEAN,
           NEW events \in Nat, Release(r, new, due, events)
    PROVE  TypeOK'
<1>1. run' \in [Runs -> Run]
  BY IdleType DEF Release, TypeOK
<1>2. retryDue' \in BOOLEAN
  BY DEF Release
<1>3. completedEvents' \in Nat
  BY DEF Release, TypeOK
<1> QED BY <1>1, <1>2, <1>3 DEF Release, TypeOK, ledgerVars

\* So does starting a run.
LEMMA StartType ==
    ASSUME TypeOK, NEW r \in Runs, Start(r), disturbances' \in 0..MaxDisturbances
    PROVE  TypeOK'
<1>1. [Idle EXCEPT !.pc = "loop", !.copy = row] \in Run
  BY IdleType DEF Run, TypeOK, Locations
<1> QED BY <1>1 DEF Start, Claim, TypeOK, ledgerVars

\* Moving a run to another place in its code keeps its local state well-typed.
LEMMA MoveType ==
    ASSUME TypeOK, NEW r \in Runs, NEW pc \in Locations,
           NEW kind \in {"retryable", "terminal"}, GoTo(r, pc) \/ Throw(r, kind)
    PROVE  run' \in [Runs -> Run] /\ UNCHANGED <<rowVars, fresh>>
<1>1. 0 \in 0..(HttpAttempts - 1) /\ "handleFailure" \in Locations
  BY SagaAssumption DEF Locations, Writes
<1>2. CASE GoTo(r, pc)
  BY <1>1, <1>2 DEF GoTo, TypeOK, Run
<1>3. CASE Throw(r, kind)
  <2>1. [run[r] EXCEPT !.pc = "handleFailure", !.failure = kind, !.attempt = 0] \in Run
    BY <1>1, CopyType DEF Run
  <2> QED BY <1>3, <2>1 DEF Throw, TypeOK
<1> QED BY <1>2, <1>3

\* The ledger's answers keep the hold and the receipt well-typed.
LEMMA LedgerType ==
    ASSUME TypeOK, NEW reply,
           LedgerPlaceHold(reply) \/ LedgerSettle(reply) \/ LedgerRelease(reply)
    PROVE  /\ hold' \in {"none", "active", "released", "consumed"}
           /\ origin' \in {"none", "saga", "sender", "other"}
           /\ receipt' \in BOOLEAN
BY DEF TypeOK, LedgerPlaceHold, LedgerSettle, Settleable, LedgerRelease, ledgerVars

\* Every step preserves the types of the variables.
LEMMA TypeStep == TypeOK /\ [Next]_vars => TypeOK'
<1> SUFFICES ASSUME TypeOK, [Next]_vars PROVE TypeOK'
  OBVIOUS
<1>1. ASSUME NEW r \in Runs, Submit(r) \/ RecoverDue(r) PROVE TypeOK'
  BY <1>1, StartType, SagaAssumption DEF Submit, RecoverDue, Disturb, TypeOK
<1>2. ASSUME NEW r \in Runs,
             TurnPending(r) \/ RecordHeld(r) \/ TurnFundsHeld(r) \/ Compensate(r)
      PROVE  TypeOK'
  BY <1>2, AdvanceType DEF TurnPending, RecordHeld, TurnFundsHeld, Compensate, Statuses
<1>3. ASSUME NEW r \in Runs, SaveReceiver(r) PROVE TypeOK'
  <2> DEFINE new == [run[r].copy EXCEPT !.receiverResolved = TRUE, !.retryCount = 0]
  <2>1. new \in Row /\ run[r].step \in Nat
    BY CopyType, RowUpdate DEF Run
  <2>2. ValidatingStart(new) \in Locations
    BY DEF ValidatingStart, Locations, Calls, Commands, Writes
  <2> QED BY <1>3, <2>1, <2>2, SaveType DEF SaveReceiver
<1>4. ASSUME NEW r \in Runs, MarkHold(r) PROVE TypeOK'
  <2>1. [run[r].copy EXCEPT !.holdMayExist = TRUE] \in Row /\ run[r].step \in Nat
    BY CopyType, RowUpdate DEF Run
  <2> QED BY <1>4, <2>1, SaveType DEF MarkHold, Locations, Calls, Commands
<1>5. ASSUME NEW r \in Runs, Complete(r) \/ Fail(r) \/ FailWithoutHold(r) PROVE TypeOK'
  <2>1. /\ [run[r].copy EXCEPT !.status = "Completed", !.retryCount = 0] \in Row
        /\ [run[r].copy EXCEPT !.status = "Failed"] \in Row
    BY CopyType, RowUpdate DEF Statuses
  <2> QED BY <1>5, <2>1, ReleaseType DEF Complete, Fail, FailWithoutHold
<1>6. ASSUME NEW r \in Runs, ScheduleRetry(r) PROVE TypeOK'
  <2> DEFINE n == IF run[r].copy.retryCount < MaxStepAttempts
                  THEN run[r].copy.retryCount + 1 ELSE run[r].copy.retryCount
  <2>1. n \in 0..MaxStepAttempts
    BY CopyType, SagaAssumption DEF Row
  <2>2. [run[r].copy EXCEPT !.retryCount = n] \in Row
    BY <2>1, CopyType, RowUpdate
  <2>3. Release(r, [run[r].copy EXCEPT !.retryCount = n], FALSE, 0)
    BY <1>6, CopyType DEF ScheduleRetry, Row
  <2> QED BY <2>2, <2>3, ReleaseType
<1>7. ASSUME NEW r \in Runs, TurnValidating(r) \/ TurnProcessing(r) \/ TurnCompensating(r)
      PROVE  TypeOK'
  <2>1. PICK pc \in Locations : GoTo(r, pc)
    BY <1>7 DEF TurnValidating, ValidatingStart, TurnProcessing, TurnCompensating,
       Locations, Calls, Commands, Writes
  <2> QED BY <1>7, <2>1, MoveType DEF TurnValidating, TurnProcessing, TurnCompensating, GoTo,
             TypeOK, rowVars, ledgerVars
<1>8. ASSUME NEW r \in Runs, PolicyRejects(r) \/ ValidateReplies(r) PROVE TypeOK'
  <2>1. GoTo(r, "saveReceiver") \/ Throw(r, "terminal")
    BY <1>8 DEF PolicyRejects, ValidateReplies
  <2>2. "saveReceiver" \in Locations
    BY DEF Locations, Writes
  <2> QED BY <1>8, <2>1, <2>2, MoveType DEF PolicyRejects, ValidateReplies, GoTo, TypeOK,
             rowVars, ledgerVars
<1>9. ASSUME NEW r \in Runs, PlaceHoldReplies(r) \/ SettleReplies(r) \/ ReleaseReplies(r)
      PROVE  TypeOK'
  <2>1. PICK pc \in Locations : GoTo(r, pc) \/ Throw(r, "terminal")
    BY <1>9 DEF PlaceHoldReplies, SettleReplies, ReleaseReplies, Locations, Writes
  <2>2. /\ run' \in [Runs -> Run]
        /\ UNCHANGED <<rowVars, fresh>>
    BY <2>1, MoveType
  <2>3. /\ hold' \in {"none", "active", "released", "consumed"}
        /\ origin' \in {"none", "saga", "sender", "other"}
        /\ receipt' \in BOOLEAN
    BY <1>9, LedgerType DEF PlaceHoldReplies, SettleReplies, ReleaseReplies
  <2>4. UNCHANGED <<late, disturbances>>
    BY <1>9 DEF PlaceHoldReplies, SettleReplies, ReleaseReplies, GoTo
  <2> QED BY <2>2, <2>3, <2>4 DEF TypeOK, rowVars
<1>10. ASSUME NEW r \in Runs, LeaseLost(r) \/ DatabaseError(r) \/ Crash(r) PROVE TypeOK'
  BY <1>10, IdleType, SagaAssumption DEF LeaseLost, DatabaseError, Crash, Forsaken, End,
     Throw, Disturb, TypeOK, Run, Locations, Writes, rowVars, ledgerVars
<1>11. ASSUME NEW r \in Runs, AttemptFails(r) PROVE TypeOK'
  BY <1>11, SagaAssumption DEF AttemptFails, Throw, Disturb, TypeOK, Run, Locations, Writes,
     rowVars, ledgerVars
<1>12. CASE LeaseExpires \/ RetryBecomesDue
  <2>1. disturbances' \in 0..MaxDisturbances
    BY <1>12, SagaAssumption DEF LeaseExpires, RetryBecomesDue, Disturb, TypeOK
  <2>2. leaseLive' \in BOOLEAN /\ retryDue' \in BOOLEAN
    BY <1>12 DEF LeaseExpires, RetryBecomesDue, TypeOK
  <2> QED BY <1>12, <2>1, <2>2 DEF LeaseExpires, RetryBecomesDue, TypeOK, ledgerVars
<1>13. CASE UserPlacesHold \/ UserReleasesHold \/ UserConsumesHold
  BY <1>13 DEF UserPlacesHold, UserReleasesHold, UserConsumesHold, TypeOK, rowVars
<1>14. ASSUME NEW c \in Commands, LateArrival(c) \/ LateLost(c) PROVE TypeOK'
  BY <1>14 DEF LateArrival, LateLost, LedgerPlaceHold, LedgerSettle, Settleable, LedgerRelease, TypeOK,
     rowVars, ledgerVars
<1>15. CASE UNCHANGED vars
  BY <1>15 DEF vars, TypeOK, rowVars, ledgerVars
<1> QED
  BY <1>1, <1>2, <1>3, <1>4, <1>5, <1>6, <1>7, <1>8, <1>9, <1>10, <1>11, <1>12, <1>13,
     <1>14, <1>15 DEF Next, Step

-----------------------------------------------------------------------------

\* A run that only moves to another place in its code, and perhaps leaves a
\* request behind, preserves the invariant if its new place is justified.
LEMMA LocalMove ==
    ASSUME InductiveInvariant, TypeOK', NEW r \in Runs,
           UNCHANGED <<row, completedEvents, fresh, ledgerVars>>,
           late' \subseteq late \cup ({run[r].pc} \cap Commands),
           \A q \in Runs \ {r} : run'[q] = run[q],
           run'[r].copy = run[r].copy,
           RunConsistent(r)',
           run'[r].pc # "failing"
    PROVE  InductiveInvariant'
<1> USE DEF ledgerVars
<1>1. \A q \in Runs : run'[q].copy = run[q].copy
  OBVIOUS
<1>2. /\ "settle" \in late' => "settle" \in late \/ run[r].copy.status = "Processing"
      /\ "placeHold" \in late' => "placeHold" \in late \/ run[r].copy.holdMayExist
  BY DEF InductiveInvariant, RunConsistent
<1>3. SafeToFail => SafeToFail'
  BY <1>1, <1>2 DEF SafeToFail, SettlePossible
<1>4. ASSUME NEW q \in Runs PROVE RunConsistent(q)'
  <2>1. CASE q = r
    BY <2>1
  <2>2. CASE q # r
    BY <2>2 DEF InductiveInvariant, RunConsistent, RowConsistent, Rank
  <2> QED BY <2>1, <2>2
<1>5. \A q \in fresh' : run'[q].pc = "failing" => SafeToFail'
  BY <1>3 DEF InductiveInvariant, TypeOK
<1>6. RowConsistent(row)'
  BY DEF InductiveInvariant, RowConsistent
<1>7. HoldIsRecorded'
  <2>1. run[r].copy.status = "Processing" => run[r].copy.holdMayExist
    BY DEF InductiveInvariant, RunConsistent, RowConsistent
  <2>2. run[r].copy.holdMayExist => row.holdMayExist
    BY DEF InductiveInvariant, RunConsistent
  <2>3. late' \cap {"placeHold", "settle"} # {}
           => late \cap {"placeHold", "settle"} # {} \/ run[r].copy.holdMayExist
    BY <1>2, <2>1
  <2> QED BY <2>2, <2>3 DEF InductiveInvariant, HoldIsRecorded
<1>8. CompletedEventExactlyOnce'
  BY DEF InductiveInvariant, CompletedEventExactlyOnce
<1>9. "settle" \in late' => hold' # "none"
  BY <1>2 DEF InductiveInvariant, RunConsistent, RowConsistent
<1> QED BY <1>3, <1>4, <1>5, <1>6, <1>7, <1>8, <1>9 DEF InductiveInvariant

\* The run throws while the row and the ledger stay as they are.
LEMMA ThrowMove ==
    ASSUME InductiveInvariant, TypeOK', NEW r \in Runs, NEW kind, Throw(r, kind),
           UNCHANGED ledgerVars, late' \subseteq late \cup ({run[r].pc} \cap Commands),
           run[r].pc # "idle"
    PROVE  InductiveInvariant'
<1>1. run[r].copy \in Row /\ run \in [Runs -> Run]
  BY CopyType DEF InductiveInvariant, TypeOK
<1>2. /\ run'[r].copy = run[r].copy
      /\ run'[r].step = run[r].step
      /\ run'[r].pc = "handleFailure"
      /\ \A q \in Runs \ {r} : run'[q] = run[q]
  BY <1>1 DEF Throw, Run
<1>3. RunConsistent(r)'
  BY <1>2 DEF InductiveInvariant, RunConsistent, RowConsistent, Rank, Throw, rowVars, ledgerVars
<1> QED BY <1>2, <1>3, LocalMove DEF Throw, rowVars

\* The run goes on to a place its copy justifies.
LEMMA GoToMove ==
    ASSUME InductiveInvariant, TypeOK', NEW r \in Runs, NEW pc, GoTo(r, pc),
           UNCHANGED <<ledgerVars, late>>,
           \/ pc \in {"validate", "saveReceiver"} /\ run[r].copy.status = "Validating"
           \/ pc = "markHold" /\ run[r].copy.status = "Validating"
              /\ run[r].copy.receiverResolved
           \/ pc = "placeHold" /\ run[r].copy.status = "Validating"
              /\ run[r].copy.holdMayExist
           \/ pc = "settle" /\ run[r].copy.status = "Processing"
           \/ pc = "release" /\ run[r].copy.status = "Compensating"
    PROVE  InductiveInvariant'
<1>1. run[r].copy \in Row /\ run \in [Runs -> Run]
  BY CopyType DEF InductiveInvariant, TypeOK
<1>2. /\ run'[r].copy = run[r].copy
      /\ run'[r].step = run[r].step
      /\ run'[r].pc = pc
      /\ \A q \in Runs \ {r} : run'[q] = run[q]
  BY <1>1 DEF GoTo, Run
<1>3. RunConsistent(r)'
  BY <1>2 DEF InductiveInvariant, RunConsistent, RowConsistent, Rank, GoTo, rowVars, ledgerVars
<1> QED BY <1>2, <1>3, LocalMove DEF GoTo, rowVars

\* Every step preserves the inductive invariant.
LEMMA InvariantStep == InductiveInvariant /\ [Next]_vars => InductiveInvariant'
<1> SUFFICES ASSUME InductiveInvariant, [Next]_vars PROVE InductiveInvariant'
  OBVIOUS
<1>0. TypeOK'
  BY TypeStep DEF InductiveInvariant
<1> USE SagaAssumption, <1>0
<1>1. ASSUME NEW r \in Runs, TurnValidating(r) PROVE InductiveInvariant'
  BY <1>1, GoToMove DEF TurnValidating, ValidatingStart
<1>2. ASSUME NEW r \in Runs, TurnProcessing(r) \/ TurnCompensating(r)
      PROVE  InductiveInvariant'
  BY <1>2, GoToMove DEF TurnProcessing, TurnCompensating
<1>3. ASSUME NEW r \in Runs, PolicyRejects(r) PROVE InductiveInvariant'
  BY <1>3, ThrowMove DEF PolicyRejects
<1>4. ASSUME NEW r \in Runs, ValidateReplies(r) PROVE InductiveInvariant'
  <2>1. run[r].copy.status = "Validating"
    BY <1>4 DEF ValidateReplies, InductiveInvariant, RunConsistent
  <2> QED BY <1>4, <2>1, GoToMove, ThrowMove DEF ValidateReplies
<1>5. ASSUME NEW r \in Runs, AttemptFails(r) PROVE InductiveInvariant'
  <2>1. CASE Throw(r, "retryable")
    BY <1>5, <2>1, ThrowMove DEF AttemptFails, Calls, Commands
  <2>2. CASE /\ run' = [run EXCEPT ![r].attempt = @ + 1]
             /\ UNCHANGED <<rowVars, fresh>>
    <3>1. /\ run'[r].copy = run[r].copy
          /\ run'[r].step = run[r].step
          /\ run'[r].pc = run[r].pc
          /\ \A q \in Runs \ {r} : run'[q] = run[q]
      BY <2>2, CopyType DEF InductiveInvariant, TypeOK, Run
    <3>2. RunConsistent(r)'
      BY <1>5, <2>2, <3>1 DEF AttemptFails, InductiveInvariant, RunConsistent,
         RowConsistent, Rank, rowVars, ledgerVars
    <3> QED BY <1>5, <2>2, <3>1, <3>2, LocalMove DEF AttemptFails, Calls, Commands, rowVars
  <2> QED BY <1>5, <2>1, <2>2 DEF AttemptFails
<1> USE DEF InductiveInvariant, HoldIsRecorded, CompletedEventExactlyOnce, RowConsistent,
        RunConsistent, Rank, SettlePossible, SafeToFail, TypeOK, Row, Run, rowVars,
        ledgerVars, Idle, NewRow, Terminal, Commands, Calls
<1>6. ASSUME NEW r \in Runs, Submit(r) PROVE InductiveInvariant'
  BY <1>6 DEF Submit, Start, Claim
<1>7. ASSUME NEW r \in Runs, RecoverDue(r) PROVE InductiveInvariant'
  BY <1>7 DEF RecoverDue, Start, Claim
<1>8. ASSUME NEW r \in Runs, TurnPending(r) PROVE InductiveInvariant'
  BY <1>8 DEF TurnPending, Advance, Save, CanWrite
<1>9. ASSUME NEW r \in Runs, SaveReceiver(r) PROVE InductiveInvariant'
  BY <1>9 DEF SaveReceiver, Save, CanWrite, ValidatingStart
<1>10. ASSUME NEW r \in Runs, MarkHold(r) PROVE InductiveInvariant'
  BY <1>10 DEF MarkHold, Save, CanWrite
<1>11. ASSUME NEW r \in Runs, RecordHeld(r) PROVE InductiveInvariant'
  BY <1>11 DEF RecordHeld, Advance, Save, CanWrite
<1>12. ASSUME NEW r \in Runs, TurnFundsHeld(r) PROVE InductiveInvariant'
  BY <1>12 DEF TurnFundsHeld, Advance, Save, CanWrite
<1>13. ASSUME NEW r \in Runs, Complete(r) PROVE InductiveInvariant'
  BY <1>13 DEF Complete, Release, CanWrite
<1>14. ASSUME NEW r \in Runs, Fail(r) PROVE InductiveInvariant'
  BY <1>14 DEF Fail, Release, CanWrite
<1>15. ASSUME NEW r \in Runs, ScheduleRetry(r) PROVE InductiveInvariant'
  BY <1>15 DEF ScheduleRetry, MustRetry, Release, CanWrite
<1>16. ASSUME NEW r \in Runs, FailWithoutHold(r) PROVE InductiveInvariant'
  BY <1>16 DEF FailWithoutHold, Release, CanWrite
<1>17. ASSUME NEW r \in Runs, LeaseLost(r) PROVE InductiveInvariant'
  BY <1>17 DEF LeaseLost, End
<1>18. ASSUME NEW r \in Runs, Crash(r) PROVE InductiveInvariant'
  BY <1>18 DEF Crash, End
<1>19. ASSUME NEW r \in Runs, Compensate(r) PROVE InductiveInvariant'
  <2>1. run[r].copy.status \in {"Validating", "FundsHeld", "Processing"}
    BY <1>19 DEF Compensate, MustRetry, Statuses
  <2> QED BY <1>19, <2>1 DEF Compensate, Advance, Save, CanWrite
<1>20. ASSUME NEW r \in Runs, PlaceHoldReplies(r) PROVE InductiveInvariant'
  <2>1. CASE LedgerPlaceHold("ok") /\ GoTo(r, "held")
    BY <1>20, <2>1, SMTT(30) DEF PlaceHoldReplies, LedgerPlaceHold, GoTo
  <2>2. CASE LedgerPlaceHold("terminal") /\ Throw(r, "terminal")
    BY <1>20, <2>2, ThrowMove DEF PlaceHoldReplies, LedgerPlaceHold
  <2> QED BY <1>20, <2>1, <2>2 DEF PlaceHoldReplies
<1>21. ASSUME NEW r \in Runs, SettleReplies(r) PROVE InductiveInvariant'
  <2>1. CASE LedgerSettle("ok") /\ GoTo(r, "completing")
    BY <1>21, <2>1, SMTT(30) DEF SettleReplies, LedgerSettle, Settleable, GoTo
  <2>2. CASE LedgerSettle("terminal") /\ Throw(r, "terminal")
    BY <1>21, <2>2, ThrowMove DEF SettleReplies, LedgerSettle, Settleable
  <2> QED BY <1>21, <2>1, <2>2 DEF SettleReplies
<1>22. ASSUME NEW r \in Runs, ReleaseReplies(r) PROVE InductiveInvariant'
  <2>1. CASE LedgerRelease("already_settled") /\ GoTo(r, "completing")
    BY <1>22, <2>1, SMTT(30) DEF ReleaseReplies, LedgerRelease, GoTo
  <2>2. CASE LedgerRelease("released") /\ GoTo(r, "failing")
    BY <1>22, <2>2, SMTT(30) DEF ReleaseReplies, LedgerRelease, GoTo
  <2>3. CASE LedgerRelease("terminal") /\ Throw(r, "terminal")
    BY <1>22, <2>3, ThrowMove DEF ReleaseReplies, LedgerRelease
  <2> QED BY <1>22, <2>1, <2>2, <2>3 DEF ReleaseReplies
<1>23. ASSUME NEW r \in Runs, DatabaseError(r) PROVE InductiveInvariant'
  <2>1. CASE Throw(r, "retryable")
    BY <1>23, <2>1, ThrowMove DEF DatabaseError, AtWrite, Writes
  <2>2. CASE /\ End(r)
             /\ UNCHANGED <<row, leaseLive, retryDue, completedEvents>>
    BY <1>23, <2>2 DEF DatabaseError, End
  <2> QED BY <1>23, <2>1, <2>2 DEF DatabaseError
<1>24. CASE LeaseExpires
  BY <1>24 DEF LeaseExpires
<1>25. CASE RetryBecomesDue
  BY <1>25 DEF RetryBecomesDue
<1>26. CASE UserReleasesHold
  BY <1>26 DEF UserReleasesHold
<1>27. CASE UserConsumesHold
  BY <1>27 DEF UserConsumesHold
<1>31. CASE UserPlacesHold
  BY <1>31 DEF UserPlacesHold
<1>28. ASSUME NEW c \in Commands, LateArrival(c) PROVE InductiveInvariant'
  BY <1>28 DEF LateArrival, LedgerPlaceHold, LedgerSettle, Settleable, LedgerRelease
<1>29. ASSUME NEW c \in Commands, LateLost(c) PROVE InductiveInvariant'
  BY <1>29 DEF LateLost
<1>30. CASE UNCHANGED vars
  BY <1>30 DEF vars
<1> HIDE DEF InductiveInvariant
<1> QED
  BY <1>1, <1>2, <1>3, <1>4, <1>5, <1>6, <1>7, <1>8, <1>9, <1>10, <1>11, <1>12, <1>13,
     <1>14, <1>15, <1>16, <1>17, <1>18, <1>19, <1>20, <1>21, <1>22, <1>23, <1>24,
     <1>25, <1>26, <1>27, <1>28, <1>29, <1>30, <1>31 DEF Next, Step

\* The initial values have their types.
LEMMA TypeInit == Init => TypeOK
<1> SUFFICES ASSUME Init PROVE TypeOK
  OBVIOUS
<1>1. run \in [Runs -> Run] /\ row \in Row
  BY IdleType DEF Init
<1>2. /\ leaseOwner \in Runs \cup {NoOwner, Gone}
      /\ fresh \subseteq Runs
      /\ hold \in {"none", "active", "released", "consumed"}
      /\ origin \in {"none", "saga", "sender", "other"}
      /\ late \subseteq Commands
  BY DEF Init
<1>3. completedEvents \in Nat /\ disturbances \in 0..MaxDisturbances
  BY SagaAssumption DEF Init
<1>4. leaseLive \in BOOLEAN /\ retryDue \in BOOLEAN /\ receipt \in BOOLEAN
  BY DEF Init
<1> QED BY <1>1, <1>2, <1>3, <1>4 DEF TypeOK

\* The invariant holds when the transfer has just been created.
LEMMA InvariantInit == Init => InductiveInvariant
<1> SUFFICES ASSUME Init PROVE InductiveInvariant
  OBVIOUS
<1>1. TypeOK
  BY TypeInit
<1>2. ASSUME NEW r \in Runs PROVE RunConsistent(r)
  BY SagaAssumption DEF Init, RunConsistent, RowConsistent, Rank, Idle, NewRow, Terminal
<1> QED
  BY <1>1, <1>2, SagaAssumption DEF Init, InductiveInvariant, HoldIsRecorded,
     CompletedEventExactlyOnce, RowConsistent, NewRow

-----------------------------------------------------------------------------

\* The actions that change the status, each by a run whose copy is the row.
Transition(r) ==
    /\ run[r].copy = row
    /\ \/ TurnPending(r) \/ RecordHeld(r) \/ TurnFundsHeld(r) \/ Compensate(r)
       \/ Complete(r) \/ Fail(r) \/ FailWithoutHold(r)

\* Nothing else changes the status, and these leave the ledger alone.
LEMMA StatusStep ==
    ASSUME InductiveInvariant, Next, row.status' # row.status
    PROVE  \E r \in Runs : Transition(r) /\ UNCHANGED ledgerVars
<1>1. ASSUME NEW r \in Runs, SaveReceiver(r) \/ MarkHold(r) \/ ScheduleRetry(r)
      PROVE  FALSE
  <2>1. run[r].copy = row /\ row \in Row
    BY <1>1 DEF SaveReceiver, MarkHold, ScheduleRetry, Save, Release, CanWrite,
       InductiveInvariant, RunConsistent, TypeOK
  <2> QED BY <1>1, <2>1 DEF SaveReceiver, MarkHold, ScheduleRetry, Save, Release, Row
<1>2. ASSUME NEW r \in Runs,
             \/ TurnPending(r) \/ RecordHeld(r) \/ TurnFundsHeld(r) \/ Compensate(r)
             \/ Complete(r) \/ Fail(r) \/ FailWithoutHold(r)
      PROVE  Transition(r) /\ UNCHANGED ledgerVars
  <2>1. run[r].copy = row /\ UNCHANGED ledgerVars
    BY <1>2 DEF TurnPending, RecordHeld, TurnFundsHeld, Compensate, Complete, Fail,
       FailWithoutHold, Advance, Save, Release, CanWrite, InductiveInvariant, RunConsistent
  <2> QED BY <1>2, <2>1 DEF Transition
<1>3. ASSUME NEW r \in Runs, Submit(r) \/ RecoverDue(r) \/ Crash(r) \/ LeaseLost(r)
      PROVE  FALSE
  BY <1>3 DEF Submit, RecoverDue, Start, Claim, Crash, LeaseLost, rowVars
<1>4. ASSUME NEW r \in Runs, DatabaseError(r) \/ AttemptFails(r) \/ PolicyRejects(r)
      PROVE  FALSE
  BY <1>4 DEF DatabaseError, AttemptFails, PolicyRejects, Throw, rowVars
<1>5. ASSUME NEW r \in Runs,
             \/ TurnValidating(r) \/ TurnProcessing(r) \/ TurnCompensating(r)
             \/ ValidateReplies(r) \/ PlaceHoldReplies(r) \/ SettleReplies(r)
             \/ ReleaseReplies(r)
      PROVE  FALSE
  BY <1>5 DEF TurnValidating, TurnProcessing, TurnCompensating, ValidateReplies,
     PlaceHoldReplies, SettleReplies, ReleaseReplies, GoTo, Throw, rowVars
<1>6. ASSUME NEW c \in Commands, LateArrival(c) \/ LateLost(c) PROVE FALSE
  BY <1>6 DEF LateArrival, LateLost, rowVars
<1>7. ~(\/ LeaseExpires \/ RetryBecomesDue
        \/ UserPlacesHold \/ UserReleasesHold \/ UserConsumesHold)
  BY DEF LeaseExpires, RetryBecomesDue, UserPlacesHold, UserReleasesHold, UserConsumesHold,
     rowVars
<1> QED BY <1>1, <1>2, <1>3, <1>4, <1>5, <1>6, <1>7 DEF Next, Step

\* What any step does to the ledger: a hold that is released or consumed stays
\* so, and a receipt appears only with a settlement that was possible.
LEMMA LedgerStep ==
    ASSUME InductiveInvariant, Next
    PROVE  /\ (hold \in {"released", "consumed"}) => hold' = hold
           /\ \/ receipt' = receipt
              \/ receipt' = TRUE /\ ~receipt /\ hold = "active" /\ SettlePossible
<1>1. CASE UNCHANGED ledgerVars
  BY <1>1 DEF ledgerVars
<1>2. ASSUME NEW r \in Runs, PlaceHoldReplies(r) \/ ReleaseReplies(r)
      PROVE  /\ (hold \in {"released", "consumed"}) => hold' = hold
             /\ receipt' = receipt
  BY <1>2 DEF PlaceHoldReplies, ReleaseReplies, LedgerPlaceHold, LedgerRelease, ledgerVars
<1>3. ASSUME NEW r \in Runs, SettleReplies(r)
      PROVE  /\ (hold \in {"released", "consumed"}) => hold' = hold
             /\ \/ receipt' = receipt
                \/ receipt' = TRUE /\ ~receipt /\ hold = "active" /\ SettlePossible
  BY <1>3 DEF SettleReplies, LedgerSettle, Settleable, ledgerVars, InductiveInvariant, RunConsistent,
     SettlePossible
<1>4. ASSUME NEW c \in Commands, LateArrival(c)
      PROVE  /\ (hold \in {"released", "consumed"}) => hold' = hold
             /\ \/ receipt' = receipt
                \/ receipt' = TRUE /\ ~receipt /\ hold = "active" /\ SettlePossible
  BY <1>4 DEF LateArrival, LedgerPlaceHold, LedgerSettle, Settleable, LedgerRelease, ledgerVars,
     SettlePossible
<1>5. CASE UserPlacesHold \/ UserReleasesHold \/ UserConsumesHold
  BY <1>5 DEF UserPlacesHold, UserReleasesHold, UserConsumesHold
<1>6. ASSUME NEW r \in Runs,
             \/ Submit(r) \/ RecoverDue(r) \/ DatabaseError(r) \/ Crash(r)
             \/ AttemptFails(r)
      PROVE  UNCHANGED ledgerVars
  BY <1>6 DEF Submit, RecoverDue, Start, DatabaseError, Crash, AttemptFails
<1>7. ASSUME NEW r \in Runs, Step(r),
             ~(PlaceHoldReplies(r) \/ ReleaseReplies(r) \/ SettleReplies(r))
      PROVE  UNCHANGED ledgerVars
  BY <1>7 DEF Step, TurnPending, TurnValidating, PolicyRejects, SaveReceiver, MarkHold,
     RecordHeld, TurnFundsHeld, TurnProcessing, TurnCompensating, Complete, Fail,
     ScheduleRetry, Compensate, FailWithoutHold, LeaseLost, ValidateReplies, Advance, Save,
     Release
<1>8. ASSUME LeaseExpires \/ RetryBecomesDue \/ \E c \in Commands : LateLost(c)
      PROVE  UNCHANGED ledgerVars
  BY <1>8 DEF LeaseExpires, RetryBecomesDue, LateLost
<1> QED BY <1>1, <1>2, <1>3, <1>4, <1>5, <1>6, <1>7, <1>8 DEF Next

-----------------------------------------------------------------------------

\* Type correctness of the saga: the row, the runs and the ledger's view of the
\* transfer never leave their domains.
THEOREM TypeCorrect == Spec => []TypeOK
BY TypeInit, TypeStep, PTL DEF Spec

\* The inductive invariant holds in every reachable state.
THEOREM InvariantHolds == Spec => []InductiveInvariant
BY InvariantInit, InvariantStep, PTL DEF Spec

\* TransferSagaService and releaseTransferHold together never report a failed
\* transfer whose money moved, nor a completed one whose money did not.
THEOREM OutcomeIsTrue == Spec => []OutcomeMatchesLedger
<1>1. InductiveInvariant => OutcomeMatchesLedger
  BY DEF InductiveInvariant, OutcomeMatchesLedger, SafeToFail
<1> QED BY <1>1, InvariantHolds, PTL

\* The write-ahead flag holdMayExist covers every hold that the saga placed and
\* every request that may still place or spend one, whatever holds the sender
\* places, releases or consumes under the transfer's id.
THEOREM HoldAlwaysRecorded == Spec => []HoldIsRecorded
<1>1. InductiveInvariant => HoldIsRecorded
  BY DEF InductiveInvariant
<1> QED BY <1>1, InvariantHolds, PTL

\* complete writes its integration event once, and only for a completed row.
THEOREM OneCompletedEvent == Spec => []CompletedEventExactlyOnce
<1>1. InductiveInvariant => CompletedEventExactlyOnce
  BY DEF InductiveInvariant
<1> QED BY <1>1, InvariantHolds, PTL

\* The receiver is resolved before settle and complete need it.
THEOREM ReceiverAlwaysResolved == Spec => []ReceiverResolvedInTime
<1>1. InductiveInvariant => ReceiverResolvedInTime
  BY DEF InductiveInvariant, ReceiverResolvedInTime, RunConsistent, RowConsistent
<1> QED BY <1>1, InvariantHolds, PTL

\* The loop of run never exhausts its step budget.
THEOREM BudgetNeverExhausted == Spec => []StepBudgetSuffices
<1>1. InductiveInvariant => StepBudgetSuffices
  <2> SUFFICES ASSUME InductiveInvariant, NEW r \in Runs PROVE run[r].step < StepBudget
    BY DEF StepBudgetSuffices
  <2>1. run[r].step \in Nat /\ run[r].step <= Rank(run[r].copy.status)
    BY DEF InductiveInvariant, TypeOK, Run, RunConsistent
  <2>2. Rank(run[r].copy.status) \in 0..4
    BY DEF Rank
  <2> QED BY <2>1, <2>2 DEF StepBudget
<1> QED BY <1>1, InvariantHolds, PTL

\* handleFailure bounds the attempts of every step but compensation.
THEOREM AttemptsBounded == Spec => []RetriesBounded
<1>1. InductiveInvariant => RetriesBounded
  BY DEF InductiveInvariant, RetriesBounded, RowConsistent
<1> QED BY <1>1, InvariantHolds, PTL

\* Stale copies notwithstanding, the status moves along ALLOWED_TRANSITIONS.
THEOREM StatusMovesAreAllowed == Spec => StatusMovesAsAllowed
<1>1. InductiveInvariant /\ [Next]_vars
        => [row.status' # row.status
              => <<row.status, row.status'>> \in AllowedTransitions]_vars
  <2> SUFFICES ASSUME InductiveInvariant, Next, row.status' # row.status
               PROVE  <<row.status, row.status'>> \in AllowedTransitions
    OBVIOUS
  <2>1. PICK r \in Runs : Transition(r)
    BY StatusStep
  <2>2. row \in Row /\ RowConsistent(row) /\ RunConsistent(r)
    BY DEF InductiveInvariant, TypeOK
  <2>3. row.status \in Statuses /\ row.status \notin Terminal
    BY <2>1, <2>2 DEF Transition, RunConsistent, Row
  <2>4. CASE TurnPending(r) \/ RecordHeld(r) \/ TurnFundsHeld(r)
    BY <2>1, <2>2, <2>4 DEF Transition, TurnPending, RecordHeld, TurnFundsHeld, Advance,
       Save, Row, RunConsistent, AllowedTransitions
  <2>5. CASE Compensate(r)
    <3>1. row.status \in {"Validating", "FundsHeld", "Processing"}
      BY <2>1, <2>2, <2>3, <2>5 DEF Transition, Compensate, MustRetry, RowConsistent,
         Statuses, Terminal
    <3> QED BY <2>1, <2>2, <2>5, <3>1 DEF Transition, Compensate, Advance, Save, Row,
               AllowedTransitions
  <2>6. CASE Complete(r) \/ Fail(r)
    BY <2>1, <2>2, <2>6 DEF Transition, Complete, Fail, Release, Row, RunConsistent,
       AllowedTransitions
  <2>7. CASE FailWithoutHold(r)
    <3>1. row.status \in {"Pending", "Validating"}
      BY <2>1, <2>2, <2>3, <2>7 DEF Transition, FailWithoutHold, RowConsistent, Statuses,
         Terminal
    <3> QED BY <2>1, <2>2, <2>7, <3>1 DEF Transition, FailWithoutHold, Release, Row,
               AllowedTransitions
  <2> QED BY <2>1, <2>4, <2>5, <2>6, <2>7 DEF Transition
<1> QED BY <1>1, InvariantHolds, PTL DEF Spec, StatusMovesAsAllowed

\* Released and consumed holds stay so, in whatever order commands arrive.
THEOREM HoldsAreSpentOnce == Spec => HoldNeverReactivated
<1>1. InductiveInvariant /\ [Next]_vars
        => [(hold \in {"released", "consumed"}) => hold' = hold]_vars
  BY LedgerStep
<1> QED BY <1>1, InvariantHolds, PTL DEF Spec, HoldNeverReactivated

\* The saga implements the abstract transfer: money moves at most once, only
\* while the outcome is open, and the outcome is final and true.
THEOREM Refinement == Spec => ImplementsAtomicTransfer
<1>1. Init => Abstract!Init
  BY DEF Init, Abstract!Init, Outcome, NewRow
<1>2. InductiveInvariant /\ [Next]_vars => [Abstract!Next]_(Abstract!vars)
  <2> SUFFICES ASSUME InductiveInvariant, [Next]_vars
               PROVE  Abstract!Next \/ UNCHANGED <<Outcome, receipt>>
    BY DEF Abstract!vars
  <2>1. CASE UNCHANGED vars
    BY <2>1 DEF vars, rowVars, ledgerVars, Outcome
  <2>2. CASE Next /\ row.status' = row.status
    <3>1. UNCHANGED Outcome
      BY <2>2 DEF Outcome
    <3>2. CASE receipt' = receipt
      BY <3>1, <3>2
    <3>3. CASE receipt' = TRUE /\ ~receipt /\ hold = "active" /\ SettlePossible
      <4>1. Outcome = "open"
        BY <3>3 DEF InductiveInvariant, SafeToFail, Outcome
      <4> QED BY <3>1, <3>3, <4>1 DEF Abstract!Next, Abstract!MoveMoney
    <3> QED BY <2>2, <3>2, <3>3, LedgerStep
  <2>3. CASE Next /\ row.status' # row.status
    <3>1. PICK r \in Runs : Transition(r) /\ UNCHANGED ledgerVars
      BY <2>3, StatusStep
    <3>2. receipt' = receipt /\ row \in Row /\ RunConsistent(r) /\ run[r].copy = row
      BY <3>1 DEF Transition, ledgerVars, InductiveInvariant, TypeOK
    <3>3. Outcome = "open"
      BY <3>2 DEF RunConsistent, Terminal, Outcome
    <3>4. CASE TurnPending(r) \/ RecordHeld(r) \/ TurnFundsHeld(r) \/ Compensate(r)
      <4>1. row'.status \in {"Validating", "FundsHeld", "Processing", "Compensating"}
        BY <3>2, <3>4 DEF TurnPending, RecordHeld, TurnFundsHeld, Compensate, Advance,
           Save, Row
      <4> QED BY <3>2, <3>3, <4>1 DEF Outcome
    <3>5. CASE Complete(r)
      <4>1. row'.status = "Completed" /\ receipt
        BY <3>2, <3>5 DEF Complete, Release, Row, RunConsistent
      <4> QED BY <3>2, <3>3, <4>1 DEF Outcome, Abstract!Next, Abstract!Complete
    <3>6. CASE Fail(r)
      <4>1. row'.status = "Failed" /\ ~receipt
        BY <3>2, <3>6 DEF Fail, Release, Row, CanWrite, InductiveInvariant, SafeToFail
      <4> QED BY <3>2, <3>3, <4>1 DEF Outcome, Abstract!Next, Abstract!Fail
    <3>7. CASE FailWithoutHold(r)
      <4>1. row'.status = "Failed" /\ ~receipt
        BY <3>2, <3>7 DEF FailWithoutHold, Release, Row, InductiveInvariant, HoldIsRecorded
      <4> QED BY <3>2, <3>3, <4>1 DEF Outcome, Abstract!Next, Abstract!Fail
    <3> QED BY <3>1, <3>4, <3>5, <3>6, <3>7 DEF Transition
  <2> QED BY <2>1, <2>2, <2>3
<1> QED BY <1>1, <1>2, InvariantHolds, PTL DEF Spec, ImplementsAtomicTransfer, Abstract!Spec

-----------------------------------------------------------------------------
(* The ledger of TransferSaga *)

Contract == INSTANCE HoldLifecycle

\* Commands of runs, late ones and the owner's own change the ledger only as the
\* contract has it, in whatever order they arrive.
LEMMA LedgerWithinContract ==
    ASSUME receipt \in BOOLEAN, Next
    PROVE  Contract!Next \/ UNCHANGED <<hold, receipt>>
<1>1. ASSUME NEW reply, LedgerPlaceHold(reply)
      PROVE  Contract!Next \/ UNCHANGED <<hold, receipt>>
  BY <1>1 DEF LedgerPlaceHold, Contract!Place, Contract!Next
<1>2. ASSUME NEW reply, LedgerSettle(reply)
      PROVE  Contract!Next \/ UNCHANGED <<hold, receipt>>
  <2>1. CASE ~receipt /\ hold = "active" /\ hold' = "consumed" /\ receipt' = TRUE
    <3>1. receipt = FALSE BY <2>1, Zenon
    <3> QED BY <2>1, <3>1 DEF Contract!Settle, Contract!Next
  <2> QED BY <1>2, <2>1 DEF LedgerSettle, Settleable, ledgerVars
<1>3. ASSUME NEW reply, LedgerRelease(reply)
      PROVE  Contract!Next \/ UNCHANGED <<hold, receipt>>
  BY <1>3 DEF LedgerRelease, ledgerVars, Contract!Release, Contract!Next
<1>4. CASE UserPlacesHold \/ UserReleasesHold \/ UserConsumesHold
  BY <1>4 DEF UserPlacesHold, UserReleasesHold, UserConsumesHold, Contract!Place,
     Contract!Release, Contract!Consume, Contract!Next
<1>5. ASSUME NEW r \in Runs, PlaceHoldReplies(r) \/ SettleReplies(r) \/ ReleaseReplies(r)
      PROVE  \E reply : LedgerPlaceHold(reply) \/ LedgerSettle(reply) \/ LedgerRelease(reply)
  BY <1>5 DEF PlaceHoldReplies, SettleReplies, ReleaseReplies
<1>6. ASSUME NEW c \in Commands, LateArrival(c)
      PROVE  \E reply : LedgerPlaceHold(reply) \/ LedgerSettle(reply) \/ LedgerRelease(reply)
  BY <1>6 DEF LateArrival
<1>7. ASSUME NEW r \in Runs,
             \/ Submit(r) \/ RecoverDue(r) \/ DatabaseError(r) \/ Crash(r)
             \/ AttemptFails(r)
      PROVE  UNCHANGED ledgerVars
  BY <1>7 DEF Submit, RecoverDue, Start, DatabaseError, Crash, AttemptFails
<1>8. ASSUME NEW r \in Runs, Step(r),
             ~(PlaceHoldReplies(r) \/ ReleaseReplies(r) \/ SettleReplies(r))
      PROVE  UNCHANGED ledgerVars
  BY <1>8 DEF Step, TurnPending, TurnValidating, PolicyRejects, SaveReceiver, MarkHold,
     RecordHeld, TurnFundsHeld, TurnProcessing, TurnCompensating, Complete, Fail,
     ScheduleRetry, Compensate, FailWithoutHold, LeaseLost, ValidateReplies, Advance, Save,
     Release
<1>9. ASSUME LeaseExpires \/ RetryBecomesDue \/ \E c \in Commands : LateLost(c)
      PROVE  UNCHANGED ledgerVars
  BY <1>9 DEF LeaseExpires, RetryBecomesDue, LateLost
<1>10. CASE UNCHANGED ledgerVars BY <1>10 DEF ledgerVars
<1> QED
  BY <1>1, <1>2, <1>3, <1>4, <1>5, <1>6, <1>7, <1>8, <1>9, <1>10 DEF Next

\* The atomic ledger that the saga is modelled with does nothing outside the
\* contract HoldLifecycle, the one that WalletLedger is shown to keep with its
\* streams, locks and retries.
THEOREM SagaKeepsHoldLifecycle == Spec => Contract!Spec
<1>1. Init => Contract!Init BY DEF Init, Contract!Init
<1>2. TypeOK /\ [Next]_vars => [Contract!Next]_(Contract!vars)
  <2> SUFFICES ASSUME TypeOK, [Next]_vars
               PROVE  Contract!Next \/ UNCHANGED <<hold, receipt>>
    BY DEF Contract!vars
  <2>1. receipt \in BOOLEAN BY DEF TypeOK
  <2>2. CASE UNCHANGED vars BY <2>2 DEF vars, ledgerVars
  <2> QED BY <2>1, <2>2, LedgerWithinContract
<1> QED BY <1>1, <1>2, TypeCorrect, PTL DEF Spec, Contract!Spec
=============================================================================
