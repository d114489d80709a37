---------------------------- MODULE TransferSaga ----------------------------
(***************************************************************************)
(* The transfer saga of payments-service: one row of the table transfers,  *)
(* the runs of TransferSagaService.run that race to advance it (one per    *)
(* HTTP submission and per recovery tick, in any number of processes), the *)
(* ledger commands they send, and the ledger's answer to each.             *)
(*                                                                         *)
(* Transfers do not interact in payments-service, so one is enough.  The   *)
(* column version is only ever compared with the copy a run read earlier,  *)
(* so it is represented by the set `fresh' of the runs whose copy is still *)
(* current.  Time is represented by the two events that matter: the lease  *)
(* runs out, and the retry becomes due.  A ledger command takes effect     *)
(* atomically here (one ledger transaction); WalletLedger models how that  *)
(* is achieved.                                                            *)
(***************************************************************************)
EXTENDS Naturals

CONSTANTS
    Runs,              \* slots for concurrent calls of run
    NoOwner,           \* lease_owner IS NULL
    Gone,              \* lease_owner is the UUID of a run that no longer exists
    MaxStepAttempts,   \* SAGA_MAX_STEP_ATTEMPTS
    HttpAttempts,      \* LEDGER_HTTP_MAX_ATTEMPTS
    MaxDisturbances,   \* bound on crashes, failed calls, resubmissions, ...
    UserHoldCommands   \* what the sender may do to the hold with the wallet API

ASSUME SagaAssumption ==
    /\ NoOwner \notin Runs
    /\ Gone \notin Runs
    /\ NoOwner # Gone
    /\ MaxStepAttempts \in Nat \ {0}
    /\ HttpAttempts \in Nat \ {0}
    /\ MaxDisturbances \in Nat
    /\ UserHoldCommands \subseteq {"place", "release", "consume"}

VARIABLES
    row,               \* the transfer's columns the saga reads and writes
    leaseOwner,        \* lease_owner
    leaseLive,         \* lease_until >= now
    retryDue,          \* next_retry_at IS NULL OR next_retry_at <= now
    run,               \* the local state of each call of run
    fresh,             \* the runs whose copy has the row's current version
    hold,              \* the ledger's hold with the transfer's id
    origin,            \* who placed it: the saga, or the sender, with the transfer's
                       \* amount ("sender") or another one ("other")
    receipt,           \* a row of ledger_transfer_settlements exists
    late,              \* commands whose request was abandoned but may still arrive
    completedEvents,   \* payments.transfer.Completed rows in the outbox
    disturbances       \* how many of MaxDisturbances have happened

rowVars == <<row, leaseOwner, leaseLive, retryDue, completedEvents>>
ledgerVars == <<hold, origin, receipt>>
vars == <<rowVars, run, fresh, ledgerVars, late, disturbances>>

Statuses == {"Pending", "Validating", "FundsHeld", "Processing",
             "Completed", "Compensating", "Failed"}
Terminal == {"Completed", "Failed"}

\* ALLOWED_TRANSITIONS
AllowedTransitions ==
    { <<"Pending", "Validating">>, <<"Pending", "Failed">>,
      <<"Validating", "FundsHeld">>, <<"Validating", "Compensating">>,
      <<"Validating", "Failed">>,
      <<"FundsHeld", "Processing">>, <<"FundsHeld", "Compensating">>,
      <<"Processing", "Completed">>, <<"Processing", "Compensating">>,
      <<"Compensating", "Completed">>, <<"Compensating", "Failed">> }

Row == [status: Statuses, retryCount: 0..MaxStepAttempts,
        receiverResolved: BOOLEAN, holdMayExist: BOOLEAN]

NewRow == [status |-> "Pending", retryCount |-> 0,
           receiverResolved |-> FALSE, holdMayExist |-> FALSE]

\* Commands that change the ledger; validate only reads this transfer's data.
Commands == {"placeHold", "settle", "release"}
Calls == Commands \cup {"validate"}

\* Where a run waits for its own database to store its next decision.
Writes == {"saveReceiver", "markHold", "held", "completing", "failing",
           "handleFailure"}
Locations == {"idle", "loop"} \cup Calls \cup Writes

Run == [pc: Locations, copy: Row, step: Nat, attempt: 0..(HttpAttempts - 1),
        failure: {"none", "retryable", "terminal"}]

Idle == [pc |-> "idle", copy |-> NewRow, step |-> 0, attempt |-> 0,
         failure |-> "none"]

\* Mutant: room for the statuses of the way without failures only.
StepBudgetTight == 4

StepBudget == 8    \* the bound of the for loop in run

Init ==
    /\ row = NewRow
    /\ leaseOwner = NoOwner
    /\ leaseLive = FALSE
    /\ retryDue = TRUE
    /\ run = [r \in Runs |-> Idle]
    /\ fresh = {}
    /\ hold = "none"
    /\ origin = "none"
    /\ receipt = FALSE
    /\ late = {}
    /\ completedEvents = 0
    /\ disturbances = 0

Disturb == disturbances < MaxDisturbances /\ disturbances' = disturbances + 1

-----------------------------------------------------------------------------
(* Starting and ending a run *)

\* Mutant: the lease of a dead run is never taken over.
ClaimableUnleased == row.status \notin Terminal /\ retryDue /\ leaseOwner = NoOwner

Claimable == row.status \notin Terminal /\ retryDue /\ ~leaseLive

\* claim takes the lease when the UPDATE matches, and returns the transfer in
\* either case: the driver answers an UPDATE with [rows, count], so the test
\* raw.length === 0 is never true.
Claim(r) ==
    /\ leaseOwner' = IF Claimable THEN r ELSE leaseOwner
    /\ leaseLive' = (leaseLive \/ Claimable)
    /\ UNCHANGED <<row, retryDue, completedEvents>>

Start(r) ==
    /\ run[r].pc = "idle"
    /\ row.status \notin Terminal
    /\ Claim(r)
    /\ run' = [run EXCEPT ![r] = [Idle EXCEPT !.pc = "loop", !.copy = row]]
    /\ fresh' = fresh \cup {r}
    /\ UNCHANGED <<ledgerVars, late>>

\* POST /transfers, or a repeat of it with the same key: run without looking.
Submit(r) == Disturb /\ Start(r)

\* The recovery timer selects the row only when it is claimable.
RecoverDue(r) == Claimable /\ Start(r) /\ UNCHANGED disturbances

\* The run returns or throws: its UUID will not be seen again.
End(r) ==
    /\ run' = [run EXCEPT ![r] = Idle]
    /\ fresh' = fresh \ {r}

Forsaken(r) == IF leaseOwner = r THEN Gone ELSE leaseOwner

-----------------------------------------------------------------------------
(* Writing the row *)

\* Mutant: UPDATE ... WHERE id only.
CanWriteById(r) == r \in Runs

\* WHERE id, status, version, lease_owner of the two UPDATEs.
CanWrite(r) == leaseOwner = r /\ r \in fresh

\* updateClaimed and transitionUsingManager: the version moves on, so every
\* other copy is out of date; the run continues at pc with the row it read back.
Save(r, new, pc, step) ==
    /\ CanWrite(r)
    /\ row' = new
    /\ retryDue' = TRUE
    /\ run' = [run EXCEPT ![r] = [pc |-> pc, copy |-> new, step |-> step,
                                  attempt |-> 0, failure |-> "none"]]
    /\ fresh' = {r}
    /\ UNCHANGED <<leaseOwner, leaseLive, completedEvents, ledgerVars, late,
                   disturbances>>

\* A transition that keeps the lease and starts the next turn of the loop.
Advance(r, next) ==
    Save(r, [run[r].copy EXCEPT !.status = next, !.retryCount = 0],
         "loop", run[r].step + 1)

\* A transition or update that gives the lease back; the run ends.
Release(r, new, due, events) ==
    /\ CanWrite(r)
    /\ row' = new
    /\ leaseOwner' = NoOwner
    /\ leaseLive' = FALSE
    /\ retryDue' = due
    /\ completedEvents' = completedEvents + events
    /\ run' = [run EXCEPT ![r] = Idle]
    /\ fresh' = {}
    /\ UNCHANGED <<ledgerVars, late, disturbances>>

-----------------------------------------------------------------------------
(* The turns of the loop in run *)

GoTo(r, pc) ==
    /\ run' = [run EXCEPT ![r].pc = pc, ![r].attempt = 0]
    /\ UNCHANGED <<rowVars, fresh, disturbances>>

Throw(r, kind) ==
    /\ run' = [run EXCEPT ![r].pc = "handleFailure", ![r].failure = kind,
                          ![r].attempt = 0]
    /\ UNCHANGED <<rowVars, fresh>>

\* Mutant: the hold is requested without storing the intent.
HoldWithoutMark(copy) == IF ~copy.receiverResolved THEN "validate" ELSE "placeHold"

\* Mutant: the receiver's wallet is not looked up first.
HoldWithoutReceiver(copy) == IF ~copy.holdMayExist THEN "markHold" ELSE "placeHold"

\* Validating: skip what an earlier run already recorded.
ValidatingStart(copy) ==
    IF ~copy.receiverResolved THEN "validate"
    ELSE IF ~copy.holdMayExist THEN "markHold" ELSE "placeHold"

TurnPending(r) ==
    /\ run[r].pc = "loop"
    /\ run[r].copy.status = "Pending"
    /\ Advance(r, "Validating")

TurnValidating(r) ==
    /\ run[r].pc = "loop"
    /\ run[r].copy.status = "Validating"
    /\ GoTo(r, ValidatingStart(run[r].copy))
    /\ UNCHANGED <<ledgerVars, late>>

\* TransferPolicyService.validate: a limit, a blocked receiver, or the FX
\* quote has expired, which a retry may find although the first turn did not.
PolicyRejects(r) ==
    /\ run[r].pc = "loop"
    /\ run[r].copy.status = "Validating"
    /\ Throw(r, "terminal")
    /\ UNCHANGED <<ledgerVars, late, disturbances>>

SaveReceiver(r) ==
    /\ run[r].pc = "saveReceiver"
    /\ LET new == [run[r].copy EXCEPT !.receiverResolved = TRUE, !.retryCount = 0]
       IN  Save(r, new, ValidatingStart(new), run[r].step)

\* The intent to hold is stored before the hold is requested.
MarkHold(r) ==
    /\ run[r].pc = "markHold"
    /\ Save(r, [run[r].copy EXCEPT !.holdMayExist = TRUE], "placeHold",
            run[r].step)

RecordHeld(r) ==
    /\ run[r].pc = "held"
    /\ Advance(r, "FundsHeld")

TurnFundsHeld(r) ==
    /\ run[r].pc = "loop"
    /\ run[r].copy.status = "FundsHeld"
    /\ Advance(r, "Processing")

TurnProcessing(r) ==
    /\ run[r].pc = "loop"
    /\ run[r].copy.status = "Processing"
    /\ GoTo(r, "settle")
    /\ UNCHANGED <<ledgerVars, late>>

TurnCompensating(r) ==
    /\ run[r].pc = "loop"
    /\ run[r].copy.status = "Compensating"
    /\ GoTo(r, "release")
    /\ UNCHANGED <<ledgerVars, late>>

\* complete: the status and the integration events are one transaction.
Complete(r) ==
    /\ run[r].pc = "completing"
    /\ Release(r, [run[r].copy EXCEPT !.status = "Completed", !.retryCount = 0],
               TRUE, 1)

\* fail, after a release.
Fail(r) ==
    /\ run[r].pc = "failing"
    /\ Release(r, [run[r].copy EXCEPT !.status = "Failed"], TRUE, 0)

-----------------------------------------------------------------------------
(* handleFailure *)

\* Mutant: one attempt too many.
MustRetryOnceMore(r) ==
    \/ run[r].copy.status = "Compensating"
    \/ /\ run[r].failure = "retryable"
       /\ run[r].copy.retryCount + 1 <= MaxStepAttempts

MustRetry(r) ==
    \/ run[r].copy.status = "Compensating"
    \/ /\ run[r].failure = "retryable"
       /\ run[r].copy.retryCount + 1 < MaxStepAttempts

\* scheduleRetry.  Only Compensating retries without limit, where retryCount
\* decides nothing, so counting stops at MaxStepAttempts.
ScheduleRetry(r) ==
    /\ run[r].pc = "handleFailure"
    /\ MustRetry(r)
    /\ Release(r, [run[r].copy EXCEPT
                      !.retryCount = IF @ < MaxStepAttempts THEN @ + 1 ELSE @],
               FALSE, 0)

\* Mutant: a transfer that may hold funds fails without compensation.
FailWithHold(r) ==
    /\ run[r].pc = "handleFailure"
    /\ ~MustRetry(r)
    /\ run[r].copy.holdMayExist
    /\ Release(r, [run[r].copy EXCEPT !.status = "Failed"], TRUE, 0)

Compensate(r) ==
    /\ run[r].pc = "handleFailure"
    /\ ~MustRetry(r)
    /\ run[r].copy.holdMayExist
    /\ Advance(r, "Compensating")

FailWithoutHold(r) ==
    /\ run[r].pc = "handleFailure"
    /\ ~MustRetry(r)
    /\ ~run[r].copy.holdMayExist
    /\ Release(r, [run[r].copy EXCEPT !.status = "Failed"], TRUE, 0)

-----------------------------------------------------------------------------
(* What stops a run *)

AtWrite(r) ==
    \/ run[r].pc \in Writes
    \/ run[r].pc = "loop" /\ run[r].copy.status \in {"Pending", "FundsHeld"}

\* SagaLeaseLostError: caught by run, or thrown out of it by handleFailure.
LeaseLost(r) ==
    /\ AtWrite(r)
    /\ ~CanWrite(r)
    /\ End(r)
    /\ UNCHANGED <<rowVars, ledgerVars, late, disturbances>>

\* The database refuses a write.  run treats it as a retryable failure; inside
\* handleFailure it escapes, and the lease stays until it expires.
DatabaseError(r) ==
    /\ AtWrite(r)
    /\ Disturb
    /\ \/ run[r].pc # "handleFailure" /\ Throw(r, "retryable")
       \/ /\ run[r].pc = "handleFailure"
          /\ End(r)
          /\ leaseOwner' = Forsaken(r)
          /\ UNCHANGED <<row, leaseLive, retryDue, completedEvents>>
    /\ UNCHANGED <<ledgerVars, late>>

\* The process dies; a request it was waiting for may still be on its way.
Crash(r) ==
    /\ run[r].pc # "idle"
    /\ Disturb
    /\ End(r)
    /\ leaseOwner' = Forsaken(r)
    /\ late' \in {late, late \cup ({run[r].pc} \cap Commands)}
    /\ UNCHANGED <<row, leaseLive, retryDue, completedEvents, ledgerVars>>

\* lease_until passes.  A run that is still working counts as a disturbance.
LeaseExpires ==
    /\ leaseLive
    /\ leaseLive' = FALSE
    /\ IF leaseOwner \in Runs THEN Disturb ELSE UNCHANGED disturbances
    /\ UNCHANGED <<row, leaseOwner, retryDue, completedEvents, run, fresh,
                   ledgerVars, late>>

\* next_retry_at passes.
RetryBecomesDue ==
    /\ ~retryDue
    /\ retryDue' = TRUE
    /\ UNCHANGED <<row, leaseOwner, leaseLive, completedEvents, run, fresh,
                   ledgerVars, late, disturbances>>

-----------------------------------------------------------------------------
(* The ledger's side of each command *)

\* Mutant: only an active hold makes placeHold a no-op.
LedgerReplaceHold(reply) ==
    /\ \/ hold # "active" /\ hold' = "active" /\ origin' = "saga" /\ reply = "ok"
       \/ hold = "none" /\ UNCHANGED <<hold, origin>> /\ reply = "terminal"
       \/ hold = "active" /\ UNCHANGED <<hold, origin>> /\ reply = "ok"
    /\ UNCHANGED receipt

\* An existing hold of the same amount, whatever became of it, makes placeHold a
\* no-op; one of another amount is refused (HOLD_CONFLICT).
LedgerPlaceHold(reply) ==
    /\ \/ hold = "none" /\ hold' = "active" /\ origin' = "saga" /\ reply = "ok"
       \/ hold = "none" /\ UNCHANGED <<hold, origin>> /\ reply = "terminal"
       \/ /\ hold # "none"
          /\ UNCHANGED <<hold, origin>>
          /\ reply = IF origin = "other" THEN "terminal" ELSE "ok"
    /\ UNCHANGED receipt

Settleable == hold = "active" /\ origin # "other"

\* Mutant: a released hold can be settled too.
LedgerSettleAnyHold(reply) ==
    \/ receipt /\ reply = "ok" /\ UNCHANGED ledgerVars
    \/ ~receipt /\ hold # "none" /\ reply = "ok"
       /\ hold' = "consumed" /\ receipt' = TRUE /\ UNCHANGED origin
    \/ ~receipt /\ hold = "none" /\ reply = "terminal" /\ UNCHANGED ledgerVars

\* A settle that commits between this one's look for a receipt and its read of
\* the wallet makes this one answer 409, "consumed without a receipt".
LedgerSettle(reply) ==
    \/ receipt /\ reply \in {"ok", "terminal"} /\ UNCHANGED ledgerVars
    \/ ~receipt /\ Settleable /\ reply = "ok"
       /\ hold' = "consumed" /\ receipt' = TRUE /\ UNCHANGED origin
    \/ ~receipt /\ ~Settleable /\ reply = "terminal" /\ UNCHANGED ledgerVars

\* Mutant: no look at the settlement receipts, and a spent hold counts as released.
LedgerReleaseBlind(reply) ==
    /\ reply = "released"
    /\ hold' = (IF hold = "active" THEN "released" ELSE hold)
    /\ UNCHANGED <<origin, receipt>>

\* releaseTransferHold: a hold that does not exist counts as released.
LedgerRelease(reply) ==
    \/ receipt /\ reply = "already_settled" /\ UNCHANGED ledgerVars
    \/ ~receipt /\ hold = "consumed" /\ reply = "terminal" /\ UNCHANGED ledgerVars
    \/ ~receipt /\ hold # "consumed" /\ reply = "released"
       /\ hold' = (IF hold = "active" THEN "released" ELSE hold)
       /\ UNCHANGED <<origin, receipt>>

ValidateReplies(r) ==
    /\ run[r].pc = "validate"
    /\ \/ GoTo(r, "saveReceiver")
       \/ Throw(r, "terminal") /\ UNCHANGED disturbances
    /\ UNCHANGED <<ledgerVars, late>>

PlaceHoldReplies(r) ==
    /\ run[r].pc = "placeHold"
    /\ \/ LedgerPlaceHold("ok") /\ GoTo(r, "held")
       \/ LedgerPlaceHold("terminal") /\ Throw(r, "terminal") /\ UNCHANGED disturbances
    /\ UNCHANGED late

SettleReplies(r) ==
    /\ run[r].pc = "settle"
    /\ \/ LedgerSettle("ok") /\ GoTo(r, "completing")
       \/ LedgerSettle("terminal") /\ Throw(r, "terminal") /\ UNCHANGED disturbances
    /\ UNCHANGED late

ReleaseReplies(r) ==
    /\ run[r].pc = "release"
    /\ \/ LedgerRelease("already_settled") /\ GoTo(r, "completing")
       \/ LedgerRelease("released") /\ GoTo(r, "failing")
       \/ LedgerRelease("terminal") /\ Throw(r, "terminal") /\ UNCHANGED disturbances
    /\ UNCHANGED late

\* Mutant: the loop over the attempts runs once too often.
AttemptFailsLate(r) ==
    /\ run[r].pc \in Calls
    /\ Disturb
    /\ late' \in {late, late \cup ({run[r].pc} \cap Commands)}
    /\ \/ /\ run[r].attempt < HttpAttempts
          /\ run' = [run EXCEPT ![r].attempt = @ + 1]
          /\ UNCHANGED <<rowVars, fresh>>
       \/ Throw(r, "retryable")
    /\ UNCHANGED ledgerVars

\* One attempt of LedgerHttpClient.request times out or meets an error; the
\* abandoned request may reach the ledger later.  The gateway tries again, or
\* gives up: it has no attempts left, or its circuit breaker is open (then a
\* call may fail before any request was sent).
AttemptFails(r) ==
    /\ run[r].pc \in Calls
    /\ Disturb
    /\ late' \in {late, late \cup ({run[r].pc} \cap Commands)}
    /\ \/ /\ run[r].attempt + 1 < HttpAttempts
          /\ run' = [run EXCEPT ![r].attempt = @ + 1]
          /\ UNCHANGED <<rowVars, fresh>>
       \/ Throw(r, "retryable")
    /\ UNCHANGED ledgerVars

\* An abandoned request takes effect; others like it may still be under way.
LateArrival(c) ==
    /\ c \in late
    /\ \/ c = "placeHold" /\ \E reply \in {"ok", "terminal"} : LedgerPlaceHold(reply)
       \/ c = "settle" /\ \E reply \in {"ok", "terminal"} : LedgerSettle(reply)
       \/ c = "release" /\ \E reply \in {"already_settled", "released", "terminal"} :
                               LedgerRelease(reply)
    /\ late' \in {late, late \ {c}}
    /\ UNCHANGED <<rowVars, run, fresh, disturbances>>

LateLost(c) ==
    /\ c \in late
    /\ late' = late \ {c}
    /\ UNCHANGED <<rowVars, run, fresh, ledgerVars, disturbances>>

\* POST /wallets/:id/holds, .../holds/:holdId/release and .../consume by the
\* sender, who may name the transfer's id, before the saga has used it too.
UserPlacesHold ==
    /\ "place" \in UserHoldCommands
    /\ hold = "none"
    /\ hold' = "active"
    /\ origin' \in {"sender", "other"}
    /\ UNCHANGED <<rowVars, run, fresh, receipt, late, disturbances>>

UserReleasesHold ==
    /\ "release" \in UserHoldCommands
    /\ hold = "active"
    /\ hold' = "released"
    /\ UNCHANGED <<rowVars, run, fresh, origin, receipt, late, disturbances>>

UserConsumesHold ==
    /\ "consume" \in UserHoldCommands
    /\ hold = "active"
    /\ hold' = "consumed"
    /\ UNCHANGED <<rowVars, run, fresh, origin, receipt, late, disturbances>>

-----------------------------------------------------------------------------

\* What a run does by itself while its process, database and ledger are well.
Step(r) ==
    \/ TurnPending(r) \/ TurnValidating(r) \/ PolicyRejects(r)
    \/ SaveReceiver(r) \/ MarkHold(r) \/ RecordHeld(r)
    \/ TurnFundsHeld(r) \/ TurnProcessing(r) \/ TurnCompensating(r)
    \/ Complete(r) \/ Fail(r)
    \/ ScheduleRetry(r) \/ Compensate(r) \/ FailWithoutHold(r)
    \/ LeaseLost(r)
    \/ ValidateReplies(r) \/ PlaceHoldReplies(r) \/ SettleReplies(r)
    \/ ReleaseReplies(r)

Next ==
    \/ \E r \in Runs : \/ Submit(r) \/ RecoverDue(r) \/ Step(r)
                       \/ DatabaseError(r) \/ Crash(r) \/ AttemptFails(r)
    \/ LeaseExpires \/ RetryBecomesDue
    \/ \E c \in Commands : LateArrival(c) \/ LateLost(c)
    \/ UserPlacesHold \/ UserReleasesHold \/ UserConsumesHold

Spec == Init /\ [][Next]_vars

\* Processes are scheduled, timers fire, a healthy ledger answers: everything
\* that is not one of the MaxDisturbances disturbances or a user's choice.
Fairness ==
    /\ \A r \in Runs : WF_vars(Step(r))
    /\ WF_vars(\E r \in Runs : RecoverDue(r))
    /\ WF_vars(LeaseExpires)
    /\ WF_vars(RetryBecomesDue)

FairSpec == Spec /\ Fairness

-----------------------------------------------------------------------------
(* Properties *)

\* Every variable has its type; the saga keeps no value its code does not know.
TypeOK ==
    /\ row \in Row
    /\ leaseOwner \in Runs \cup {NoOwner, Gone}
    /\ leaseLive \in BOOLEAN
    /\ retryDue \in BOOLEAN
    /\ run \in [Runs -> Run]
    /\ fresh \subseteq Runs
    /\ hold \in {"none", "active", "released", "consumed"}
    /\ origin \in {"none", "saga", "sender", "other"}
    /\ receipt \in BOOLEAN
    /\ late \subseteq Commands
    /\ completedEvents \in Nat
    /\ disturbances \in 0..MaxDisturbances

\* A transfer reported Failed has moved no money and one reported Completed
\* has, whatever requests are lost, repeated or late (run, releaseTransferHold).
OutcomeMatchesLedger ==
    /\ row.status = "Failed" => ~receipt
    /\ row.status = "Completed" => receipt /\ hold = "consumed"

\* The saga has placed no hold, and no request of it that could place or spend
\* one is under way, unless the row says so: a crash at any point leaves the hold
\* discoverable.  (A hold that the sender placed is the sender's to release.)
HoldIsRecorded ==
    origin = "saga" \/ receipt \/ late \cap {"placeHold", "settle"} # {}
        => row.holdMayExist

\* The outbox holds exactly one Completed event for a completed transfer and
\* none for any other, however many runs reach complete.
CompletedEventExactlyOnce ==
    completedEvents = (IF row.status = "Completed" THEN 1 ELSE 0)

\* Settlement is requested, and completion stored, only for a resolved
\* receiver: the guards in LedgerHttpClient.settle and in
\* enqueueTransferCompleted never trip.
ReceiverResolvedInTime ==
    \A r \in Runs :
        run[r].pc \in {"settle", "completing"} => run[r].copy.receiverResolved

\* The 8 turns of the loop in run always suffice: SAGA_STEP_BUDGET_EXHAUSTED
\* is never raised.
StepBudgetSuffices ==
    \A r \in Runs : run[r].step < StepBudget

\* Outside compensation a step is tried at most MaxStepAttempts times (a Failed
\* row keeps the count its compensation reached).
RetriesBounded ==
    row.status \notin {"Compensating", "Failed"} => row.retryCount < MaxStepAttempts

\* The row moves only along ALLOWED_TRANSITIONS, so never out of a terminal
\* status, although each run decides from its own, possibly stale, copy.
StatusMovesAsAllowed ==
    [][row.status' # row.status => <<row.status, row.status'>> \in AllowedTransitions]_vars

\* A hold that was consumed or released never becomes active again, although
\* abandoned requests arrive in any order: the money is reserved at most once.
HoldNeverReactivated ==
    [][(hold \in {"released", "consumed"}) => hold' = hold]_vars

\* Once disturbances stop, the transfer reaches Completed or Failed.
EventuallyTerminal == <>(row.status \in Terminal)

\* Once disturbances stop, the transfer reaches Completed or Failed, unless the
\* sender has consumed its hold through the wallet API: the compensating release
\* is then refused for ever.  A hold that the transfer's own settlement consumed
\* is no excuse, even if its answer was lost: release answers already_settled.
EndsUnlessConsumed ==
    <>[](\/ row.status \in Terminal
         \/ row.status = "Compensating" /\ hold = "consumed" /\ ~receipt)

\* What its users see of the transfer's status.
Outcome ==
    IF row.status = "Completed" THEN "completed"
    ELSE IF row.status = "Failed" THEN "failed" ELSE "open"

Abstract == INSTANCE AtomicTransfer WITH outcome <- Outcome, moved <- receipt

\* The transfer as its users see it implements AtomicTransfer: money moves at
\* most once, while the outcome is open, and the outcome is final and true.
ImplementsAtomicTransfer == Abstract!Spec

-----------------------------------------------------------------------------
(* The inductive invariant behind OutcomeMatchesLedger and the refinement *)

\* What the columns of the row, or of any copy of it, say about each other.
RowConsistent(x) ==
    /\ x.status = "Pending" => ~x.receiverResolved
    /\ x.holdMayExist => x.receiverResolved
    /\ x.status \in {"FundsHeld", "Processing", "Compensating", "Completed"}
           => x.holdMayExist
    /\ x.status \notin {"Compensating", "Failed"} => x.retryCount < MaxStepAttempts
    /\ x.status \in {"FundsHeld", "Processing"} => hold # "none"

\* How far along the lifecycle a status is: each turn of the loop moves up.
Rank(status) ==
    CASE status = "Pending" -> 0
      [] status = "Validating" -> 1
      [] status = "FundsHeld" -> 2
      [] status = "Processing" -> 3
      [] OTHER -> 4

\* What a run's location says about its copy and about the ledger.
RunConsistent(r) ==
    LET pc == run[r].pc
        copy == run[r].copy
    IN  /\ RowConsistent(copy)
        /\ copy.holdMayExist => row.holdMayExist
        /\ copy.status \notin Terminal
        /\ run[r].step <= Rank(copy.status)
        /\ r \in fresh => copy = row /\ pc # "idle"
        /\ pc = "idle" => copy.status = "Pending"
        /\ pc \in {"validate", "saveReceiver", "markHold", "placeHold", "held"}
               => copy.status = "Validating"
        /\ pc \in {"markHold", "placeHold", "held"} => copy.receiverResolved
        /\ pc \in {"placeHold", "held"} => copy.holdMayExist
        /\ pc = "held" => hold # "none"
        /\ pc = "settle" => copy.status = "Processing"
        /\ pc \in {"release", "failing"} => copy.status = "Compensating"
        /\ pc = "completing" => receipt /\ copy.status \in {"Processing", "Compensating"}

\* Some request to settle is under way or may still be sent by a run that
\* read the row while it was Processing.
SettlePossible ==
    \/ row.status = "Processing"
    \/ "settle" \in late
    \/ \E r \in Runs : run[r].copy.status = "Processing"

\* No money moved and none will: every settle to come finds a released hold.
SafeToFail == ~receipt /\ (hold = "released" \/ ~SettlePossible)

\* Why a saga that decides from stale copies is still right: the row is never
\* Failed, and no current run is about to make it so, unless that is safe.
InductiveInvariant ==
    /\ TypeOK
    /\ HoldIsRecorded
    /\ CompletedEventExactlyOnce
    /\ RowConsistent(row)
    /\ \A r \in Runs : RunConsistent(r)
    /\ "settle" \in late => hold # "none"
    /\ receipt => hold = "consumed"
    /\ row.status = "Completed" => receipt
    /\ row.status = "Failed" => SafeToFail
    /\ \A r \in fresh : run[r].pc = "failing" => SafeToFail

\* README: "failed hold placement is safely retried or released if its outcome
\* is ambiguous".  Once the transfer is Failed no funds stay reserved.
NoFundsHeldAfterFailure ==
    row.status = "Failed" => hold # "active"

\* run: "if (!transfer) return" -- only a run that claimed the row may act.
OnlyClaimantsRun ==
    [][\A r \in Runs :
          run[r].pc = "idle" /\ run'[r].pc # "idle" => leaseOwner' = r]_vars
=============================================================================
