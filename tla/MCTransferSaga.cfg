SPECIFICATION FairSpec
CONSTANTS
    Runs = {r1, r2}
    NoOwner = NoOwner
    Gone = Gone
    MaxStepAttempts = 3
    HttpAttempts = 2
    MaxDisturbances = 3
    UserHoldCommands = {"place", "release", "consume"}
CHECK_DEADLOCK FALSE
INVARIANTS
    OutcomeMatchesLedger
    InductiveInvariant
    CompletedEventExactlyOnce
    StepBudgetSuffices
PROPERTIES
    StatusMovesAsAllowed
    ImplementsAtomicTransfer
    EndsUnlessConsumed
