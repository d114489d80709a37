SPECIFICATION Spec
CONSTANTS
    Runs = {r1, r2}
    NoOwner = NoOwner
    Gone = Gone
    MaxStepAttempts = 2
    HttpAttempts = 1
    MaxDisturbances = 3
    UserHoldCommands = {}
CHECK_DEADLOCK FALSE
INVARIANTS NoFundsHeldAfterFailure
