SPECIFICATION FairSpec
CONSTANTS
    Workers = {c1, c2}
    Nobody = Nobody
    alice = alice
    bob = bob
    t1 = t1
    t2 = t2
    Wallets = {alice, bob}
    Holds = {t1, t2}
    Plan <- Opposite
    Opening <- BothFunded
    Amounts = {1}
    MaxAttempts = 3
    MaxCommands = 4
    MaxRollbacks = 1
CHECK_DEADLOCK FALSE
INVARIANTS
    NoOverspend
    TypeOK
    ReadModelsMatch
    BalancesAddUp
    RetriesPaidFor
PROPERTIES
    KeepsHoldLifecycle
    EveryCommandAnswered
