SPECIFICATION FairSpec
CONSTANTS
    Events = {e1, e2}
    Relays = {r1, r2}
    NoLock = NoLock
    Gone = Gone
    NoEvent = NoEvent
    h1 = h1
    h2 = h2
    Handlers = {h1, h2}
    Consumers <- TwoProcesses
    Killable <- TwoProcesses
    BatchSize = 2
    QueueDeclared = TRUE
    MaxDisturbances = 2
CHECK_DEADLOCK FALSE
INVARIANTS
    NothingLost
    FeedMatchesInbox
    EmittedAtMostOnce
    DuplicatesPaidFor
    InductiveInvariant
PROPERTIES
    ImplementsReliableFeed
    EveryEventShown
