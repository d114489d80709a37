SPECIFICATION Spec
CONSTANTS
    Events = {e1, e2}
    Relays = {r1, r2}
    NoLock = NoLock
    Gone = Gone
    NoEvent = NoEvent
    h1 = h1
    h2 = h2
    Handlers = {h1, h2}
    Consumers <- OneProcess
    Killable <- OneProcess
    BatchSize = 2
    QueueDeclared = FALSE
    MaxDisturbances = 0
SYMMETRY Symmetry
CHECK_DEADLOCK FALSE
INVARIANTS NothingLost
