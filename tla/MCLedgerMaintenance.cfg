SPECIFICATION Spec
CONSTANTS
    Wallets = {1, 2}
    Rebuilds = {r1, r2}
    Readers = {k1}
    Amounts <- FiveInOrOut
    Balances = {0, 5}
    MaxVersion = 3
    MaxDamages = 1
SYMMETRY Alike
CHECK_DEADLOCK FALSE
INVARIANTS
    FalseAlarmsShow
PROPERTIES
    MatchStays
    RebuildRepairs
