SPECIFICATION FairSpec
CONSTANTS
    anna = anna
    boris = boris
    clara = clara
    dora = dora
    Users = {anna, boris, clara, dora}
    Requests <- Bodies
    Workers = {w1, w2}
    BatchSize = 2
    MaxRollbacks = 1
CHECK_DEADLOCK FALSE
INVARIANTS
    TypeOK
    SharesAddUp
    RemindedOnce
    AnnouncedIsTrue
PROPERTIES
    StatusAdvances
    OverdueReminded
