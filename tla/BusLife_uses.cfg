SPECIFICATION FairSpec
CONSTANTS
    e1 = e1 e2 = e2 e3 = e3 f1 = f1 f2 = f2 w1 = w1 None = None
    Event <- ThreeEvents
    Parent <- Parents
    Batch = 1
    Finder = {f1, f2}
    Pattern <- Patterns
    Idler = {w1}
    Configs <- EveryLife
    MaxTime = 2
    MaxEmits = 2
    MaxRestarts = 1
CHECK_DEADLOCK FALSE
INVARIANTS
    TypeOK
    HandledOnce
    EventKept
    FindMissesNothing
    HistoryBounded
PROPERTIES
    IdleMeansDone
    EvictsOnlySpent
    SweepsTheExpired
    EveryEventCompletes
    StartedCompletes
    IdleWaiterReturns
