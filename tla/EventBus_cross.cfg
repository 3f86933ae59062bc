SPECIFICATION FairSpec
CONSTANTS
    A = A B = B C = C p = p c = c q = q d = d
    hp = hp hc = hc hq = hq hf = hf hb = hb hB = hB
    j1 = j1 j2 = j2 L1 = L1 L2 = L2
    NoBus = NoBus NoEvent = NoEvent NoHandler = NoHandler NoTask = NoTask
    Bus <- TwoBus
    Event <- CrossEvent
    Handler <- CrossHandler
    Jumper <- TwoJumper
    Lock <- CrossLock
    HandlersFor <- CrossFor
    Rank <- CrossRank
    Target <- CrossTarget
    LockOf <- OwnLock
    Root <- CrossRoot
    Emits <- CrossEmits
    Watched = {}
    Middlewares = FALSE
    MayCancel = TRUE
    MayLeave = FALSE
    MayRepeat = FALSE
CHECK_DEADLOCK FALSE
INVARIANTS
    NoLockLeaked
PROPERTIES
    KeepsPromise
    EveryEventCompletes
