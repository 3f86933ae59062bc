SPECIFICATION Spec
CONSTANTS
    A = A B = B C = C p = p c = c q = q d = d
    hp = hp hc = hc hq = hq hf = hf hb = hb hB = hB
    j1 = j1 j2 = j2 L1 = L1 L2 = L2
    NoBus = NoBus NoEvent = NoEvent NoHandler = NoHandler NoTask = NoTask
    Bus <- OneBus
    Event <- TreeEvent
    Handler <- TreeHandler
    Jumper <- TwoJumper
    Lock <- TreeLock
    HandlersFor <- TreeFor
    Rank <- TreeRank
    Target <- TreeTarget
    LockOf <- TreeLockOf
    Root <- TreeRoot
    Emits <- TreeEmits
    Watched = {c}
    Middlewares = FALSE
    MayCancel = FALSE
    MayLeave = TRUE
    MayRepeat = TRUE
CHECK_DEADLOCK FALSE
INVARIANTS
    
    AtMostOnce
    AwaitedIsComplete
