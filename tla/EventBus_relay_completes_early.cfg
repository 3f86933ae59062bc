SPECIFICATION Spec
CONSTANTS
    A = A B = B C = C p = p c = c q = q d = d
    hp = hp hc = hc hq = hq hf = hf hb = hb hB = hB
    j1 = j1 j2 = j2 L1 = L1 L2 = L2
    NoBus = NoBus NoEvent = NoEvent NoHandler = NoHandler NoTask = NoTask
    Bus <- TwoBus
    Event <- RelayEvent
    Handler <- RelayHandler
    Jumper <- OneJumper
    Lock <- RelayLock
    HandlersFor <- RelayFor
    Rank <- RelayRank
    Target <- RelayTarget
    LockOf <- OwnLock
    Root <- RelayRoot
    Emits <- RelayEmits
    Watched = {}
    Middlewares = FALSE
    MayCancel = FALSE
    MayLeave = FALSE
    MayRepeat = FALSE
CHECK_DEADLOCK FALSE
INVARIANTS
    CompleteMeansConsumed
