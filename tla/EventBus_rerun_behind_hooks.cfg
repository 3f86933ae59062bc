SPECIFICATION Spec
CONSTANTS
    A = A B = B C = C p = p c = c q = q d = d
    hp = hp hc = hc hq = hq hf = hf hb = hb hB = hB
    j1 = j1 j2 = j2 L1 = L1 L2 = L2
    NoBus = NoBus NoEvent = NoEvent NoHandler = NoHandler NoTask = NoTask
    Bus <- OneBus
    Event <- FamilyEvent
    Handler <- FamilyHandler
    Jumper <- TwoJumper
    Lock <- FamilyLock
    HandlersFor <- FamilyFor
    Rank <- FamilyRank
    Target <- FamilyTarget
    LockOf <- FamilyLockOf
    Root <- FamilyRoot
    Emits <- FamilyEmits
    Watched <- FamilyEvent
    Middlewares = TRUE
    MayCancel = FALSE
    MayLeave = FALSE
    MayRepeat = FALSE
CHECK_DEADLOCK FALSE
INVARIANTS
    AtMostOnce
