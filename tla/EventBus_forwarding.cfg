SPECIFICATION Spec
CONSTANTS
    A = A B = B C = C p = p c = c q = q d = d
    hp = hp hc = hc hq = hq hf = hf hb = hb hB = hB
    j1 = j1 j2 = j2 L1 = L1 L2 = L2
    NoBus = NoBus NoEvent = NoEvent NoHandler = NoHandler NoTask = NoTask
    Bus <- TwoBus
    Event <- ForwardEvent
    Handler <- ForwardHandler
    Jumper <- OneJumper
    Lock <- ForwardLock
    HandlersFor <- ForwardFor
    Rank <- ForwardRank
    Target <- ForwardTarget
    LockOf <- OwnLock
    Root <- ForwardRoot
    Emits <- ForwardEmits
    Watched <- ForwardEvent
    Middlewares = TRUE
    MayCancel = FALSE
    MayLeave = FALSE
    MayRepeat = TRUE
CHECK_DEADLOCK FALSE
INVARIANTS
    CompleteMeansHandled
    CompleteMeansConsumed
    NothingForgotten
