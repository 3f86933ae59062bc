SPECIFICATION FairSpec
CONSTANTS
    A = A B = B h1 = h1 h2 = h2 g1 = g1
    NoBus = NoBus NoHandler = NoHandler
    Bus <- TwoBus
    Handler <- ThreeHandler
    HandlersFor <- For
    Rank <- Order
    OwnTimeout <- Timeouts
    Configs <- SomeMode
    Unwinds = TRUE
CHECK_DEADLOCK FALSE
INVARIANTS
    DoneMeansSettled
    NoneLeftRunning
PROPERTIES
    LateResultsIgnored
    DeadlinesEndEvents
