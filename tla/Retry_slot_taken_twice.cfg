SPECIFICATION Spec
CONSTANTS
    c1 = c1 c2 = c2 c3 = c3 o1 = o1 o2 = o2 Thing = Thing
    Shared = Shared None = None
    Calls <- ThreeCalls
    Selves <- TwoSelves
    SelfOf <- Receivers
    ClassOf <- OneClass
    Limit = 1
    MaxContext = 4
    Configs <- StrictFiles
    MaxCrashes = 1
CHECK_DEADLOCK FALSE
INVARIANTS
    WithinLimit
