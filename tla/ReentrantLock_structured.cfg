SPECIFICATION Spec
CONSTANTS
    loop1 = loop1
    loop2 = loop2
    child1 = child1
    child2 = child2
    NoTask = NoTask
    Task <- MCTask
    Root <- MCRoot
    MaxScope = 3
    Bypass = FALSE
    Detach = FALSE
SYMMETRY Symmetry
CHECK_DEADLOCK FALSE
INVARIANTS
    MutualExclusion
    PermitConserved
    WaitersHaveHolder
