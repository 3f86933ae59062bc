SPECIFICATION FairSpec
CONSTANTS
    p1 = p1 p2 = p2 m1 = m1 m2 = m2 m3 = m3
    Peer = {p1, p2}
    Msg = {m1, m2, m3}
    Sender <- Senders
    CreatedAt <- Keys
    Columns <- Fields
    Long = {m1}
    Invalid = {m3}
    Configs <- TheConfigs
CHECK_DEADLOCK FALSE
INVARIANTS
    ArrivesOnce
    SameOrder
    ColumnsKnown
    ClosedIsQuiet
PROPERTIES
    EverythingArrives
    EveryEmitEnds
