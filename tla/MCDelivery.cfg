SPECIFICATION Spec
CONSTANTS
    MaxTaken = 4
    MaxQueue = 3
    Flash = 4
    MaxFlush = 2
    MaxRecordAge = 2
    BoardFaults = {"restart", "unsynced", "brownout"}
    PauseAfter = 3
    RebootAfter = 6
    MaxSilent = 14
    Event = {e1, e2}
    OutboxFaults = {"insert", "mark", "late", "refuse", "restart"}
    r1 = r1
    r2 = r2
    r3 = r3
    Reading = {r1, r2, r3}
    NoReading = NoReading
    NoData = NoData
    ObservedAt <- MCObservedAt
    StatusOf <- MCStatusOf
    MaxFetches = 2
INVARIANTS
    OnlyTheHeadIsRepeated BufferedIsKept
    CyclesOfBootCapped
    ReceivedOnceAtMost
    UnbrokenViewIsCurrent
PROPERTIES
    BufferIsKept BacklogDrains RowIsSettled
CHECK_DEADLOCK FALSE
