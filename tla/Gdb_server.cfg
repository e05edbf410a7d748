SPECIFICATION FairSpec
CONSTANTS
    Addrs <- TwoAddrs
    OwnBreaks <- LastBreak
    BreakAddrs <- TwoAddrs
    Slots <- OneSlot
    Commands <- AllCommands
    MaxPackets = 3
    MaxBreaks = 1
    MaxConnects = 2
    MaxFaults = 1
INVARIANTS TypeOK RegistersOwn CodeIntact StopsExplained BelievedStopped PacketsIntact
PROPERTIES StopReported
CHECK_DEADLOCK FALSE
