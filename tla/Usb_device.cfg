SPECIFICATION FairSpec
CONSTANTS
    Packet = 2
    DescLen <- Lengths
    Requests <- SomeRequests
    InBuf = 2
    MaxSetups = 2
    MaxTraffic = 2
    MaxFaults = 1
INVARIANTS TypeOK ReadsWhole AddressAgrees SendGate BusyMeansArmed OutputOnce InputInOrder
PROPERTIES NoSendInWindow BusyClears TransferEnds
CHECK_DEADLOCK FALSE
