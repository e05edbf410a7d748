SPECIFICATION FairSpec
CONSTANTS
    Sizes <- EmptyAndTwoChunks
    Timeout = 1
    MaxCalls = 2
    MaxKeys = 2
    MaxHandled = 2
    MaxResets = 0
    MaxFaults = 0
    MaxCommands = 0
    Strays <- None
PROPERTIES CallsReturn OutputDelivered KeysConsumed
