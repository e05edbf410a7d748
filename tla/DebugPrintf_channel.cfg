SPECIFICATION Spec
CONSTANTS
    Sizes <- EmptyAndTwoChunks
    Timeout = 1
    MaxCalls = 2
    MaxKeys = 4
    MaxHandled = 4
    MaxResets = 0
    MaxFaults = 0
    MaxCommands = 0
    Strays <- None
INVARIANTS InputExactlyOnce
PROPERTIES ImplementsChannel
