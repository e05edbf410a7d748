SPECIFICATION Spec
CONSTANTS
    Sizes <- EmptyAndEleven
    Timeout = 0
    MaxCalls = 1
    MaxKeys = 1
    MaxHandled = 1
    MaxResets = 1
    MaxFaults = 1
    MaxCommands = 2
    Strays <- StrayWords
INVARIANTS TypeOK Ownership OutputExactlyOnce InputExactlyOnce
