SPECIFICATION Spec
CONSTANTS
    Sizes <- Five
    Timeout = 0
    MaxCalls = 1
    MaxKeys = 0
    MaxHandled = 0
    MaxResets = 0
    MaxFaults = 0
    MaxCommands = 1
    Strays <- None
PROPERTIES CommandKeepsOutput
