SPECIFICATION Spec
CONSTANTS
    Sizes <- Five
    Timeout = 0
    MaxCalls = 2
    MaxKeys = 0
    MaxHandled = 0
    MaxResets = 0
    MaxFaults = 0
    MaxCommands = 0
    Strays <- None
INVARIANTS WaitingMeansUnprinted
