SPECIFICATION Spec
CONSTANTS
    Sizes <- None
    Timeout = 0
    MaxCalls = 0
    MaxKeys = 1
    MaxHandled = 0
    MaxResets = 0
    MaxFaults = 1
    MaxCommands = 0
    Strays <- None
PROPERTIES ForgottenMeansReceived
