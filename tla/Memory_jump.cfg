SPECIFICATION Spec
CONSTANTS
    Flash <- OneFlash
    Ram <- OneRam
    STATR = 3
    CTLR = 4
    Load = 1
    Values <- TwoValues
    Data <- One
    Ends <- PastHole
    RamEnd = 1
    Strays <- RamOrOut
    MaxNext = 5
    MaxUnsure = 1
    MaxRuns = 1
PROPERTIES WriteReachesAddress
