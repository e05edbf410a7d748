SPECIFICATION FairSpec
CONSTANTS
    Sectors <- TwoSectors
    Size = 2
    Blank = 0
    Junk = 3
    Old = 1
    Data <- OneDatum
    Blobs <- SomeBlobs
    Families <- AllFamilies
    MaxPolls = 1
    MaxOps = 2
    MaxFaults = 1
INVARIANTS TypeOK MarksTrue
PROPERTIES ImplementsArray OperationsReturn
CHECK_DEADLOCK FALSE
