CONSTANTS
    BlockCnt = 3
    BlockSize = 5
    MaxLen = 2
    MaxDumps = 8
    MaxFaults = 1
    Nothing = Nothing
    Junk = Junk
SPECIFICATION Spec
INVARIANT
    TypeOK
PROPERTIES
    IsLossyQueue
    DiscardsOnlyWhenFull
    EverythingLeaves
