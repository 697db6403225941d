\* Small sizes on both sides of every boundary, with an int of four bits.
SPECIFICATION FairSpec
CONSTANTS
    FileSizes = {0, 1, 2, 3, 4, 5}
    StreamSizes = {0, 3, 4, 5, 6}
    PartSizes <- MCPartSizes
    PartTotals <- MCPartTotals
    IntLimit = 8
    MaxCapacity = 5
INVARIANTS TypeOK CommitIsWholeFile VerifiedIsStored CommitHasAllParts
PROPERTIES UploadIsAtomic UploadReturns UploadRunsOut
CHECK_DEADLOCK FALSE
