CONSTANTS
    TreeHeight = 2
    NumBlocks = 1
    BucketSlots = 1
    ByteModulus = 1
    SizeTModulus = 4
    A = 1
    Faults = {"network", "stop"}
    NoResult = NoResult
SPECIFICATION FairSpec
INVARIANTS
    IdMapTellsTheTruth
PROPERTIES
    CallsEnd
    ServerEnds
