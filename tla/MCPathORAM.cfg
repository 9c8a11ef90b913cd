CONSTANTS
    TreeHeight = 1
    NumBlocks = 2
    Data = {0, 1}
    Zero = 0
    BucketSize = 1
    NoResult = NoResult
    SizeTModulus = 1
    Faults = {"disk", "network"}
SPECIFICATION FairSpec
INVARIANTS
    PathInvariant
    RInv
    OneCurrentCopy
PROPERTIES
    RefinesRAM
    CallsEnd
