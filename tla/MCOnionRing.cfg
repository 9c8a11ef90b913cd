CONSTANTS
    TreeHeight = 1
    NumBlocks = 2
    BucketSlots = 2
    ByteModulus = 2
    SizeTModulus = 2
    A = 2
    Faults = {"network"}
    NoResult = NoResult
SPECIFICATION Spec
INVARIANTS
    TypeOK
    IdMapTellsTheTruth
    RootBudget
PROPERTIES
    RefinesRAM
