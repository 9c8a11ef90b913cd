CONSTANTS
    TreeHeight = 1
    NumBlocks = 3
    BucketSlots = 2
    ByteModulus = 2
    SizeTModulus = 2
    A = 2
    Faults = {}
    NoResult = NoResult
SPECIFICATION Spec
PROPERTIES
    ReadsGiveLastWrite
