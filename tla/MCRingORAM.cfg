CONSTANTS
    TreeHeight = 1
    NumBlocks = 2
    Data = {0, 1}
    Zero = 0
    Z = 1
    S = 1
    A = 2
    SizeTModulus = 2
    Faults = {}
    NoBucket = NoBucket
    Malformed = Malformed
    Garbage = Garbage
    NoResult = NoResult
SPECIFICATION Spec
INVARIANTS
    RInv
    OneCurrentCopy
    BlocksOnPath
    NothingThrows
PROPERTIES
    RefinesRAM
