CONSTANTS
    TreeHeight = 1
    NumBlocks = 1
    Data = {0, 1}
    Zero = 0
    Z = 1
    S = 1
    A = 2
    SizeTModulus = 2
    Faults = {"stash"}
    NoBucket = NoBucket
    Malformed = Malformed
    Garbage = Garbage
    NoResult = NoResult
SPECIFICATION Spec
PROPERTIES
    ReadsGiveLastWrite
