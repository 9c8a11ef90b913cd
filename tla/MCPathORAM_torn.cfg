CONSTANTS
    TreeHeight = 1
    NumBlocks = 1
    Data = {0, 1}
    Zero = 0
    BucketSize = 1
    NoResult = NoResult
    SizeTModulus = 1
    Faults = {"disk", "torn"}
SPECIFICATION Spec
PROPERTIES
    ReadsGiveLastWrite
