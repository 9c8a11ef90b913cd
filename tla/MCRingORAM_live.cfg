CONSTANTS
    TreeHeight = 0
    NumBlocks = 2
    Data = {0, 1}
    Zero = 0
    Z = 1
    S = 2
    A = 3
    SizeTModulus = 1
    Faults = {"disk", "stop", "network"}
    NoBucket = NoBucket
    Malformed = Malformed
    Garbage = Garbage
    NoResult = NoResult
SPECIFICATION FairSpec
INVARIANTS
    SlotBudget
PROPERTIES
    RefinesRAM
    CallsEnd
    ServerEnds
