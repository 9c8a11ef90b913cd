CONSTANTS
    TreeHeight = 1
    NumBlocks = 1
    Data = {0}
    Zero = 0
    Z = 1
    S = 1
    SizeTModulus = 1
    Faults = {"disk", "stop", "network"}
    NoBucket = NoBucket
SPECIFICATION FairSpec
INVARIANTS
    CountsWhatWasTaken
PROPERTIES
    NoSlotReadTwice
    NoRequestHangsTheLoop
