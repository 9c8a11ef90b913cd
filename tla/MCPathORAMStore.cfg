CONSTANTS
    TreeHeight = 1
    NumBlocks = 1
    Data = {0}
    Zero = 0
    BucketSize = 1
    SizeTModulus = 1
    Faults = {"disk", "torn", "stop", "network"}
SPECIFICATION FairSpec
INVARIANTS
    AckMeansWritten
    CommandsAreCommands
PROPERTIES
    ReadsSeeWholeWrites
    NoRequestHangsTheLoop
    StopIsSeen
    ServerEnds
