CONSTANTS
    TreeHeight = 1
    NumBlocks = 1
    BucketSlots = 2
    ByteModulus = 2
    SizeTModulus = 1
    Faults = {"network", "stop"}
SPECIFICATION FairSpec
INVARIANTS
    AnswersAreTrue
    HalfDoneLosesNothing
PROPERTIES
    NoRequestHangsTheLoop
