CONSTANTS
    TreeHeight = 4
    Sizes = {2, 3, 4, 5}
    Base = 3
    Width = 2
    Capacity = 3
    Faults = {"bind", "network"}
    Increments = {0, 1, 2, 3, 8, 9, 26, 27, 28, 80}
SPECIFICATION Spec
INVARIANTS
    PathsMeetWhereShiftsDo
    DownAgreesWithUp
    EvictionsSpread
    SwapsAnyPermutation
    CounterIsAddition
PROPERTIES
    VectorsArriveWhole
    EverythingArrives
