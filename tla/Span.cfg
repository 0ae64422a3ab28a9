SPECIFICATION FairSpec
CONSTANTS
    Max = 3
    Arrays = {a, b}
    Null = Null
INVARIANTS
    VisitsEachOnce
PROPERTIES
    ImplementsCheckedView
    LoopEnds
