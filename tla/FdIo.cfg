SPECIFICATION FairSpec
CONSTANTS
    ElemSize = 2
    N = 2
    MaxSize = 4
INVARIANTS
    TypeOK
    WholeSoFar
    OffsetTellsWhole
PROPERTIES
    EofRaisedAtEnd
    EofIsFinal
    CallsReturn
