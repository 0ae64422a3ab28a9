SPECIFICATION Spec
CONSTANTS
    f1 = f1
    f2 = f2
    m1 = m1
    m2 = m2
    FdObjs = {f1, f2}
    MapObjs = {m1, m2}
    Desc = {0, 1, 2}
    MaxLen = 2
    LowPage = 1
    MaxPage = 4
    Image = {1}
SYMMETRY Symmetry
INVARIANTS
    UniqueOwner
    NothingLeaks
    PagesAccounted
    EofFollowsDescriptor
PROPERTIES
    ClosesAreDestructions
    MappingsAreStable
    ImplementsOwnership
