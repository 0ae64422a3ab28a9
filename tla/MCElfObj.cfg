SPECIFICATION Spec
CONSTANTS
    o1 = o1
    o2 = o2
    o3 = o3
    f1 = f1
    f2 = f2
    None = None
    Objs = {o1, o2, o3}
    Files = {f1, f2}
    Settable = {"sheaders"}
SYMMETRY Symmetry
INVARIANTS
    OneFile
    HeldOnce
    ValidIsHonest
PROPERTIES
    MovesUnmapNothing
    ImplementsOwnership
