SPECIFICATION Spec
CONSTANTS
    Class = 64
    PageSize = 4096
    Versions <- Files
    Strays = {0, 12, 100000}
    MaxEdits = 2
INVARIANTS
    SectionNameTable
CHECK_DEADLOCK FALSE
