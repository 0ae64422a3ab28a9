SPECIFICATION Spec
CONSTANTS
    Class = 32
    PageSize = 4096
    Versions <- Files
    Strays = {0, 12, 100000}
    MaxEdits = 2
INVARIANTS
    WellFormedNeverFails
    NamesOfSections
    TerminateNeedsBadIndex
    RefusedIsBlank
    ViewsAreTables
PROPERTIES
    ImplementsObjects
    ImplementsWrappers
CHECK_DEADLOCK FALSE
