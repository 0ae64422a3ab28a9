SPECIFICATION Spec
CONSTANTS
    Tables <- AllTables
    NoName = 0
    Unknown = 1000
INVARIANTS
    Mapping
CHECK_DEADLOCK FALSE
