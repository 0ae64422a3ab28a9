SPECIFICATION Spec
CONSTANTS
    Tables <- AllTables
    NoName = 0
    Unknown = 1000
INVARIANTS
    NameIsTheFirst
    ReadBack
    CrashNeedsPadding
CHECK_DEADLOCK FALSE
