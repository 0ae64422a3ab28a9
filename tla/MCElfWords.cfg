SPECIFICATION WordsSpec
CONSTANTS
    Bytes <- SomeBytes
    MaxName = 8
    B = 2
    Syms = {0, 1, 2, 63, 255}
    Types = {0, 1, 2, 3, 5, 254, 255, 256, 65535}
INVARIANTS
    ShortIsNumeral
    LastByteTells
    FieldsStand
    LaidOverTheFile
PROPERTIES
    ImplementsRegister
CHECK_DEADLOCK FALSE
