SPECIFICATION Spec
CONSTANTS
    Tables <- FlagTables
    Wide <- WideOperand
    Statements <- Bound
    NoName = 0
INVARIANTS
    FoundExactly
    Reassembles
    StatementsShow
CHECK_DEADLOCK FALSE
