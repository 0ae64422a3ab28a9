SPECIFICATION Spec
CONSTANTS
    Objects = {o1}
    States = {s1, s2}
    NoState = NoState
INVARIANTS
    StatesAreOwned
