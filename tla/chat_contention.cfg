SPECIFICATION Spec
CONSTANTS
    Turns = {u1, u2}
    Writers = {w1}
    MaxRounds = 1
    MaxCalls = 1
CHECK_DEADLOCK FALSE
INVARIANTS
    NoContention
