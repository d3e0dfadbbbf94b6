SPECIFICATION Spec
CONSTANTS
    Clicks = {c1}
    MaxRequests = 2
    MaxCalls = 1
    MaxRounds = 2
    MaxDrawn = 2
CHECK_DEADLOCK FALSE
INVARIANTS
    ResolvesShown
