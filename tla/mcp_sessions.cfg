SPECIFICATION Spec
CONSTANTS
    c1 = c1
    c2 = c2
    g1 = g1
    g2 = g2
    g3 = g3
    g4 = g4
    k1 = k1
    k2 = k2
    Calls = {c1, c2}
    Grants = {g1, g2, g3, g4}
    Tokens = {k1}
    None = None
    Missing = Missing
    NoGrant = NoGrant
    Ceiling <- HighCeiling
    MaxPolicy = 0
    MaxTotal = 2
    MaxTokenless = 1
    Storage = FALSE
    MaxRestarts = 1
SYMMETRY Symmetry
CONSTRAINT SessionsAfterRestart
INVARIANTS
    TokenlessBounded
    TotalBounded
PROPERTIES
    SessionsEndByOwner
