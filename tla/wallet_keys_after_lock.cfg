SPECIFICATION Spec
CONSTANTS
    t1 = t1
    t2 = t2
    a1 = a1
    a2 = a2
    Tasks = {t1, t2}
    Accounts = {a1}
    None = None
    MaxFailed = 2
    MaxRestarts = 0
SYMMETRY Symmetry
INVARIANTS
    KeysGoneWhenClosed
