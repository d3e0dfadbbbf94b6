SPECIFICATION Spec
CONSTANTS
    t1 = t1
    t2 = t2
    devnet = devnet
    testnet = testnet
    Tasks = {t1, t2}
    Networks = {devnet, testnet}
    Builtin = testnet
    None = None
    MaxOps = 2
SYMMETRY Symmetry
CHECK_DEADLOCK FALSE
INVARIANTS
    StorageReleased
