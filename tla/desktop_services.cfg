SPECIFICATION ServicesSpec
CONSTANTS
    t1 = t1
    t2 = t2
    devnet = devnet
    testnet = testnet
    Tasks = {t1, t2}
    Networks = {devnet, testnet}
    Builtin = testnet
    None = None
    MaxOps = 3
    Dirs = {devnet}
    MaxStarts = 3
    MaxLaunches = 2
    Clicks = {c1}
    MaxRequests = 2
    MaxToolCalls = 1
    MaxRounds = 2
    MaxDrawn = 2
    Publications = {p1, p2}
    Models = {m1, m2}
    MaxPolls = 1
    Files = {f1, f2}
    Removals = {d1}
    MaxEnvelope = 2
    Members = {s1}
    Accounts = {a1, a2}
    MaxCallbacks = 2
    MaxSends = 1
    Turns = {u1, u2}
    Writers = {w1, w2}
    MaxChatCalls = 2
    Capacity = 2
    MaxEvents = 4
    CutShort = CutShort
    Blocks = {b1, b2}
    Secrets = {n1, n2}
    Choices = {day, night}
    Default = day
    MaxCrumbs = 1
    MaxLen = 2
    MaxLines = 5
    MaxActs = 3
    MaxSaves = 2
    MaxConfirms = 2
    MaxLooks = 3
    MaxPanelCalls = 2
    MaxPins = 2
    MaxClicks = 2
    MaxChanges = 2
    MaxBalance = 2
    MaxPasses = 2
    MaxPresses = 3
SYMMETRY Symmetry
CHECK_DEADLOCK FALSE
INVARIANTS
    FilesKept
    PrivateUploadsSealed
    ServicesTypeOK
    RunningIsServed
    NoOrphans
    SettledAgree
    WaitsEnd
    NoneStuck
    CardLeavesWrites
    Evidence
    SenderIsRoot
    ConversationFlows
    Unbroken
    ForensicsKept
    ClosedIsShown
    SecretsExpire
    SettingsKept
    OneSend
    ViewsSettle
PROPERTIES
    ServesInTurn
    ConsentFollowed
    SealedDataKept
    SealedIdentityKept
    RevocationDurable
