SPECIFICATION Spec
CONSTANTS
    job1 = job1
    job2 = job2
    main = main
    local = local
    NumRequests = 3
    Ask <- RefusedThenClaim
    Jobs = {job1, job2}
    Tier <- TierByJob
    Nets = {main, local}
    BootNet = main
    DisputeWindow = 1
    Rejected = {}
    MaxHead = 1
    MaxFaults = 1
INVARIANTS
    TypeOK
    OnlyVettedWritesSent
    NoDuplicateWithoutLoss
    AtMostOneAfterLock
PROPERTIES
    ConsentPerSend
    DeclinedStaysRefused
    ImplementsPromise
