SPECIFICATION Spec
CONSTANTS
    job1 = job1
    job2 = job2
    main = main
    local = local
    NumRequests = 2
    Ask <- CompleteAndReveal
    Jobs = {job1}
    Tier <- TierByJob
    Nets = {main}
    BootNet = main
    DisputeWindow = 2
    Rejected = {}
    MaxHead = 5
    MaxFaults = 1
INVARIANTS
    AtMostOneAfterOff
PROPERTIES
    LandableWhereRead
