SPECIFICATION Spec
CONSTANTS
    job1 = job1
    job2 = job2
    main = main
    local = local
    NumRequests = 1
    Ask <- OneCompletion
    Jobs = {job1}
    Tier <- TierByJob
    Nets = {main, local}
    BootNet = main
    DisputeWindow = 1
    Rejected = {}
    MaxHead = 4
    MaxFaults = 0
PROPERTIES
    LandableWhereSent
