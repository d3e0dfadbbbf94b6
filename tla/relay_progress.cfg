SPECIFICATION FairSpec
CONSTANTS
    job1 = job1
    job2 = job2
    main = main
    local = local
    NumRequests = 3
    Ask <- RejectedThenClaim
    Jobs = {job1, job2}
    Tier <- TierByJob
    Nets = {main}
    BootNet = main
    DisputeWindow = 1
    Rejected = {2}
    MaxHead = 1
    MaxFaults = 1
PROPERTIES
    SignableIsSettled
