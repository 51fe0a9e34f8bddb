SPECIFICATION FairSpec
CONSTANTS
    ds = ds
    dep = dep
    cron = cron
    job = job
    Lumigoes = {l1, l2}
    Workloads = {dep}
    WorkloadTraits <- MCTraits
    UserSpecs <- WithoutEvents
    UserLabels = {"none"}
    UserOps = {"deleteLumigo", "editSpec", "secret"}
    Second <- MCDistinctSeconds
    MaxUndelivered = 2
    MaxAttempts = 2
    WorkloadCacheLags = FALSE
    AllowedFaults = {}
    MaxCreations = 2
    MaxEdits = 2
    MaxFaults = 0
    None = None
PROPERTIES Converges CollectionEnds CalmStays
CHECK_DEADLOCK FALSE
