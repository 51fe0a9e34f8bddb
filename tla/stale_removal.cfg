SPECIFICATION Spec
CONSTANTS
    ds = ds
    dep = dep
    cron = cron
    job = job
    Lumigoes = {l1}
    Workloads = {dep}
    WorkloadTraits <- MCTraits
    UserSpecs <- DefaultOnly
    UserLabels = {"none"}
    UserOps = {"deleteLumigo"}
    Second <- MCDistinctSeconds
    MaxUndelivered = 1
    MaxAttempts = 2
    WorkloadCacheLags = TRUE
    AllowedFaults = {}
    MaxCreations = 1
    MaxEdits = 1
    MaxFaults = 0
    None = None
PROPERTIES RemovalComplete
CHECK_DEADLOCK FALSE
