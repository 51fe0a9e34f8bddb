SPECIFICATION Spec
CONSTANTS
    ds = ds
    dep = dep
    cron = cron
    job = job
    Lumigoes = {l1, l2}
    Workloads = {}
    WorkloadTraits <- MCTraits
    UserSpecs <- DefaultOnly
    UserLabels = {"none"}
    UserOps = {}
    Second <- MCOneSecond
    MaxUndelivered = 1
    MaxAttempts = 2
    WorkloadCacheLags = FALSE
    AllowedFaults = {}
    MaxCreations = 2
    MaxEdits = 2
    MaxFaults = 0
    None = None
INVARIANTS AtMostOneActive
CHECK_DEADLOCK FALSE
