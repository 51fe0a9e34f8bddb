SPECIFICATION Spec
CONSTANTS
    ds = ds
    dep = dep
    cron = cron
    job = job
    Lumigoes = {l1}
    Workloads = {ds, dep}
    WorkloadTraits <- MCTraits
    UserSpecs <- DefaultOnly
    UserLabels = {"none", "true", "false"}
    UserOps = {"createWorkload", "touch", "relabel", "deleteWorkload", "deleteLumigo"}
    Second <- MCDistinctSeconds
    MaxUndelivered = 2
    MaxAttempts = 2
    WorkloadCacheLags = FALSE
    AllowedFaults = {"api", "crash"}
    MaxCreations = 1
    MaxEdits = 3
    MaxFaults = 2
    None = None
PROPERTIES RemovalComplete ReconcileGoesAhead
CHECK_DEADLOCK FALSE
