SPECIFICATION FairSpec
CONSTANTS
    ds = ds
    dep = dep
    cron = cron
    job = job
    Lumigoes = {l1}
    Workloads = {dep}
    WorkloadTraits <- MCTraits
    UserSpecs <- DefaultOnly
    UserLabels = {"none", "False"}
    UserOps = {"deleteLumigo", "deleteForeground", "touch", "relabel", "deleteWorkload"}
    Second <- MCDistinctSeconds
    MaxUndelivered = 2
    MaxAttempts = 2
    WorkloadCacheLags = TRUE
    AllowedFaults = {"api", "crash"}
    MaxCreations = 2
    MaxEdits = 3
    MaxFaults = 1
    None = None
INVARIANTS TypeOK
PROPERTIES OptOutNotInstrumented DeletionCompletes ImplementsLifecycle
CHECK_DEADLOCK FALSE
