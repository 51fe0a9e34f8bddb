SPECIFICATION Spec
CONSTANTS
    ds = ds
    dep = dep
    cron = cron
    job = job
    Lumigoes = {l1}
    Workloads = {ds, dep, cron}
    WorkloadTraits <- MCTraits
    UserSpecs <- WithoutInjection
    UserLabels = {"none", "true", "False"}
    UserOps = {"createWorkload", "touch", "deleteLumigo", "editSpec"}
    Second <- MCDistinctSeconds
    MaxUndelivered = 2
    MaxAttempts = 2
    WorkloadCacheLags = FALSE
    AllowedFaults = {}
    MaxCreations = 2
    MaxEdits = 2
    MaxFaults = 0
    None = None
INVARIANTS MonitoredHasLumigo
PROPERTIES CreationSweepComplete OptOutNotInstrumented
CHECK_DEADLOCK FALSE
