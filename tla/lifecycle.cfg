SPECIFICATION Spec
CONSTANTS
    ds = ds
    dep = dep
    cron = cron
    job = job
    Lumigoes = {l1, l2}
    Workloads = {}
    WorkloadTraits <- MCTraits
    UserSpecs <- WithoutEvents
    UserLabels = {"none"}
    UserOps = {"deleteLumigo", "editSpec", "secret"}
    Second <- MCDistinctSeconds
    MaxUndelivered = 2
    MaxAttempts = 2
    WorkloadCacheLags = FALSE
    AllowedFaults = {"crash", "api", "file"}
    MaxCreations = 3
    MaxEdits = 2
    MaxFaults = 1
    None = None
INVARIANTS AtMostOneActive OldestGoverns ActiveHasFinalizer ConditionsExclusive
PROPERTIES NoReactivation ImplementsSuccession
CHECK_DEADLOCK FALSE
