SPECIFICATION FairSpec
CONSTANTS
    a = a
    b = b
    l1 = l1
    l2 = l2
    app = app
    agent = agent
    c1 = c1
    current = current
    earlier = earlier
    None = None
    Settings = {current, earlier}
    Current = current
    Containers = {c1}
    OwnNames = {"own"}
    OwnData = {"own"}
    Lumigoes = {l1, l2}
    Namespaces = {a, b}
    Workloads = {app, agent}
    LumigoNamespace <- MCLumigoNamespace
    WorkloadNamespace <- MCWorkloadNamespace
    WorkloadTraits <- MCTraits
    UserTemplates <- MCUserTemplates
    BackoffLimit = 2
    MaxAttempts = 2
    MaxDisturbances = 2
INVARIANTS TypeOK DeletedFirst TemplatesRestored OwnPartsKept FailsOnlyIfDisturbed GivenUpOnlyIfDisturbed
PROPERTIES Completes ImplementsLifecycle SweepGoesAhead
CHECK_DEADLOCK FALSE
