SPECIFICATION FairSpec
CONSTANTS
    runner = runner
    job = job
    None = None
    Objects <- RunnerAndJob
    Pods <- OnePod
    Owner <- RunnerOwns
    Existing <- RunnerFirst
    Goroutines <- ListAndEvents
    Pipelines <- ListAndEvents
    QueueSize = 1
    MaxVersions = 2
    MaxEvents = 1
    MaxFaults = 1
INVARIANTS TypeOK NothingVanishes EventAnswered
PROPERTIES CurrentExported QueueDrains PodCacheFresh
CHECK_DEADLOCK FALSE
