SPECIFICATION FairSpec
CONSTANTS
    Namespaces = {n1, n2}
    Tokens = {t1}
    Off = Off
    Gone = Gone
    None = None
    Followed = {{"scraper"}, {"proxy"}}
    EmptyRenders = TRUE
    AllowedFaults = {"manager", "container", "pod", "download"}
    MaxChanges = 2
    MaxFaults = 1
INVARIANTS TypeOK EntriesOwed QuietIsCurrent
PROPERTIES ProxyFollows
CHECK_DEADLOCK FALSE
