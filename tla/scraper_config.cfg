SPECIFICATION FairSpec
CONSTANTS
    Namespaces = {n1}
    Tokens = {t1}
    Off = Off
    Gone = Gone
    None = None
    Followed = {{"scraper"}}
    EmptyRenders = TRUE
    AllowedFaults = {}
    MaxChanges = 2
    MaxFaults = 0
PROPERTIES CollectionHalts
CHECK_DEADLOCK FALSE
