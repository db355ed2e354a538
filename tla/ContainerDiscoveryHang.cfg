SPECIFICATION FairSpec
CONSTANTS
    Hosts = {h1, h2}
    Pages = {}
    None = None
    MaxVersion = 1
    MaxDisconnects = 0
    MaxFailures = 1
    MayHang = TRUE
PROPERTIES HealthyHostsShown
CHECK_DEADLOCK FALSE
