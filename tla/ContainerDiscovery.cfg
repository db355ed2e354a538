SPECIFICATION FairSpec
CONSTANTS
    Hosts = {h1}
    Pages = {page}
    None = None
    MaxVersion = 2
    MaxDisconnects = 2
    MaxFailures = 2
    MayHang = TRUE
INVARIANTS TypeOK CacheFollowsEvents EventNotForgotten
PROPERTIES EventsReachCards
CHECK_DEADLOCK FALSE
