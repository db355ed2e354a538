SPECIFICATION Spec
CONSTANTS
    Hosts = {h1}
    Pages = {page}
    None = None
    MaxVersion = 1
    MaxDisconnects = 1
    MaxFailures = 0
    MayHang = FALSE
INVARIANTS ReconnectCatchesUp
