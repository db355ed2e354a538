SPECIFICATION Spec
CONSTANTS
    Hosts = {h1, h2}
    Pages = {page}
    None = None
    MaxVersion = 1
    MaxDisconnects = 1
    MaxFailures = 1
    MayHang = FALSE
PROPERTIES HistoryKept
