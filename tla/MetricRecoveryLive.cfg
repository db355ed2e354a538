SPECIFICATION ScheduledSpec
CONSTANTS
    Keys = {k1, k2}
    Sources = {s1}
    Viewers = {v1}
    MaxPage = 1
    MaxFailures = 2
    MaxDelay = 1
    MaxRefreshes = 0
    MaxGaps = 2
    MaxCrashes = 1
    None = None
PROPERTIES RecoveryEnds NoProviderBlocks
