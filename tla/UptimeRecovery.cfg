SPECIFICATION FairSpec
CONSTANTS
    PageSize = 2
    Retention = 6
    MaxStalled = 2
    MaxFlight = 2
    Reuse = 1
    MaxLag = 2
    MaxCount = 9
    None = None
INVARIANTS TypeOK NoGapForgotten
PROPERTY RecoveryStops
