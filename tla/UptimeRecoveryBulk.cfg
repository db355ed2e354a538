SPECIFICATION Spec
CONSTANTS
    PageSize = 2
    Retention = 7
    MaxStalled = 3
    MaxFlight = 2
    Reuse = 1
    MaxLag = 2
    MaxCount = 11
    None = None
INVARIANT NoGapLost
