SPECIFICATION FairSpec
CONSTANTS
    Clients = {c1}
    Periods = {0, 1}
    MaxTime = 1
    MaxSamples = 1
    MaxUptime = 1
    MaxEvents = 2
    MaxTransit = 1
    MaxRequests = 2
    MaxChanges = 1
    None = None
INVARIANTS TypeOK HistoryComplete HistoryInOrder
PROPERTIES SamplesShown
