SPECIFICATION Spec
CONSTANTS
    Clients = {c1, c2}
    Periods = {1}
    MaxTime = 0
    MaxSamples = 0
    MaxUptime = 1
    MaxEvents = 2
    MaxTransit = 1
    MaxRequests = 2
    MaxChanges = 0
    None = None
INVARIANTS BucketsFollowPolling
