CONSTANTS
    card1 = card1
    card2 = card2
    metric1 = metric1
    metric2 = metric2
    origin = origin
    Jq = Jq
    None = None
    Runs = {r1, r2}
    Metrics = {metric1, metric2}
    Cards = {card1, card2}
    Stats = {card2}
    UptimeCards = {card2}
    Origin <- MCOrigin
    Limit <- MCLimit
    Setups <- MCSetups
    MaxItems = 3
    Concurrency = 2
    MaxPages = 2
    WorkerLimit = 2
    Interval = 1
    PrimeDelay = 1
    RecoveryDelays = {1}
SPECIFICATION FairSpec
INVARIANTS
    TypeOK
    NoLostWakeUp
PROPERTIES
    QueuesKeepTheirLimit
    CollectedAgain
