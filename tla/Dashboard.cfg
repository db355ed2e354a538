SPECIFICATION Spec
CHECK_DEADLOCK FALSE
INVARIANTS
    LibraryLoads OverridesReadable BadEntryIsolated EntriesExplained ServiceOverLabels
    ViewsAgree RetentionKeepsCollected CredentialsPreferLabels NothingSentUnfilled BucketsAgree EverySampleExpires
    ConfigFollowsFile MessagesUnderstood AnswersTold StatusesFollow
PROPERTIES
    OnlyOldSamplesLost
CONSTANTS
    Names <- MCNames
    ParameterNames <- MCParameterNames
    HeaderNames <- MCHeaderNames
    SeriesNames <- MCSeriesNames
    HttpUrls <- MCHttpUrls
    BaseUrls <- MCBaseUrls
    ItemUrls <- MCItemUrls
    Paths <- MCPaths
    Blanks <- MCBlanks
    LongTexts <- MCLongTexts
    OversizedTexts <- MCOversizedTexts
    PaddedTexts <- MCPaddedTexts
    MaxDepth = 12
    DurationMs <- MCDurations
    Numerals <- MCNumerals
    TrueTexts <- MCTrueTexts
    Variables <- MCVariables
    Files <- MCFiles
    SourceUrls <- MCSourceUrls
    Placeholders <- MCPlaceholders
    Providers <- MCProviders
    ForeignLabels <- MCForeignLabels
    FalseTexts <- MCFalseTexts
    HomepageIcons <- MCHomepageIcons
    MetricKeys <- MCMetricKeys
    GroupsIn <- MCGroupsIn
    Definitions <- MCDefinitions
    LibraryFiles <- MCLibraryFiles
    Worlds <- MCWorlds
    Rewrites <- MCRewrites
    Viewers <- MCViewers
    MaxStamp = 2
    MaxEdits = 2
    Periods = {1, 2}
    UptimePeriod = 1
    Selections = {{}, {"uptime"}, {"resource", "rate"}, {"rate", "uptime"}}
    Statuses = {"up", "down"}
    Responses = {5}
    BucketMs = 2
    BucketCount = 2
    MaxTime = 2
    MaxChanges = 1
    MaxRows = 2
    MaxAhead = 1
    AskedMetrics <- MCAskedMetrics
    Replies <- MCReplies
    StatsReplies <- MCStatsReplies
    MaxNumber = 100000
    SecondsBelow = 100
    Dates <- MCDates
    MaxCollections = 2
    CardIds = {"plex", "web"}
    ContainerStatuses = {"up", "down"}
    NoStatus = "none"
    Discoveries <- MCDiscoveries
    MaxOutbound = 2
    UnavailableAfter = 2
    MaxVersion = 3
