SPECIFICATION Spec
CONSTANTS
    Keys = {k1}
    Sources = {s1, s2}
    Viewers = {}
    MaxPage = 3
    MaxFailures = 2
    MaxDelay = 2
    MaxRefreshes = 3
    MaxGaps = 3
    MaxCrashes = 2
    None = None
SYMMETRY Symmetry
INVARIANTS TypeOK CheckpointBehindSaves JobAgreesWithRow BackoffOnlyAfterFailure StepMatchesJob
PROPERTIES NoLateSave BackoffSurvives
