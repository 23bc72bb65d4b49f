SPECIFICATION FairSpec
CONSTANTS
    a = a
    b = b
    Urls = {a, b}
    Root = a
    None = None
    Configurations <- AllOptions
    ReactsTo = {"started", "skipped", "outdated", "superseded", "rejected", "errored", "activating", "ended"}
    MaxNavigations = 3
    MaxTraversals = 1
CHECK_DEADLOCK FALSE
INVARIANTS TypeOK OneNavigationRuns  PromisesSettle 
PROPERTIES ActivatesFromShown BecomesIdle
