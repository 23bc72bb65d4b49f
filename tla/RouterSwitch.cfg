SPECIFICATION Spec
CONSTANTS
    a = a
    b = b
    Urls = {a, b}
    Root = a
    None = None
    Configurations <- DefaultOptions
    ReactsTo = {"superseded"}
    MaxNavigations = 4
    MaxTraversals = 1
CHECK_DEADLOCK FALSE
INVARIANTS OneNavigationRuns
