SPECIFICATION FairSpec
CONSTANTS
    Requests = {r1, r2}
    Undefined = Undefined
    Throws = Throws
    None = None
    Local = Local
    MaxLoads = 4
INVARIANTS TypeOK TaskWhileLoading ResolvedIsCurrent ReloadsHappen DestroyedLoadsNothing
PROPERTIES NoLateAnswer LoadingEnds
CHECK_DEADLOCK FALSE
