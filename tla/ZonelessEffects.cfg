SPECIFICATION Spec
CONSTANTS
    Views = {v1}
    Effects = {e1, e2}
    Hooks = {}
    UserTasks = {t1}
    None = None
    MaxReruns = 2
    MaxRetries = 1
    DevMode = FALSE
CHECK_DEADLOCK FALSE
SYMMETRY Symmetry
INVARIANTS TypeOK NoLeakedTask NoLostWork QueueHoldsDirtyEffects FlagsLeadToWork
PROPERTIES MeetsContract HooksSeeSettledViews
