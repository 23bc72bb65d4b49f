SPECIFICATION FairSpec
CONSTANTS
    Views = {v1}
    Effects = {}
    Hooks = {h1, h2}
    UserTasks = {t1}
    None = None
    MaxReruns = 2
    MaxRetries = 1
    DevMode = TRUE
CHECK_DEADLOCK FALSE
PROPERTIES PublicRemovalIsAsync  EventuallySettles
