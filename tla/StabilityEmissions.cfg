SPECIFICATION FairSpec
CONSTANTS
    MaxIds = 8
    MaxUserTasks = 2
    ReactOn <- ReactToStable
CHECK_DEADLOCK FALSE
PROPERTIES BecomesStable
INVARIANTS TypeOK TasksHaveOwners NotifiedWorkIsScheduled
