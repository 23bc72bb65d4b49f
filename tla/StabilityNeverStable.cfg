SPECIFICATION FairSpec
CONSTANTS
    MaxIds = 8
    MaxUserTasks = 1
    ReactOn <- ReactToAll
CHECK_DEADLOCK FALSE
PROPERTIES BecomesStable
