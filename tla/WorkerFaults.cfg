SPECIFICATION FairSpec
CONSTANTS
    Versions = {h1, h2}
    Clients = {c1}
    Threads = {t1}
    NoVersion = NoVersion
    MaxDeploys = 2
    MaxCrashes = 0
    MaxFaults = 1
CHECK_DEADLOCK FALSE
PROPERTIES RequestsAreAnswered DeployedGetsInstalled
