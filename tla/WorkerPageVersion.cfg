SPECIFICATION Spec
CONSTANTS
    Versions = {h1, h2}
    Clients = {c1}
    Threads = {t1}
    NoVersion = NoVersion
    MaxDeploys = 1
    MaxCrashes = 0
    MaxFaults = 0
CHECK_DEADLOCK FALSE
INVARIANTS OneVersionPerPage
