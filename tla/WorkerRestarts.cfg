SPECIFICATION Spec
CONSTANTS
    Versions = {h1, h2}
    Clients = {c1}
    Threads = {t1, t2}
    NoVersion = NoVersion
    MaxDeploys = 1
    MaxCrashes = 1
    MaxFaults = 0
CHECK_DEADLOCK FALSE
SYMMETRY Symmetry
INVARIANTS TypeOK ClientsHaveVersions  IdleWorkIsComing
 
