SPECIFICATION Spec
CONSTANTS
    s1 = s1
    s2 = s2
    c1 = c1
    c2 = c2
    Signals = {s1, s2}
    Computeds = {c1, c2}
    Effects = {e1}
    Values = {0, 1}
    Initial <- MCInitial
    None = None
    Unset = Unset
    Errored = Errored
    Rank <- MCRank
    Body <- MCBody
    Longest = 2
    MaxEpoch = 3
    MaxReads = 2
CHECK_DEADLOCK FALSE
INVARIANTS PollingNeverThrows
