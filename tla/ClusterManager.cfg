SPECIFICATION FairSpec
CONSTANTS
    Nodes = {n1, n2}
    Listening = {n1}
    MaxSessions = 2
    MaxFaults = 1
INVARIANTS WatchCoverage NoSplitBrain
PROPERTIES Convergence
CHECK_DEADLOCK FALSE
