SPECIFICATION FairSpec
CONSTANTS
    Nodes = {n1, n2}
    Listening = {}
    MaxSessions = 2
    MaxFaults = 1
INVARIANT StopLeavesCluster
CHECK_DEADLOCK FALSE
