SPECIFICATION FairSpec
CONSTANTS
    nCounter = 3
    ReportEvery = 2
    MaxFails = 1
    Signals = TRUE
    IovLen = 2
INVARIANTS NothingTakenAway 
PROPERTIES ShutsDown
CHECK_DEADLOCK FALSE
