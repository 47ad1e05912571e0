\* All days of the data, 2004-01-01 to 2019-12-31, for the repos; the bond is
\* asked about from its first payment on.
SPECIFICATION Spec
CONSTANTS
    MaxGap = 12
    FirstDay = 0
    LastDay = 5843
    Lags = {0}
INVARIANTS OccupiedIsDayCount TermKept 
CHECK_DEADLOCK FALSE
