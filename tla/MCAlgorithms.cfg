SPECIFICATION MCSpec
CONSTANTS
    Keys <- MCKeys
    MaxSize = 4
    NUL = 0
INVARIANTS HeapIsTree FailIsLongestSuffix 
 
CHECK_DEADLOCK FALSE
