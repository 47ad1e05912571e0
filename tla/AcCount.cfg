SPECIFICATION Spec
CONSTANTS
    Letters = {1, 2}
    MaxPattern = 3
    MaxPatterns = 2
    MaxText = 4
INVARIANT CountsPatterns
CHECK_DEADLOCK FALSE
