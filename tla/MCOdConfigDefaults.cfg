SPECIFICATION Spec
CONSTANTS
    Values <- MCValues
    LongValues = 1048576
    Internal <- MCInternal
    Row <- MCRow
    MaxRows = 3
    MaxRuns = 2
    NodeId = {1, 124}
    None = None
INVARIANT DefaultsLoaded
CHECK_DEADLOCK FALSE
