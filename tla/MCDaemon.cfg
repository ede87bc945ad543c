CONSTANTS
    MaxResets = 1
    MaxRuns = 2
SPECIFICATION DaemonSpec
INVARIANTS DaemonTypeOK ResetExclusive FreedAlone DownAsTold
PROPERTIES Stops
CHECK_DEADLOCK FALSE
