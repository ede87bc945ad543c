CONSTANTS
    MaxResets = 0
    MaxRuns = 2
SPECIFICATION DaemonSpec
PROPERTIES NewConfigLoaded
CHECK_DEADLOCK FALSE
