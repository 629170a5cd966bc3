SPECIFICATION Spec
CONSTANTS
    MaxSeq = 3
    MaxTokens = 2
    TileSize = 2
    OutputWaves = 2
    TotalWaves = 3
    Runs <- MCRuns
    Faults <- MCFaults
INVARIANT NoFalseAlarm
INVARIANT PassExcludesFaults
CHECK_DEADLOCK FALSE
