SPECIFICATION Spec
CONSTANTS
    Blocks = 2
    Packets = 2
    PairLatency = 5
    TokensPerPort = 2
    ActiveTokens = 4
    GqaGroup = 2
    KCount = 2
    Waves <- OneWave
    PvWaves = 1
    AttnTile = 2
    MaxSeq = 4
    MaxTasks = 28
    WaveRepeat = FALSE
    CrossWaveDataflow = TRUE
    Hops = 1
    TaskDepth = 2
    DataDepth = 2
    StatusDepth = 2
    Requests <- LaunchRequests
INVARIANTS OperandsInOrder ResultsToTheirExchange DrainedBetweenLaunches StatusCountsWork
PROPERTY LaunchCompletes
