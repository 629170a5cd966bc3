SPECIFICATION Spec
CONSTANTS
    Blocks = 2
    Packets = 2
    PairLatency = 3
    TokensPerPort = 1
    ActiveTokens = 2
    GqaGroup = 2
    KCount = 2
    Waves <- MixedWaves
    PvWaves = 1
    AttnTile = 2
    MaxSeq = 4
    MaxTasks = 24
    WaveRepeat = TRUE
    CrossWaveDataflow = FALSE
    Hops = 2
    TaskDepth = 2
    DataDepth = 2
    StatusDepth = 2
    Requests <- FfnRequests
INVARIANTS OperandsInOrder
PROPERTY LaunchCompletes
