SPECIFICATION Spec
CONSTANTS
    HiddenWaves = 16
    KvWaves = 2
    WideWaves = 86
    HiddenBlocks = 128
    WideBlocks = 688
    Packets = 32
    GqaGroup = 8
    PvWaves = 2
    AttnTile = 64
    BudgetTile = 32
    MaxSeq = 2048
    ActiveTokens = 8
    TokensPerPort = 4
    Requests <- AllRequests
INVARIANTS ServiceEndsOnLastTask WithinStaticBudget CountsAreWorkDone CountsArrive AcceptedLaunchesRan
