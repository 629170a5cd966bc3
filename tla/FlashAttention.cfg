SPECIFICATION Spec
CONSTANTS
    GqaGroup = 2
    PvWaves = 2
    MaxSeq = 5
    TileSize = 2
    RowCount = 2
    Entries <- TwoEntries
    Sessions <- AllSessions
    NoRows = NoRows
INVARIANT OnlineStateExact
PROPERTY ImplementsAttention
