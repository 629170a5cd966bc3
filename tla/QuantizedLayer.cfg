CONSTANTS
    Cus = 3
    OutputsPerCu = 1
    HiddenDim = 4
    KvDim = 2
    WideDim = 8
    KvHeads = 2
    GqaGroup = 4
    Lanes = 3
    Rows = 3
    PositionTile = 2
    MaxPrompt = 5
    MaxSeq = 6
    Nothing = Nothing
    FirstEntry = FirstEntry
    Junk = Junk
SPECIFICATION Spec
INVARIANT TasksAsCounted
PROPERTY ImplementsQuantizedBlocks
CHECK_DEADLOCK FALSE
