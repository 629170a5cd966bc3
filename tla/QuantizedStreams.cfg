SPECIFICATION Spec
CONSTANTS
    Cus = 2
    OutputsPerCu = 1
    HiddenDim = 1
    KvDim = 1
    WideDim = 3
    KvHeads = 1
    GqaGroup = 3
    Lanes = 2
    Rows = 4
    PositionTile = 2
    HeadDim = 1
    Heads = 3
    Packets = 2
    Layer = 1
    Launches <- AllLaunches
INVARIANTS OperandsMatchTask ResultsInOrder RegionsDrain
PROPERTY EveryLaunchCompletes
CHECK_DEADLOCK FALSE
