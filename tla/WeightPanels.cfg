SPECIFICATION Spec
CONSTANTS
    Blocks = 2
    PeIn = 2
    Groups = 1
    WordDepth = 1
    PacketDepth = 2
    CrossWave = TRUE
    Projections <- TwoProjections
    Tasks <- AllTasks
    Operators <- SomeOperators
INVARIANTS WeightsMatchBeats RegionsDrain
PROPERTY PanelsComplete
