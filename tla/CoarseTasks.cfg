SPECIFICATION Spec
CONSTANTS
    Calls <- McCalls
    Inputs = {x1, x2}
    NumLayers = 2
    MaxSeq = 3
    MaxQuery = 2
    Nothing = Nothing
INVARIANTS TypeOK PortsAtRest TablesOnDevice Chain CheckpointsFollowStack
PROPERTY ImplementsHiddenStack
