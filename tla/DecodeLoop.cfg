SPECIFICATION Spec
CONSTANTS
    Commands <- SmallCommands
    a = a
    b = b
    Vocabulary <- Tokens
    Layers = 2
    MaxSeq = 6
    MaxBlock = 3
INVARIANTS NoPassWasted AcceptedCommandsFit
PROPERTIES RowsWrittenOnce ImplementsGreedyDecode RunEnds
