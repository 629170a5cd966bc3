SPECIFICATION Spec
CONSTANTS
    Tasks <- McTasks
    NumLayers = 2
    MaxSeq = 6
    Rows = 4
    RowsPerCore = 2
    WordPositions = 2
    AttnTile = 4
    HiddenSlices = 2
    KvSlices = 1
    WideSlices = 2
    InFlight = 2
    Nothing = Nothing
INVARIANTS LayoutsAgree CausalContext
PROPERTIES SourceStable ImplementsDecoderLayer
