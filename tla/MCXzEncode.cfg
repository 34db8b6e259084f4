CONSTANTS
    Texts <- MCTexts
    Presets <- MCPresets
    Checks = { 0, 1 }
    OPTS = 2
    DictSize = 3
    Align = 2
    Values = 8
    HistSize = 2
    MatchLenMax = 3
    FindMin = 3
    Reserve = 2
    MoveAlign = 2
    ChunkMax = 10
    UncompressedMax = 10
    BufSize = 4
    ChunkSizes = { 5, 30 }
    MaxStale = 2
SPECIFICATION Spec
INVARIANTS AssertionsHold SymbolsAreText
PROPERTIES CallsReturn FilterContract
