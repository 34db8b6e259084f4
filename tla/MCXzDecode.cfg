\* Twenty-eight streams, cut into chunks in every way; a buffer of three bytes, a dictionary of four.
CONSTANTS
    Streams <- MCStreams
    BufSize = 3
    DictSize = 4
    Align = 2
    Values = 8
    HistSize = 2
    ChunkSizes = { 0, 1, 2, 3, 4, 5, 6, 7, 8, 9, 11, 13, 15, 18, 30 }
    StaleChunks <- MCStaleChunks
    MaxStale = 2
SPECIFICATION Spec
INVARIANTS DecodedIsText DictHoldsText
PROPERTIES CallsReturn UpdateRefusesOnlyDamage FilterContract
