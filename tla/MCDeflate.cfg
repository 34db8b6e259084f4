\* A window of twice 13 bytes, matches of three to four bytes.
CONSTANTS
    Texts <- MCTexts
    Levels = {0, 1, 6}
    Config <- MCConfig
    WSize = 13
    MaxMatch = 4
    TooFar = 4
    HashShift = 2
    HashSize = 4
    Xor <- MCXor
    LitBufSize = 6
    MaxStored = 21
    BufSize = 6
    ChunkSizes = {0, 2, 5, 24}
    MaxStale = 2
SPECIFICATION Spec
INVARIANTS AssertionsHold ChainsShareKey SymbolsAreText
PROPERTIES CallsReturn FilterContract
