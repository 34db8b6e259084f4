\* Runs of up to four, blocks of two bytes and what overshoots, a buffer of two bytes.
CONSTANTS
    Chars <- MCChars
    MaxRun = 4
    NBlockMax = 2
    BufSize = 2
    MaxZ = 2
    MaxFed = 6
    MaxChunk = 3
    NoChar = NoChar
    Dangling = Dangling
SPECIFICATION Spec
INVARIANTS BlockFits FullBlockLeavesRun NothingLost
PROPERTIES CallsReturn FilterContract
