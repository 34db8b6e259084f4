\* Blocks of three bytes; texts of none, two and three and a third blocks.
CONSTANTS
    B = 3
    N = 4
    Keys = {0, 1}
    NoKey = NoKey
    MaxFed = 12
    KeyBits <- MCKeyBits
    KeyLengths <- MCKeyLengths
    IVs <- MCIVs
    Messages <- MCTexts
    CbcOut <- MCCbcOut
    CbcIv <- MCCbcIv
    StreamOut <- MCStreamOut
    StreamState <- MCStreamState
SPECIFICATION ChainSpec
INVARIANTS RoundTrip BoundedLag
\* A chain that has finished stops.
CHECK_DEADLOCK FALSE
