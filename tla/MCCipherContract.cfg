\* Few and short inputs: the assumptions quantify over all of them.
CONSTANTS
    B = 2
    N = 3
    Keys = {1}
    NoKey = NoKey
    MaxFed = 4
    KeyBits <- MCKeyBits
    KeyLengths <- MCKeyLengths
    IVs <- Block
    Messages <- MCShort
    CbcOut <- MCCbcOut
    CbcIv <- MCCbcIv
    StreamOut <- MCStreamOut
    StreamState <- MCStreamState
SPECIFICATION ChainSpec
INVARIANT InStep
\* A chain that has finished stops.
CHECK_DEADLOCK FALSE
