\* Blocks of two bytes, messages of up to seven bytes, cut into chunks in every way.
CONSTANTS
    B = 2
    N = 4
    Keys = {0, 1}
    NoKey = NoKey
    MaxFed = 7
    KeyBits <- MCKeyBits
    KeyLengths <- MCKeyLengths
    IVs <- MCIVs
    Messages <- MCMessages
    CbcOut <- MCCbcOut
    CbcIv <- MCCbcIv
    StreamOut <- MCStreamOut
    StreamState <- MCStreamState
SPECIFICATION Spec
INVARIANTS TypeOK CacheHoldsTail OutputOfOneCall FinishHasItsBlock
PROPERTIES OutputFits FilterContract
