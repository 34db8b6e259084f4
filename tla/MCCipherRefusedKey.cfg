\* A key that setkey refuses, after one it took.
CONSTANTS
    B = 2
    N = 4
    Keys = {0, 1}
    NoKey = NoKey
    MaxFed = 7
    KeyBits <- MCKeyBits
    KeyLengths <- MCKeyLengths
    IVs <- MCIVs
    Messages <- MCMessages
    CbcOut <- MCCbcOut
    CbcIv <- MCCbcIv
    StreamOut <- MCStreamOut
    StreamState <- MCStreamState
SPECIFICATION Spec
INVARIANT OperationMatchesSchedule
