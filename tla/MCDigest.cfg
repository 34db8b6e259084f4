\* Messages of up to 40 bytes: the low word wraps twice, and the length in bits wraps the high one.
CONSTANTS
    BlockSize = 4
    LenSize = 2
    Word = 16
    Bytes <- MCBytes
    MsgLen <- MCMsgLen
    Checksum <- MCChecksum
    Messages <- MCMessages
    MaxFed = 40
    MaxChunk = 15
    MaxProcessed = 12
SPECIFICATION Spec
INVARIANTS TypeOK StateHoldsInput LengthCounted
PROPERTY FilterContract
