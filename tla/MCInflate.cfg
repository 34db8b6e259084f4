\* Eleven streams, cut into chunks in every way; a buffer and a window of four bytes.
CONSTANTS
    Streams <- MCStreams
    BufSize = 4
    WSize = 4
    FastIn = 2
    FastOut = 3
    MaxStale = 2
SPECIFICATION Spec
INVARIANTS TypeOK DecodedIsText WindowHoldsOutput
PROPERTIES CallsReturn FilterContract
