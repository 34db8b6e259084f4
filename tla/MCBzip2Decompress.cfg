\* Eight streams, cut into chunks in every way, through a buffer of three bytes.
CONSTANTS
    Streams <- MCStreams
    BufSize = 3
SPECIFICATION Spec
INVARIANTS DecodedIsText
PROPERTIES CallsReturn FilterContract
