\* The same instance as MCInflate.cfg.
CONSTANTS
    Streams <- MCStreams
    BufSize = 4
    WSize = 4
    FastIn = 2
    FastOut = 3
    MaxStale = 2
SPECIFICATION Spec
PROPERTY UpdateRefusesOnlyDamage
