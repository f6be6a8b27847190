SPECIFICATION Spec
CONSTANTS
    BufSize = 8
    Names <- Wanted
    AbiHash <- WantedHash
    MapsFiles <- Files
    Images <- Libcs
INVARIANTS TypeOK LinesWhole Resolved
CHECK_DEADLOCK FALSE
