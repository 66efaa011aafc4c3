SPECIFICATION Spec
CONSTANTS
    Reader = {r1, r2}
    ValueWords <- Alternating
    MaxStore = 3
    StoreBuf = 2
    IndexBuf = 4
    Unclean = FALSE
    MaxRecords = 2
INVARIANT EveryOffsetReadsBack
