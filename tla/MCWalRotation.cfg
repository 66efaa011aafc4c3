SPECIFICATION Spec
CONSTANTS
    Reader = {r1}
    ValueWords <- Alternating
    MaxStore = 3
    StoreBuf = 2
    IndexBuf = 7
    Unclean = TRUE
    MaxRecords = 4
INVARIANT NoGap
