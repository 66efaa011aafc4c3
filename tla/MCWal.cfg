SPECIFICATION Spec
CONSTANTS
    Reader = {r1}
    ValueWords <- Alternating
    MaxStore = 2
    StoreBuf = 2
    IndexBuf = 4
    Unclean = TRUE
    MaxRecords = 5
INVARIANTS TypeOK EveryOffsetReadsBack FindsTheSegment FlushedIsServed RestartNeverSkips EmptyMetaHoldsNothing CountInv HoldInv
PROPERTY FlushedIsKept
