CONSTANTS
    Conn = {c1, c2}
    Topic = {t1}
    Request <- MCRequest
    Answer <- MCAnswer
    AskedParts = {0, 1}
    AskedTotals = {0, 2}
    None = None
    Loaded = Loaded
    Nobody = Nobody
    MaxParts = 2
    MaxStarts = 2
SPECIFICATION Spec
INVARIANT OneTopicPerName
CHECK_DEADLOCK FALSE
