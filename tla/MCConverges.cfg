CONSTANTS
    s1 = s1
    s2 = s2
    s3 = s3
    c = c
    d = d
    Server = {s1, s2, s3}
    Command = {c, d}
    Oversize = {}
    Gone = Gone
    Nil = Nil
    FailingDisk = {}
    RepliesMayOutliveTerm = FALSE
    Campaigner = {s1}
    MaxTerm = 3
    MaxLog = 2
    MaxInflight = 1
    MaxFaults = 1
SPECIFICATION DivergedFairSpec
INVARIANT WalFollowsLog
PROPERTY Converges
CHECK_DEADLOCK FALSE
