CONSTANTS
    s1 = s1
    s2 = s2
    s3 = s3
    c = c
    d = d
    Server = {s1, s2, s3}
    Command = {c}
    Oversize = {}
    Gone = Gone
    Nil = Nil
    FailingDisk = {}
    RepliesMayOutliveTerm = TRUE
    Campaigner = {s1, s2}
    MaxTerm = 5
    MaxLog = 2
    MaxInflight = 1
    MaxFaults = 0
SPECIFICATION BackedUpSpec
VIEW ConsensusView
INVARIANT CommitHeldByMajority
CHECK_DEADLOCK FALSE
