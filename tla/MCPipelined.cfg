CONSTANTS
    s1 = s1
    s2 = s2
    s3 = s3
    c = c
    d = d
    Server = {s1, s2}
    Command = {c}
    Oversize = {}
    Gone = Gone
    Nil = Nil
    FailingDisk = {s1}
    RepliesMayOutliveTerm = TRUE
    Campaigner = {s1}
    MaxTerm = 1
    MaxLog = 3
    MaxInflight = 2
    MaxFaults = 1
SPECIFICATION Spec
VIEW ConsensusView
INVARIANTS CommitHeldByMajority NextIndexReadable
PROPERTY CommittedIsStable
CHECK_DEADLOCK FALSE
