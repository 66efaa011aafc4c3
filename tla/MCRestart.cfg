CONSTANTS
    s1 = s1
    s2 = s2
    s3 = s3
    c = c
    d = d
    Server = {s1, s2, s3}
    Command = {c}
    Oversize = {}
    Gone = Gone
    Nil = Nil
    FailingDisk = {s3}
    RepliesMayOutliveTerm = FALSE
    Campaigner = {s1, s2}
    MaxTerm = 2
    MaxLog = 1
    MaxInflight = 1
    MaxFaults = 1
SPECIFICATION Spec
SYMMETRY ServerSymmetry
VIEW BallotView
INVARIANTS ElectionInv ElectionSafety StateMachineSafety
CHECK_DEADLOCK FALSE
PROPERTY VoteOncePerTerm
