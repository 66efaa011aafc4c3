CONSTANTS
    Brokers = {b1, b2, b3}
    NoPeer = NoPeer
    MaxEnds = 2
SPECIFICATION Spec
INVARIANT TypeOK
PROPERTIES StartupCompletes TopicsComeBack
CHECK_DEADLOCK FALSE
