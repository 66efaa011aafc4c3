SPECIFICATION Spec
CONSTANTS
    short = short
    long = long
    dummy = dummy
    Entry = {short, long}
    Dummy = dummy
    Size <- PayloadWords
    TornErrors = FALSE
    MaxWords = 17
INVARIANTS TypeOK FilesAgree LogInv
PROPERTY ImplementsDurableLog
