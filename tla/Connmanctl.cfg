SPECIFICATION FairSpec
CONSTANTS
    r1 = r1
    r2 = r2
    Requests <- TwoRequests
    MaxLines = 3
    MaxSignals = 1
INVARIANTS
    TypeOK
    FreshPassphrase
    NoLostWakeup
    TextAnnounced
PROPERTIES
    RequestsReturn
    ResultsPrinted
CHECK_DEADLOCK FALSE
