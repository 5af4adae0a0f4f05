SPECIFICATION Spec
CONSTANTS
    u1 = u1
    u2 = u2
    UserCalls <- TwoCalls
    MaxSignals = 2
INVARIANTS
    TypeOK
    NoUseAfterFree
PROPERTY
    AgentUnregisters
CHECK_DEADLOCK FALSE
