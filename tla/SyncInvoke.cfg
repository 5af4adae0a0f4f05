SPECIFICATION FairSpec
CONSTANTS
    clock = clock
    manager = manager
    signal = signal
    service1 = service1
    service2 = service2
    Handovers <- AllHandovers
    Inline <- ByHandlers
    CanFail <- Constructors
INVARIANTS
    TypeOK
    FrameInUse
PROPERTIES
    ImplementsRemoteCall
    HandoverReturns
CHECK_DEADLOCK FALSE
