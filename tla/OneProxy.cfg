SPECIFICATION FairSpec
CONSTANTS
    main = main
    worker = worker
    glib = glib
    c1 = c1
    c2 = c2
    c3 = c3
    p1 = p1
    p2 = p2
    AppThreads <- MCAppThreads
    Main = main
    Glib = glib
    None = None
    Started = Started
    Signal = Signal
    UIntMax = 3
    Calls <- ThreeCalls
    Proxies <- OneProxy
    ProxyOf <- AllOnP1
    WithCallback <- WithoutC3
    MaxSignals = 1
INVARIANTS
    TypeOK
    PendingExact
    StopWaits
    CallbackExactlyOnce
    CallbacksOfInFlight
    LoopReady
PROPERTIES
    ImplementsBarrier
    StopReturns
