SPECIFICATION Spec
CONSTANTS
    app = app
    input = input
    manager = manager
    service = service
    Glib = Glib
    None = None
    AppThreads <- MCApp
    InputThreads <- MCInputs
    Proxies <- MCProxies
    Watched <- MCWatched
    Lists <- MCLists
INVARIANTS
    TypeOK
    NoDeadlock
    NoEmptyCallback
PROPERTY
    RunningIsAlive
