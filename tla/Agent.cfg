SPECIFICATION FairSpec
CONSTANTS
    i1 = i1
    i2 = i2
    e1 = e1
    o1 = o1
    s1 = s1
    Inputs <- TwoInputs
    Errors <- OneError
    Others <- OneOther
    Services <- OneService
    Forms <- WpsForms
    Offered <- PskHandlers
    Glib = Glib
    None = None
    Changed = Changed
    MaxChanges = 2
INVARIANTS
    TypeOK
    AnsweredOnce
    NoLockInUserCode
    ReplyFits
PROPERTIES
    AnsweredWithoutUser
    InputServed
CHECK_DEADLOCK FALSE
