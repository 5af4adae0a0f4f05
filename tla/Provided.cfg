SPECIFICATION Spec
CONSTANTS
    i1 = i1
    i2 = i2
    e1 = e1
    o1 = o1
    s1 = s1
    Inputs <- OneInput
    Errors <- OneError
    Others <- OneOther
    Services <- OneService
    Forms <- AllForms
    Offered <- InputHandlers
    Glib = Glib
    None = None
    Changed = Changed
    MaxChanges = 1
INVARIANT
    PassphraseOnlyIfProvided
CHECK_DEADLOCK FALSE
