SPECIFICATION FairSpec
CONSTANTS
    Known = {"State", "IPv4"}
    Unknown = {"Roaming"}
    Parts = {"address"}
    MaxChanges = 3
    MaxLists = 1
    MaxGets = 1
INVARIANTS
    TypeOK
    CacheFollows
    UserIsTold
PROPERTY
    CatchesUp
CHECK_DEADLOCK FALSE
