CONSTANTS
    c1 = c1
    c2 = c2
    c3 = c3
    l1 = l1
    l2 = l2
    Clients = {c1, c2, c3}
    Resources = {1, 2}
    LockObjs = {l1, l2}
    NoLock = NoLock
SPECIFICATION LiveSpec
INVARIANTS
    TypeOK
    RefCountExact
    OneLockPerResource
    UnlockOfLocked
    MutualExclusion
    NoCircularWait
PROPERTIES
    GetLockReturns
    ImplementsRWNamespace
