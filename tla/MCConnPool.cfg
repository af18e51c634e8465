SPECIFICATION LiveSpec
CONSTANTS
    r1 = r1
    r2 = r2
    r3 = r3
    None = None
    Requests = {r1, r2, r3}
    Copiers = {r1}
    Programs <- ShapeHandlers
    maxQueue = 2
CHECK_DEADLOCK FALSE
INVARIANTS
    TypeOK
    PoolExact
    NoLostWakeup
    NoDeadlock
PROPERTIES
    RequestsFinish
