SPECIFICATION LiveSpec
CONSTANTS
    g1 = g1
    g2 = g2
    o1 = o1
    o2 = o2
    None = None
    Readers = {g1, g2}
    maxQueue = 2
    Objects = {o1, o2}
    Contents <- SmallContents
    Ranges = FALSE
    Disconnects = FALSE
INVARIANTS
    TypeOK
    GetExact
PROPERTIES
    GetsFinish
