SPECIFICATION Spec
CONSTANTS
    g1 = g1
    o1 = o1
    None = None
    Readers = {g1}
    maxQueue = 2
    Objects = {o1}
    Contents <- SmallContents
    Ranges = FALSE
    Disconnects = TRUE
INVARIANTS
    GetExact
