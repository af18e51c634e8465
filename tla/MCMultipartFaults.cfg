SPECIFICATION Spec
CONSTANTS
    w1 = w1
    w2 = w2
    u1 = u1
    CopyTag = CopyTag
    None = None
    Workers = {w1, w2}
    Uploads = {u1}
    Parts = {1}
    MaxVersion = 2
    RangeMax = 4
    Ops = {"remove", "copy", "selfCopy"}
    MayFail = {"get", "put", "delete"}
    Exclusive = TRUE
    Crashes = TRUE
    MaxCommits = 1
SYMMETRY Symmetry
INVARIANTS
    TypeOK
PROPERTIES
    AbortFinal
