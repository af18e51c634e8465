SPECIFICATION Spec
CONSTANTS
    w1 = w1
    w2 = w2
    u1 = u1
    CopyTag = CopyTag
    None = None
    Workers = {w1, w2}
    Uploads = {u1}
    Parts = {1}
    MaxVersion = 2
    RangeMax = 4
    Ops = {"put", "remove", "copy", "selfCopy"}
    MayFail = {"put"}
    Exclusive = TRUE
    Crashes = FALSE
    MaxCommits = 2
SYMMETRY Symmetry
INVARIANTS
    CommittedReadable
PROPERTIES
    ImplementsAtomicObject
