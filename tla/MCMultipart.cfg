SPECIFICATION Spec
CONSTANTS
    w1 = w1
    w2 = w2
    u1 = u1
    u2 = u2
    CopyTag = CopyTag
    None = None
    Workers = {w1, w2}
    Uploads = {u1, u2}
    Parts = {1, 2}
    MaxVersion = 3
    RangeMax = 4
    Ops = {}
    MayFail = {"put"}
    Exclusive = TRUE
    Crashes = TRUE
    MaxCommits = 2
SYMMETRY Symmetry
INVARIANTS
    CommittedReadable
    CommitOnce
    AckedPartsKept
    AckedPartsAccepted
PROPERTIES
    AbortFinal
    ImplementsAtomicObject
