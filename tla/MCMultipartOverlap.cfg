SPECIFICATION Spec
CONSTANTS
    w1 = w1
    w2 = w2
    u1 = u1
    u2 = u2
    CopyTag = CopyTag
    None = None
    Workers = {w1, w2}
    Uploads = {u1, u2}
    Parts = {1}
    MaxVersion = 3
    RangeMax = 4
    Ops = {}
    MayFail = {}
    Exclusive = FALSE
    Crashes = FALSE
    MaxCommits = 2
SYMMETRY Symmetry
INVARIANTS
    CommittedReadable
