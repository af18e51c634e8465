SPECIFICATION MSpec
CONSTANTS
    Clients = {w1, rd}
    Writers = {w1}
    Lockers = {s1, s2, s3}
    Resources = {r1}
    Names <- MCNames
    None = None
    MaxAttempts <- MCAttempts
    r1 = r1
    w1 = w1
    rd = rd
    s1 = s1
    s2 = s2
    s3 = s3
SYMMETRY Symmetry
INVARIANT Exclusive
CHECK_DEADLOCK FALSE
