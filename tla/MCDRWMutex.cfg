SPECIFICATION LiveSpec
CONSTANTS
    Clients = {multi, rd}
    Writers = {multi}
    Lockers = {s1, s2, s3}
    Resources = {r1, r2}
    Names <- MCNames
    None = None
    MaxAttempts <- MCAttempts
    multi = multi
    rd = rd
    r1 = r1
    r2 = r2
    s1 = s1
    s2 = s2
    s3 = s3
INVARIANTS TypeOK Exclusive Backed
PROPERTIES GetLockReturns ImplementsRWNamespace
CHECK_DEADLOCK FALSE
