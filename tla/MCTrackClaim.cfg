SPECIFICATION FairSpec
CONSTANTS
    a = a
    b = b
    c = c
    Procs = {a, b, c}
    Breakers = {a}
    MaxPages = 2
    Nobody = Nobody
INVARIANTS TypeOK ClaimExclusive ReleaseKept ClaimKept
CHECK_DEADLOCK FALSE
PROPERTIES ReleaseEnds ImplementsLease
