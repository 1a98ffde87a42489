SPECIFICATION Spec
CONSTANTS
    a = a
    b = b
    c = c
    Procs = {a, b, c}
    Breakers = {a, b}
    MaxPages = 2
    Nobody = Nobody
INVARIANT ClaimExclusive
CHECK_DEADLOCK FALSE
