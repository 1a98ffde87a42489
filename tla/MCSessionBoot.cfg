SPECIFICATION Spec
CONSTANTS
    c1 = c1
    c2 = c2
    p1 = p1
    p2 = p2
    p3 = p3
    Conns = {c1, c2}
    Procs = {p1, p2, p3}
    MaxObjs = 4
    Settings <- SafeSettings
INVARIANTS TypeOK OneServes Joinable Accounted CleanedUp
SYMMETRY Symmetry
CHECK_DEADLOCK FALSE
