SPECIFICATION FairSpec
CONSTANTS
    a = a
    b = b
    Clients = {a, b}
    NoKill = {b}
    Records = 1
    Rounds = 3
    KillAfter = 1
    Nobody = Nobody
PROPERTIES
    DeadReclaimed
    FinishEmpties
CHECK_DEADLOCK FALSE
