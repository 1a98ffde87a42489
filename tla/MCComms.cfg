SPECIFICATION Spec
CONSTANTS
    a = a
    b = b
    Clients = {a, b}
    NoKill = {b}
    Records = 2
    Rounds = 3
    KillAfter = 1
    Nobody = Nobody
INVARIANTS
    TypeOK
    RecordKept
    NoKillSafe
PROPERTY
    ImplementsRegistry
CHECK_DEADLOCK FALSE
