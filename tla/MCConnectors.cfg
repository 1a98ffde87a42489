SPECIFICATION FairSpec
CONSTANTS
    p1 = p1
    p2 = p2
    p3 = p3
    p4 = p4
    a = a
    b = b
    NoKey = NoKey
    None = None
    Cmds <- Cmds3
    KeyOf <- Keys3
    Configs <- Sets3
    Procs = {p1, p2, p3}
    MaxRemoved = 1
    AnyCrash = FALSE
    MaxChanges = 3
    MaxFaults = 2
INVARIANTS
    TypeOK
    OneListener
    Known
    NoneLeft
PROPERTY
    Served
