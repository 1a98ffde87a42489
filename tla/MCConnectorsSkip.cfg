SPECIFICATION Spec
CONSTANTS
    p1 = p1
    p2 = p2
    p3 = p3
    p4 = p4
    a = a
    b = b
    NoKey = NoKey
    None = None
    Cmds <- Cmds4
    KeyOf <- Keys4
    Configs <- Sets4
    Procs = {p1, p2, p3, p4}
    MaxRemoved = 2
    AnyCrash = FALSE
    MaxChanges = 3
    MaxFaults = 0
INVARIANT
    OneListener
