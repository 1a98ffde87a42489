SPECIFICATION FairSpec
CONSTANTS
    i1 = i1
    i2 = i2
    v1 = v1
    v2 = v2
    Ctrl = Ctrl
    None = None
    Settings = {{v1, v2}, {Ctrl}}
    Inputs = {i1, i2}
    Viewers = {v1, v2}
    MaxSems = 4
    MaxFaults = 2
INVARIANTS
    TypeOK
    OneInput
    NothingLeft
PROPERTY
    AlwaysOnReclaimed
CHECK_DEADLOCK FALSE
