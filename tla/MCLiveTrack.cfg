\* A short track: the ring of pages wraps, a page fails to open, a producer dies
CONSTANTS
    MaxKeys = 4
    MaxParts = 2
    PageSlots = 2
    MaxPages = 4
    MayFail = TRUE
    MayDie = TRUE
SPECIFICATION Spec
INVARIANTS
    TypeOK
    KeyReachable
    LivePageKept
    PartsAligned
    NoPageLeft
    ReaderRight
PROPERTY ImplementsWindow
CHECK_DEADLOCK FALSE
