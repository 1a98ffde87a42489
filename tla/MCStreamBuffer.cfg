SPECIFICATION FairSpec
CONSTANTS
    pub1 = pub1
    pub2 = pub2
    prc1 = prc1
    prc2 = prc2
    Publishers = {pub1, pub2}
    Processes = {prc1, prc2}
    Viewer = Viewer
    Nobody = Nobody
    Settings <- Streams
    MaxTracks = 3
    MaxFaults = 1
INVARIANTS
    TypeOK
    ProcessesAreKnown
    AskedToLeave
    ProducersFinished
    ReaderWaits
PROPERTIES
    KeepsClaim
    Drains
CHECK_DEADLOCK FALSE
