SPECIFICATION Spec
CONSTANTS
    pub1 = pub1
    pub2 = pub2
    prc1 = prc1
    prc2 = prc2
    Publishers = {pub1, pub2}
    Processes = {prc1, prc2}
    Viewer = Viewer
    Nobody = Nobody
    Settings <- Processing
    MaxTracks = 2
    MaxFaults = 1
PROPERTY EofEndsTracks
CHECK_DEADLOCK FALSE
