SPECIFICATION FairSpec
CONSTANTS
    Conns = {1, 2}
    MaxDials = 2
    MaxInFlight = 1
INVARIANTS
    TypeOK
    NoLostWakeup
    RegistryMatchesLoops
    CleanReconnect
    CutIsComplete
PROPERTIES
    WaitersReleased
    DroppedConnReconnects
