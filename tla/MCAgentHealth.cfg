SPECIFICATION HealthSpec
CONSTANTS
    Threshold = 3
    Conns = {1}
    MaxDials = 3
    MaxInFlight = 2
INVARIANTS
    ReportedOutageIsCut
PROPERTIES
    OutageParksLoops
    RecoveryRedials
