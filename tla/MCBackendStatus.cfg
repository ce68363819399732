SPECIFICATION FairSpec
CONSTANTS
    Threshold = 3
INVARIANTS
    TypeOK
    NoStaleReport
    SignalsAgree
PROPERTIES
    GateIsDebounced
    StateOrder
    OutageReachesGate
    RecoveryReachesGate
