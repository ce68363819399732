SPECIFICATION FairSpec
CONSTANTS
    Check = 2
    Threshold = 3
    Grace = 18
    Backoff = 1
    BootTimes = {2, 21}
    MaxStartFails = 1
    Wrap = 3
INVARIANTS
    TypeOK
    ReasonNotStale
    RestartCountCorrect
PROPERTIES
    StatusConsistent
    NoMidBootRekill
    DeafIsRestarted
    ExitIsRestarted
