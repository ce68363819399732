SPECIFICATION FairSpec
CONSTANTS
    MaxInstances = 5
    MaxMishaps = 4
INVARIANTS
    TypeOK
    OrphansExcused
PROPERTIES
    ComesUp
    SlowServerIsFound
CHECK_DEADLOCK FALSE
