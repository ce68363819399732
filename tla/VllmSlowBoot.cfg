SPECIFICATION Spec
CONSTANTS
    Check = 2
    Threshold = 3
    Grace = 18
    Backoff = 1
    BootTimes = {24}
    MaxStartFails = 0
    Wrap = 3
PROPERTIES
    NoMidBootRekill
