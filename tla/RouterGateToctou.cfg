SPECIFICATION Spec
CONSTANTS
    Conns = {1, 2}
    MaxDials = 2
    MaxInFlight = 1
INVARIANTS
    NoConnWhileUnhealthy
