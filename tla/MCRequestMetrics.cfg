SPECIFICATION Spec
CONSTANTS
    Requests = {r1, r2}
    Series = {"stream"}
    Boundaries <- MCBoundaries
    Samples = {3}
INVARIANTS
    TypeOK
    ReportBracketed
    NeverCountedTwice
    P95OfSample
    OnlyCutLost
SYMMETRY
    MCSymmetry
