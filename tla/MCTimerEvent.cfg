CONSTANTS
    N = 3
    W = 10
    L = 2
    Interval <- MCInterval
SPECIFICATION Spec
INVARIANTS
    CountMatches
    PeriodicStaysArmed
    BoundedLateness
PROPERTIES
    NoEarlyFire
    NextTickNeverOversleeps
