\* Two calls that keep coming, one that dies, an INCR that fails.
SPECIFICATION FairSpec
CONSTANTS
    Callers = {c1, c2}
    Threshold = 2
    KeyOutlivesCall = FALSE
    MaxCrashes = 1
    MaxRedisFaults = 1
INVARIANTS
    TripsAfterThreshold
PROPERTIES
    RecoversWhenHealthy
