\* Two crashes are enough to strand a request past its sweep.
SPECIFICATION Spec
CONSTANTS
    Workers = {w1}
    KeyedJob = keyed
    PasteJobs = {}
    Decliners = {}
    Registered <- ParseOnly
    MaxStalled = 1
    MaxCrashes = 2
    MaxFaults = 0
    MaxLockLosses = 0
    MaxRemaps = 0
INVARIANTS
    SweepReenqueues
CHECK_DEADLOCK FALSE
