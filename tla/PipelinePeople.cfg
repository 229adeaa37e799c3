\* A paste job beside the keyed one, a run that loses its Bull lock, a decline
\* whose audit insert may fail. Settled and idle is a legal end.
SPECIFICATION Spec
CONSTANTS
    Workers = {w1, w2}
    KeyedJob = keyed
    PasteJobs = {p1}
    Decliners = {d1}
    Registered <- ParseOnly
    MaxStalled = 1
    MaxCrashes = 0
    MaxFaults = 1
    MaxLockLosses = 1
    MaxRemaps = 0
SYMMETRY WorkerSymmetry
INVARIANTS
    LockHoldersUnique
PROPERTIES
    OnlyPeopleReopen
CHECK_DEADLOCK FALSE
